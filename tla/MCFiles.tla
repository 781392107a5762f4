------------------------------ MODULE MCFiles ------------------------------
(***************************************************************************)
(* Small instances of FileLock and ReadWriter for TLC, in one run.  A      *)
(* behaviour is about one of the two: part says which, and the variables   *)
(* of the other keep what they have at first.                              *)
(***************************************************************************)
EXTENDS FileLock, ReadWriter

CONSTANTS c1, c2, c3, lk, i1, i2

VARIABLE part

vars == <<fileLockVars, readWriterVars, part>>

Init ==
  /\ FileLockInit /\ ReadWriterInit
  /\ \/ part = "lock" /\ kind = "Reader" /\ closable
     \/ part = "buffer" /\ platform = "unix"

Locking(A) == part = "lock" /\ A /\ UNCHANGED <<readWriterVars, part>>

Buffering(A) == part = "buffer" /\ A /\ UNCHANGED <<fileLockVars, part>>

Next == Locking(FileLockNext) \/ Buffering(ReadWriterNext)

Spec == Init /\ [][Next]_vars

\* Two of a kind may be exchanged, but the lock file is of its own kind.
Alike == Permutations(Clients) \cup Permutations(Inodes \ {LockInode})

=============================================================================
