------------------------------ MODULE FileLock ------------------------------
(***************************************************************************)
(* filesystem/lock.go as programs call it, on one path: Lock, ReadOnlyLock,*)
(* TryLock and TryReadOnlyLock with an Unlock later, and WithLock and      *)
(* WithReadOnlyLock around a function.  A goroutine may call any of them   *)
(* again while it has a lock: its calls nest.  Meanwhile the file at the   *)
(* path may be replaced (as WriteFile does) or removed.                    *)
(*                                                                         *)
(* On Unix the lock is on the file itself, on Windows on path + ".lock".   *)
(***************************************************************************)
EXTENDS Flock, Naturals, Sequences, SequencesExt

CONSTANTS LockInode, \* the file path + ".lock", which nothing removes
          Depth      \* bound on how deep calls nest

ASSUME FileLockAssumption == LockInode \in Inodes /\ Depth \in Nat

VARIABLES platform, \* the build: lock_unix.go or lock_windows.go
          file,     \* the file at path
          calls     \* calls[c]: the calls c is in, the innermost last

fileLockVars == <<handle, platform, file, calls>>

Call == [op : {"Lock", "TryLock"}, mode : {"shared", "exclusive"},
         at : {"open", "flock", "held"}]

FileLockTypeOK ==
  /\ handle \in [Clients -> [1 .. Depth -> Handle]]
  /\ platform \in {"unix", "windows"}
  /\ file \in Inodes \cup {NoInode}
  /\ calls \in [Clients -> Seq(Call)] /\ \A c \in Clients : Len(calls[c]) <= Depth

FileLockInit ==
  /\ handle = [c \in Clients |-> [k \in 1 .. Depth |-> Closed]]
  /\ platform \in {"unix", "windows"}
  /\ file \in Inodes \ {LockInode}
  /\ calls = [c \in Clients |-> <<>>]

Top(c) == Len(calls[c])

At(c, label) == calls[c] # <<>> /\ Last(calls[c]).at = label

Goto(c, label) == calls' = [calls EXCEPT ![c][Top(c)].at = label]

Return(c) == calls' = [calls EXCEPT ![c] = Front(@)]

-----------------------------------------------------------------------------
\* op and mode stand for six functions.  ReadOnlyLock is Lock with mode shared, and so
\* for the others; WithLock is Lock, whose Unlock is then not up to the caller.
Begin(c, op, mode) ==
  /\ Top(c) < Depth
  /\ calls[c] # <<>> => At(c, "held")
  /\ calls' = [calls EXCEPT ![c] =
                 Append(@, [op |-> op, mode |-> mode, at |-> "open"])]
  /\ UNCHANGED <<handle, platform, file>>

\* Mutant: lock_windows.go opens the file itself.
LockPathIsPath == file

\* What platformLock and platformTryLock open.
LockPath == IF platform = "windows" THEN LockInode ELSE file

OpenLockPath(c) ==
  /\ At(c, "open")
  /\ LockPath # NoInode
  /\ Open(c, Top(c), LockPath)
  /\ Goto(c, "flock")
  /\ UNCHANGED <<platform, file>>

\* flock or LockFileEx grants it.
GetLock(c) ==
  /\ At(c, "flock")
  /\ TakeLock(c, Top(c), Last(calls[c]).mode)
  /\ Goto(c, "held")
  /\ UNCHANGED <<platform, file>>

\* Mutant: platformTryLock without LOCK_NB.
RefusedNoFile(c) == At(c, "open") /\ LockPath = NoInode

\* There is no file, or TryLock would block.
Refused(c) ==
  \/ At(c, "open") /\ LockPath = NoInode
  \/ /\ At(c, "flock") /\ Last(calls[c]).op = "TryLock"
     /\ Blocked(c, Top(c), handle[c][Top(c)].ino, Last(calls[c]).mode)

\* os.Open or flock returns another error.
CannotLock(c) == At(c, "open") \/ At(c, "flock")

\* The file, if it is open, is closed again.
LockFails(c) ==
  /\ Unlock(c, Top(c))
  /\ Return(c)
  /\ UNCHANGED <<platform, file>>

\* Mutant: WithLock calls Unlock after function and does not defer it.
UnlockUnlessPanic(c, e) == IF e = "panics" THEN UNCHANGED handle ELSE Unlock(c, Top(c))

\* The deferred Unlock closes the file whatever function has done, and whether or
\* not LOCK_UN or Close returns an error.
DeferredUnlock(c, e) == Unlock(c, Top(c))

\* function() returns, with or without an error, or panics.  After Lock and TryLock
\* it is the program that calls Unlock.
FunctionEnds(c, e) ==
  /\ At(c, "held")
  /\ DeferredUnlock(c, e)
  /\ Return(c)
  /\ UNCHANGED <<platform, file>>

Die(c) ==
  /\ calls[c] # <<>>
  /\ CloseAll(c)
  /\ calls' = [calls EXCEPT ![c] = <<>>]
  /\ UNCHANGED <<platform, file>>

\* A new file, or none: no open file is on the new one.
Replace(i) ==
  /\ i \notin {file, LockInode}
  /\ i # NoInode => \A c \in Clients, k \in 1 .. Depth : handle[c][k].ino # i
  /\ file' = i
  /\ UNCHANGED <<handle, platform, calls>>

Ends == {"returns", "panics"}

FileLockNext ==
  \/ \E c \in Clients :
       \/ \E op \in {"Lock", "TryLock"}, mode \in {"shared", "exclusive"} : Begin(c, op, mode)
       \/ OpenLockPath(c) \/ GetLock(c)
       \/ Refused(c) /\ LockFails(c)
       \/ CannotLock(c) /\ LockFails(c)
       \/ \E e \in Ends : FunctionEnds(c, e)
       \/ Die(c)
  \/ \E i \in Inodes \cup {NoInode} : Replace(i)

FileLockSpec == FileLockInit /\ [][FileLockNext]_fileLockVars

-----------------------------------------------------------------------------
\* Call k of client c has its lock.
Section(c, k) == k <= Top(c) /\ calls[c][k].at = "held"

\* Two calls that are in their locked parts are both readers: on Windows always, on
\* Unix as long as they have opened the same file, because a file that replaces the
\* one at the path takes none of its locks along.
SectionsExclude ==
  \A c, d \in Clients, k, l \in 1 .. Depth :
    /\ <<c, k>> # <<d, l>> /\ Section(c, k) /\ Section(d, l)
    /\ platform = "windows" \/ handle[c][k].ino = handle[d][l].ino
    => calls[c][k].mode = "shared" /\ calls[d][l].mode = "shared"

\* A goroutine that is in no call has no file open, whatever errors and panics have
\* ended its calls: a forgotten file would keep its lock for the life of the process.
NothingLeftOpen ==
  \A c \in Clients, k \in 1 .. Depth : k > Top(c) => handle[c][k] = Closed

\* c is kept waiting in flock by a call of d.
WaitsFor(c, d) ==
  /\ At(c, "flock") /\ ~Refused(c)
  /\ \E k \in 1 .. Depth :
       /\ <<d, k>> # <<c, Top(c)>>
       /\ handle[d][k].ino = handle[c][Top(c)].ino
       /\ Incompatible(Last(calls[c]).mode, handle[d][k].mode)

\* Each waits for one of them, and they do so for ever.
Stuck(S) == \A c \in S : \E d \in S : WaitsFor(c, d)

\* However calls for one path nest and whatever replaces the file between them,
\* goroutines are never stuck with each other alone: in every circle of waits somebody
\* has called Lock or ReadOnlyLock for a file it has locked itself.  TryLock is never stuck.
OnlyOwnLocksStick ==
  \A S \in (SUBSET Clients) \ {{}} :
    Stuck(S) => \E c \in S : Last(calls[c]).op = "Lock" /\ WaitsFor(c, c)

=============================================================================
