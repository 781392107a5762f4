------------------------------ MODULE MCLocker ------------------------------
(***************************************************************************)
(* Small instances of Locker for TLC.                                      *)
(***************************************************************************)
EXTENDS Locker, TLC

\* Clients are alike, and so are the inodes other than the root directory's.
Alike == Permutations(Clients) \cup Permutations(Inodes \ {Root})

=============================================================================
