------------------------------- MODULE Flock -------------------------------
(***************************************************************************)
(* Advisory file locks, as filesystem/lock_unix.go takes them from the     *)
(* kernel.  A lock belongs to an open file (the *os.File that Lock,        *)
(* ReadOnlyLock and TryLock return), and open files refer to inodes, not   *)
(* to paths: a file that is removed and created again at the same path is  *)
(* another inode, and a lock on the old one protects nothing.              *)
(*                                                                         *)
(* handle[c][s] is the open file that client c keeps in its local variable *)
(* s.  Two goroutines of one process have two open files, so they exclude  *)
(* each other exactly like two processes: a client is either.              *)
(***************************************************************************)
CONSTANTS Clients,  \* whoever calls: goroutines, of one or several processes
          Inodes,   \* what an open file can refer to
          NoInode   \* the inode of a closed file, and of a path with no file

ASSUME NoInodeAssumption == NoInode \notin Inodes

VARIABLE handle

Mode == {"none", "shared", "exclusive"}

Handle == [ino : Inodes \cup {NoInode}, mode : Mode]

Closed == [ino |-> NoInode, mode |-> "none"]

Held(i, m) == [ino |-> i, mode |-> m]

\* flock(2): LOCK_EX conflicts with every lock, LOCK_SH with LOCK_EX.
Incompatible(m, n) ==
  \/ m = "exclusive" /\ n # "none"
  \/ n = "exclusive" /\ m # "none"

\* Whether another open file of inode i keeps client c from a lock of mode m.
Blocked(c, s, i, m) ==
  \E d \in Clients : \E t \in DOMAIN handle[d] :
    /\ <<d, t>> # <<c, s>>
    /\ handle[d][t].ino = i
    /\ Incompatible(m, handle[d][t].mode)

-----------------------------------------------------------------------------
\* os.Open: the path resolved to inode i now, whatever it names later.
Open(c, s, i) ==
  handle' = [handle EXCEPT ![c][s] = Held(i, "none")]

\* The flock call of platformLock and platformTryLock: granted only when no
\* other open file conflicts.  platformLock waits until then.
TakeLock(c, s, m) ==
  /\ ~Blocked(c, s, handle[c][s].ino, m)
  /\ handle' = [handle EXCEPT ![c][s].mode = m]

\* platformLock on a path that is never removed: nothing can come between
\* os.Open and flock, so that both are one step.
OpenAndLock(c, s, i, m) ==
  /\ ~Blocked(c, s, i, m)
  /\ handle' = [handle EXCEPT ![c][s] = Held(i, m)]

\* platformUnlock: LOCK_UN, then Close.  Close alone drops the lock, so that an
\* error of LOCK_UN changes nothing.  On a file already closed it does nothing.
Unlock(c, s) ==
  handle' = [handle EXCEPT ![c][s] = Closed]

\* The kernel closes every file of a process that dies.
CloseAll(c) ==
  handle' = [handle EXCEPT ![c] = [t \in DOMAIN handle[c] |-> Closed]]

=============================================================================
