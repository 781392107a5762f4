------------------------------- MODULE Locker -------------------------------
(***************************************************************************)
(* filesystem/refcounted.go: a cross-process reference count that is kept  *)
(* by the kernel.  Every holder of a key has a shared flock on             *)
(* root/key/.lock; the last one to release, and only it, gets that lock    *)
(* exclusively and removes root/key.  Two more locks order the calls: the  *)
(* global one on root and one on the directory root/key.                   *)
(*                                                                         *)
(* pc[c] is the call client c makes next.  Labels without an r belong to   *)
(* Acquire, those with an r to the release function of buildRelease.       *)
(***************************************************************************)
EXTENDS Naturals, Flock

CONSTANTS Keys,        \* valid single path components
          NoKey,       \* the key of a client outside Acquire and release
          Root,        \* the inode of rootDir, which nobody removes
          MaxMishaps   \* bound on failed system calls, failed factories, crashes

ASSUME LockerAssumption == /\ NoKey \notin Keys
                           /\ Root \in Inodes
                           /\ MaxMishaps \in Nat

VARIABLES pc,
          key,       \* key[c]: the key of the call in progress
          entry,     \* entry[k]: the inode at root/k
          lockFile,  \* lockFile[k]: the inode at root/k/.lock
          resource,  \* resource[k]: what the factory keeps under root/k
          spent,     \* spent[c]: keys of the release functions c has called
          mishaps

disk == <<entry, lockFile, resource>>
vars == <<pc, key, handle, disk, spent, mishaps>>

\* The local variables that hold an open file.
Slots == {"globalLock", "dirLock", "readLock", "exclusiveLock"}

AcquireLabels == {"lockRoot", "mkdir", "openDir", "flockDir", "unlockRoot",
                  "touch", "openFile", "flockFile", "factory", "inFactory",
                  "unlockDir", "failRoot", "failDir", "failRead"}

ReleaseLabels == {"rLockRoot", "rOpenDir", "rFlockDir", "rUnlockRead",
                  "rOpenFile", "rTryLock", "rCleanup", "rUnlockExcl",
                  "rRemoveAll", "rUnlockDir", "rUnlockRoot", "rFailRoot",
                  "rFailRead"}

Labels == AcquireLabels \cup ReleaseLabels \cup {"idle", "holding"}

ResourceState == {"absent", "partial", "ready"}

TypeOK ==
  /\ pc \in [Clients -> Labels]
  /\ key \in [Clients -> Keys \cup {NoKey}]
  /\ handle \in [Clients -> [Slots -> Handle]]
  /\ entry \in [Keys -> Inodes \cup {NoInode}]
  /\ lockFile \in [Keys -> Inodes \cup {NoInode}]
  /\ resource \in [Keys -> ResourceState]
  /\ spent \in [Clients -> SUBSET Keys]
  /\ mishaps \in 0 .. MaxMishaps

Init ==
  /\ pc = [c \in Clients |-> "idle"]
  /\ key = [c \in Clients |-> NoKey]
  /\ handle = [c \in Clients |-> [s \in Slots |-> Closed]]
  /\ entry = [k \in Keys |-> NoInode]
  /\ lockFile = [k \in Keys |-> NoInode]
  /\ resource = [k \in Keys |-> "absent"]
  /\ spent = [c \in Clients |-> {}]
  /\ mishaps = 0

-----------------------------------------------------------------------------
(* Steps                                                                   *)

\* Client c is at one label and goes on to another inside the same call.
Step(c, from, to) ==
  /\ pc[c] = from
  /\ pc' = [pc EXCEPT ![c] = to]
  /\ UNCHANGED key

\* The call of c returns, and c is between calls again.
Return(c, from) ==
  /\ pc[c] = from
  /\ pc' = [pc EXCEPT ![c] = "idle"]
  /\ key' = [key EXCEPT ![c] = NoKey]

\* An inode the kernel may give to a new file: no path and no open file has it.
Fresh(i) ==
  /\ i # Root
  /\ \A k \in Keys : i \notin {entry[k], lockFile[k]}
  /\ \A c \in Clients : \A s \in Slots : handle[c][s].ino # i

-----------------------------------------------------------------------------
(* Acquire                                                                 *)

\* A bad key and an error of MkdirAll(rootDir) return before any effect.
Acquire(c, k) ==
  /\ pc[c] = "idle"
  /\ pc' = [pc EXCEPT ![c] = "lockRoot"]
  /\ key' = [key EXCEPT ![c] = k]
  /\ UNCHANGED <<handle, disk, spent, mishaps>>

\* Mutant: release does without the global lock.
LockRootInAcquireOnly(c) ==
  /\ \/ Step(c, "lockRoot", "mkdir") /\ OpenAndLock(c, "globalLock", Root, "exclusive")
     \/ Step(c, "rLockRoot", "rOpenDir") /\ UNCHANGED handle
  /\ UNCHANGED <<disk, spent, mishaps>>

\* Lock(rootDir), in Acquire and in release.
LockRoot(c) ==
  /\ Step(c, "lockRoot", "mkdir") \/ Step(c, "rLockRoot", "rOpenDir")
  /\ OpenAndLock(c, "globalLock", Root, "exclusive")
  /\ UNCHANGED <<disk, spent, mishaps>>

\* MkdirAll(resourceDir)
MakeEntry(c) ==
  /\ Step(c, "mkdir", "openDir")
  /\ \/ entry[key[c]] # NoInode /\ UNCHANGED entry
     \/ /\ entry[key[c]] = NoInode
        /\ \E i \in Inodes : Fresh(i) /\ entry' = [entry EXCEPT ![key[c]] = i]
  /\ UNCHANGED <<handle, lockFile, resource, spent, mishaps>>

\* Lock(resourceDir), in Acquire and in release: os.Open, ...
OpenDir(c) ==
  /\ Step(c, "openDir", "flockDir") \/ Step(c, "rOpenDir", "rFlockDir")
  /\ entry[key[c]] # NoInode
  /\ Open(c, "dirLock", entry[key[c]])
  /\ UNCHANGED <<disk, spent, mishaps>>

\* Mutant: the directory lock is shared.
LockDirShared(c) ==
  /\ Step(c, "flockDir", "unlockRoot") \/ Step(c, "rFlockDir", "rUnlockRead")
  /\ TakeLock(c, "dirLock", "shared")
  /\ UNCHANGED <<disk, spent, mishaps>>

\* ... then flock, which waits.
LockDir(c) ==
  /\ Step(c, "flockDir", "unlockRoot") \/ Step(c, "rFlockDir", "rUnlockRead")
  /\ TakeLock(c, "dirLock", "exclusive")
  /\ UNCHANGED <<disk, spent, mishaps>>

\* Mutant: the lock file is made anew, not only touched.
ReplaceLockFile(c) ==
  /\ Step(c, "touch", "openFile")
  /\ entry[key[c]] # NoInode
  /\ \E i \in Inodes : Fresh(i) /\ lockFile' = [lockFile EXCEPT ![key[c]] = i]
  /\ UNCHANGED <<handle, entry, resource, spent, mishaps>>

\* touchLockFile
TouchLockFile(c) ==
  /\ Step(c, "touch", "openFile")
  /\ entry[key[c]] # NoInode
  /\ \/ lockFile[key[c]] # NoInode /\ UNCHANGED lockFile
     \/ /\ lockFile[key[c]] = NoInode
        /\ \E i \in Inodes : /\ Fresh(i)
                             /\ lockFile' = [lockFile EXCEPT ![key[c]] = i]
  /\ UNCHANGED <<handle, entry, resource, spent, mishaps>>

\* ReadOnlyLock(lockPath): os.Open, then flock.
OpenLockFile(c) ==
  /\ Step(c, "openFile", "flockFile")
  /\ lockFile[key[c]] # NoInode
  /\ Open(c, "readLock", lockFile[key[c]])
  /\ UNCHANGED <<disk, spent, mishaps>>

ReadLockFile(c) ==
  /\ Step(c, "flockFile", "factory")
  /\ TakeLock(c, "readLock", "shared")
  /\ UNCHANGED <<disk, spent, mishaps>>

\* The factory runs on every Acquire and is expected to look for itself whether
\* the resource is complete.  It takes two steps, so that it can be seen working.
FactoryCall(c) ==
  /\ Step(c, "factory", "inFactory")
  /\ resource' = [resource EXCEPT ![key[c]] = IF @ = "ready" THEN @ ELSE "partial"]
  /\ UNCHANGED <<handle, entry, lockFile, spent, mishaps>>

FactoryReturns(c) ==
  /\ Step(c, "inFactory", "unlockDir")
  /\ resource' = [resource EXCEPT ![key[c]] = "ready"]
  /\ UNCHANGED <<handle, entry, lockFile, spent, mishaps>>

\* Mutant: the global lock stays with a successful Acquire.
KeepGlobalLock(c) ==
  /\ \/ Step(c, "unlockRoot", "touch") /\ UNCHANGED handle
     \/ Step(c, "unlockDir", "holding") /\ Unlock(c, "dirLock")
     \/ Step(c, "failRead", "failDir") /\ Unlock(c, "readLock")
     \/ Return(c, "failDir") /\ Unlock(c, "dirLock")
     \/ Return(c, "failRoot") /\ Unlock(c, "globalLock")
  /\ UNCHANGED <<disk, spent, mishaps>>

\* Mutant: the return for a failed factory unlocks the lock file only.
ForgetDirLock(c) ==
  /\ \/ Step(c, "unlockRoot", "touch") /\ Unlock(c, "globalLock")
     \/ Step(c, "unlockDir", "holding") /\ Unlock(c, "dirLock")
     \/ Return(c, "failRead") /\ Unlock(c, "readLock")
     \/ Return(c, "failDir") /\ Unlock(c, "dirLock")
     \/ Return(c, "failRoot") /\ Unlock(c, "globalLock")
  /\ UNCHANGED <<disk, spent, mishaps>>

\* The Unlock calls of Acquire, those of its error returns included.
AcquireUnlocks(c) ==
  /\ \/ Step(c, "unlockRoot", "touch") /\ Unlock(c, "globalLock")
     \/ Step(c, "unlockDir", "holding") /\ Unlock(c, "dirLock")
     \/ Step(c, "failRead", "failDir") /\ Unlock(c, "readLock")
     \/ Return(c, "failDir") /\ Unlock(c, "dirLock")
     \/ Return(c, "failRoot") /\ Unlock(c, "globalLock")
  /\ UNCHANGED <<disk, spent, mishaps>>

-----------------------------------------------------------------------------
(* The release function                                                    *)

Release(c) ==
  /\ Step(c, "holding", "rLockRoot")
  /\ UNCHANGED <<handle, disk, spent, mishaps>>

\* Nothing stops a caller from calling its release function once more.
ReleaseAgain(c, k) ==
  /\ pc[c] = "idle"
  /\ k \in spent[c]
  /\ pc' = [pc EXCEPT ![c] = "rLockRoot"]
  /\ key' = [key EXCEPT ![c] = k]
  /\ UNCHANGED <<handle, disk, spent, mishaps>>

\* TryLock(lockPath): os.Open, ...
OpenForTryLock(c) ==
  /\ Step(c, "rOpenFile", "rTryLock")
  /\ lockFile[key[c]] # NoInode
  /\ Open(c, "exclusiveLock", lockFile[key[c]])
  /\ UNCHANGED <<disk, spent, mishaps>>

\* Mutant: whatever TryLock answers, release goes on.
TryLockIgnored(c) ==
  /\ Step(c, "rTryLock", "rCleanup")
  /\ TakeLock(c, "exclusiveLock", "exclusive") \/ Unlock(c, "exclusiveLock")
  /\ UNCHANGED <<disk, spent, mishaps>>

\* ... then flock with LOCK_NB: granted to the last holder, EWOULDBLOCK to others.
TryLock(c) ==
  /\ \/ Step(c, "rTryLock", "rCleanup") /\ TakeLock(c, "exclusiveLock", "exclusive")
     \/ /\ Step(c, "rTryLock", "rUnlockDir")
        /\ Blocked(c, "exclusiveLock", handle[c]["exclusiveLock"].ino, "exclusive")
        /\ Unlock(c, "exclusiveLock")
  /\ UNCHANGED <<disk, spent, mishaps>>

\* cleanup(), which may be nil and otherwise takes down what the factory set up.
CleanUp(c) ==
  /\ Step(c, "rCleanup", "rUnlockExcl")
  /\ \/ UNCHANGED resource
     \/ /\ resource[key[c]] = "ready"
        /\ resource' = [resource EXCEPT ![key[c]] = "partial"]
  /\ UNCHANGED <<handle, entry, lockFile, spent, mishaps>>

\* RemoveAll(dir) is not atomic: it unlinks the children one by one, in the
\* order the directory lists them, and the directory itself last.
RemoveChild(c) ==
  /\ Step(c, "rRemoveAll", "rRemoveAll")
  /\ \/ /\ lockFile[key[c]] # NoInode
        /\ lockFile' = [lockFile EXCEPT ![key[c]] = NoInode]
        /\ UNCHANGED resource
     \/ /\ resource[key[c]] # "absent"
        /\ resource' = [resource EXCEPT ![key[c]] =
                          IF @ = "ready" THEN "partial" ELSE "absent"]
        /\ UNCHANGED lockFile
  /\ UNCHANGED <<handle, entry, spent, mishaps>>

RemoveDir(c) ==
  /\ Step(c, "rRemoveAll", "rUnlockDir")
  /\ lockFile[key[c]] = NoInode /\ resource[key[c]] = "absent"
  /\ entry' = [entry EXCEPT ![key[c]] = NoInode]
  /\ UNCHANGED <<handle, lockFile, resource, spent, mishaps>>

\* Mutant: release tries the lock before it has let go of its own.
TryWithReadLock(c) ==
  /\ \/ Step(c, "rUnlockRead", "rOpenFile") /\ UNCHANGED handle
     \/ Step(c, "rUnlockExcl", "rRemoveAll") /\ Unlock(c, "exclusiveLock")
     \/ Step(c, "rUnlockDir", "rUnlockRoot") /\ Unlock(c, "dirLock")
     \/ Step(c, "rFailRoot", "rFailRead") /\ Unlock(c, "globalLock")
  /\ UNCHANGED <<disk, spent, mishaps>>

\* The Unlock calls of release before its last one, those of its error returns
\* included.
ReleaseUnlocks(c) ==
  /\ \/ Step(c, "rUnlockRead", "rOpenFile") /\ Unlock(c, "readLock")
     \/ Step(c, "rUnlockExcl", "rRemoveAll") /\ Unlock(c, "exclusiveLock")
     \/ Step(c, "rUnlockDir", "rUnlockRoot") /\ Unlock(c, "dirLock")
     \/ Step(c, "rFailRoot", "rFailRead") /\ Unlock(c, "globalLock")
  /\ UNCHANGED <<disk, spent, mishaps>>

\* The last Unlock: release returns, and its function is used up.
ReleaseReturns(c) ==
  /\ \/ Return(c, "rUnlockRoot") /\ Unlock(c, "globalLock")
     \/ Return(c, "rFailRead") /\ Unlock(c, "readLock")
  /\ spent' = [spent EXCEPT ![c] = @ \cup {key[c]}]
  /\ UNCHANGED <<disk, mishaps>>

-----------------------------------------------------------------------------
(* Errors and crashes                                                      *)

\* Mutant: a failed factory leaves the read lock behind.
OnErrorForgetting ==
  [mkdir |-> "failRoot", openDir |-> "failRoot", flockDir |-> "failRoot",
   touch |-> "failDir", openFile |-> "failDir", flockFile |-> "failDir",
   factory |-> "failDir", inFactory |-> "failDir",
   rLockRoot |-> "rFailRead", rOpenDir |-> "rFailRoot", rFlockDir |-> "rFailRoot",
   rOpenFile |-> "rUnlockDir", rTryLock |-> "rUnlockDir",
   rRemoveAll |-> "rUnlockDir"]

\* Where the call at a label continues when it returns an error.
OnError ==
  [mkdir |-> "failRoot", openDir |-> "failRoot", flockDir |-> "failRoot",
   touch |-> "failDir", openFile |-> "failDir", flockFile |-> "failDir",
   factory |-> "failRead", inFactory |-> "failRead",
   rLockRoot |-> "rFailRead", rOpenDir |-> "rFailRoot", rFlockDir |-> "rFailRoot",
   rOpenFile |-> "rUnlockDir", rTryLock |-> "rUnlockDir",
   rRemoveAll |-> "rUnlockDir"]

\* The file that platformLock or platformTryLock closes when its flock fails.
OpenedBy ==
  [flockDir |-> "dirLock", rFlockDir |-> "dirLock",
   flockFile |-> "readLock", rTryLock |-> "exclusiveLock"]

\* ENOENT: the path the call opens is gone.
PathMissing(c) ==
  /\ \/ pc[c] \in {"openDir", "touch", "rOpenDir"} /\ entry[key[c]] = NoInode
     \/ pc[c] \in {"openFile", "rOpenFile"} /\ lockFile[key[c]] = NoInode
  /\ Step(c, pc[c], OnError[pc[c]])
  /\ UNCHANGED <<handle, disk, spent, mishaps>>

\* Any other error of a system call, or of the factory.  A failed RemoveAll has
\* removed what it could.
CallFails(c) ==
  /\ mishaps < MaxMishaps /\ mishaps' = mishaps + 1
  /\ \/ Return(c, "lockRoot") /\ UNCHANGED handle
     \/ /\ pc[c] \in DOMAIN OnError
        /\ Step(c, pc[c], OnError[pc[c]])
        /\ IF pc[c] \in DOMAIN OpenedBy THEN Unlock(c, OpenedBy[pc[c]])
                                        ELSE UNCHANGED handle
  /\ UNCHANGED <<disk, spent>>

\* The process of c dies, whatever it was doing; the disk stays as it is.
Crash(c) ==
  /\ mishaps < MaxMishaps /\ mishaps' = mishaps + 1
  /\ pc[c] # "idle" /\ Return(c, pc[c])
  /\ CloseAll(c)
  /\ spent' = [spent EXCEPT ![c] = {}]
  /\ UNCHANGED disk

-----------------------------------------------------------------------------
\* What a call in progress does next, errors of the outside world apart.
Progress(c) ==
  \/ MakeEntry(c) \/ OpenDir(c) \/ LockDir(c) \/ TouchLockFile(c)
  \/ OpenLockFile(c) \/ ReadLockFile(c) \/ FactoryCall(c) \/ FactoryReturns(c)
  \/ AcquireUnlocks(c) \/ OpenForTryLock(c) \/ TryLock(c) \/ CleanUp(c)
  \/ RemoveChild(c) \/ RemoveDir(c) \/ ReleaseUnlocks(c) \/ ReleaseReturns(c)
  \/ PathMissing(c)

Next ==
  \E c \in Clients :
    \/ \E k \in Keys : Acquire(c, k) \/ ReleaseAgain(c, k)
    \/ Release(c) \/ LockRoot(c) \/ Progress(c)
    \/ CallFails(c) \/ Crash(c)

Spec == Init /\ [][Next]_vars

\* A goroutine keeps running, factory and cleanup return, and flock(2) does not
\* pass the same waiter over for ever.  Nobody is bound to acquire or release.
Fairness ==
  \A c \in Clients : WF_vars(Progress(c)) /\ SF_vars(LockRoot(c))

FairSpec == Spec /\ Fairness

-----------------------------------------------------------------------------
(* Properties                                                              *)

\* The labels at which c uses a resource that Acquire has handed out.
HoldingLabels == {"unlockDir", "holding", "rLockRoot", "rOpenDir", "rFlockDir",
                  "rUnlockRead", "rFailRoot", "rFailRead"}

Holders(k) ==
  {c \in Clients : /\ key[c] = k
                   /\ pc[c] \in HoldingLabels
                   /\ handle[c]["readLock"].mode = "shared"}

\* refcounted.go:54-57: what Acquire returned stays there until its holder
\* releases.  The directory and the lock file are the ones at the path now, so
\* that later calls meet this holder's lock, and the resource is complete.
HolderProtected ==
  \A k \in Keys : \A c \in Holders(k) :
    /\ resource[k] = "ready"
    /\ entry[k] # NoInode
    /\ handle[c]["readLock"].ino = lockFile[k]

\* refcounted.go:49: the factory has the entry directory to itself: no second
\* factory, cleanup or RemoveAll of any process works on the same key.
WorkingLabels == {"factory", "inFactory", "rCleanup", "rRemoveAll"}

EntryExclusive ==
  \A c, d \in Clients :
    /\ c # d /\ key[c] = key[d]
    /\ pc[c] \in WorkingLabels
    => pc[d] \notin WorkingLabels

\* refcounted.go:50,161: cleanup runs and the entry is deleted only once nobody
\* else has a lock on the key's lock file, not even one on an unlinked file.
LastHolder ==
  \A c, d \in Clients :
    /\ c # d /\ key[c] = key[d]
    /\ pc[c] \in {"rCleanup", "rUnlockExcl", "rRemoveAll"}
    => handle[d]["readLock"].mode = "none"

\* refcounted.go:84-106: a directory lock is never one on a directory that has
\* been removed and made again meanwhile, except by the remover itself.
LockedEntryIsCurrent ==
  \A c \in Clients :
    /\ handle[c]["dirLock"].mode = "exclusive"
    /\ pc[c] # "rUnlockDir"
    => handle[c]["dirLock"].ino = entry[key[c]]

\* refcounted.go:57: while nothing fails, once every acquirer has released,
\* nothing is left of any entry.
NoLeak ==
  mishaps = 0 /\ (\A c \in Clients : pc[c] = "idle") =>
    \A k \in Keys : /\ entry[k] = NoInode /\ lockFile[k] = NoInode
                    /\ resource[k] = "absent"

\* refcounted.go:154 "Others still have read locks": unless TryLock itself fails,
\* release leaves the entry only to another holder, whatever failed or died before:
\* what a failed release has left behind goes with the next one.
RefusedByHolder ==
  [][\A c \in Clients :
       pc[c] = "rTryLock" /\ pc'[c] = "rUnlockDir" /\ UNCHANGED mishaps =>
         \E d \in Clients \ {c} : d \in Holders(key[c])]_vars

\* A handle nobody can reach any more is closed: no path of Acquire or release,
\* error returns included, forgets an Unlock.
NoLockLeft ==
  \A c \in Clients :
    /\ pc[c] = "idle" => \A s \in Slots : handle[c][s] = Closed
    /\ pc[c] = "holding" => \A s \in Slots \ {"readLock"} : handle[c][s] = Closed

\* The protocol implements the reference count it stands for.
Counted == INSTANCE RefCounted WITH
  holders <- [k \in Keys |-> Holders(k)],
  live <- [k \in Keys |-> resource[k] = "ready"]

CountedSpec == Counted!Spec

\* refcounted.go:53-57: whatever the others do, as long as they do not stop
\* inside a call, every Acquire and every release comes back: the three locks
\* are always taken in an order that cannot close a cycle.
EveryCallReturns ==
  \A c \in Clients :
    pc[c] \in AcquireLabels \cup ReleaseLabels ~> pc[c] \in {"idle", "holding"}

\* How many steps of its own a call may still take, and RemoveAll one per child.
StepsLeft ==
  [lockRoot |-> 12, mkdir |-> 11, openDir |-> 10, flockDir |-> 9, unlockRoot |-> 8,
   touch |-> 7, openFile |-> 6, flockFile |-> 5, factory |-> 4, inFactory |-> 3,
   unlockDir |-> 1, failRoot |-> 1, failDir |-> 1, failRead |-> 2,
   rLockRoot |-> 14, rOpenDir |-> 13, rFlockDir |-> 12, rUnlockRead |-> 11,
   rOpenFile |-> 10, rTryLock |-> 9, rCleanup |-> 8, rUnlockExcl |-> 7,
   rRemoveAll |-> 3, rUnlockDir |-> 2, rUnlockRoot |-> 1,
   rFailRoot |-> 2, rFailRead |-> 1]

Children(k) ==
  (IF lockFile[k] = NoInode THEN 0 ELSE 1)
    + [absent |-> 0, partial |-> 1, ready |-> 2][resource[k]]

Left(c) ==
  IF pc[c] \notin DOMAIN StepsLeft THEN 0
  ELSE StepsLeft[pc[c]] + IF pc[c] = "rRemoveAll" THEN Children(key[c]) ELSE 0

\* refcounted.go:139,167: a call that runs comes nearer to its end with every step,
\* and nobody sets it back: no other client puts into a directory what RemoveAll is
\* emptying.
CallsAdvance ==
  [][\A c \in Clients :
       /\ Left(c)' > Left(c) => Left(c) = 0
       /\ LockRoot(c) \/ Progress(c) \/ CallFails(c) => Left(c)' < Left(c)]_vars

-----------------------------------------------------------------------------
(* Why it works: what each client has open at each label                   *)

\* Between Lock(rootDir) and its Unlock.
GlobalLabels == {"mkdir", "openDir", "flockDir", "unlockRoot", "failRoot",
                 "rOpenDir", "rFlockDir", "rUnlockRead", "rOpenFile", "rTryLock",
                 "rCleanup", "rUnlockExcl", "rRemoveAll", "rUnlockDir",
                 "rUnlockRoot", "rFailRoot"}

\* Between Lock(resourceDir) and its Unlock.
DirLabels == {"unlockRoot", "touch", "openFile", "flockFile", "factory",
              "inFactory", "unlockDir", "failDir", "failRead", "rUnlockRead",
              "rOpenFile", "rTryLock", "rCleanup", "rUnlockExcl", "rRemoveAll",
              "rUnlockDir"}

\* Where a client surely has its read lock, and where it has it unless this is
\* not the first call of the release function.
ReadLabels == {"factory", "inFactory", "failRead", "unlockDir", "holding"}
ReleasingLabels == HoldingLabels \ {"unlockDir", "holding"}

GlobalShape(c) ==
  handle[c]["globalLock"] =
    IF pc[c] \in GlobalLabels THEN Held(Root, "exclusive") ELSE Closed

DirShape(c) ==
  LET h == handle[c]["dirLock"] IN
  /\ pc[c] \in {"flockDir", "rFlockDir"} =>
       /\ h = Held(entry[key[c]], "none")
       /\ entry[key[c]] # NoInode
  /\ pc[c] \in DirLabels \ {"rUnlockDir"} =>
       /\ h = Held(entry[key[c]], "exclusive")
       /\ entry[key[c]] # NoInode
  /\ pc[c] = "rUnlockDir" =>
       /\ h.mode = "exclusive"
       /\ entry[key[c]] \in {h.ino, NoInode}
  /\ pc[c] \notin DirLabels \cup {"flockDir", "rFlockDir"} => h = Closed

ReadShape(c) ==
  LET h == handle[c]["readLock"] IN
  /\ pc[c] = "flockFile" =>
       /\ h = Held(lockFile[key[c]], "none")
       /\ lockFile[key[c]] # NoInode
  /\ pc[c] \in ReadLabels => h = Held(lockFile[key[c]], "shared")
  /\ pc[c] \in ReleasingLabels => h \in {Closed, Held(lockFile[key[c]], "shared")}
  /\ pc[c] \notin ReadLabels \cup ReleasingLabels \cup {"flockFile"} => h = Closed

ExclusiveShape(c) ==
  handle[c]["exclusiveLock"] =
    IF pc[c] = "rTryLock" THEN Held(lockFile[key[c]], "none")
    ELSE IF pc[c] \in {"rCleanup", "rUnlockExcl"}
      THEN Held(lockFile[key[c]], "exclusive")
      ELSE Closed

\* A client with a read lock keeps the lock file and the directory at their
\* paths, and from the return of its factory on the resource complete.
ResourceShape(c) ==
  handle[c]["readLock"].mode = "shared" =>
    /\ lockFile[key[c]] # NoInode
    /\ entry[key[c]] # NoInode
    /\ pc[c] \in HoldingLabels => resource[key[c]] = "ready"

KeyShape(c) == pc[c] = "idle" <=> key[c] = NoKey

Shape(c) ==
  /\ KeyShape(c) /\ GlobalShape(c) /\ DirShape(c) /\ ReadShape(c)
  /\ ExclusiveShape(c) /\ ResourceShape(c)

\* The three exclusions that the three locks are there for.
GlobalExclusion ==
  \A c, d \in Clients : c # d /\ pc[c] \in GlobalLabels => pc[d] \notin GlobalLabels

DirExclusion ==
  \A c, d \in Clients :
    c # d /\ key[c] = key[d] /\ pc[c] \in DirLabels => pc[d] \notin DirLabels

\* The inductive invariant of the protocol.
LockerInv ==
  /\ TypeOK
  /\ \A c \in Clients : Shape(c)
  /\ GlobalExclusion
  /\ DirExclusion
  /\ LastHolder

-----------------------------------------------------------------------------
(* Why nothing is left                                                     *)

\* Where the entry is there and its lock file not yet, or not any more.
MakingLabels == {"openDir", "flockDir", "unlockRoot", "touch", "rRemoveAll"}

\* Where a client without a read lock is about to take one or to try for the last.
TendingLabels == {"openFile", "flockFile", "rOpenFile", "rTryLock", "rCleanup",
                  "rUnlockExcl", "rRemoveAll"}

Making(c, k) == key[c] = k /\ pc[c] \in MakingLabels

Tending(c, k) ==
  /\ key[c] = k
  /\ pc[c] \in TendingLabels \/ handle[c]["readLock"].mode = "shared"

\* Every entry has somebody who still has to release it or is removing it: whoever
\* stops tending it leaves another one behind, or no entry.
Tended ==
  \A k \in Keys :
    /\ entry[k] = NoInode => lockFile[k] = NoInode /\ resource[k] = "absent"
    /\ entry[k] # NoInode /\ lockFile[k] = NoInode => \E c \in Clients : Making(c, k)
    /\ lockFile[k] # NoInode => \E c \in Clients : Tending(c, k)

\* No client fails, except on a release function that was used up before.
NoErrors ==
  \A c \in Clients :
    /\ pc[c] \notin {"failRoot", "failDir", "failRead"}
    /\ pc[c] \in {"rFailRoot", "rFailRead"} => handle[c]["readLock"] = Closed

\* What a call has made is there when it opens it.
PathsThere ==
  \A c \in Clients :
    /\ pc[c] = "openDir" => entry[key[c]] # NoInode
    /\ pc[c] = "openFile" => lockFile[key[c]] # NoInode

\* A lock file is no directory and belongs to one key: TryLock is refused only
\* because of somebody with the same key.
InodesApart ==
  \A k \in Keys :
    lockFile[k] # NoInode =>
      /\ lockFile[k] # Root
      /\ \A l \in Keys : lockFile[k] # entry[l] /\ (lockFile[k] = lockFile[l] => k = l)

\* With LockerInv, the inductive invariant for NoLeak.
LeakInv ==
  /\ PathsThere
  /\ InodesApart
  /\ mishaps = 0 => NoErrors /\ Tended

-----------------------------------------------------------------------------
(* Why nobody waits in a circle                                            *)

\* An open file of d has a lock that keeps c from one of mode m on inode i.
InTheWay(d, c, s, i, m) ==
  \E t \in Slots :
    /\ <<d, t>> # <<c, s>>
    /\ handle[d][t].ino = i
    /\ Incompatible(m, handle[d][t].mode)

\* c is at one of the three flocks that wait, and d has to give up a lock first.
WaitsFor(c, d) ==
  \/ /\ pc[c] \in {"lockRoot", "rLockRoot"}
     /\ InTheWay(d, c, "globalLock", Root, "exclusive")
  \/ /\ pc[c] \in {"flockDir", "rFlockDir"}
     /\ InTheWay(d, c, "dirLock", handle[c]["dirLock"].ino, "exclusive")
  \/ /\ pc[c] = "flockFile"
     /\ InTheWay(d, c, "readLock", handle[c]["readLock"].ino, "shared")

\* refcounted.go:84-124: the global lock first, then that of the directory, for which
\* only calls for the same key that have given the global one up are waited; the
\* read lock is there at once.  Nobody waits for a holder, nor for an idle client.
LockOrder ==
  \A c, d \in Clients :
    WaitsFor(c, d) =>
      \/ pc[c] \in {"lockRoot", "rLockRoot"} /\ pc[d] \in GlobalLabels
      \/ /\ pc[c] \in {"flockDir", "rFlockDir"}
         /\ pc[d] \in DirLabels \ GlobalLabels /\ key[d] = key[c]

\* So whoever is waited for by one who is waited for goes on: there is no circle.
WaitsEnd ==
  \A a, b, c, d \in Clients : ~(WaitsFor(a, b) /\ WaitsFor(b, c) /\ WaitsFor(c, d))

\* A directory is not rootDir and belongs to one key, ...
EntriesApart ==
  \A k \in Keys :
    entry[k] # NoInode => /\ entry[k] # Root
                          /\ \A l \in Keys : entry[k] = entry[l] => k = l

\* ... and one that is open is no lock file, not even after its removal.
OpenDirsApart ==
  \A c \in Clients :
    handle[c]["dirLock"].ino # NoInode =>
      /\ handle[c]["dirLock"].ino # Root
      /\ \A k \in Keys : handle[c]["dirLock"].ino # lockFile[k]

\* With LockerInv, the inductive invariant for LockOrder.
OrderInv == InodesApart /\ EntriesApart /\ OpenDirsApart

=============================================================================
