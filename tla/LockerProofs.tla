---------------------------- MODULE LockerProofs ----------------------------
(***************************************************************************)
(* What holds of Locker for any number of clients, keys, inodes and        *)
(* mishaps.                                                                *)
(***************************************************************************)
EXTENDS Locker, TLAPS

USE NoInodeAssumption, LockerAssumption

-----------------------------------------------------------------------------
(* Flock                                                                   *)

HandlesOK == handle \in [Clients -> [Slots -> Handle]]

\* The operators on open files keep open files what they are.
LEMMA HandleSteps ==
  ASSUME HandlesOK, NEW c \in Clients, NEW s \in Slots, NEW i \in Inodes,
         NEW m \in Mode
  PROVE  /\ Open(c, s, i) => HandlesOK'
         /\ TakeLock(c, s, m) => HandlesOK'
         /\ OpenAndLock(c, s, i, m) => HandlesOK'
         /\ Unlock(c, s) => HandlesOK'
         /\ CloseAll(c) => HandlesOK'
<1> USE DEF HandlesOK
<1>1. ASSUME NEW h \in Handle PROVE [handle EXCEPT ![c][s] = h] \in [Clients -> [Slots -> Handle]]
  <2>1. handle[c] \in [Slots -> Handle]
    OBVIOUS
  <2>2. [handle[c] EXCEPT ![s] = h] \in [Slots -> Handle]
    BY <2>1
  <2> QED
    BY <2>2
<1>2. Held(i, "none") \in Handle /\ Held(i, m) \in Handle /\ Closed \in Handle
  BY DEF Held, Closed, Handle, Mode
<1>3. handle[c][s] \in Handle /\ [handle[c][s] EXCEPT !.mode = m] \in Handle
  <2>1. handle[c][s] \in Handle
    OBVIOUS
  <2> QED
    BY <2>1 DEF Handle
<1>4. TakeLock(c, s, m) => HandlesOK'
  <2>1. TakeLock(c, s, m) =>
          handle' = [handle EXCEPT ![c][s] = [handle[c][s] EXCEPT !.mode = m]]
    BY <1>3 DEF TakeLock
  <2> QED
    BY <2>1, <1>1, <1>3
<1>5. CloseAll(c) => HandlesOK'
  BY <1>2 DEF CloseAll
<1> QED
  BY <1>1, <1>2, <1>4, <1>5 DEF Open, OpenAndLock, Unlock

-----------------------------------------------------------------------------
(* Type correctness                                                        *)

\* A client outside every call has no key, one inside has one.
KeysOK == \A c \in Clients : KeyShape(c)

\* The error labels are labels of the same call.
LEMMA ErrorLabels ==
  \A l \in DOMAIN OnError : /\ l # "idle" /\ l \in Labels
                           /\ OnError[l] \in Labels \ {"idle"}
  BY DEF OnError, Labels, AcquireLabels, ReleaseLabels

\* Every step keeps the variables in their types (TypeOK).
LEMMA TypeStep == TypeOK /\ KeysOK /\ [Next]_vars => TypeOK' /\ KeysOK'
<1> SUFFICES ASSUME TypeOK, KeysOK, [Next]_vars PROVE TypeOK' /\ KeysOK'
  OBVIOUS
<1> USE DEF TypeOK, KeysOK, KeyShape, vars, disk
<1>h. HandlesOK
  BY DEF HandlesOK
<1>m. "none" \in Mode /\ "shared" \in Mode /\ "exclusive" \in Mode
  BY DEF Mode
<1>s. Slots = {"globalLock", "dirLock", "readLock", "exclusiveLock"}
  BY DEF Slots
<1>l. "idle" \in Labels /\ "holding" \in Labels /\ "lockRoot" \in Labels
      /\ "rLockRoot" \in Labels
  BY DEF Labels, AcquireLabels, ReleaseLabels
<1>1. CASE UNCHANGED vars
  BY <1>1
<1>2. ASSUME NEW c \in Clients, NEW k \in Keys, Acquire(c, k)
      PROVE  TypeOK' /\ KeysOK'
  BY <1>2, <1>l DEF Acquire
<1>3. ASSUME NEW c \in Clients, NEW k \in Keys, ReleaseAgain(c, k)
      PROVE  TypeOK' /\ KeysOK'
  BY <1>3, <1>l DEF ReleaseAgain
<1>4. ASSUME NEW c \in Clients, Release(c) PROVE TypeOK' /\ KeysOK'
  BY <1>4, <1>l DEF Release, Step
<1>5. ASSUME NEW c \in Clients, LockRoot(c) PROVE TypeOK' /\ KeysOK'
  BY <1>5, <1>h, <1>m, <1>s, HandleSteps
     DEF LockRoot, Step, Labels, AcquireLabels, ReleaseLabels, HandlesOK
<1>6. ASSUME NEW c \in Clients, Progress(c) PROVE TypeOK' /\ KeysOK'
  <2> USE DEF Step, Return, Labels, AcquireLabels, ReleaseLabels
  <2>1. CASE MakeEntry(c)
    BY <2>1 DEF MakeEntry
  <2>2. CASE OpenDir(c)
    <3>1. entry[key[c]] \in Inodes
      BY <2>2 DEF OpenDir
    <3> QED
      BY <2>2, <3>1, <1>h, <1>s, <1>m, HandleSteps DEF OpenDir, HandlesOK
  <2>3. CASE LockDir(c)
    BY <2>3, <1>h, <1>s, <1>m, HandleSteps DEF LockDir, HandlesOK
  <2>4. CASE TouchLockFile(c)
    BY <2>4 DEF TouchLockFile
  <2>5. CASE OpenLockFile(c) \/ OpenForTryLock(c)
    <3>1. lockFile[key[c]] \in Inodes
      BY <2>5 DEF OpenLockFile, OpenForTryLock
    <3> QED
      BY <2>5, <3>1, <1>h, <1>s, <1>m, HandleSteps
         DEF OpenLockFile, OpenForTryLock, HandlesOK
  <2>6. CASE ReadLockFile(c)
    BY <2>6, <1>h, <1>s, <1>m, HandleSteps DEF ReadLockFile, HandlesOK
  <2>7. CASE FactoryCall(c) \/ FactoryReturns(c) \/ CleanUp(c)
    <3>1. CASE FactoryCall(c)
      BY <3>1 DEF FactoryCall, ResourceState
    <3>2. CASE FactoryReturns(c)
      BY <3>2 DEF FactoryReturns, ResourceState
    <3>3. CASE CleanUp(c)
      BY <3>3 DEF CleanUp, ResourceState
    <3> QED
      BY <2>7, <3>1, <3>2, <3>3
  <2>8. CASE AcquireUnlocks(c)
    <3>1. CASE Step(c, "unlockRoot", "touch") /\ Unlock(c, "globalLock")
      BY <2>8, <3>1, <1>h, <1>s, <1>m, HandleSteps DEF AcquireUnlocks, HandlesOK
    <3>2. CASE Step(c, "unlockDir", "holding") /\ Unlock(c, "dirLock")
      BY <2>8, <3>2, <1>h, <1>s, <1>m, HandleSteps DEF AcquireUnlocks, HandlesOK
    <3>3. CASE Step(c, "failRead", "failDir") /\ Unlock(c, "readLock")
      BY <2>8, <3>3, <1>h, <1>s, <1>m, HandleSteps DEF AcquireUnlocks, HandlesOK
    <3>4. CASE Return(c, "failDir") /\ Unlock(c, "dirLock")
      BY <2>8, <3>4, <1>h, <1>s, <1>m, HandleSteps DEF AcquireUnlocks, HandlesOK
    <3>5. CASE Return(c, "failRoot") /\ Unlock(c, "globalLock")
      BY <2>8, <3>5, <1>h, <1>s, <1>m, HandleSteps DEF AcquireUnlocks, HandlesOK
    <3> QED
      BY <2>8, <3>1, <3>2, <3>3, <3>4, <3>5 DEF AcquireUnlocks
  <2>9. CASE TryLock(c)
    BY <2>9, <1>h, <1>s, <1>m, HandleSteps DEF TryLock, HandlesOK
  <2>10. CASE RemoveChild(c) \/ RemoveDir(c)
    <3>1. CASE RemoveChild(c)
      BY <3>1 DEF RemoveChild, ResourceState
    <3>2. CASE RemoveDir(c)
      BY <3>2 DEF RemoveDir, ResourceState
    <3> QED
      BY <2>10, <3>1, <3>2
  <2>11. CASE ReleaseUnlocks(c) \/ ReleaseReturns(c)
    <3>1. key[c] \in Keys
      BY <2>11 DEF ReleaseUnlocks, ReleaseReturns
    <3>2. CASE ReleaseUnlocks(c)
      BY <3>1, <3>2, <1>h, <1>s, <1>m, HandleSteps DEF ReleaseUnlocks, HandlesOK
    <3>3. CASE ReleaseReturns(c)
      <4>1. CASE Return(c, "rUnlockRoot") /\ Unlock(c, "globalLock")
        BY <3>1, <3>3, <4>1, <1>h, <1>s, <1>m, HandleSteps DEF ReleaseReturns, HandlesOK
      <4>2. CASE Return(c, "rFailRead") /\ Unlock(c, "readLock")
        BY <3>1, <3>3, <4>2, <1>h, <1>s, <1>m, HandleSteps DEF ReleaseReturns, HandlesOK
      <4> QED
        BY <3>3, <4>1, <4>2 DEF ReleaseReturns
    <3> QED
      BY <2>11, <3>2, <3>3
  <2>12. CASE PathMissing(c)
    <3>1. pc[c] \in DOMAIN OnError
      BY <2>12 DEF PathMissing, OnError
    <3> QED
      BY <2>12, <3>1, ErrorLabels DEF PathMissing
  <2> QED
    BY <1>6, <2>1, <2>2, <2>3, <2>4, <2>5, <2>6, <2>7, <2>8, <2>9, <2>10, <2>11,
       <2>12 DEF Progress
<1>7. ASSUME NEW c \in Clients, CallFails(c) PROVE TypeOK' /\ KeysOK'
  <2>1. HandlesOK'
    <3>1. \A l \in DOMAIN OpenedBy : OpenedBy[l] \in Slots
      BY <1>s DEF OpenedBy
    <3> QED
      BY <1>7, <3>1, <1>h, <1>m, HandleSteps DEF CallFails, HandlesOK
  <2>2. mishaps' \in 0 .. MaxMishaps
    BY <1>7 DEF CallFails
  <2>3. CASE Return(c, "lockRoot")
    BY <2>1, <2>2, <2>3, <1>7, <1>l DEF CallFails, Return, HandlesOK
  <2>4. CASE pc[c] \in DOMAIN OnError /\ Step(c, pc[c], OnError[pc[c]])
    BY <2>1, <2>2, <2>4, <1>7, ErrorLabels DEF CallFails, Step, HandlesOK
  <2> QED
    BY <2>3, <2>4, <1>7 DEF CallFails
<1>8. ASSUME NEW c \in Clients, Crash(c) PROVE TypeOK' /\ KeysOK'
  BY <1>8, <1>h, <1>l, <1>m, <1>s, HandleSteps DEF Crash, Return, HandlesOK
<1> QED
  BY <1>1, <1>2, <1>3, <1>4, <1>5, <1>6, <1>7, <1>8 DEF Next

\* TypeOK holds in every reachable state.
THEOREM TypeCorrect == Spec => []TypeOK
<1>1. Init => TypeOK /\ KeysOK
  BY DEF Init, TypeOK, KeysOK, KeyShape, Labels, Handle, Mode, Closed, ResourceState
<1> QED
  BY <1>1, TypeStep, PTL DEF Spec

-----------------------------------------------------------------------------
(* Every client knows what it has open                                     *)

\* Open file s of client c becomes h, and no other open file changes.
Becomes(c, s, h) ==
  /\ handle'[c][s] = h
  /\ \A t \in Slots \ {s} : handle'[c][t] = handle[c][t]
  /\ \A d \in Clients \ {c} : handle'[d] = handle[d]

LEMMA HandleEffects ==
  ASSUME HandlesOK, NEW c \in Clients, NEW s \in Slots, NEW i, NEW m
  PROVE  /\ Open(c, s, i) => Becomes(c, s, Held(i, "none"))
         /\ OpenAndLock(c, s, i, m) => Becomes(c, s, Held(i, m))
         /\ Unlock(c, s) => Becomes(c, s, Closed)
         /\ TakeLock(c, s, m) => Becomes(c, s, Held(handle[c][s].ino, m))
<1> USE DEF HandlesOK, Becomes
<1>1. ASSUME NEW h, handle' = [handle EXCEPT ![c][s] = h] PROVE Becomes(c, s, h)
  BY <1>1
<1>2. handle[c][s] \in Handle
  OBVIOUS
<1>3. [handle[c][s] EXCEPT !.mode = m] = Held(handle[c][s].ino, m)
  BY <1>2 DEF Handle, Held
<1>4. TakeLock(c, s, m) =>
        handle' = [handle EXCEPT ![c][s] = [handle[c][s] EXCEPT !.mode = m]]
  BY DEF TakeLock
<1> QED
  BY <1>1, <1>3, <1>4 DEF Open, OpenAndLock, Unlock

\* Only client c moves.
Alone(c) ==
  \A d \in Clients \ {c} :
    pc'[d] = pc[d] /\ key'[d] = key[d] /\ handle'[d] = handle[d]

\* Client c is inside no lock at its next label that it is not inside now.
Enters(c, labels) == pc'[c] \in labels /\ ~(pc[c] \in labels /\ key'[c] = key[c])

LastLabels == {"rCleanup", "rUnlockExcl", "rRemoveAll"}

Exclusions == GlobalExclusion /\ DirExclusion /\ LastHolder

\* A step of c on nothing but its own open files is no concern of the others.
LEMMA OthersKeepShape ==
  ASSUME LockerInv, NEW c \in Clients, Alone(c), UNCHANGED disk
  PROVE  \A d \in Clients \ {c} : Shape(d)'
<1> SUFFICES ASSUME NEW d \in Clients \ {c} PROVE Shape(d)'
  OBVIOUS
<1>1. Shape(d)
  BY DEF LockerInv
<1> QED
  BY <1>1 DEF Alone, disk, Shape, KeyShape, GlobalShape, DirShape, ReadShape,
              ExclusiveShape, ResourceShape

\* The exclusions can only break where somebody enters one.
LEMMA ExclusionsStay ==
  ASSUME LockerInv, NEW c \in Clients, Alone(c),
         ~Enters(c, GlobalLabels), ~Enters(c, DirLabels), ~Enters(c, LastLabels),
         \/ handle'[c]["readLock"].mode = "none"
         \/ handle'[c]["readLock"].mode = handle[c]["readLock"].mode /\ key'[c] = key[c]
  PROVE  Exclusions'
<1>1. Exclusions
  BY DEF Exclusions, LockerInv
<1>2. GlobalExclusion'
  BY <1>1 DEF Exclusions, GlobalExclusion, Alone, Enters
<1>3. DirExclusion'
  BY <1>1 DEF Exclusions, DirExclusion, Alone, Enters
<1>4. LastHolder'
  BY <1>1 DEF Exclusions, LastHolder, Alone, Enters, LastLabels
<1> QED
  BY <1>2, <1>3, <1>4 DEF Exclusions

\* So a step of c that leaves the disk alone and enters nothing keeps the
\* invariant if it leaves c what its new label says.
LEMMA QuietStep ==
  ASSUME LockerInv, TypeOK', NEW c \in Clients, Alone(c), UNCHANGED disk, Shape(c)',
         ~Enters(c, GlobalLabels), ~Enters(c, DirLabels), ~Enters(c, LastLabels),
         \/ handle'[c]["readLock"].mode = "none"
         \/ handle'[c]["readLock"].mode = handle[c]["readLock"].mode /\ key'[c] = key[c]
  PROVE  LockerInv'
<1>1. \A d \in Clients \ {c} : Shape(d)'
  BY OthersKeepShape
<1>2. Exclusions'
  BY ExclusionsStay
<1> QED
  BY <1>1, <1>2 DEF LockerInv, Exclusions

LEMMA SlotNames ==
  /\ "globalLock" \in Slots /\ "dirLock" \in Slots
  /\ "readLock" \in Slots /\ "exclusiveLock" \in Slots
  BY DEF Slots

\* Calls begin with every file closed, or with the read lock to be released.
LEMMA StartSteps ==
  ASSUME LockerInv, TypeOK', NEW c \in Clients, NEW k \in Keys,
         Acquire(c, k) \/ ReleaseAgain(c, k) \/ Release(c)
  PROVE  LockerInv'
<1> USE DEF LockerInv, TypeOK
<1>1. Alone(c) /\ UNCHANGED <<handle, disk>>
  BY DEF Acquire, ReleaseAgain, Release, Step, Alone
<1>2. Shape(c)
  OBVIOUS
<1>3. Shape(c)'
  BY <1>1, <1>2 DEF Acquire, ReleaseAgain, Release, Step, disk, Shape, KeyShape,
     GlobalShape, DirShape, ReadShape, ExclusiveShape, ResourceShape, Closed,
     GlobalLabels, DirLabels, ReadLabels, ReleasingLabels, HoldingLabels
<1>4. ~Enters(c, GlobalLabels) /\ ~Enters(c, DirLabels) /\ ~Enters(c, LastLabels)
  BY DEF Acquire, ReleaseAgain, Release, Step, Enters, GlobalLabels, DirLabels, LastLabels
<1>5. \/ handle'[c]["readLock"].mode = "none"
      \/ handle'[c]["readLock"].mode = handle[c]["readLock"].mode /\ key'[c] = key[c]
  BY <1>1, <1>2 DEF Acquire, ReleaseAgain, Release, Step, Shape, ReadShape, Closed,
     ReadLabels, ReleasingLabels, HoldingLabels
<1> QED
  BY <1>1, <1>3, <1>4, <1>5, QuietStep

\* At most one open file per step: what it becomes at each label.
Opened(c, s, h) ==
  LET from == pc[c]
      to == pc'[c]
  IN \/ /\ s = "globalLock" /\ h = Held(Root, "exclusive")
        /\ <<from, to>> \in {<<"lockRoot", "mkdir">>, <<"rLockRoot", "rOpenDir">>}
     \/ /\ s = "dirLock" /\ h = Held(entry[key[c]], "none") /\ entry[key[c]] # NoInode
        /\ <<from, to>> \in {<<"openDir", "flockDir">>, <<"rOpenDir", "rFlockDir">>}
     \/ /\ s = "dirLock" /\ h = Held(entry[key[c]], "exclusive")
        /\ <<from, to>> \in {<<"flockDir", "unlockRoot">>, <<"rFlockDir", "rUnlockRead">>}
     \/ /\ s = "readLock" /\ h = Held(lockFile[key[c]], "none")
        /\ lockFile[key[c]] # NoInode
        /\ <<from, to>> = <<"openFile", "flockFile">>
     \/ /\ s = "readLock" /\ h = Held(lockFile[key[c]], "shared")
        /\ lockFile[key[c]] # NoInode
        /\ <<from, to>> = <<"flockFile", "factory">>
     \/ /\ s = "exclusiveLock" /\ h = Held(lockFile[key[c]], "none")
        /\ <<from, to>> = <<"rOpenFile", "rTryLock">>
     \/ /\ s = "exclusiveLock" /\ h = Held(lockFile[key[c]], "exclusive")
        /\ <<from, to>> = <<"rTryLock", "rCleanup">>

ClosedBy(c, s, to) ==
  <<pc[c], s, to>> \in
    {<<"unlockRoot", "globalLock", "touch">>, <<"unlockDir", "dirLock", "holding">>,
     <<"failRead", "readLock", "failDir">>, <<"failDir", "dirLock", "idle">>,
     <<"failRoot", "globalLock", "idle">>, <<"rUnlockRead", "readLock", "rOpenFile">>,
     <<"rUnlockExcl", "exclusiveLock", "rRemoveAll">>,
     <<"rUnlockDir", "dirLock", "rUnlockRoot">>,
     <<"rFailRoot", "globalLock", "rFailRead">>,
     <<"rUnlockRoot", "globalLock", "idle">>, <<"rFailRead", "readLock", "idle">>,
     <<"flockDir", "dirLock", "failRoot">>, <<"rFlockDir", "dirLock", "rFailRoot">>,
     <<"flockFile", "readLock", "failDir">>, <<"rTryLock", "exclusiveLock", "rUnlockDir">>}

LEMMA OpenedShape ==
  ASSUME NEW c \in Clients, Shape(c), UNCHANGED disk, key'[c] = key[c],
         NEW s, NEW h, Becomes(c, s, h), Opened(c, s, h)
  PROVE  Shape(c)'
<1> USE DEF Opened, Becomes, Slots, Held, Closed, disk, Shape, KeyShape, GlobalShape,
        DirShape, ReadShape, ExclusiveShape, ResourceShape, GlobalLabels, DirLabels,
        ReadLabels, ReleasingLabels, HoldingLabels
<1>1. CASE s = "globalLock"
  BY <1>1
<1>2. CASE s = "dirLock"
  BY <1>2
<1>3. CASE s = "readLock"
  BY <1>3
<1>4. CASE s = "exclusiveLock"
  BY <1>4
<1> QED
  BY <1>1, <1>2, <1>3, <1>4

LEMMA ClosedShape ==
  ASSUME NEW c \in Clients, Shape(c), UNCHANGED disk, NEW s, Becomes(c, s, Closed),
         ClosedBy(c, s, pc'[c]),
         key'[c] = IF pc'[c] = "idle" THEN NoKey ELSE key[c]
  PROVE  Shape(c)'
<1> USE DEF ClosedBy, Becomes, Slots, Held, Closed, disk, Shape, KeyShape, GlobalShape,
        DirShape, ReadShape, ExclusiveShape, ResourceShape, GlobalLabels, DirLabels,
        ReadLabels, ReleasingLabels, HoldingLabels
<1>1. CASE s = "globalLock"
  BY <1>1
<1>2. CASE s = "dirLock"
  BY <1>2
<1>3. CASE s = "readLock"
  BY <1>3
<1>4. CASE s = "exclusiveLock"
  BY <1>4
<1> QED
  BY <1>1, <1>2, <1>3, <1>4

-----------------------------------------------------------------------------
(* The steps                                                               *)

\* Opening a directory or a lock file gives the inode at the path, unlocked.
LEMMA OpenSteps ==
  ASSUME LockerInv, TypeOK', NEW c \in Clients,
         OpenDir(c) \/ OpenLockFile(c) \/ OpenForTryLock(c)
  PROVE  LockerInv'
<1>h. HandlesOK
  BY DEF HandlesOK, LockerInv, TypeOK
<1>0. PICK s \in Slots : \E h : Becomes(c, s, h) /\ Opened(c, s, h) /\ h.mode = "none"
  <2>1. CASE OpenDir(c)
    <3>1. Becomes(c, "dirLock", Held(entry[key[c]], "none"))
      BY <2>1, <1>h, HandleEffects, SlotNames DEF OpenDir
    <3>2. Opened(c, "dirLock", Held(entry[key[c]], "none"))
      BY <2>1 DEF OpenDir, Opened, Step, LockerInv, TypeOK
    <3> QED
      BY <3>1, <3>2, SlotNames DEF Held
  <2>2. CASE OpenLockFile(c)
    <3>1. Becomes(c, "readLock", Held(lockFile[key[c]], "none"))
      BY <2>2, <1>h, HandleEffects, SlotNames DEF OpenLockFile
    <3>2. Opened(c, "readLock", Held(lockFile[key[c]], "none"))
      BY <2>2 DEF OpenLockFile, Opened, Step, LockerInv, TypeOK
    <3> QED
      BY <3>1, <3>2, SlotNames DEF Held
  <2>3. CASE OpenForTryLock(c)
    <3>1. Becomes(c, "exclusiveLock", Held(lockFile[key[c]], "none"))
      BY <2>3, <1>h, HandleEffects, SlotNames DEF OpenForTryLock
    <3>2. Opened(c, "exclusiveLock", Held(lockFile[key[c]], "none"))
      BY <2>3 DEF OpenForTryLock, Opened, Step, LockerInv, TypeOK
    <3> QED
      BY <3>1, <3>2, SlotNames DEF Held
  <2> QED
    BY <2>1, <2>2, <2>3
<1>1. PICK h : Becomes(c, s, h) /\ Opened(c, s, h) /\ h.mode = "none"
  BY <1>0
<1>2. Alone(c) /\ UNCHANGED disk /\ key'[c] = key[c]
  BY <1>1 DEF OpenDir, OpenLockFile, OpenForTryLock, Step, Alone, Becomes, LockerInv,
     TypeOK
<1>3. Shape(c)'
  BY <1>1, <1>2, OpenedShape DEF LockerInv
<1>4. ~Enters(c, GlobalLabels) /\ ~Enters(c, DirLabels) /\ ~Enters(c, LastLabels)
  BY DEF OpenDir, OpenLockFile, OpenForTryLock, Step, Enters, GlobalLabels, DirLabels,
     LastLabels, LockerInv, TypeOK
<1>5. \/ handle'[c]["readLock"].mode = "none"
      \/ handle'[c]["readLock"].mode = handle[c]["readLock"].mode /\ key'[c] = key[c]
  BY <1>1, <1>2, SlotNames DEF Becomes
<1> QED
  BY <1>2, <1>3, <1>4, <1>5, QuietStep

\* Every Unlock on the way is of the lock that the label's region ends with.
LEMMA UnlockSteps ==
  ASSUME LockerInv, TypeOK', NEW c \in Clients,
         AcquireUnlocks(c) \/ ReleaseUnlocks(c) \/ ReleaseReturns(c)
  PROVE  LockerInv'
<1>h. HandlesOK
  BY DEF HandlesOK, LockerInv, TypeOK
<1>1. PICK s \in Slots : Unlock(c, s) /\ ClosedBy(c, s, pc'[c])
  BY SlotNames DEF AcquireUnlocks, ReleaseUnlocks, ReleaseReturns, ClosedBy, Step,
     Return, LockerInv, TypeOK
<1>2. Becomes(c, s, Closed)
  BY <1>1, <1>h, HandleEffects
<1>3. /\ Alone(c) /\ UNCHANGED disk
      /\ key'[c] = IF pc'[c] = "idle" THEN NoKey ELSE key[c]
  BY <1>2 DEF AcquireUnlocks, ReleaseUnlocks, ReleaseReturns, Step, Return, Alone,
     Becomes, LockerInv, TypeOK
<1>4. Shape(c)'
  BY <1>1, <1>2, <1>3, ClosedShape DEF LockerInv
<1>5. ~Enters(c, GlobalLabels) /\ ~Enters(c, DirLabels) /\ ~Enters(c, LastLabels)
  BY <1>1, <1>3 DEF ClosedBy, Enters, GlobalLabels, DirLabels, LastLabels
<1>6. \/ handle'[c]["readLock"].mode = "none"
      \/ handle'[c]["readLock"].mode = handle[c]["readLock"].mode /\ key'[c] = key[c]
  <2>1. CASE pc'[c] = "idle"
    BY <2>1, <1>4 DEF Shape, ReadShape, Closed, ReadLabels, ReleasingLabels,
       HoldingLabels
  <2>2. CASE pc'[c] # "idle"
    BY <2>2, <1>2, <1>3, SlotNames DEF Becomes, Closed
  <2> QED
    BY <2>1, <2>2
<1> QED
  BY <1>3, <1>4, <1>5, <1>6, QuietStep

\* The global lock lets in nobody while somebody has it.
LEMMA LockRootStep ==
  ASSUME LockerInv, TypeOK', NEW c \in Clients, LockRoot(c)
  PROVE  LockerInv'
<1>h. HandlesOK
  BY DEF HandlesOK, LockerInv, TypeOK
<1>1. /\ Becomes(c, "globalLock", Held(Root, "exclusive"))
      /\ Opened(c, "globalLock", Held(Root, "exclusive"))
  BY <1>h, HandleEffects, SlotNames DEF LockRoot, Opened, Step, LockerInv, TypeOK
<1>2. Alone(c) /\ UNCHANGED disk /\ key'[c] = key[c]
  BY <1>1 DEF LockRoot, Step, Alone, Becomes, LockerInv, TypeOK
<1>3. Shape(c)'
  BY <1>1, <1>2, OpenedShape DEF LockerInv
<1>4. ASSUME NEW d \in Clients \ {c} PROVE pc[d] \notin GlobalLabels
  <2>1. ~Blocked(c, "globalLock", Root, "exclusive")
    BY DEF LockRoot, OpenAndLock
  <2>2. ~(handle[d]["globalLock"].ino = Root /\ handle[d]["globalLock"].mode # "none")
    BY <2>1, <1>h, SlotNames DEF Blocked, Incompatible, HandlesOK
  <2> QED
    BY <2>2 DEF LockerInv, Shape, GlobalShape, Held
<1>5. GlobalExclusion'
  BY <1>2, <1>4 DEF GlobalExclusion, Alone, LockerInv
<1>6. pc'[c] \notin DirLabels \cup LastLabels
  BY <1>1 DEF Opened, DirLabels, LastLabels
<1>7. DirExclusion'
  BY <1>2, <1>6 DEF DirExclusion, Alone, LockerInv
<1>8. LastHolder'
  BY <1>1, <1>2, <1>6, SlotNames DEF LastHolder, LastLabels, Alone, Becomes, LockerInv
<1>9. \A d \in Clients \ {c} : Shape(d)'
  BY <1>2, OthersKeepShape
<1> QED
  BY <1>3, <1>5, <1>7, <1>8, <1>9 DEF LockerInv

\* A directory lock lets in nobody who would work on the same entry.
LEMMA LockDirStep ==
  ASSUME LockerInv, TypeOK', NEW c \in Clients, LockDir(c)
  PROVE  LockerInv'
<1>h. HandlesOK
  BY DEF HandlesOK, LockerInv, TypeOK
<1>0. /\ pc[c] \in {"flockDir", "rFlockDir"}
      /\ handle[c]["dirLock"] = Held(entry[key[c]], "none")
      /\ entry[key[c]] # NoInode
  BY DEF LockDir, Step, LockerInv, Shape, DirShape
<1>1. Becomes(c, "dirLock", Held(entry[key[c]], "exclusive"))
  <2>1. Becomes(c, "dirLock", Held(handle[c]["dirLock"].ino, "exclusive"))
    BY <1>h, HandleEffects, SlotNames DEF LockDir
  <2> QED
    BY <2>1, <1>0 DEF Held
<1>2. Opened(c, "dirLock", Held(entry[key[c]], "exclusive"))
  BY DEF LockDir, Opened, Step, LockerInv, TypeOK
<1>3. Alone(c) /\ UNCHANGED disk /\ key'[c] = key[c]
  BY <1>1 DEF LockDir, Step, Alone, Becomes, LockerInv, TypeOK
<1>4. Shape(c)'
  BY <1>1, <1>2, <1>3, OpenedShape DEF LockerInv
<1>5. ASSUME NEW d \in Clients \ {c}, key[d] = key[c] PROVE pc[d] \notin DirLabels
  <2>1. ~Blocked(c, "dirLock", entry[key[c]], "exclusive")
    BY <1>0 DEF LockDir, TakeLock, Held
  <2>2. ~(/\ handle[d]["dirLock"].ino = entry[key[c]]
          /\ handle[d]["dirLock"].mode = "exclusive")
    BY <2>1, <1>h, SlotNames DEF Blocked, Incompatible, HandlesOK
  <2>3. DirShape(d)
    BY DEF LockerInv, Shape
  <2> QED
    BY <2>2, <2>3, <1>0, <1>5 DEF DirShape, Held
<1>6. DirExclusion'
  BY <1>3, <1>5 DEF DirExclusion, Alone, LockerInv
<1>7. ~Enters(c, GlobalLabels) /\ pc'[c] \notin LastLabels
  BY <1>0, <1>2, <1>3 DEF Enters, Opened, GlobalLabels, LastLabels
<1>8. GlobalExclusion'
  BY <1>3, <1>7 DEF GlobalExclusion, Enters, Alone, LockerInv
<1>9. LastHolder'
  BY <1>1, <1>3, <1>7, SlotNames DEF LastHolder, LastLabels, Alone, Becomes, LockerInv
<1>10. \A d \in Clients \ {c} : Shape(d)'
  BY <1>3, OthersKeepShape
<1> QED
  BY <1>4, <1>6, <1>8, <1>9, <1>10 DEF LockerInv

\* A new read lock finds no last holder at work: the directory lock keeps it out.
LEMMA ReadLockStep ==
  ASSUME LockerInv, TypeOK', NEW c \in Clients, ReadLockFile(c)
  PROVE  LockerInv'
<1>h. HandlesOK
  BY DEF HandlesOK, LockerInv, TypeOK
<1>0. /\ pc[c] = "flockFile" /\ key[c] \in Keys
      /\ handle[c]["readLock"] = Held(lockFile[key[c]], "none")
      /\ lockFile[key[c]] # NoInode
  BY DEF ReadLockFile, Step, LockerInv, TypeOK, Shape, ReadShape, KeyShape
<1>1. Becomes(c, "readLock", Held(lockFile[key[c]], "shared"))
  <2>1. Becomes(c, "readLock", Held(handle[c]["readLock"].ino, "shared"))
    BY <1>h, HandleEffects, SlotNames DEF ReadLockFile
  <2> QED
    BY <2>1, <1>0 DEF Held
<1>2. Opened(c, "readLock", Held(lockFile[key[c]], "shared"))
  BY <1>0 DEF ReadLockFile, Opened, Step, LockerInv, TypeOK
<1>3. Alone(c) /\ UNCHANGED disk /\ key'[c] = key[c]
  BY <1>1 DEF ReadLockFile, Step, Alone, Becomes, LockerInv, TypeOK
<1>4. Shape(c)'
  BY <1>1, <1>2, <1>3, OpenedShape DEF LockerInv
<1>5. ~Enters(c, GlobalLabels) /\ ~Enters(c, DirLabels) /\ pc'[c] \notin LastLabels
  BY <1>0, <1>2, <1>3 DEF Enters, Opened, GlobalLabels, DirLabels, LastLabels
<1>6. GlobalExclusion'
  BY <1>3, <1>5 DEF GlobalExclusion, Enters, Alone, LockerInv
<1>7. DirExclusion'
  BY <1>3, <1>5 DEF DirExclusion, Enters, Alone, LockerInv
<1>8. LastHolder'
  <2> SUFFICES ASSUME NEW a \in Clients, NEW d \in Clients, a # d, key'[a] = key'[d],
                      pc'[a] \in LastLabels
               PROVE  handle'[d]["readLock"].mode = "none"
    BY DEF LastHolder, LastLabels
  <2>1. a # c /\ pc[a] = pc'[a] /\ key[a] = key'[a]
    BY <1>3, <1>5 DEF Alone
  <2>2. CASE d = c
    <3>1. pc[a] \in DirLabels /\ pc[c] \in DirLabels /\ key[a] = key[c]
      BY <2>1, <2>2, <1>0, <1>3 DEF DirLabels, LastLabels
    <3> QED
      BY <3>1, <2>1 DEF DirExclusion, LockerInv
  <2>3. CASE d # c
    BY <2>1, <2>3, <1>3 DEF Alone, LastHolder, LastLabels, LockerInv
  <2> QED
    BY <2>2, <2>3
<1>9. \A d \in Clients \ {c} : Shape(d)'
  BY <1>3, OthersKeepShape
<1> QED
  BY <1>4, <1>6, <1>7, <1>8, <1>9 DEF LockerInv

\* TryLock is granted to the last holder only: everybody else's read lock on the
\* key is on the file it opens.
LEMMA TryLockStep ==
  ASSUME LockerInv, TypeOK', NEW c \in Clients, TryLock(c)
  PROVE  LockerInv'
<1>h. HandlesOK
  BY DEF HandlesOK, LockerInv, TypeOK
<1>0. /\ pc[c] = "rTryLock"
      /\ handle[c]["exclusiveLock"] = Held(lockFile[key[c]], "none")
  BY DEF TryLock, Step, LockerInv, Shape, ExclusiveShape
<1>1. CASE Step(c, "rTryLock", "rUnlockDir") /\ Unlock(c, "exclusiveLock")
  <2>1. Becomes(c, "exclusiveLock", Closed)
    BY <1>1, <1>h, HandleEffects, SlotNames
  <2>2. Alone(c) /\ UNCHANGED disk /\ key'[c] = key[c] /\ pc'[c] = "rUnlockDir"
    BY <1>1, <2>1 DEF TryLock, Step, Alone, Becomes, LockerInv, TypeOK
  <2>3. Shape(c)'
    BY <1>0, <2>1, <2>2, ClosedShape DEF ClosedBy, LockerInv
  <2>4. ~Enters(c, GlobalLabels) /\ ~Enters(c, DirLabels) /\ ~Enters(c, LastLabels)
    BY <1>0, <2>2 DEF Enters, GlobalLabels, DirLabels, LastLabels
  <2>5. handle'[c]["readLock"].mode = handle[c]["readLock"].mode
    BY <2>1, SlotNames DEF Becomes
  <2> QED
    BY <2>2, <2>3, <2>4, <2>5, QuietStep
<1>2. CASE /\ Step(c, "rTryLock", "rCleanup")
           /\ TakeLock(c, "exclusiveLock", "exclusive")
  <2>1. Becomes(c, "exclusiveLock", Held(lockFile[key[c]], "exclusive"))
    <3>1. Becomes(c, "exclusiveLock", Held(handle[c]["exclusiveLock"].ino, "exclusive"))
      BY <1>2, <1>h, HandleEffects, SlotNames
    <3> QED
      BY <3>1, <1>0 DEF Held
  <2>2. Alone(c) /\ UNCHANGED disk /\ key'[c] = key[c] /\ pc'[c] = "rCleanup"
    BY <1>2, <2>1 DEF TryLock, Step, Alone, Becomes, LockerInv, TypeOK
  <2>3. Shape(c)'
    <3>1. Opened(c, "exclusiveLock", Held(lockFile[key[c]], "exclusive"))
      BY <1>0, <2>2 DEF Opened
    <3> QED
      BY <3>1, <2>1, <2>2, OpenedShape DEF LockerInv
  <2>4. ~Enters(c, GlobalLabels) /\ ~Enters(c, DirLabels)
    BY <1>0, <2>2 DEF Enters, GlobalLabels, DirLabels
  <2>5. GlobalExclusion'
    BY <2>2, <2>4 DEF GlobalExclusion, Enters, Alone, LockerInv
  <2>6. DirExclusion'
    BY <2>2, <2>4 DEF DirExclusion, Enters, Alone, LockerInv
  <2>7. ASSUME NEW d \in Clients \ {c}, key[d] = key[c]
        PROVE  handle[d]["readLock"].mode = "none"
    <3>1. ~Blocked(c, "exclusiveLock", lockFile[key[c]], "exclusive")
      BY <1>0, <1>2 DEF TakeLock, Held
    <3>2. \/ handle[d]["readLock"].ino # lockFile[key[c]]
          \/ handle[d]["readLock"].mode = "none"
      BY <3>1, <1>h, SlotNames DEF Blocked, Incompatible, HandlesOK
    <3>3. ReadShape(d)
      BY DEF LockerInv, Shape
    <3> QED
      BY <3>2, <3>3, <2>7 DEF ReadShape, Held, Closed
  <2>8. handle[c]["readLock"].mode = "none" /\ pc[c] \notin LastLabels
    BY <1>0 DEF LockerInv, Shape, ReadShape, Closed, ReadLabels, ReleasingLabels,
       HoldingLabels, LastLabels
  <2>9. LastHolder'
    <3> SUFFICES ASSUME NEW a \in Clients, NEW d \in Clients, a # d,
                        key'[a] = key'[d], pc'[a] \in LastLabels
                 PROVE  handle'[d]["readLock"].mode = "none"
      BY DEF LastHolder, LastLabels
    <3>1. key[a] = key[d] /\ handle'[d]["readLock"] = handle[d]["readLock"]
      BY <2>1, <2>2, SlotNames DEF Alone, Becomes
    <3>2. CASE a = c
      BY <3>1, <3>2, <2>7
    <3>3. CASE a # c
      BY <3>1, <3>3, <2>2 DEF Alone, LastHolder, LastLabels, LockerInv
    <3> QED
      BY <3>2, <3>3
  <2>10. \A d \in Clients \ {c} : Shape(d)'
    BY <2>2, OthersKeepShape
  <2> QED
    BY <2>3, <2>5, <2>6, <2>9, <2>10 DEF LockerInv
<1> QED
  BY <1>1, <1>2 DEF TryLock

\* A step of c on the disk alone.  The others keep their shapes when c is the
\* one that may work on its entry, and what they rely on stays.
LEMMA DiskStep ==
  ASSUME LockerInv, TypeOK', NEW c \in Clients, Alone(c), UNCHANGED handle,
         key'[c] = key[c], Shape(c)', \A d \in Clients \ {c} : Shape(d)',
         ~Enters(c, GlobalLabels), ~Enters(c, DirLabels), ~Enters(c, LastLabels)
  PROVE  LockerInv'
<1>1. Exclusions'
  BY ExclusionsStay
<1> QED
  BY <1>1 DEF LockerInv, Exclusions

\* MkdirAll is under the global lock, and changes nothing for an entry in use.
LEMMA MakeEntryStep ==
  ASSUME LockerInv, TypeOK', NEW c \in Clients, MakeEntry(c)
  PROVE  LockerInv'
<1>1. /\ pc[c] = "mkdir" /\ pc'[c] = "openDir" /\ key'[c] = key[c] /\ Alone(c)
      /\ UNCHANGED <<handle, lockFile, resource>>
  BY DEF MakeEntry, Step, Alone, LockerInv, TypeOK
<1>2. /\ \A k \in Keys : k # key[c] \/ entry[key[c]] # NoInode => entry'[k] = entry[k]
      /\ entry'[key[c]] # NoInode
  <2>1. key[c] \in Keys /\ entry \in [Keys -> Inodes \cup {NoInode}]
    BY <1>1 DEF LockerInv, TypeOK, Shape, KeyShape
  <2> QED
    BY <2>1, NoInodeAssumption DEF MakeEntry
<1>3. Shape(c)'
  <2>1. Shape(c)
    BY DEF LockerInv
  <2> QED
    BY <1>1, <2>1 DEF Shape, KeyShape, GlobalShape, DirShape, ReadShape,
     ExclusiveShape, ResourceShape, Held, Closed, GlobalLabels, DirLabels, ReadLabels,
     ReleasingLabels, HoldingLabels
<1>4. ASSUME NEW d \in Clients \ {c} PROVE Shape(d)'
  <2>1. Shape(d) /\ pc[d] \notin GlobalLabels /\ (pc[d] = "idle" \/ key[d] \in Keys)
    BY <1>1 DEF LockerInv, GlobalExclusion, GlobalLabels, TypeOK, Shape, KeyShape
  <2>2. pc'[d] = pc[d] /\ key'[d] = key[d] /\ handle'[d] = handle[d]
    BY <1>1 DEF Alone
  <2>3. CASE key[d] \in Keys /\ entry'[key[d]] = entry[key[d]]
    BY <1>1, <2>1, <2>2, <2>3 DEF Shape, KeyShape, GlobalShape, DirShape, ReadShape,
     ExclusiveShape, ResourceShape, Held, Closed, GlobalLabels, DirLabels, ReadLabels,
     ReleasingLabels, HoldingLabels
  <2>4. CASE pc[d] = "idle"
    BY <1>1, <2>1, <2>2, <2>4 DEF Shape, KeyShape, GlobalShape, DirShape, ReadShape,
     ExclusiveShape, ResourceShape, Held, Closed, GlobalLabels, DirLabels, ReadLabels,
     ReleasingLabels, HoldingLabels
  <2>5. CASE key[d] = key[c] /\ entry[key[d]] = NoInode
    BY <1>1, <2>1, <2>2, <2>5 DEF Shape, KeyShape, GlobalShape, DirShape, ReadShape,
     ExclusiveShape, ResourceShape, Held, Closed, GlobalLabels, DirLabels, ReadLabels,
     ReleasingLabels, HoldingLabels
  <2> QED
    BY <1>2, <2>1, <2>3, <2>4, <2>5
<1>5. ~Enters(c, GlobalLabels) /\ ~Enters(c, DirLabels) /\ ~Enters(c, LastLabels)
  BY <1>1 DEF Enters, GlobalLabels, DirLabels, LastLabels
<1> QED
  BY <1>1, <1>3, <1>4, <1>5, DiskStep

\* Clients that do not work on the entry of c, and either have no read lock on
\* it or lose nothing of what it protects.
LEMMA OthersUnderDirLock ==
  ASSUME LockerInv, TypeOK', NEW c \in Clients, NEW d \in Clients \ {c}, Alone(c),
         pc[c] \in DirLabels,
         \A k \in Keys \ {key[c]} : /\ entry'[k] = entry[k]
                                    /\ lockFile'[k] = lockFile[k]
                                    /\ resource'[k] = resource[k],
         \/ entry' = entry
         \/ pc[c] \in GlobalLabels,
         \/ handle[d]["readLock"].mode = "none"
         \/ key[d] # key[c]
         \/ /\ entry' = entry
            /\ lockFile[key[d]] # NoInode => lockFile'[key[d]] = lockFile[key[d]]
            /\ resource[key[d]] = "ready" => resource'[key[d]] = "ready"
  PROVE  Shape(d)'
<1>1. /\ Shape(d) /\ (pc[d] = "idle" \/ key[d] \in Keys)
      /\ key[d] = key[c] => pc[d] \notin DirLabels
      /\ pc[c] \in GlobalLabels => pc[d] \notin GlobalLabels
  BY DEF LockerInv, DirExclusion, GlobalExclusion, TypeOK, Shape, KeyShape
<1>2. pc'[d] = pc[d] /\ key'[d] = key[d] /\ handle'[d] = handle[d]
  BY DEF Alone
<1> USE <1>1, <1>2 DEF Shape, KeyShape, GlobalShape, DirShape, ReadShape,
     ExclusiveShape, ResourceShape, Held, Closed, GlobalLabels, DirLabels, ReadLabels,
     ReleasingLabels, HoldingLabels
<1>3. CASE pc[d] = "idle"
  BY <1>3
<1>4. CASE key[d] \in Keys /\ key[d] # key[c]
  <2>1. /\ entry'[key[d]] = entry[key[d]] /\ lockFile'[key[d]] = lockFile[key[d]]
        /\ resource'[key[d]] = resource[key[d]]
    BY <1>4
  <2> QED
    BY <2>1
<1>5. CASE key[d] = key[c] /\ entry' = entry /\ handle[d]["readLock"].mode = "none"
  BY <1>5
<1>6. CASE /\ key[d] = key[c] /\ entry' = entry
           /\ lockFile[key[d]] # NoInode => lockFile'[key[d]] = lockFile[key[d]]
           /\ resource[key[d]] = "ready" => resource'[key[d]] = "ready"
  BY <1>6
<1>7. CASE /\ key[d] = key[c] /\ pc[c] \in GlobalLabels
           /\ handle[d]["readLock"].mode = "none"
  BY <1>7
<1> QED
  BY <1>1, <1>3, <1>4, <1>5, <1>6, <1>7

\* touchLockFile and the factory: what is there stays there.
LEMMA BuildSteps ==
  ASSUME LockerInv, TypeOK', NEW c \in Clients,
         TouchLockFile(c) \/ FactoryCall(c) \/ FactoryReturns(c)
  PROVE  LockerInv'
<1>0. /\ pc[c] \in {"touch", "factory", "inFactory"} /\ key[c] \in Keys
      /\ entry \in [Keys -> Inodes \cup {NoInode}]
      /\ lockFile \in [Keys -> Inodes \cup {NoInode}]
      /\ resource \in [Keys -> ResourceState]
  BY DEF TouchLockFile, FactoryCall, FactoryReturns, Step, LockerInv, TypeOK, Shape,
     KeyShape
<1>1. /\ key'[c] = key[c] /\ Alone(c) /\ UNCHANGED <<handle, entry>>
      /\ <<pc[c], pc'[c]>> \in {<<"touch", "openFile">>, <<"factory", "inFactory">>,
                                <<"inFactory", "unlockDir">>}
  BY DEF TouchLockFile, FactoryCall, FactoryReturns, Step, Alone, LockerInv, TypeOK
<1>2. /\ \A k \in Keys \ {key[c]} : /\ lockFile'[k] = lockFile[k]
                                    /\ resource'[k] = resource[k]
      /\ lockFile[key[c]] # NoInode => lockFile'[key[c]] = lockFile[key[c]]
      /\ resource[key[c]] = "ready" => resource'[key[c]] = "ready"
  BY <1>0 DEF TouchLockFile, FactoryCall, FactoryReturns
<1>3. pc[c] = "inFactory" => resource'[key[c]] = "ready"
  BY <1>0 DEF TouchLockFile, FactoryCall, FactoryReturns, Step
<1>4. Shape(c)'
  <2>1. Shape(c)
    BY DEF LockerInv
  <2> QED
    BY <1>1, <1>2, <1>3, <2>1 DEF Shape, KeyShape, GlobalShape, DirShape, ReadShape,
       ExclusiveShape, ResourceShape, Held, Closed, GlobalLabels, DirLabels, ReadLabels,
       ReleasingLabels, HoldingLabels
<1>5. ASSUME NEW d \in Clients \ {c} PROVE Shape(d)'
  BY <1>0, <1>1, <1>2, OthersUnderDirLock DEF DirLabels
<1>6. ~Enters(c, GlobalLabels) /\ ~Enters(c, DirLabels) /\ ~Enters(c, LastLabels)
  BY <1>1 DEF Enters, GlobalLabels, DirLabels, LastLabels
<1> QED
  BY <1>1, <1>4, <1>5, <1>6, DiskStep

\* Cleanup and RemoveAll: whatever goes, nobody else has a lock that protects it.
LEMMA DestroySteps ==
  ASSUME LockerInv, TypeOK', NEW c \in Clients,
         CleanUp(c) \/ RemoveChild(c) \/ RemoveDir(c)
  PROVE  LockerInv'
<1>0. /\ pc[c] \in {"rCleanup", "rRemoveAll"} /\ key[c] \in Keys
      /\ entry \in [Keys -> Inodes \cup {NoInode}]
      /\ lockFile \in [Keys -> Inodes \cup {NoInode}]
      /\ resource \in [Keys -> ResourceState]
  BY DEF CleanUp, RemoveChild, RemoveDir, Step, LockerInv, TypeOK, Shape, KeyShape
<1>1. /\ key'[c] = key[c] /\ Alone(c) /\ UNCHANGED handle
      /\ \/ <<pc[c], pc'[c]>> = <<"rCleanup", "rUnlockExcl">> /\ UNCHANGED <<entry, lockFile>>
         \/ <<pc[c], pc'[c]>> = <<"rRemoveAll", "rRemoveAll">> /\ UNCHANGED entry
         \/ <<pc[c], pc'[c]>> = <<"rRemoveAll", "rUnlockDir">> /\ entry'[key[c]] = NoInode
  BY <1>0 DEF CleanUp, RemoveChild, RemoveDir, Step, Alone, LockerInv, TypeOK
<1>2. \A k \in Keys \ {key[c]} : /\ entry'[k] = entry[k]
                                 /\ lockFile'[k] = lockFile[k]
                                 /\ resource'[k] = resource[k]
  BY <1>0 DEF CleanUp, RemoveChild, RemoveDir
<1>3. Shape(c)'
  <2>1. Shape(c)
    BY DEF LockerInv
  <2> QED
    BY <1>1, <2>1 DEF Shape, KeyShape, GlobalShape, DirShape, ReadShape,
       ExclusiveShape, ResourceShape, Held, Closed, GlobalLabels, DirLabels, ReadLabels,
       ReleasingLabels, HoldingLabels
<1>4. ASSUME NEW d \in Clients \ {c} PROVE Shape(d)'
  <2>1. handle[d]["readLock"].mode = "none" \/ key[d] # key[c]
    BY <1>0 DEF LastHolder, LockerInv
  <2>2. pc[c] \in DirLabels /\ pc[c] \in GlobalLabels
    BY <1>0 DEF DirLabels, GlobalLabels
  <2> QED
    BY <1>1, <1>2, <2>1, <2>2, OthersUnderDirLock
<1>5. ~Enters(c, GlobalLabels) /\ ~Enters(c, DirLabels) /\ ~Enters(c, LastLabels)
  BY <1>1 DEF Enters, GlobalLabels, DirLabels, LastLabels
<1> QED
  BY <1>1, <1>3, <1>4, <1>5, DiskStep

\* Errors unwind what was locked, and a crash closes everything.
LEMMA ErrorSteps ==
  ASSUME LockerInv, TypeOK', NEW c \in Clients, PathMissing(c) \/ CallFails(c)
  PROVE  LockerInv'
<1>h. HandlesOK
  BY DEF HandlesOK, LockerInv, TypeOK
<1>1. CASE pc[c] \in DOMAIN OpenedBy /\ Unlock(c, OpenedBy[pc[c]])
           /\ Step(c, pc[c], OnError[pc[c]])
  <2>1. OpenedBy[pc[c]] \in Slots /\ ClosedBy(c, OpenedBy[pc[c]], pc'[c]) /\ pc'[c] # "idle"
    BY <1>1 DEF OpenedBy, OnError, Slots, ClosedBy, Step, LockerInv, TypeOK
  <2>2. Becomes(c, OpenedBy[pc[c]], Closed)
    BY <1>1, <2>1, <1>h, HandleEffects
  <2>3. Alone(c) /\ UNCHANGED disk /\ key'[c] = key[c]
    BY <1>1, <2>2 DEF PathMissing, CallFails, Step, Alone, Becomes, LockerInv, TypeOK
  <2>4. Shape(c)'
    BY <2>1, <2>2, <2>3, ClosedShape DEF LockerInv
  <2>5. ~Enters(c, GlobalLabels) /\ ~Enters(c, DirLabels) /\ ~Enters(c, LastLabels)
    BY <2>1, <2>3 DEF ClosedBy, Enters, GlobalLabels, DirLabels, LastLabels
  <2>6. \/ handle'[c]["readLock"].mode = "none"
        \/ handle'[c]["readLock"].mode = handle[c]["readLock"].mode
    BY <2>2, SlotNames DEF Becomes, Closed
  <2> QED
    BY <2>3, <2>4, <2>5, <2>6, QuietStep
<1>2. CASE /\ pc[c] \in DOMAIN OnError \ DOMAIN OpenedBy /\ UNCHANGED handle
           /\ Step(c, pc[c], OnError[pc[c]])
  <2>1. Alone(c) /\ UNCHANGED <<handle, disk>> /\ key'[c] = key[c]
    BY <1>2 DEF PathMissing, CallFails, Step, Alone, LockerInv, TypeOK
  <2>2. <<pc[c], pc'[c]>> \in
          {<<"mkdir", "failRoot">>, <<"openDir", "failRoot">>, <<"touch", "failDir">>,
           <<"openFile", "failDir">>, <<"factory", "failRead">>,
           <<"inFactory", "failRead">>, <<"rLockRoot", "rFailRead">>,
           <<"rOpenDir", "rFailRoot">>, <<"rOpenFile", "rUnlockDir">>,
           <<"rRemoveAll", "rUnlockDir">>}
    BY <1>2 DEF OnError, OpenedBy, Step, LockerInv, TypeOK
  <2>3. Shape(c)'
    <3>1. Shape(c)
      BY DEF LockerInv
    <3> QED
      BY <2>1, <2>2, <3>1 DEF disk, Shape, KeyShape, GlobalShape, DirShape, ReadShape,
         ExclusiveShape, ResourceShape, Held, Closed, GlobalLabels, DirLabels, ReadLabels,
         ReleasingLabels, HoldingLabels
  <2>4. ~Enters(c, GlobalLabels) /\ ~Enters(c, DirLabels) /\ ~Enters(c, LastLabels)
    BY <2>1, <2>2 DEF Enters, GlobalLabels, DirLabels, LastLabels
  <2> QED
    BY <2>1, <2>3, <2>4, QuietStep
<1>3. CASE Return(c, "lockRoot") /\ UNCHANGED handle /\ UNCHANGED disk
  <2>1. Alone(c) /\ UNCHANGED <<handle, disk>> /\ key'[c] = NoKey
        /\ pc[c] = "lockRoot" /\ pc'[c] = "idle"
    BY <1>3 DEF Return, Alone, LockerInv, TypeOK
  <2>2. Shape(c)'
    <3>1. Shape(c)
      BY DEF LockerInv
    <3> QED
      BY <2>1, <3>1 DEF disk, Shape, KeyShape, GlobalShape, DirShape, ReadShape,
         ExclusiveShape, ResourceShape, Held, Closed, GlobalLabels, DirLabels, ReadLabels,
         ReleasingLabels, HoldingLabels
  <2>3. ~Enters(c, GlobalLabels) /\ ~Enters(c, DirLabels) /\ ~Enters(c, LastLabels)
    BY <2>1 DEF Enters, GlobalLabels, DirLabels, LastLabels
  <2>4. handle'[c]["readLock"].mode = "none"
    BY <2>1, <2>2 DEF Shape, ReadShape, Closed, ReadLabels, ReleasingLabels, HoldingLabels
  <2> QED
    BY <2>1, <2>2, <2>3, <2>4, QuietStep
<1>4. CASE PathMissing(c)
  <2>1. pc[c] \in DOMAIN OnError \ DOMAIN OpenedBy
    BY <1>4 DEF PathMissing, OnError, OpenedBy
  <2> QED
    BY <1>2, <1>4, <2>1 DEF PathMissing
<1>5. CASE CallFails(c)
  BY <1>1, <1>2, <1>3, <1>5 DEF CallFails
<1> QED
  BY <1>4, <1>5

LEMMA CrashStep ==
  ASSUME LockerInv, TypeOK', NEW c \in Clients, Crash(c)
  PROVE  LockerInv'
<1>1. /\ \A s \in Slots : handle'[c][s] = Closed
      /\ Alone(c) /\ UNCHANGED disk /\ pc'[c] = "idle" /\ key'[c] = NoKey
  BY DEF Crash, Return, CloseAll, Alone, LockerInv, TypeOK
<1>2. Shape(c)'
  BY <1>1, SlotNames DEF Shape, KeyShape, GlobalShape, DirShape, ReadShape,
     ExclusiveShape, ResourceShape, Held, Closed, GlobalLabels, DirLabels, ReadLabels,
     ReleasingLabels, HoldingLabels
<1>3. ~Enters(c, GlobalLabels) /\ ~Enters(c, DirLabels) /\ ~Enters(c, LastLabels)
  BY <1>1 DEF Enters, GlobalLabels, DirLabels, LastLabels
<1>4. handle'[c]["readLock"].mode = "none"
  BY <1>1, SlotNames DEF Closed
<1> QED
  BY <1>1, <1>2, <1>3, <1>4, QuietStep

-----------------------------------------------------------------------------
(* The invariant and what follows from it                                  *)

LEMMA InvInit == Init => LockerInv
  BY DEF Init, LockerInv, TypeOK, Labels, Handle, Mode, ResourceState, GlobalExclusion,
     DirExclusion, LastHolder, Shape, KeyShape, GlobalShape, DirShape, ReadShape,
     ExclusiveShape, ResourceShape, Slots, Closed, GlobalLabels, DirLabels, ReadLabels,
     ReleasingLabels, HoldingLabels

LEMMA InvStep == LockerInv /\ [Next]_vars => LockerInv'
<1> SUFFICES ASSUME LockerInv, [Next]_vars PROVE LockerInv'
  OBVIOUS
<1>1. TypeOK'
  BY TypeStep DEF LockerInv, KeysOK, Shape
<1>2. CASE UNCHANGED vars
  BY <1>2 DEF vars, disk, LockerInv, TypeOK, GlobalExclusion, DirExclusion, LastHolder,
     Shape, KeyShape, GlobalShape, DirShape, ReadShape, ExclusiveShape, ResourceShape
<1>3. ASSUME NEW c \in Clients, NEW k \in Keys, Acquire(c, k) \/ ReleaseAgain(c, k)
      PROVE  LockerInv'
  BY <1>1, <1>3, StartSteps
<1>4. ASSUME NEW c \in Clients, Release(c) PROVE LockerInv'
  <2>1. key[c] \in Keys
    BY <1>4 DEF Release, Step, LockerInv, TypeOK, Shape, KeyShape
  <2> QED
    BY <1>1, <1>4, <2>1, StartSteps
<1>5. ASSUME NEW c \in Clients, LockRoot(c) PROVE LockerInv'
  BY <1>1, <1>5, LockRootStep
<1>6. ASSUME NEW c \in Clients, Progress(c) PROVE LockerInv'
  BY <1>1, <1>6, MakeEntryStep, OpenSteps, LockDirStep, BuildSteps, ReadLockStep,
     UnlockSteps, TryLockStep, DestroySteps, ErrorSteps DEF Progress
<1>7. ASSUME NEW c \in Clients, CallFails(c) PROVE LockerInv'
  BY <1>1, <1>7, ErrorSteps
<1>8. ASSUME NEW c \in Clients, Crash(c) PROVE LockerInv'
  BY <1>1, <1>8, CrashStep
<1> QED
  BY <1>2, <1>3, <1>4, <1>5, <1>6, <1>7, <1>8 DEF Next

\* LockerInv: at every step each client has exactly the locks its label says,
\* and each of the three locks excludes whom it should.
THEOREM InvariantHolds == Spec => []LockerInv
  BY InvInit, InvStep, PTL DEF Spec

\* LastHolder: cleanup and RemoveAll run only when nobody else has a read lock.
THEOREM LastHolderHolds == Spec => []LastHolder
<1>1. LockerInv => LastHolder
  BY DEF LockerInv
<1> QED
  BY <1>1, InvariantHolds, PTL

\* HolderProtected: a resource that Acquire has handed out stays complete, and its
\* lock file and directory stay at their paths, until its holder releases.
THEOREM HolderProtectedHolds == Spec => []HolderProtected
<1>1. LockerInv => HolderProtected
  <2> SUFFICES ASSUME LockerInv, NEW k \in Keys, NEW c \in Holders(k)
               PROVE  /\ resource[k] = "ready" /\ entry[k] # NoInode
                      /\ handle[c]["readLock"].ino = lockFile[k]
    BY DEF HolderProtected
  <2>1. c \in Clients /\ key[c] = k /\ pc[c] \in HoldingLabels
        /\ handle[c]["readLock"].mode = "shared"
    BY DEF Holders
  <2>2. ReadShape(c) /\ ResourceShape(c)
    BY <2>1 DEF LockerInv, Shape
  <2> QED
    BY <2>1, <2>2 DEF ReadShape, ResourceShape, ReadLabels, ReleasingLabels,
       HoldingLabels, Held, Closed
<1> QED
  BY <1>1, InvariantHolds, PTL

\* EntryExclusive: factories, cleanups and removals of one key never overlap.
THEOREM EntryExclusiveHolds == Spec => []EntryExclusive
<1>1. LockerInv => EntryExclusive
  BY DEF LockerInv, DirExclusion, EntryExclusive, DirLabels, WorkingLabels
<1> QED
  BY <1>1, InvariantHolds, PTL

\* LockedEntryIsCurrent: a directory lock is on the directory at the path.
THEOREM LockedEntryIsCurrentHolds == Spec => []LockedEntryIsCurrent
<1>1. LockerInv => LockedEntryIsCurrent
  <2> SUFFICES ASSUME LockerInv, NEW c \in Clients, pc[c] # "rUnlockDir",
                      handle[c]["dirLock"].mode = "exclusive"
               PROVE  handle[c]["dirLock"].ino = entry[key[c]]
    BY DEF LockedEntryIsCurrent
  <2>1. DirShape(c)
    BY DEF LockerInv, Shape
  <2> QED
    BY <2>1 DEF DirShape, Held, Closed
<1> QED
  BY <1>1, InvariantHolds, PTL

\* NoLockLeft: no return of Acquire or release leaves a lock behind.
THEOREM NoLockLeftHolds == Spec => []NoLockLeft
<1>1. LockerInv => NoLockLeft
  <2> SUFFICES ASSUME LockerInv, NEW c \in Clients
               PROVE  /\ pc[c] = "idle" => \A s \in Slots : handle[c][s] = Closed
                      /\ pc[c] = "holding" =>
                           \A s \in Slots \ {"readLock"} : handle[c][s] = Closed
    BY DEF NoLockLeft
  <2>1. Shape(c)
    BY DEF LockerInv
  <2> QED
    BY <2>1 DEF Slots, Shape, GlobalShape, DirShape, ReadShape, ExclusiveShape,
       GlobalLabels, DirLabels, ReadLabels, ReleasingLabels, HoldingLabels
<1> QED
  BY <1>1, InvariantHolds, PTL

-----------------------------------------------------------------------------
(* Locker implements RefCounted                                            *)

Ready == [k \in Keys |-> resource[k] = "ready"]

\* Whether c is among the holders of its key.
IsHolder(c) == pc[c] \in HoldingLabels /\ handle[c]["readLock"].mode = "shared"

LEMMA HoldersAre ==
  \A k \in Keys : Holders(k) = {c \in Clients : key[c] = k /\ IsHolder(c)}
  BY DEF Holders, IsHolder

\* A step that makes nobody a holder, ends nobody's holding and leaves every
\* resource as complete as it was is a stutter of the reference count.
LEMMA StutterStep ==
  ASSUME NEW c \in Clients, Alone(c), Ready' = Ready,
         \/ ~IsHolder(c) /\ ~IsHolder(c)'
         \/ IsHolder(c) /\ IsHolder(c)' /\ key'[c] = key[c]
  PROVE  UNCHANGED Counted!vars
<1>1. \A k \in Keys : Holders(k)' = Holders(k)
  BY DEF Holders, IsHolder, Alone
<1> QED
  BY <1>1 DEF Counted!vars, Ready

\* A holder that stops being one releases.
LEMMA LeaveStep ==
  ASSUME LockerInv, NEW c \in Clients, Alone(c), UNCHANGED resource,
         IsHolder(c), ~IsHolder(c)'
  PROVE  Counted!Next
<1>1. key[c] \in Keys
  BY DEF LockerInv, TypeOK, Shape, KeyShape, IsHolder, HoldingLabels
<1>2. \A k \in Keys : Holders(k)' = IF k = key[c] THEN Holders(k) \ {c} ELSE Holders(k)
  BY DEF Holders, IsHolder, Alone
<1>3. c \in Holders(key[c])
  BY DEF Holders, IsHolder
<1>4. Counted!Release(c, key[c])
  BY <1>1, <1>2, <1>3 DEF Counted!Release
<1> QED
  BY <1>1, <1>4 DEF Counted!Next

\* The factory's return makes its caller a holder of a complete resource.
LEMMA FactoryReturnsIsAcquire ==
  ASSUME LockerInv, NEW c \in Clients, FactoryReturns(c)
  PROVE  Counted!Next
<1>0. /\ key[c] \in Keys /\ pc[c] = "inFactory" /\ Alone(c)
      /\ pc'[c] = "unlockDir" /\ key'[c] = key[c] /\ handle' = handle
  BY DEF FactoryReturns, Step, Alone, LockerInv, TypeOK, Shape, KeyShape
<1>1. ~IsHolder(c) /\ IsHolder(c)'
  <2>1. ReadShape(c)
    BY DEF LockerInv, Shape
  <2> QED
    BY <1>0, <2>1 DEF ReadShape, ReadLabels, IsHolder, HoldingLabels, Held
<1>2. \A k \in Keys : Holders(k)' = IF k = key[c] THEN Holders(k) \cup {c} ELSE Holders(k)
  BY <1>0, <1>1 DEF Holders, IsHolder, Alone
<1>3. c \notin Holders(key[c])
  BY <1>1 DEF Holders, IsHolder
<1>4. \A k \in Keys : resource'[k] = IF k = key[c] THEN "ready" ELSE resource[k]
  BY <1>0 DEF FactoryReturns, LockerInv, TypeOK
<1>5. PICK k \in Keys : k = key[c]
  BY <1>0
<1>6. Counted!Acquire(c, k)
  BY <1>2, <1>3, <1>4, <1>5 DEF Counted!Acquire
<1> QED
  BY <1>6 DEF Counted!Next

\* Cleanup and removal destroy a resource nobody holds.
LEMMA DestroyIsDestroy ==
  ASSUME LockerInv, NEW c \in Clients, CleanUp(c) \/ RemoveChild(c) \/ RemoveDir(c)
  PROVE  [Counted!Next]_(Counted!vars)
<1>0. /\ key[c] \in Keys /\ pc[c] \in LastLabels /\ Alone(c)
      /\ pc'[c] \notin HoldingLabels /\ key'[c] = key[c]
      /\ \A k \in Keys \ {key[c]} : resource'[k] = resource[k]
      /\ resource'[key[c]] # resource[key[c]] => resource'[key[c]] # "ready"
  BY DEF CleanUp, RemoveChild, RemoveDir, Step, Alone, LockerInv, TypeOK, Shape,
     KeyShape, LastLabels, HoldingLabels
<1>1. ~IsHolder(c) /\ ~IsHolder(c)'
  BY <1>0 DEF IsHolder, LastLabels, HoldingLabels
<1>2. \A k \in Keys : Holders(k)' = Holders(k)
  BY <1>0, <1>1 DEF Holders, IsHolder, Alone
<1>3. CASE Ready' = Ready
  BY <1>0, <1>1, <1>3, StutterStep
<1>4. CASE Ready' # Ready
  <2>1. resource[key[c]] = "ready" /\ resource'[key[c]] # "ready"
    BY <1>0, <1>4 DEF Ready
  <2>2. Holders(key[c]) = {}
    <3>1. \A d \in Clients \ {c} : key[d] = key[c] => handle[d]["readLock"].mode = "none"
      BY <1>0 DEF LockerInv, LastHolder, LastLabels
    <3> QED
      BY <1>1, <3>1 DEF Holders, IsHolder
  <2>3. PICK k \in Keys : k = key[c]
    BY <1>0
  <2>4. Counted!Destroy(k)
    BY <1>0, <1>2, <2>1, <2>2, <2>3 DEF Counted!Destroy
  <2> QED
    BY <2>4 DEF Counted!Next
<1> QED
  BY <1>3, <1>4

\* Steps that touch no resource either leave holding as it is or end it.
LEMMA UntouchedIsLeaveOrStutter ==
  ASSUME LockerInv, NEW c \in Clients, Alone(c), UNCHANGED resource,
         IsHolder(c)' => IsHolder(c) /\ key'[c] = key[c]
  PROVE  [Counted!Next]_(Counted!vars)
<1>1. Ready' = Ready
  BY DEF Ready
<1>2. CASE IsHolder(c) /\ ~IsHolder(c)'
  BY <1>2, LeaveStep
<1>3. CASE ~(IsHolder(c) /\ ~IsHolder(c)')
  BY <1>1, <1>3, StutterStep
<1> QED
  BY <1>2, <1>3

\* The steps that lock and unlock: only a step of c, on its own open files.
LEMMA LockStepsAlone ==
  ASSUME LockerInv, NEW c \in Clients,
         \/ LockRoot(c) \/ OpenDir(c) \/ LockDir(c) \/ OpenLockFile(c)
         \/ ReadLockFile(c) \/ OpenForTryLock(c) \/ TryLock(c)
         \/ AcquireUnlocks(c) \/ ReleaseUnlocks(c) \/ ReleaseReturns(c)
  PROVE  Alone(c) /\ UNCHANGED resource
<1> USE DEF Alone, Step, Return, Open, OpenAndLock, TakeLock, Unlock, disk, LockerInv,
        TypeOK
<1>1. CASE LockRoot(c) \/ OpenDir(c) \/ LockDir(c) \/ OpenLockFile(c) \/ ReadLockFile(c)
  BY <1>1 DEF LockRoot, OpenDir, LockDir, OpenLockFile, ReadLockFile
<1>2. CASE OpenForTryLock(c) \/ TryLock(c)
  BY <1>2 DEF OpenForTryLock, TryLock
<1>3. CASE AcquireUnlocks(c) \/ ReleaseUnlocks(c) \/ ReleaseReturns(c)
  BY <1>3 DEF AcquireUnlocks, ReleaseUnlocks, ReleaseReturns
<1> QED
  BY <1>1, <1>2, <1>3

\* Only the factory's return makes a holder.
LEMMA LockStepsMakeNoHolder ==
  ASSUME LockerInv, NEW c \in Clients,
         \/ LockRoot(c) \/ OpenDir(c) \/ LockDir(c) \/ OpenLockFile(c)
         \/ ReadLockFile(c) \/ OpenForTryLock(c) \/ TryLock(c)
         \/ AcquireUnlocks(c) \/ ReleaseUnlocks(c) \/ ReleaseReturns(c)
  PROVE  IsHolder(c)' => IsHolder(c) /\ key'[c] = key[c]
<1>h. HandlesOK
  BY DEF HandlesOK, LockerInv, TypeOK
<1>1. CASE \/ OpenLockFile(c) \/ ReadLockFile(c) \/ OpenForTryLock(c) \/ TryLock(c)
           \/ ReleaseReturns(c)
  <2>1. pc'[c] \notin HoldingLabels
    BY <1>1 DEF OpenLockFile, ReadLockFile, OpenForTryLock, TryLock, ReleaseReturns, Step,
       Return, HoldingLabels, LockerInv, TypeOK
  <2> QED
    BY <2>1 DEF IsHolder
<1>2. CASE LockRoot(c) \/ OpenDir(c) \/ LockDir(c) \/ AcquireUnlocks(c) \/ ReleaseUnlocks(c)
  <2>1. pc'[c] \in HoldingLabels => pc[c] \in HoldingLabels /\ key'[c] = key[c]
    BY <1>2 DEF LockRoot, OpenDir, LockDir, AcquireUnlocks, ReleaseUnlocks, Step, Return,
       HoldingLabels, LockerInv, TypeOK
  <2>2. handle'[c]["readLock"].mode = "shared" => handle[c]["readLock"].mode = "shared"
    <3>1. CASE \/ OpenAndLock(c, "globalLock", Root, "exclusive")
               \/ Open(c, "dirLock", entry[key[c]]) \/ TakeLock(c, "dirLock", "exclusive")
      <4>1. PICK s \in {"globalLock", "dirLock"} : \E h : Becomes(c, s, h)
        BY <3>1, <1>h, HandleEffects, SlotNames
      <4> QED
        BY <4>1, SlotNames DEF Becomes
    <3>2. CASE \E s \in Slots : Unlock(c, s)
      BY <3>2, <1>h, HandleEffects, SlotNames DEF Becomes, Closed
    <3> QED
      BY <1>2, <3>1, <3>2, SlotNames
         DEF LockRoot, OpenDir, LockDir, AcquireUnlocks, ReleaseUnlocks
  <2> QED
    BY <2>1, <2>2 DEF IsHolder
<1> QED
  BY <1>1, <1>2

LEMMA CountedInit == Init => Counted!Init
  BY DEF Init, Counted!Init, Holders, HoldingLabels

LEMMA CountedStep == LockerInv /\ [Next]_vars => [Counted!Next]_(Counted!vars)
<1> SUFFICES ASSUME LockerInv, [Next]_vars PROVE [Counted!Next]_(Counted!vars)
  OBVIOUS
<1>1. CASE UNCHANGED vars
  BY <1>1 DEF vars, disk, Counted!vars, Holders
<1>2. ASSUME NEW c \in Clients,
             \/ \E k \in Keys : Acquire(c, k) \/ ReleaseAgain(c, k)
             \/ Release(c) \/ Crash(c)
      PROVE  [Counted!Next]_(Counted!vars)
  <2>1. Alone(c) /\ UNCHANGED resource
    BY <1>2 DEF Acquire, ReleaseAgain, Release, Crash, Step, Return, CloseAll, Alone, disk,
       LockerInv, TypeOK
  <2>2. IsHolder(c)' => IsHolder(c) /\ key'[c] = key[c]
    <3>1. pc[c] = "idle" => handle[c]["readLock"].mode # "shared"
      BY DEF LockerInv, Shape, ReadShape, Closed, ReadLabels, ReleasingLabels, HoldingLabels
    <3> QED
      BY <1>2, <3>1 DEF Acquire, ReleaseAgain, Release, Crash, Step, Return, IsHolder,
         HoldingLabels, LockerInv, TypeOK
  <2> QED
    BY <2>1, <2>2, UntouchedIsLeaveOrStutter
<1>3. ASSUME NEW c \in Clients,
             \/ LockRoot(c) \/ OpenDir(c) \/ LockDir(c) \/ OpenLockFile(c)
             \/ ReadLockFile(c) \/ OpenForTryLock(c) \/ TryLock(c)
             \/ AcquireUnlocks(c) \/ ReleaseUnlocks(c) \/ ReleaseReturns(c)
      PROVE  [Counted!Next]_(Counted!vars)
  BY <1>3, LockStepsAlone, LockStepsMakeNoHolder, UntouchedIsLeaveOrStutter
<1>4. ASSUME NEW c \in Clients, MakeEntry(c) \/ TouchLockFile(c) \/ FactoryCall(c)
      PROVE  [Counted!Next]_(Counted!vars)
  <2>1. Alone(c) /\ pc[c] \notin HoldingLabels /\ pc'[c] \notin HoldingLabels
    BY <1>4 DEF MakeEntry, TouchLockFile, FactoryCall, Step, Alone, HoldingLabels,
       LockerInv, TypeOK
  <2>2. Ready' = Ready
    BY <1>4 DEF MakeEntry, TouchLockFile, FactoryCall, Ready, LockerInv, TypeOK
  <2> QED
    BY <2>1, <2>2, StutterStep DEF IsHolder
<1>5. ASSUME NEW c \in Clients, PathMissing(c) \/ CallFails(c)
      PROVE  [Counted!Next]_(Counted!vars)
  <2>1. Alone(c) /\ UNCHANGED resource
    BY <1>5 DEF PathMissing, CallFails, Step, Return, Unlock, Alone, disk, LockerInv, TypeOK
  <2>2. pc'[c] \in HoldingLabels => pc[c] \in HoldingLabels /\ key'[c] = key[c]
    BY <1>5 DEF PathMissing, CallFails, OnError, Step, Return, HoldingLabels, LockerInv,
       TypeOK
  <2>3. handle'[c]["readLock"].mode = "shared" => handle[c]["readLock"].mode = "shared"
    BY <1>5 DEF PathMissing, CallFails, OpenedBy, Unlock, Closed, LockerInv, TypeOK, Slots
  <2> QED
    BY <2>1, <2>2, <2>3, UntouchedIsLeaveOrStutter DEF IsHolder
<1>6. ASSUME NEW c \in Clients, Progress(c) PROVE [Counted!Next]_(Counted!vars)
  BY <1>6, <1>3, <1>4, <1>5, FactoryReturnsIsAcquire, DestroyIsDestroy DEF Progress
<1> QED
  BY <1>1, <1>2, <1>3, <1>5, <1>6 DEF Next

\* CountedSpec: the lock protocol implements the reference count, for every
\* number of clients and keys and whatever fails or crashes.
THEOREM LockerImplementsRefCounted == Spec => CountedSpec
  BY CountedInit, CountedStep, InvariantHolds, PTL DEF Spec, CountedSpec, Counted!Spec

-----------------------------------------------------------------------------
(* Nothing is left                                                         *)

\* The steps that change what is on the disk.
DiskAction(c) ==
  \/ MakeEntry(c) \/ TouchLockFile(c) \/ FactoryCall(c) \/ FactoryReturns(c)
  \/ CleanUp(c) \/ RemoveChild(c) \/ RemoveDir(c)

LEMMA DiskActionAlone ==
  ASSUME LockerInv, NEW c \in Clients, DiskAction(c)
  PROVE  /\ Alone(c) /\ key'[c] = key[c] /\ key[c] \in Keys /\ UNCHANGED <<handle, mishaps>>
         /\ \A k \in Keys \ {key[c]} : /\ entry'[k] = entry[k]
                                       /\ lockFile'[k] = lockFile[k]
                                       /\ resource'[k] = resource[k]
<1>0. key[c] \in Keys
  BY DEF DiskAction, MakeEntry, TouchLockFile, FactoryCall, FactoryReturns, CleanUp,
     RemoveChild, RemoveDir, Step, LockerInv, TypeOK, Shape, KeyShape
<1> USE <1>0 DEF Alone, Step, LockerInv, TypeOK
<1>1. CASE MakeEntry(c) \/ TouchLockFile(c)
  BY <1>1 DEF MakeEntry, TouchLockFile
<1>2. CASE FactoryCall(c) \/ FactoryReturns(c)
  BY <1>2 DEF FactoryCall, FactoryReturns
<1>3. CASE CleanUp(c) \/ RemoveChild(c) \/ RemoveDir(c)
  BY <1>3 DEF CleanUp, RemoveChild, RemoveDir
<1> QED
  BY <1>1, <1>2, <1>3 DEF DiskAction

\* Every step is of one client; it works on the disk or leaves the disk alone.
LEMMA StepKinds ==
  ASSUME LockerInv, Next
  PROVE  \E c \in Clients :
           /\ Alone(c)
           /\ \/ DiskAction(c)
              \/ UNCHANGED disk /\ pc'[c] \notin {"openDir", "openFile"}
<1> USE DEF Alone, LockerInv, TypeOK, Step, Return
<1>1. ASSUME NEW c \in Clients,
             \/ \E k \in Keys : Acquire(c, k) \/ ReleaseAgain(c, k)
             \/ Release(c)
      PROVE  Alone(c) /\ UNCHANGED disk /\ pc'[c] \notin {"openDir", "openFile"}
  BY <1>1 DEF Acquire, ReleaseAgain, Release
<1>2. ASSUME NEW c \in Clients,
             \/ LockRoot(c) \/ OpenDir(c) \/ LockDir(c) \/ OpenLockFile(c)
             \/ ReadLockFile(c) \/ OpenForTryLock(c) \/ TryLock(c)
             \/ AcquireUnlocks(c) \/ ReleaseUnlocks(c) \/ ReleaseReturns(c)
      PROVE  Alone(c) /\ UNCHANGED disk /\ pc'[c] \notin {"openDir", "openFile"}
  <2>1. Alone(c)
    BY <1>2, LockStepsAlone
  <2>2. CASE LockRoot(c) \/ OpenDir(c) \/ LockDir(c) \/ OpenLockFile(c) \/ ReadLockFile(c)
    BY <2>1, <2>2 DEF LockRoot, OpenDir, LockDir, OpenLockFile, ReadLockFile
  <2>3. CASE OpenForTryLock(c) \/ TryLock(c)
    BY <2>1, <2>3 DEF OpenForTryLock, TryLock
  <2>4. CASE AcquireUnlocks(c) \/ ReleaseUnlocks(c) \/ ReleaseReturns(c)
    BY <2>1, <2>4 DEF AcquireUnlocks, ReleaseUnlocks, ReleaseReturns
  <2> QED
    BY <1>2, <2>2, <2>3, <2>4
<1>3. ASSUME NEW c \in Clients, PathMissing(c) \/ CallFails(c) \/ Crash(c)
      PROVE  Alone(c) /\ UNCHANGED disk /\ pc'[c] \notin {"openDir", "openFile"}
  <2>1. pc'[c] \notin {"openDir", "openFile"}
    BY <1>3 DEF PathMissing, CallFails, Crash, OnError
  <2>2. CASE PathMissing(c) \/ CallFails(c)
    BY <2>1, <2>2 DEF PathMissing, CallFails, Unlock
  <2>3. CASE Crash(c)
    BY <2>1, <2>3 DEF Crash, CloseAll
  <2> QED
    BY <1>3, <2>2, <2>3
<1>4. ASSUME NEW c \in Clients, DiskAction(c) PROVE Alone(c)
  BY <1>4, DiskActionAlone
<1> QED
  BY <1>1, <1>2, <1>3, <1>4 DEF Next, Progress, DiskAction

\* Nobody takes a path away from a call that has made it and not opened it yet.
LEMMA PathsThereStep == LockerInv /\ PathsThere /\ [Next]_vars => PathsThere'
<1> SUFFICES ASSUME LockerInv, PathsThere, [Next]_vars PROVE PathsThere'
  OBVIOUS
<1>1. CASE UNCHANGED vars
  BY <1>1 DEF vars, disk, PathsThere
<1>2. ASSUME NEW c \in Clients, Alone(c), UNCHANGED disk,
             pc'[c] \notin {"openDir", "openFile"}
      PROVE  PathsThere'
  BY <1>2 DEF PathsThere, Alone, disk
<1>3. ASSUME NEW c \in Clients, DiskAction(c) PROVE PathsThere'
  <2> SUFFICES ASSUME NEW d \in Clients
               PROVE  /\ pc'[d] = "openDir" => entry'[key'[d]] # NoInode
                      /\ pc'[d] = "openFile" => lockFile'[key'[d]] # NoInode
    BY DEF PathsThere
  <2>0. /\ Alone(c) /\ key'[c] = key[c] /\ key[c] \in Keys
        /\ \A k \in Keys \ {key[c]} : entry'[k] = entry[k] /\ lockFile'[k] = lockFile[k]
    BY <1>3, DiskActionAlone
  <2>1. CASE d = c
    <3>1. CASE MakeEntry(c) \/ TouchLockFile(c)
      BY <2>0, <2>1, <3>1, NoInodeAssumption
         DEF MakeEntry, TouchLockFile, Step, LockerInv, TypeOK
    <3>2. CASE ~(MakeEntry(c) \/ TouchLockFile(c))
      BY <1>3, <2>1, <3>2 DEF DiskAction, FactoryCall, FactoryReturns, CleanUp, RemoveChild,
         RemoveDir, Step, LockerInv, TypeOK
    <3> QED
      BY <3>1, <3>2
  <2>2. CASE d # c
    <3>1. pc'[d] = pc[d] /\ key'[d] = key[d] /\ (pc[d] # "idle" => key[d] \in Keys)
      BY <2>0, <2>2 DEF Alone, LockerInv, TypeOK, Shape, KeyShape
    <3>2. CASE key[d] # key[c]
      BY <2>0, <3>1, <3>2 DEF PathsThere
    <3>3. CASE key[d] = key[c] /\ pc[d] = "openDir"
      <4>1. pc[c] \notin GlobalLabels
        BY <2>2, <3>3 DEF LockerInv, GlobalExclusion, GlobalLabels
      <4>2. entry' = entry
        BY <1>3, <4>1 DEF DiskAction, MakeEntry, TouchLockFile, FactoryCall, FactoryReturns,
           CleanUp, RemoveChild, RemoveDir, Step, GlobalLabels
      <4> QED
        BY <3>1, <3>3, <4>2 DEF PathsThere
    <3>4. CASE key[d] = key[c] /\ pc[d] = "openFile"
      <4>1. pc[c] \notin DirLabels
        BY <2>2, <3>4 DEF LockerInv, DirExclusion, DirLabels
      <4>2. lockFile' = lockFile
        BY <1>3, <4>1 DEF DiskAction, MakeEntry, TouchLockFile, FactoryCall, FactoryReturns,
           CleanUp, RemoveChild, RemoveDir, Step, DirLabels
      <4> QED
        BY <3>1, <3>4, <4>2 DEF PathsThere
    <3> QED
      BY <3>1, <3>2, <3>3, <3>4
  <2> QED
    BY <2>1, <2>2
<1> QED
  BY <1>1, <1>2, <1>3, StepKinds

\* The kernel gives a new lock file, or a new directory, an inode of its own.
LEMMA InodesApartStep == LockerInv /\ InodesApart /\ [Next]_vars => InodesApart'
<1> SUFFICES ASSUME LockerInv, InodesApart, [Next]_vars PROVE InodesApart'
  OBVIOUS
<1>t. /\ entry \in [Keys -> Inodes \cup {NoInode}]
      /\ lockFile \in [Keys -> Inodes \cup {NoInode}]
  BY DEF LockerInv, TypeOK
<1>1. CASE UNCHANGED vars
  BY <1>1 DEF vars, disk, InodesApart
<1>2. CASE UNCHANGED disk
  BY <1>2 DEF disk, InodesApart
<1>3. ASSUME NEW c \in Clients, DiskAction(c) PROVE InodesApart'
  <2>0. key[c] \in Keys
    BY <1>3, DiskActionAlone
  <2>1. CASE UNCHANGED <<entry, lockFile>>
    BY <2>1 DEF InodesApart
  <2>2. CASE MakeEntry(c) /\ entry[key[c]] = NoInode
    <3>1. PICK i \in Inodes : Fresh(i) /\ entry' = [entry EXCEPT ![key[c]] = i]
      BY <2>2 DEF MakeEntry
    <3> QED
      BY <1>t, <2>0, <2>2, <3>1 DEF MakeEntry, Fresh, InodesApart
  <2>3. CASE TouchLockFile(c) /\ lockFile[key[c]] = NoInode
    <3>1. PICK i \in Inodes : Fresh(i) /\ lockFile' = [lockFile EXCEPT ![key[c]] = i]
      BY <2>3 DEF TouchLockFile
    <3> QED
      BY <1>t, <2>0, <2>3, <3>1 DEF TouchLockFile, Fresh, InodesApart
  <2>4. CASE RemoveChild(c) /\ lockFile' = [lockFile EXCEPT ![key[c]] = NoInode]
    BY <1>t, <2>0, <2>4 DEF RemoveChild, InodesApart
  <2>5. CASE RemoveDir(c)
    BY <1>t, <2>0, <2>5 DEF RemoveDir, InodesApart
  <2> QED
    BY <1>3, <2>1, <2>2, <2>3, <2>4, <2>5 DEF DiskAction, MakeEntry, TouchLockFile,
       FactoryCall, FactoryReturns, CleanUp, RemoveChild, RemoveDir
<1> QED
  BY <1>1, <1>2, <1>3, StepKinds

\* While nothing fails, only a release function that was used up before finds
\* a path missing.
LEMMA NoErrorsStep ==
  ASSUME LockerInv, PathsThere, NoErrors, [Next]_vars, mishaps' = 0, mishaps = 0
  PROVE  NoErrors'
<1>h. HandlesOK
  BY DEF HandlesOK, LockerInv, TypeOK
<1>1. CASE UNCHANGED vars
  BY <1>1 DEF vars, NoErrors
<1>2. ASSUME NEW c \in Clients, Alone(c),
             /\ pc'[c] \notin {"failRoot", "failDir", "failRead"}
             /\ pc'[c] \in {"rFailRoot", "rFailRead"} => handle'[c]["readLock"] = Closed
      PROVE  NoErrors'
  BY <1>2 DEF NoErrors, Alone
<1>3. ASSUME NEW c \in Clients,
             \/ \E k \in Keys : Acquire(c, k) \/ ReleaseAgain(c, k)
             \/ Release(c)
      PROVE  NoErrors'
  <2>1. Alone(c) /\ pc'[c] \in {"lockRoot", "rLockRoot"}
    BY <1>3 DEF Acquire, ReleaseAgain, Release, Step, Alone, LockerInv, TypeOK
  <2> QED
    BY <1>2, <2>1
<1>4. ASSUME NEW c \in Clients,
             \/ LockRoot(c) \/ OpenDir(c) \/ LockDir(c) \/ OpenLockFile(c)
             \/ ReadLockFile(c) \/ OpenForTryLock(c) \/ TryLock(c)
      PROVE  NoErrors'
  <2>1. pc'[c] \in {"mkdir", "rOpenDir", "flockDir", "rFlockDir", "unlockRoot", "rUnlockRead",
                    "flockFile", "factory", "rTryLock", "rCleanup", "rUnlockDir"}
    BY <1>4 DEF LockRoot, OpenDir, LockDir, OpenLockFile, ReadLockFile, OpenForTryLock,
       TryLock, Step, LockerInv, TypeOK
  <2> QED
    BY <1>2, <1>4, <2>1, LockStepsAlone
<1>5. ASSUME NEW c \in Clients, AcquireUnlocks(c) \/ ReleaseUnlocks(c) \/ ReleaseReturns(c)
      PROVE  NoErrors'
  <2>1. pc[c] \notin {"failRoot", "failDir", "failRead"}
    BY DEF NoErrors
  <2>2. CASE pc[c] # "rFailRoot"
    <3>1. pc'[c] \in {"touch", "holding", "idle", "rOpenFile", "rRemoveAll", "rUnlockRoot"}
      BY <1>5, <2>1, <2>2 DEF AcquireUnlocks, ReleaseUnlocks, ReleaseReturns, Step, Return,
         LockerInv, TypeOK
    <3> QED
      BY <1>2, <1>5, <3>1, LockStepsAlone
  <2>3. CASE pc[c] = "rFailRoot"
    <3>1. Step(c, "rFailRoot", "rFailRead") /\ Unlock(c, "globalLock")
      BY <1>5, <2>3 DEF AcquireUnlocks, ReleaseUnlocks, ReleaseReturns, Step, Return
    <3>2. Becomes(c, "globalLock", Closed)
      BY <1>h, <3>1, HandleEffects, SlotNames
    <3>3. handle[c]["readLock"] = Closed
      BY <2>3 DEF NoErrors
    <3>4. handle'[c]["readLock"] = Closed
      BY <3>2, <3>3, SlotNames DEF Becomes
    <3>5. pc'[c] = "rFailRead"
      BY <3>1 DEF Step, LockerInv, TypeOK
    <3> QED
      BY <1>2, <1>5, <3>4, <3>5, LockStepsAlone
  <2> QED
    BY <2>2, <2>3
<1>6. ASSUME NEW c \in Clients, DiskAction(c) PROVE NoErrors'
  <2>1. pc'[c] \in {"openDir", "openFile", "inFactory", "unlockDir", "rUnlockExcl",
                    "rRemoveAll", "rUnlockDir"}
    BY <1>6 DEF DiskAction, MakeEntry, TouchLockFile, FactoryCall, FactoryReturns, CleanUp,
       RemoveChild, RemoveDir, Step, LockerInv, TypeOK
  <2> QED
    BY <1>2, <1>6, <2>1, DiskActionAlone
<1>7. ASSUME NEW c \in Clients, PathMissing(c) PROVE NoErrors'
  <2>1. Alone(c) /\ handle' = handle /\ pc'[c] = OnError[pc[c]]
    BY <1>7 DEF PathMissing, Step, Alone, LockerInv, TypeOK
  <2>2. \/ pc[c] = "rOpenDir" /\ entry[key[c]] = NoInode
        \/ pc[c] = "rOpenFile"
    BY <1>7 DEF PathMissing, PathsThere, LockerInv, Shape, DirShape, DirLabels
  <2>3. CASE pc[c] = "rOpenDir" /\ entry[key[c]] = NoInode
    <3>0. ReadShape(c) /\ ResourceShape(c)
      BY DEF LockerInv, Shape
    <3>1. handle[c]["readLock"] = Closed
      BY <2>3, <3>0 DEF ReadShape, ResourceShape, ReleasingLabels, HoldingLabels, Held
    <3> QED
      BY <1>2, <2>1, <2>3, <3>1 DEF OnError
  <2>4. CASE pc[c] = "rOpenFile"
    BY <1>2, <2>1, <2>4 DEF OnError
  <2> QED
    BY <2>2, <2>3, <2>4
<1>8. ~\E c \in Clients : CallFails(c) \/ Crash(c)
  BY DEF CallFails, Crash
<1> QED
  BY <1>1, <1>3, <1>4, <1>5, <1>6, <1>7, <1>8 DEF Next, Progress, DiskAction

\* Client c goes on without leaving an entry to nobody.
Passes(c) ==
  \A k \in Keys :
    /\ entry[k] # NoInode /\ lockFile[k] = NoInode /\ Making(c, k) => Making(c, k)'
    /\ lockFile[k] # NoInode /\ Tending(c, k) => \E d \in Clients : Tending(d, k)'

LEMMA PassesTended ==
  ASSUME Tended, NEW c \in Clients, Alone(c), UNCHANGED disk, Passes(c)
  PROVE  Tended'
<1> SUFFICES ASSUME NEW k \in Keys
             PROVE  /\ entry'[k] = NoInode => lockFile'[k] = NoInode /\ resource'[k] = "absent"
                    /\ entry'[k] # NoInode /\ lockFile'[k] = NoInode =>
                         \E d \in Clients : Making(d, k)'
                    /\ lockFile'[k] # NoInode => \E d \in Clients : Tending(d, k)'
  BY DEF Tended
<1>1. entry' = entry /\ lockFile' = lockFile /\ resource' = resource
  BY DEF disk
<1>2. ASSUME NEW d \in Clients \ {c}
      PROVE  (Making(d, k) => Making(d, k)') /\ (Tending(d, k) => Tending(d, k)')
  BY DEF Alone, Making, Tending
<1>3. CASE entry[k] = NoInode
  BY <1>1, <1>3 DEF Tended
<1>4. CASE entry[k] # NoInode /\ lockFile[k] = NoInode
  <2>1. PICK d \in Clients : Making(d, k)
    BY <1>4 DEF Tended
  <2>2. Making(d, k)'
    BY <1>2, <1>4, <2>1 DEF Passes
  <2> QED
    BY <1>1, <1>4, <2>2
<1>5. CASE entry[k] # NoInode /\ lockFile[k] # NoInode
  <2>1. PICK d \in Clients : Tending(d, k)
    BY <1>5 DEF Tended
  <2>2. \E e \in Clients : Tending(e, k)'
    BY <1>2, <1>5, <2>1 DEF Passes
  <2> QED
    BY <1>1, <1>5, <2>2
<1> QED
  BY <1>3, <1>4, <1>5

\* A step of c that opens or closes file s passes the entry on if c still does.
LEMMA OnePasses ==
  ASSUME NEW c \in Clients, key'[c] = key[c],
         pc[c] \in MakingLabels => pc'[c] \in MakingLabels,
         pc[c] \in TendingLabels \/ handle[c]["readLock"].mode = "shared" =>
           pc'[c] \in TendingLabels \/ handle'[c]["readLock"].mode = "shared"
  PROVE  Passes(c)
  BY DEF Passes, Making, Tending

\* A client that neither makes nor tends an entry has nothing to pass on.
LEMMA NothingToPass ==
  ASSUME NEW c \in Clients, pc[c] \notin MakingLabels \cup TendingLabels,
         handle[c]["readLock"].mode # "shared"
  PROVE  Passes(c)
  BY DEF Passes, Making, Tending

\* Calls of Acquire and of the release function begin.
LEMMA StartPasses ==
  ASSUME LockerInv, NEW c \in Clients, NEW k \in Keys,
         Acquire(c, k) \/ ReleaseAgain(c, k) \/ Release(c)
  PROVE  Alone(c) /\ UNCHANGED disk /\ Passes(c)
<1>1. Alone(c) /\ UNCHANGED disk
  BY DEF Acquire, ReleaseAgain, Release, Step, Alone, LockerInv, TypeOK
<1>2. CASE Acquire(c, k) \/ ReleaseAgain(c, k)
  <2>1. pc[c] = "idle" /\ handle[c]["readLock"].mode # "shared"
    BY <1>2 DEF Acquire, ReleaseAgain, LockerInv, Shape, ReadShape, Closed, ReadLabels,
       ReleasingLabels, HoldingLabels
  <2> QED
    BY <1>1, <2>1, NothingToPass DEF MakingLabels, TendingLabels
<1>3. CASE Release(c)
  BY <1>1, <1>3, OnePasses
     DEF Release, Step, LockerInv, TypeOK, MakingLabels, TendingLabels
<1> QED
  BY <1>2, <1>3

\* Opening and locking, up to TryLock.
LEMMA LockPasses ==
  ASSUME LockerInv, NEW c \in Clients,
         \/ LockRoot(c) \/ OpenDir(c) \/ LockDir(c)
         \/ OpenLockFile(c) \/ ReadLockFile(c) \/ OpenForTryLock(c)
  PROVE  Passes(c)
<1>h. HandlesOK
  BY DEF HandlesOK, LockerInv, TypeOK
<1> USE DEF Step, LockerInv, TypeOK, MakingLabels, TendingLabels
<1>1. CASE LockRoot(c) \/ OpenDir(c) \/ LockDir(c)
  <2>1. PICK s \in {"globalLock", "dirLock"} : \E h : Becomes(c, s, h)
    BY <1>1, <1>h, HandleEffects, SlotNames DEF LockRoot, OpenDir, LockDir
  <2>2. handle'[c]["readLock"] = handle[c]["readLock"]
    BY <2>1, SlotNames DEF Becomes
  <2> QED
    BY <1>1, <2>2, OnePasses DEF LockRoot, OpenDir, LockDir
<1>2. CASE OpenLockFile(c) \/ OpenForTryLock(c)
  BY <1>2, OnePasses DEF OpenLockFile, OpenForTryLock
<1>3. CASE ReadLockFile(c)
  <2>1. Becomes(c, "readLock", Held(handle[c]["readLock"].ino, "shared"))
    BY <1>3, <1>h, HandleEffects, SlotNames DEF ReadLockFile
  <2> QED
    BY <1>3, <2>1, OnePasses DEF ReadLockFile, Becomes, Held
<1> QED
  BY <1>1, <1>2, <1>3

\* While nothing fails, an Unlock ends the care of an entry only where the next
\* call goes on with it, or after it.
LEMMA UnlockPasses ==
  ASSUME LockerInv, NoErrors, NEW c \in Clients,
         AcquireUnlocks(c) \/ ReleaseUnlocks(c) \/ ReleaseReturns(c)
  PROVE  Passes(c)
<1>h. HandlesOK
  BY DEF HandlesOK, LockerInv, TypeOK
<1>0. ReadShape(c) /\ pc[c] \notin {"failRoot", "failDir", "failRead"}
  BY DEF LockerInv, Shape, NoErrors
<1>1. CASE pc[c] \in {"rFailRoot", "rFailRead", "rUnlockDir", "rUnlockRoot"}
  <2>1. handle[c]["readLock"] = Closed
    BY <1>0, <1>1 DEF NoErrors, ReadShape, ReadLabels, ReleasingLabels, HoldingLabels
  <2> QED
    BY <1>1, <2>1, NothingToPass DEF Closed, MakingLabels, TendingLabels
<1>2. CASE pc[c] \in {"rUnlockRead", "rUnlockExcl"}
  BY <1>2, OnePasses DEF AcquireUnlocks, ReleaseUnlocks, ReleaseReturns, Step, Return,
     LockerInv, TypeOK, MakingLabels, TendingLabels
<1>3. CASE pc[c] \in {"unlockRoot", "unlockDir"}
  <2>1. PICK s \in {"globalLock", "dirLock"} : Unlock(c, s)
    BY <1>3 DEF AcquireUnlocks, ReleaseUnlocks, ReleaseReturns, Step, Return
  <2>2. handle'[c]["readLock"] = handle[c]["readLock"]
    BY <1>h, <2>1, HandleEffects, SlotNames DEF Becomes
  <2> QED
    BY <1>3, <2>2, OnePasses DEF AcquireUnlocks, ReleaseUnlocks, ReleaseReturns, Step,
       Return, LockerInv, TypeOK, MakingLabels, TendingLabels
<1> QED
  BY <1>0, <1>1, <1>2, <1>3 DEF AcquireUnlocks, ReleaseUnlocks, ReleaseReturns, Step, Return

\* TryLock is refused because of a read lock, and whoever has that has this key and
\* releases later.
LEMMA TryLockPasses ==
  ASSUME LockerInv, InodesApart, NEW c \in Clients, TryLock(c)
  PROVE  Passes(c)
<1>h. HandlesOK
  BY DEF HandlesOK, LockerInv, TypeOK
<1>0. /\ pc[c] = "rTryLock" /\ key'[c] = key[c] /\ key[c] \in Keys
      /\ handle[c]["exclusiveLock"].ino = lockFile[key[c]]
      /\ Alone(c) /\ Shape(c)
  <2>1. pc[c] = "rTryLock" /\ key'[c] = key[c]
    BY DEF TryLock, Step
  <2>2. Alone(c)
    BY LockStepsAlone
  <2>3. Shape(c) /\ key[c] \in Keys \cup {NoKey}
    BY DEF LockerInv, TypeOK
  <2>4. key[c] \in Keys
    BY <2>1, <2>3 DEF Shape, KeyShape
  <2>5. handle[c]["exclusiveLock"].ino = lockFile[key[c]]
    BY <2>1, <2>3 DEF Shape, ExclusiveShape, Held
  <2> QED
    BY <2>1, <2>2, <2>3, <2>4, <2>5
<1>1. CASE pc'[c] = "rCleanup"
  BY <1>0, <1>1, OnePasses DEF MakingLabels, TendingLabels
<1>2. CASE Blocked(c, "exclusiveLock", lockFile[key[c]], "exclusive")
  <2> DEFINE k == key[c]
  <2> SUFFICES ASSUME lockFile[k] # NoInode PROVE \E d \in Clients : Tending(d, k)'
    BY <1>0 DEF Passes, Making, Tending, MakingLabels
  <2>1. PICK d \in Clients, t \in Slots :
          /\ <<d, t>> # <<c, "exclusiveLock">>
          /\ handle[d][t].ino = lockFile[k]
          /\ handle[d][t].mode # "none"
    BY <1>2, <1>h DEF Blocked, Incompatible, HandlesOK
  <2>2. Shape(d) /\ (pc[d] = "idle" \/ key[d] \in Keys)
    BY DEF LockerInv, TypeOK, Shape, KeyShape
  <2>3. t # "globalLock"
    <3>1. lockFile[k] # Root
      BY <1>0 DEF InodesApart
    <3>2. GlobalShape(d)
      BY <2>2 DEF Shape
    <3> QED
      BY <2>1, <3>1, <3>2 DEF GlobalShape, Held, Closed
  <2>4. t # "dirLock"
    <3>1. pc[d] # "rUnlockDir"
      BY <1>0 DEF LockerInv, GlobalExclusion, GlobalLabels
    <3> QED
      BY <2>1, <2>2, <3>1, <1>0
         DEF Shape, DirShape, DirLabels, Held, Closed, InodesApart
  <2>5. t # "exclusiveLock"
    <3>1. SUFFICES ASSUME t = "exclusiveLock" PROVE FALSE
      OBVIOUS
    <3>2. pc[d] \in {"rCleanup", "rUnlockExcl"} /\ d # c
      BY <2>1, <2>2, <3>1 DEF Shape, ExclusiveShape, Held, Closed
    <3> QED
      BY <1>0, <3>2 DEF LockerInv, GlobalExclusion, GlobalLabels
  <2>6. t = "readLock"
    BY <2>3, <2>4, <2>5 DEF Slots
  <2>7. handle[d]["readLock"] = Held(lockFile[key[d]], "shared") /\ pc[d] # "idle"
    BY <2>1, <2>2, <2>6 DEF Shape, ReadShape, ReadLabels, ReleasingLabels, HoldingLabels,
       Held, Closed
  <2>8. key[d] = k
    BY <1>0, <2>1, <2>2, <2>6, <2>7 DEF InodesApart, Held
  <2>9. d # c
    BY <1>0, <2>1, <2>6 DEF Shape, ReadShape, ReadLabels, ReleasingLabels, HoldingLabels, Closed
  <2> QED
    BY <1>0, <2>7, <2>8, <2>9 DEF Tending, Alone, Held
<1> QED
  BY <1>0, <1>1, <1>2 DEF TryLock, Step, LockerInv, TypeOK

\* While nothing fails, a path is missing for a release function that was used up
\* before only, or there is no lock file to tend.
LEMMA MissingPasses ==
  ASSUME LockerInv, PathsThere, NoErrors, Tended, NEW c \in Clients, PathMissing(c)
  PROVE  Passes(c)
<1>1. \/ pc[c] = "rOpenDir" /\ entry[key[c]] = NoInode
      \/ pc[c] = "rOpenFile" /\ lockFile[key[c]] = NoInode
  BY DEF PathMissing, PathsThere, LockerInv, Shape, DirShape, DirLabels
<1>2. key[c] \in Keys
  BY <1>1 DEF LockerInv, TypeOK, Shape, KeyShape
<1>3. lockFile[key[c]] = NoInode
  BY <1>1, <1>2 DEF Tended
<1> QED
  BY <1>1, <1>3 DEF Passes, Making, Tending, MakingLabels

\* MkdirAll, touchLockFile and the factory make no entry without somebody who
\* tends it, and RemoveAll leaves none without its remover.
LEMMA DiskTended ==
  ASSUME LockerInv, Tended, NEW c \in Clients, DiskAction(c)
  PROVE  Tended'
<1>0. /\ Alone(c) /\ key'[c] = key[c] /\ key[c] \in Keys /\ handle' = handle
      /\ \A k \in Keys \ {key[c]} : /\ entry'[k] = entry[k]
                                    /\ lockFile'[k] = lockFile[k]
                                    /\ resource'[k] = resource[k]
  BY DiskActionAlone
<1>t. /\ entry \in [Keys -> Inodes \cup {NoInode}]
      /\ lockFile \in [Keys -> Inodes \cup {NoInode}]
      /\ resource \in [Keys -> ResourceState]
      /\ Shape(c)
  BY DEF LockerInv, TypeOK
<1>1. ASSUME NEW k \in Keys, k # key[c]
      PROVE  /\ entry'[k] = NoInode => lockFile'[k] = NoInode /\ resource'[k] = "absent"
             /\ entry'[k] # NoInode /\ lockFile'[k] = NoInode =>
                  \E d \in Clients : Making(d, k)'
             /\ lockFile'[k] # NoInode => \E d \in Clients : Tending(d, k)'
  <2>1. \A d \in Clients : /\ Making(d, k) => Making(d, k)'
                           /\ Tending(d, k) => Tending(d, k)'
    BY <1>0, <1>1 DEF Making, Tending, Alone
  <2> QED
    BY <1>0, <1>1, <2>1 DEF Tended
<1>2. ASSUME NEW k \in Keys, k = key[c]
      PROVE  /\ entry'[k] = NoInode => lockFile'[k] = NoInode /\ resource'[k] = "absent"
             /\ entry'[k] # NoInode /\ lockFile'[k] = NoInode =>
                  \E d \in Clients : Making(d, k)'
             /\ lockFile'[k] # NoInode => \E d \in Clients : Tending(d, k)'
  <2>1. \A d \in Clients \ {c} : /\ Making(d, k) => Making(d, k)'
                                 /\ Tending(d, k) => Tending(d, k)'
    BY <1>0, <1>2 DEF Making, Tending, Alone
  <2>2. CASE MakeEntry(c)
    <3>1. pc[c] = "mkdir" /\ pc'[c] = "openDir" /\ lockFile' = lockFile /\ resource' = resource
          /\ entry'[k] # NoInode
      BY <1>0, <1>2, <1>t, <2>2, NoInodeAssumption DEF MakeEntry, Step, LockerInv, TypeOK
    <3>2. Making(c, k)'
      BY <1>0, <1>2, <3>1 DEF Making, MakingLabels
    <3>3. ~Tending(c, k)
      BY <1>t, <1>2, <3>1 DEF Tending, TendingLabels, Shape, ReadShape, Closed, ReadLabels,
         ReleasingLabels, HoldingLabels
    <3>4. lockFile[k] # NoInode => \E d \in Clients : Tending(d, k)'
      BY <1>0, <1>2, <2>1, <3>3 DEF Tended
    <3> QED
      BY <3>1, <3>2, <3>4
  <2>3. CASE TouchLockFile(c)
    <3>1. pc'[c] = "openFile" /\ entry[k] # NoInode /\ entry' = entry /\ lockFile'[k] # NoInode
      BY <1>0, <1>2, <1>t, <2>3, NoInodeAssumption DEF TouchLockFile, Step, LockerInv, TypeOK
    <3>2. Tending(c, k)'
      BY <1>0, <1>2, <3>1 DEF Tending, TendingLabels
    <3> QED
      BY <3>1, <3>2
  <2>4. CASE FactoryCall(c) \/ FactoryReturns(c)
    <3>1. pc[c] \in {"factory", "inFactory"} /\ entry' = entry /\ lockFile' = lockFile
      BY <2>4 DEF FactoryCall, FactoryReturns, Step
    <3>2. handle[c]["readLock"].mode = "shared"
      BY <1>t, <1>2, <3>1 DEF Shape, ReadShape, ReadLabels, Held
    <3>3. Tending(c, k)' /\ entry[k] # NoInode /\ lockFile[k] # NoInode
      BY <1>0, <1>2, <1>t, <3>2 DEF Tending, Shape, ResourceShape
    <3> QED
      BY <3>1, <3>3
  <2>5. CASE CleanUp(c)
    <3>1. /\ pc[c] = "rCleanup" /\ pc'[c] = "rUnlockExcl"
          /\ entry' = entry /\ lockFile' = lockFile
      BY <2>5 DEF CleanUp, Step, LockerInv, TypeOK
    <3>2. entry[k] # NoInode
      BY <1>t, <1>2, <3>1 DEF Shape, DirShape, DirLabels
    <3>3. Tending(c, k)' /\ ~Making(c, k)
      BY <1>0, <1>2, <3>1 DEF Tending, TendingLabels, Making, MakingLabels
    <3>4. lockFile[k] = NoInode => \E d \in Clients : Making(d, k)'
      BY <1>0, <1>2, <2>1, <3>2, <3>3 DEF Tended
    <3> QED
      BY <3>1, <3>2, <3>3, <3>4
  <2>6. CASE RemoveChild(c)
    <3>1. pc[c] = "rRemoveAll" /\ pc'[c] = "rRemoveAll" /\ entry' = entry
      BY <2>6 DEF RemoveChild, Step, LockerInv, TypeOK
    <3>2. entry[k] # NoInode
      BY <1>t, <1>2, <3>1 DEF Shape, DirShape, DirLabels
    <3>3. Making(c, k)' /\ Tending(c, k)'
      BY <1>0, <1>2, <3>1 DEF Making, MakingLabels, Tending, TendingLabels
    <3> QED
      BY <3>1, <3>2, <3>3
  <2>7. CASE RemoveDir(c)
    BY <1>0, <1>2, <1>t, <2>7 DEF RemoveDir
  <2> QED
    BY <2>2, <2>3, <2>4, <2>5, <2>6, <2>7 DEF DiskAction
<1> QED
  BY <1>1, <1>2 DEF Tended

LEMMA TendedStep ==
  ASSUME LockerInv, PathsThere, InodesApart, NoErrors, Tended, [Next]_vars,
         mishaps' = 0, mishaps = 0
  PROVE  Tended'
<1>1. CASE UNCHANGED vars
  BY <1>1 DEF vars, disk, Tended, Making, Tending
<1>2. ASSUME NEW c \in Clients, NEW k \in Keys, Acquire(c, k) \/ ReleaseAgain(c, k)
      PROVE  Tended'
  BY <1>2, StartPasses, PassesTended
<1>3. ASSUME NEW c \in Clients, Release(c) PROVE Tended'
  <2>1. key[c] \in Keys
    BY <1>3 DEF Release, Step, LockerInv, TypeOK, Shape, KeyShape
  <2> QED
    BY <1>3, <2>1, StartPasses, PassesTended
<1>4. ASSUME NEW c \in Clients,
             \/ LockRoot(c) \/ OpenDir(c) \/ LockDir(c) \/ OpenLockFile(c)
             \/ ReadLockFile(c) \/ OpenForTryLock(c) \/ TryLock(c)
             \/ AcquireUnlocks(c) \/ ReleaseUnlocks(c) \/ ReleaseReturns(c)
      PROVE  Tended'
  <2>1. Alone(c) /\ UNCHANGED disk
    BY <1>4, LockStepsAlone DEF LockRoot, OpenDir, LockDir, OpenLockFile, ReadLockFile,
       OpenForTryLock, TryLock, AcquireUnlocks, ReleaseUnlocks, ReleaseReturns
  <2>2. Passes(c)
    BY <1>4, LockPasses, TryLockPasses, UnlockPasses
  <2> QED
    BY <2>1, <2>2, PassesTended
<1>5. ASSUME NEW c \in Clients, PathMissing(c) PROVE Tended'
  <2>1. Alone(c) /\ UNCHANGED disk
    BY <1>5 DEF PathMissing, Step, Alone, LockerInv, TypeOK
  <2> QED
    BY <1>5, <2>1, MissingPasses, PassesTended
<1>6. ASSUME NEW c \in Clients, DiskAction(c) PROVE Tended'
  BY <1>6, DiskTended
<1>7. ~\E c \in Clients : CallFails(c) \/ Crash(c)
  BY DEF CallFails, Crash
<1> QED
  BY <1>1, <1>2, <1>3, <1>4, <1>5, <1>6, <1>7 DEF Next, Progress, DiskAction

\* A mishap is never taken back.
LEMMA MishapsStep == LockerInv /\ [Next]_vars => mishaps' = mishaps \/ mishaps' # 0
<1> SUFFICES ASSUME LockerInv, [Next]_vars PROVE mishaps' = mishaps \/ mishaps' # 0
  OBVIOUS
<1>1. mishaps \in Nat
  BY DEF LockerInv, TypeOK
<1>2. ASSUME NEW c \in Clients, CallFails(c) \/ Crash(c) PROVE mishaps' # 0
  BY <1>1, <1>2 DEF CallFails, Crash
<1>3. ASSUME NEW c \in Clients, DiskAction(c) PROVE mishaps' = mishaps
  BY <1>3, DiskActionAlone
<1> QED
  BY <1>2, <1>3 DEF vars, Next, Progress, DiskAction, Acquire, ReleaseAgain, Release,
     LockRoot, OpenDir, LockDir, OpenLockFile, ReadLockFile, OpenForTryLock, TryLock,
     AcquireUnlocks, ReleaseUnlocks, ReleaseReturns, PathMissing

LEMMA LeakStep == LockerInv /\ LeakInv /\ [Next]_vars => LeakInv'
<1> SUFFICES ASSUME LockerInv, LeakInv, [Next]_vars PROVE LeakInv'
  OBVIOUS
<1>1. PathsThere' /\ InodesApart'
  BY PathsThereStep, InodesApartStep DEF LeakInv
<1>2. ASSUME mishaps' = 0 PROVE NoErrors' /\ Tended'
  BY <1>2, MishapsStep, NoErrorsStep, TendedStep DEF LeakInv
<1> QED
  BY <1>1, <1>2 DEF LeakInv

\* NoLeak: while nothing fails, whatever the order of the calls was, nothing is left
\* of any entry once every client is outside of them and has released.
THEOREM NoLeakHolds == Spec => []NoLeak
<1>1. Init => LockerInv /\ LeakInv
  BY InvInit DEF Init, LeakInv, PathsThere, InodesApart, NoErrors, Tended
<1>2. LockerInv /\ LeakInv /\ [Next]_vars => LockerInv' /\ LeakInv'
  BY InvStep, LeakStep
<1>3. LockerInv /\ LeakInv => NoLeak
  <2> SUFFICES ASSUME LockerInv, LeakInv, mishaps = 0, \A c \in Clients : pc[c] = "idle",
                      NEW k \in Keys
               PROVE  entry[k] = NoInode /\ lockFile[k] = NoInode /\ resource[k] = "absent"
    BY DEF NoLeak
  <2>1. \A c \in Clients : key[c] # k
    BY LockerAssumption DEF LockerInv, Shape, KeyShape
  <2> QED
    BY <2>1 DEF LeakInv, Tended, Making, Tending
<1> QED
  BY <1>1, <1>2, <1>3, PTL DEF Spec

-----------------------------------------------------------------------------
(* Nobody waits in a circle                                                *)

\* The kernel gives a new directory an inode of its own.
LEMMA EntriesApartStep == LockerInv /\ EntriesApart /\ [Next]_vars => EntriesApart'
<1> SUFFICES ASSUME LockerInv, EntriesApart, [Next]_vars PROVE EntriesApart'
  OBVIOUS
<1>t. entry \in [Keys -> Inodes \cup {NoInode}]
  BY DEF LockerInv, TypeOK
<1>1. CASE UNCHANGED vars
  BY <1>1 DEF vars, disk, EntriesApart
<1>2. CASE UNCHANGED disk
  BY <1>2 DEF disk, EntriesApart
<1>3. ASSUME NEW c \in Clients, DiskAction(c) PROVE EntriesApart'
  <2>0. key[c] \in Keys
    BY <1>3, DiskActionAlone
  <2>1. CASE UNCHANGED entry
    BY <2>1 DEF EntriesApart
  <2>2. CASE MakeEntry(c) /\ entry[key[c]] = NoInode
    <3>1. PICK i \in Inodes : Fresh(i) /\ entry' = [entry EXCEPT ![key[c]] = i]
      BY <2>2 DEF MakeEntry
    <3> QED
      BY <1>t, <2>0, <2>2, <3>1 DEF MakeEntry, Fresh, EntriesApart
  <2>3. CASE RemoveDir(c)
    BY <1>t, <2>0, <2>3 DEF RemoveDir, EntriesApart
  <2> QED
    BY <1>3, <2>1, <2>2, <2>3 DEF DiskAction, MakeEntry, TouchLockFile, FactoryCall,
       FactoryReturns, CleanUp, RemoveChild
<1> QED
  BY <1>1, <1>2, <1>3, StepKinds

\* A lock file comes from nowhere that is open, or goes.
LEMMA LockFilesFresh ==
  ASSUME LockerInv, [Next]_vars, NEW k \in Keys
  PROVE  lockFile'[k] \in {lockFile[k], NoInode} \/ Fresh(lockFile'[k])
<1>t. lockFile \in [Keys -> Inodes \cup {NoInode}]
  BY DEF LockerInv, TypeOK
<1>1. CASE UNCHANGED vars
  BY <1>1 DEF vars, disk
<1>2. CASE UNCHANGED disk
  BY <1>2 DEF disk
<1>3. ASSUME NEW c \in Clients, DiskAction(c)
      PROVE  lockFile'[k] \in {lockFile[k], NoInode} \/ Fresh(lockFile'[k])
  <2>0. key[c] \in Keys
    BY <1>3, DiskActionAlone
  <2>1. CASE UNCHANGED lockFile
    BY <2>1
  <2>2. CASE TouchLockFile(c) /\ lockFile[key[c]] = NoInode
    <3>1. PICK i \in Inodes : Fresh(i) /\ lockFile' = [lockFile EXCEPT ![key[c]] = i]
      BY <2>2 DEF TouchLockFile
    <3>2. lockFile'[k] = IF k = key[c] THEN i ELSE lockFile[k]
      BY <1>t, <2>0, <3>1
    <3> QED
      BY <3>1, <3>2
  <2>3. CASE RemoveChild(c) /\ lockFile' = [lockFile EXCEPT ![key[c]] = NoInode]
    BY <1>t, <2>0, <2>3
  <2> QED
    BY <1>3, <2>1, <2>2, <2>3 DEF DiskAction, MakeEntry, TouchLockFile, FactoryCall,
       FactoryReturns, CleanUp, RemoveChild, RemoveDir
<1> QED
  BY <1>1, <1>2, <1>3, StepKinds

\* Every step is of one client only.
LEMMA StepIsAlone ==
  ASSUME LockerInv, NEW c \in Clients,
         \/ \E k \in Keys : Acquire(c, k) \/ ReleaseAgain(c, k)
         \/ Release(c) \/ LockRoot(c) \/ Progress(c)
         \/ CallFails(c) \/ Crash(c)
  PROVE  Alone(c)
<1>1. CASE (\E k \in Keys : Acquire(c, k) \/ ReleaseAgain(c, k)) \/ Release(c)
  BY <1>1 DEF Acquire, ReleaseAgain, Release, Step, Alone, LockerInv, TypeOK
<1>2. CASE PathMissing(c) \/ CallFails(c)
  BY <1>2 DEF PathMissing, CallFails, Unlock, Step, Return, Alone, LockerInv, TypeOK
<1>3. CASE Crash(c)
  BY <1>3 DEF Crash, CloseAll, Return, Alone, LockerInv, TypeOK
<1> QED
  BY <1>1, <1>2, <1>3, LockStepsAlone, DiskActionAlone DEF Progress, DiskAction

\* Nothing is done to the directory lock on the way to its Unlock in release.
LEMMA DirLockKept ==
  ASSUME LockerInv, [Next]_vars, NEW d \in Clients, pc'[d] = "rUnlockDir"
  PROVE  handle'[d]["dirLock"] = handle[d]["dirLock"]
<1>h. HandlesOK
  BY DEF HandlesOK, LockerInv, TypeOK
<1>p. pc \in [Clients -> Labels]
  BY DEF LockerInv, TypeOK
<1>1. CASE UNCHANGED vars
  BY <1>1 DEF vars
<1>2. ASSUME NEW c \in Clients, c # d, Alone(c) PROVE handle'[d] = handle[d]
  BY <1>2 DEF Alone
<1>3. CASE DiskAction(d)
  BY <1>3, DiskActionAlone
<1>4. CASE TryLock(d)
  <2>1. Unlock(d, "exclusiveLock")
    BY <1>p, <1>4 DEF TryLock, Step
  <2>2. Becomes(d, "exclusiveLock", Closed)
    BY <1>h, <2>1, HandleEffects, SlotNames
  <2> QED
    BY <2>2, SlotNames DEF Becomes
<1>5. CASE PathMissing(d)
  BY <1>5 DEF PathMissing
<1>6. CASE CallFails(d)
  <2>1. pc[d] \in {"rOpenFile", "rTryLock", "rRemoveAll"}
    BY <1>p, <1>6 DEF CallFails, Step, Return, OnError
  <2>2. CASE pc[d] = "rTryLock"
    <3>1. Unlock(d, "exclusiveLock")
      BY <1>6, <2>2 DEF CallFails, Return, OpenedBy
    <3>2. Becomes(d, "exclusiveLock", Closed)
      BY <1>h, <3>1, HandleEffects, SlotNames
    <3> QED
      BY <3>2, SlotNames DEF Becomes
  <2>3. CASE pc[d] # "rTryLock"
    BY <1>6, <2>1, <2>3 DEF CallFails, Return, OpenedBy
  <2> QED
    BY <2>2, <2>3
<1>7. ASSUME \/ \E k \in Keys : Acquire(d, k) \/ ReleaseAgain(d, k)
             \/ Release(d) \/ LockRoot(d) \/ OpenDir(d) \/ LockDir(d) \/ OpenLockFile(d)
             \/ ReadLockFile(d) \/ OpenForTryLock(d)
      PROVE  FALSE
  BY <1>p, <1>7 DEF Acquire, ReleaseAgain, Release, LockRoot, OpenDir, LockDir, OpenLockFile,
     ReadLockFile, OpenForTryLock, Step
<1>8. ASSUME AcquireUnlocks(d) \/ ReleaseUnlocks(d) \/ ReleaseReturns(d) \/ Crash(d)
      PROVE  FALSE
  BY <1>p, <1>8 DEF AcquireUnlocks, ReleaseUnlocks, ReleaseReturns, Crash, Step, Return
<1>9. CASE Next
  <2>1. PICK c \in Clients :
          \/ \E k \in Keys : Acquire(c, k) \/ ReleaseAgain(c, k)
          \/ Release(c) \/ LockRoot(c) \/ Progress(c)
          \/ CallFails(c) \/ Crash(c)
    BY <1>9 DEF Next
  <2>2. CASE c = d
    BY <1>3, <1>4, <1>5, <1>6, <1>7, <1>8, <2>1, <2>2 DEF Progress, DiskAction
  <2>3. CASE c # d
    BY <1>2, <2>1, <2>3, StepIsAlone
  <2> QED
    BY <2>2, <2>3
<1> QED
  BY <1>1, <1>9

\* An open directory is one at its path, or the one that is about to be closed.
LEMMA OpenDirsApartStep ==
  LockerInv /\ OrderInv /\ [Next]_vars => OpenDirsApart'
<1> SUFFICES ASSUME LockerInv, OrderInv, [Next]_vars,
                    NEW d \in Clients, handle'[d]["dirLock"].ino # NoInode
             PROVE  /\ handle'[d]["dirLock"].ino # Root
                    /\ \A k \in Keys : handle'[d]["dirLock"].ino # lockFile'[k]
  BY DEF OpenDirsApart
<1> DEFINE i == handle'[d]["dirLock"].ino
<1>1. LockerInv' /\ InodesApart' /\ EntriesApart'
  BY InvStep, InodesApartStep, EntriesApartStep DEF OrderInv
<1>2. CASE pc'[d] # "rUnlockDir"
  <2>1. DirShape(d)' /\ KeyShape(d)' /\ key'[d] \in Keys \cup {NoKey}
    BY <1>1 DEF LockerInv, Shape, TypeOK
  <2>2. i = entry'[key'[d]] /\ key'[d] \in Keys
    BY <1>2, <2>1 DEF DirShape, KeyShape, Held, Closed, DirLabels
  <2> HIDE DEF i
  <2>3. i # Root /\ \A k \in Keys : i # lockFile'[k]
    <3>1. i # NoInode
      BY DEF i
    <3> QED
      BY <1>1, <2>2, <3>1 DEF EntriesApart, InodesApart
  <2> QED
    BY <2>3 DEF i
<1>3. CASE pc'[d] = "rUnlockDir"
  <2>1. i = handle[d]["dirLock"].ino
    BY <1>3, DirLockKept
  <2>2. i # Root /\ \A k \in Keys : i # lockFile[k]
    BY <2>1 DEF OrderInv, OpenDirsApart
  <2>3. \A k \in Keys : Fresh(lockFile'[k]) => i # lockFile'[k]
    BY <2>1, SlotNames DEF Fresh
  <2> QED
    BY <2>2, <2>3, LockFilesFresh
<1> QED
  BY <1>2, <1>3

\* Who has a lock, where, and on what.
LEMMA LocksHeld ==
  ASSUME LockerInv, NEW d \in Clients
  PROVE  /\ handle[d]["globalLock"].mode # "none" =>
              pc[d] \in GlobalLabels /\ handle[d]["globalLock"].ino = Root
         /\ handle[d]["dirLock"].mode # "none" =>
              /\ pc[d] \in DirLabels /\ key[d] \in Keys
              /\ pc[d] # "rUnlockDir" => handle[d]["dirLock"].ino = entry[key[d]]
         /\ handle[d]["readLock"].mode # "none" =>
              /\ handle[d]["readLock"].mode = "shared"
              /\ handle[d]["readLock"].ino = lockFile[key[d]]
              /\ lockFile[key[d]] # NoInode /\ key[d] \in Keys
         /\ handle[d]["exclusiveLock"].mode # "none" =>
              /\ pc[d] \in {"rCleanup", "rUnlockExcl"} /\ key[d] \in Keys
              /\ handle[d]["exclusiveLock"].ino = lockFile[key[d]]
<1>1. /\ GlobalShape(d) /\ DirShape(d) /\ ReadShape(d) /\ ExclusiveShape(d) /\ ResourceShape(d)
      /\ KeyShape(d)
  BY DEF LockerInv, Shape
<1>2. pc[d] # "idle" => key[d] \in Keys
  BY <1>1 DEF KeyShape, LockerInv, TypeOK
<1>3. handle[d]["globalLock"].mode # "none" =>
        pc[d] \in GlobalLabels /\ handle[d]["globalLock"].ino = Root
  BY <1>1 DEF GlobalShape, Held, Closed
<1>4. handle[d]["dirLock"].mode # "none" =>
        /\ pc[d] \in DirLabels /\ key[d] \in Keys
        /\ pc[d] # "rUnlockDir" => handle[d]["dirLock"].ino = entry[key[d]]
  BY <1>1, <1>2 DEF DirShape, Held, Closed, DirLabels
<1>5. handle[d]["readLock"].mode # "none" =>
        /\ handle[d]["readLock"].mode = "shared"
        /\ handle[d]["readLock"].ino = lockFile[key[d]]
        /\ lockFile[key[d]] # NoInode /\ key[d] \in Keys
  <2>1. handle[d]["readLock"].mode # "none" =>
          handle[d]["readLock"] = Held(lockFile[key[d]], "shared") /\ pc[d] # "idle"
    BY <1>1 DEF ReadShape, Held, Closed, ReadLabels, ReleasingLabels, HoldingLabels
  <2> QED
    BY <1>1, <1>2, <2>1 DEF ResourceShape, Held
<1>6. handle[d]["exclusiveLock"].mode # "none" =>
        /\ pc[d] \in {"rCleanup", "rUnlockExcl"} /\ key[d] \in Keys
        /\ handle[d]["exclusiveLock"].ino = lockFile[key[d]]
  BY <1>1, <1>2 DEF ExclusiveShape, Held, Closed
<1> QED
  BY <1>3, <1>4, <1>5, <1>6

\* Nobody waits on the way down but for who is further down for the same key.
LEMMA InOrder == LockerInv /\ OrderInv => LockOrder
<1> SUFFICES ASSUME LockerInv, OrderInv, NEW c \in Clients, NEW d \in Clients, WaitsFor(c, d)
             PROVE  \/ pc[c] \in {"lockRoot", "rLockRoot"} /\ pc[d] \in GlobalLabels
                    \/ /\ pc[c] \in {"flockDir", "rFlockDir"}
                       /\ pc[d] \in DirLabels \ GlobalLabels /\ key[d] = key[c]
  BY DEF LockOrder
<1>0. Root # NoInode /\ (pc[c] # "idle" => key[c] \in Keys)
  BY DEF LockerInv, TypeOK, Shape, KeyShape
<1>r. {"rCleanup", "rUnlockExcl"} \subseteq GlobalLabels \cap DirLabels
  BY DEF GlobalLabels, DirLabels
<1>1. CASE /\ pc[c] \in {"lockRoot", "rLockRoot"}
           /\ InTheWay(d, c, "globalLock", Root, "exclusive")
  <2>1. PICK t \in Slots : handle[d][t].ino = Root /\ handle[d][t].mode # "none"
    BY <1>1 DEF InTheWay, Incompatible
  <2>2. t # "dirLock"
    BY <1>0, <2>1 DEF OrderInv, OpenDirsApart
  <2>3. t # "readLock"
    BY <2>1, LocksHeld DEF OrderInv, InodesApart
  <2> QED
    BY <1>1, <1>r, <2>1, <2>2, <2>3, LocksHeld DEF Slots
<1>2. CASE /\ pc[c] \in {"flockDir", "rFlockDir"}
           /\ InTheWay(d, c, "dirLock", handle[c]["dirLock"].ino, "exclusive")
  <2>1. PICK t \in Slots : /\ <<d, t>> # <<c, "dirLock">>
                           /\ handle[d][t].ino = handle[c]["dirLock"].ino
                           /\ handle[d][t].mode # "none"
    BY <1>2 DEF InTheWay, Incompatible
  <2>2. /\ handle[c]["dirLock"] = Held(entry[key[c]], "none")
        /\ entry[key[c]] # NoInode /\ key[c] \in Keys
    BY <1>0, <1>2 DEF LockerInv, Shape, DirShape
  <2>3. handle[d][t].ino = entry[key[c]]
    BY <2>1, <2>2 DEF Held
  <2>4. d # c => pc[d] \notin GlobalLabels
    BY <1>2 DEF LockerInv, GlobalExclusion, GlobalLabels
  <2>5. t # "globalLock"
    BY <2>1, <2>2, <2>3, LocksHeld DEF OrderInv, EntriesApart
  <2>6. t # "readLock"
    BY <2>1, <2>2, <2>3, LocksHeld DEF OrderInv, InodesApart
  <2>7. t # "exclusiveLock"
    BY <1>2, <1>r, <2>1, <2>4, LocksHeld
  <2>8. t = "dirLock" /\ d # c
    BY <2>1, <2>5, <2>6, <2>7 DEF Slots
  <2>9. pc[d] \in DirLabels /\ key[d] \in Keys
        /\ (pc[d] # "rUnlockDir" => handle[d]["dirLock"].ino = entry[key[d]])
    BY <2>1, <2>8, LocksHeld
  <2>10. pc[d] # "rUnlockDir"
    BY <2>4, <2>8 DEF GlobalLabels
  <2>11. key[d] = key[c]
    BY <2>2, <2>3, <2>8, <2>9, <2>10 DEF OrderInv, EntriesApart
  <2> QED
    BY <1>2, <2>4, <2>8, <2>9, <2>11
<1>3. CASE /\ pc[c] = "flockFile"
           /\ InTheWay(d, c, "readLock", handle[c]["readLock"].ino, "shared")
  <2>1. PICK t \in Slots : /\ handle[d][t].ino = handle[c]["readLock"].ino
                           /\ handle[d][t].mode = "exclusive"
    BY <1>3 DEF InTheWay, Incompatible
  <2>2. /\ handle[c]["readLock"] = Held(lockFile[key[c]], "none")
        /\ lockFile[key[c]] # NoInode /\ key[c] \in Keys
    BY <1>0, <1>3 DEF LockerInv, Shape, ReadShape
  <2>3. handle[d][t].ino = lockFile[key[c]]
    BY <2>1, <2>2 DEF Held
  <2>4. t # "globalLock"
    BY <2>1, <2>2, <2>3, LocksHeld DEF OrderInv, InodesApart
  <2>5. t # "dirLock"
    BY <2>2, <2>3 DEF OrderInv, OpenDirsApart
  <2>6. t # "readLock"
    BY <2>1, LocksHeld
  <2>7. t # "exclusiveLock"
    <3>1. SUFFICES ASSUME t = "exclusiveLock" PROVE FALSE
      OBVIOUS
    <3>2. pc[d] \in {"rCleanup", "rUnlockExcl"} /\ key[d] \in Keys
          /\ lockFile[key[d]] = lockFile[key[c]]
      BY <2>1, <2>3, <3>1, LocksHeld
    <3>3. key[d] = key[c]
      BY <2>2, <3>2 DEF OrderInv, InodesApart
    <3>4. pc[c] \in DirLabels /\ pc[d] \in DirLabels /\ d # c
      BY <1>3, <1>r, <3>2 DEF DirLabels
    <3> QED
      BY <3>3, <3>4 DEF LockerInv, DirExclusion
  <2> QED
    BY <2>4, <2>5, <2>6, <2>7 DEF Slots
<1> QED
  BY <1>1, <1>2, <1>3 DEF WaitsFor

\* LockOrder: a call waits for the global lock or for one of its own key, in this
\* order, and nobody at all for those who are between calls.
THEOREM LockOrderHolds == Spec => []LockOrder
<1>1. Init => LockerInv /\ OrderInv
  BY InvInit DEF Init, OrderInv, InodesApart, EntriesApart, OpenDirsApart, Closed, Slots
<1>2. LockerInv /\ OrderInv /\ [Next]_vars => LockerInv' /\ OrderInv'
  BY InvStep, InodesApartStep, EntriesApartStep, OpenDirsApartStep DEF OrderInv
<1> QED
  BY <1>1, <1>2, InOrder, PTL DEF Spec

\* WaitsEnd: however many clients there are, a chain of waiting has at most two
\* links, so that none closes to a circle: Acquire and release cannot deadlock.
THEOREM WaitsEndHolds == Spec => []WaitsEnd
<1>1. LockOrder => WaitsEnd
  <2> SUFFICES ASSUME LockOrder,
                      NEW a \in Clients, NEW b \in Clients, NEW c \in Clients, NEW d \in Clients,
                      WaitsFor(a, b), WaitsFor(b, c), WaitsFor(c, d)
               PROVE  FALSE
    BY DEF WaitsEnd
  <2>1. pc[b] \in {"flockDir", "rFlockDir"}
    BY DEF LockOrder, GlobalLabels, DirLabels
  <2>2. pc[c] \in DirLabels \ GlobalLabels
    BY <2>1 DEF LockOrder
  <2>3. pc[c] \in {"lockRoot", "rLockRoot", "flockDir", "rFlockDir"}
    BY DEF LockOrder
  <2> QED
    BY <2>2, <2>3 DEF DirLabels, GlobalLabels
<1> QED
  BY <1>1, LockOrderHolds, PTL

-----------------------------------------------------------------------------
(* Release gives up only for another holder                                *)

\* Whoever has a lock on the lock file of a client at TryLock is another holder.
LEMMA RefusalHasHolder ==
  ASSUME LockerInv, InodesApart, NEW c \in Clients, pc[c] = "rTryLock",
         Blocked(c, "exclusiveLock", handle[c]["exclusiveLock"].ino, "exclusive")
  PROVE  \E d \in Clients \ {c} : d \in Holders(key[c])
<1>1. /\ key[c] \in Keys
      /\ handle[c]["exclusiveLock"] = Held(lockFile[key[c]], "none")
      /\ handle[c]["readLock"] = Closed
      /\ handle[c]["dirLock"] = Held(entry[key[c]], "exclusive")
  BY DEF LockerInv, TypeOK, Shape, KeyShape, ExclusiveShape, ReadShape, DirShape, ReadLabels,
     ReleasingLabels, HoldingLabels, DirLabels
<1>2. PICK d \in Clients, t \in Slots :
        /\ <<d, t>> # <<c, "exclusiveLock">>
        /\ handle[d][t].ino = lockFile[key[c]]
        /\ handle[d][t].mode # "none"
  <2>1. \A d \in Clients : DOMAIN handle[d] = Slots
    BY DEF LockerInv, TypeOK
  <2>2. handle[c]["exclusiveLock"].ino = lockFile[key[c]]
    BY <1>1 DEF Held
  <2> QED
    BY <2>1, <2>2 DEF Blocked, Incompatible
<1>3. d # c => pc[d] \notin GlobalLabels
  BY DEF LockerInv, GlobalExclusion, GlobalLabels
<1>4. lockFile[key[c]] # NoInode
  <2>1. CASE t = "globalLock"
    BY <1>2, <2>1, LocksHeld DEF LockerInv, TypeOK
  <2>2. CASE t = "dirLock"
    <3>1. pc[d] # "rUnlockDir" /\ pc[d] \in DirLabels
      BY <1>2, <1>3, <2>2, LocksHeld DEF GlobalLabels
    <3>2. DirShape(d)
      BY DEF LockerInv, Shape
    <3>3. handle[d]["dirLock"] = Held(entry[key[d]], "exclusive") /\ entry[key[d]] # NoInode
      BY <3>1, <3>2 DEF DirShape
    <3> QED
      BY <1>2, <2>2, <3>3 DEF Held
  <2>3. CASE t = "readLock"
    BY <1>2, <2>3, LocksHeld
  <2>4. CASE t = "exclusiveLock"
    <3>1. d # c /\ pc[d] \in GlobalLabels
      BY <1>2, <2>4, LocksHeld DEF GlobalLabels
    <3> QED
      BY <1>3, <3>1
  <2> QED
    BY <2>1, <2>2, <2>3, <2>4 DEF Slots
<1>5. t # "globalLock"
  BY <1>1, <1>2, <1>4, LocksHeld DEF InodesApart
<1>6. t # "dirLock"
  <2>1. SUFFICES ASSUME t = "dirLock" PROVE FALSE
    OBVIOUS
  <2>2. pc[d] # "rUnlockDir"
    BY <1>3 DEF GlobalLabels
  <2>3. key[d] \in Keys /\ lockFile[key[c]] = entry[key[d]]
    BY <1>2, <2>1, <2>2, LocksHeld
  <2> QED
    BY <1>1, <1>4, <2>3 DEF InodesApart
<1>7. t # "exclusiveLock"
  <2>1. SUFFICES ASSUME t = "exclusiveLock" PROVE FALSE
    OBVIOUS
  <2>2. d # c /\ pc[d] \in GlobalLabels
    BY <1>2, <2>1, LocksHeld DEF GlobalLabels
  <2> QED
    BY <1>3, <2>2
<1>8. t = "readLock"
  BY <1>5, <1>6, <1>7 DEF Slots
<1>9. d # c /\ handle[d]["readLock"].mode = "shared" /\ key[d] = key[c]
  <2>1. d # c
    BY <1>1, <1>2, <1>8 DEF Closed
  <2>2. /\ handle[d]["readLock"].mode = "shared" /\ key[d] \in Keys
        /\ lockFile[key[d]] = lockFile[key[c]]
    BY <1>2, <1>8, LocksHeld
  <2> QED
    BY <1>1, <1>4, <2>1, <2>2 DEF InodesApart
<1>10. pc[d] \in HoldingLabels
  <2>1. pc[d] \notin DirLabels
    BY <1>9 DEF LockerInv, DirExclusion, DirLabels
  <2>2. pc[d] \in ReadLabels \cup ReleasingLabels
    <3>1. ReadShape(d)
      BY DEF LockerInv, Shape
    <3>2. handle[d]["readLock"] # Closed /\ handle[d]["readLock"] # Held(lockFile[key[d]], "none")
      BY <1>9 DEF Held, Closed
    <3> QED
      BY <3>1, <3>2 DEF ReadShape
  <2> QED
    BY <2>1, <2>2 DEF ReadLabels, ReleasingLabels, HoldingLabels, DirLabels
<1> QED
  BY <1>9, <1>10 DEF Holders

\* Only TryLock, or a failure of it, leads from rTryLock to the end of release.
LEMMA OnlyTryLockRefuses ==
  ASSUME LockerInv, Next, NEW c \in Clients, pc[c] = "rTryLock", pc'[c] = "rUnlockDir",
         mishaps' = mishaps
  PROVE  Blocked(c, "exclusiveLock", handle[c]["exclusiveLock"].ino, "exclusive")
<1>1. PICK d \in Clients : \/ \E k \in Keys : Acquire(d, k) \/ ReleaseAgain(d, k)
                           \/ Release(d) \/ LockRoot(d) \/ Progress(d)
                           \/ CallFails(d) \/ Crash(d)
  BY DEF Next
<1>2. d = c
  BY <1>1, StepIsAlone DEF Alone
<1>3. mishaps' # mishaps + 1
  BY DEF LockerInv, TypeOK
<1>4. Progress(c)
  BY <1>1, <1>2, <1>3 DEF Acquire, ReleaseAgain, Release, LockRoot, CallFails, Crash, Step
<1>5. TryLock(c)
  BY <1>4 DEF Progress, MakeEntry, OpenDir, LockDir, TouchLockFile, OpenLockFile, ReadLockFile,
     FactoryCall, FactoryReturns, AcquireUnlocks, OpenForTryLock, CleanUp, RemoveChild,
     RemoveDir, ReleaseUnlocks, ReleaseReturns, PathMissing, Step, Return
<1> QED
  BY <1>5 DEF TryLock, Step, LockerInv, TypeOK

\* RefusedByHolder: a release that TryLock turns away leaves the entry to somebody who
\* still holds it, so that nothing is left for ever to nobody.
THEOREM RefusedByHolderHolds == Spec => RefusedByHolder
<1>1. Init => LockerInv /\ InodesApart
  BY InvInit DEF Init, InodesApart
<1>2. LockerInv /\ InodesApart /\ [Next]_vars => LockerInv' /\ InodesApart'
  BY InvStep, InodesApartStep
<1>3. LockerInv /\ InodesApart /\ [Next]_vars =>
        [\A c \in Clients :
           pc[c] = "rTryLock" /\ pc'[c] = "rUnlockDir" /\ UNCHANGED mishaps =>
             \E d \in Clients \ {c} : d \in Holders(key[c])]_vars
  <2> SUFFICES ASSUME LockerInv, InodesApart, Next, NEW c \in Clients,
                      pc[c] = "rTryLock", pc'[c] = "rUnlockDir", mishaps' = mishaps
               PROVE  \E d \in Clients \ {c} : d \in Holders(key[c])
    BY DEF vars
  <2> QED
    BY RefusalHasHolder, OnlyTryLockRefuses
<1> QED
  BY <1>1, <1>2, <1>3, PTL DEF Spec, RefusedByHolder

-----------------------------------------------------------------------------
(* Every call comes nearer to its end                                      *)

\* The labels inside a call, other than that of RemoveAll.
OneStepLabels == DOMAIN StepsLeft \ {"rRemoveAll"}

\* c leaves a label for one with fewer steps left, or its call returns.
Forward(c) ==
  /\ pc[c] \in DOMAIN StepsLeft
  /\ \/ pc'[c] \in {"idle", "holding"}
     \/ pc'[c] \in OneStepLabels /\ StepsLeft[pc'[c]] < StepsLeft[pc[c]]

\* What is left is a number, and a directory has three children at the most.
LEMMA ChildrenNumber ==
  ASSUME NEW l, NEW r \in ResourceState
  PROVE  (IF l = NoInode THEN 0 ELSE 1) + [absent |-> 0, partial |-> 1, ready |-> 2][r] \in 0 .. 3
<1>1. CASE r = "absent"
  BY <1>1
<1>2. CASE r = "partial"
  BY <1>2
<1>3. CASE r = "ready"
  BY <1>3
<1> QED
  BY <1>1, <1>2, <1>3 DEF ResourceState

LEMMA LabelNumber ==
  /\ \A l \in DOMAIN StepsLeft : StepsLeft[l] \in 1 .. 14
  /\ {"idle", "holding"} \cap DOMAIN StepsLeft = {}
  /\ "rRemoveAll" \in DOMAIN StepsLeft /\ StepsLeft["rRemoveAll"] = 3
  /\ "rUnlockExcl" \in OneStepLabels /\ StepsLeft["rUnlockExcl"] = 7
  BY DEF StepsLeft, OneStepLabels

\* What is left of the call of c, now and after the step.
LEMMA LeftNumber ==
  ASSUME LockerInv, LockerInv', NEW c \in Clients
  PROVE  /\ pc[c] # "idle" => Children(key[c]) \in 0 .. 3
         /\ pc'[c] # "idle" => Children(key[c])' \in 0 .. 3
         /\ pc[c] \in OneStepLabels => Left(c) = StepsLeft[pc[c]]
         /\ pc[c] = "rRemoveAll" => Left(c) = 3 + Children(key[c])
         /\ pc[c] \notin DOMAIN StepsLeft => Left(c) = 0
         /\ pc'[c] \in OneStepLabels => Left(c)' = StepsLeft[pc'[c]]
         /\ pc'[c] = "rRemoveAll" => Left(c)' = 3 + Children(key[c])'
         /\ pc'[c] \notin DOMAIN StepsLeft => Left(c)' = 0
<1>1. pc[c] # "idle" => Children(key[c]) \in 0 .. 3
  <2>1. pc[c] # "idle" => resource[key[c]] \in ResourceState
    BY DEF LockerInv, TypeOK, Shape, KeyShape
  <2> QED
    BY <2>1, ChildrenNumber DEF Children
<1>2. pc'[c] # "idle" => Children(key[c])' \in 0 .. 3
  <2>1. pc'[c] # "idle" => resource'[key'[c]] \in ResourceState
    BY DEF LockerInv, TypeOK, Shape, KeyShape
  <2> QED
    BY <2>1, ChildrenNumber DEF Children
<1>3. /\ pc[c] \in OneStepLabels => Left(c) = StepsLeft[pc[c]]
      /\ pc[c] = "rRemoveAll" => Left(c) = 3 + Children(key[c])
      /\ pc[c] \notin DOMAIN StepsLeft => Left(c) = 0
  BY LabelNumber DEF Left, OneStepLabels
<1>4. /\ pc'[c] \in OneStepLabels => Left(c)' = StepsLeft[pc'[c]]
      /\ pc'[c] = "rRemoveAll" => Left(c)' = 3 + Children(key[c])'
      /\ pc'[c] \notin DOMAIN StepsLeft => Left(c)' = 0
  BY LabelNumber DEF Left, OneStepLabels
<1> QED
  BY <1>1, <1>2, <1>3, <1>4

LEMMA ForwardAdvances ==
  ASSUME LockerInv, LockerInv', NEW c \in Clients, Forward(c)
  PROVE  Left(c)' < Left(c)
<1>1. pc[c] # "idle" /\ StepsLeft[pc[c]] \in 1 .. 14
  BY LabelNumber DEF Forward
<1>2. Left(c) \in Nat /\ Left(c) >= StepsLeft[pc[c]]
  <2>1. CASE pc[c] = "rRemoveAll"
    BY <1>1, <2>1, LeftNumber, LabelNumber
  <2>2. CASE pc[c] \in OneStepLabels
    BY <1>1, <2>2, LeftNumber
  <2> QED
    BY <2>1, <2>2 DEF Forward, OneStepLabels
<1>3. CASE pc'[c] \in {"idle", "holding"}
  <2>1. Left(c)' = 0
    BY <1>3, LeftNumber, LabelNumber
  <2> QED
    BY <1>1, <1>2, <2>1
<1>4. CASE pc'[c] \in OneStepLabels /\ StepsLeft[pc'[c]] < StepsLeft[pc[c]]
  <2>1. Left(c)' = StepsLeft[pc'[c]] /\ StepsLeft[pc'[c]] \in 1 .. 14
    BY <1>4, LeftNumber, LabelNumber DEF OneStepLabels
  <2> QED
    BY <1>1, <1>2, <1>4, <2>1
<1> QED
  BY <1>3, <1>4 DEF Forward

\* Every way on inside a call leads forward, but for the two on which RemoveAll empties
\* the directory.
LEMMA ErrorsForward ==
  \A l \in DOMAIN OnError :
    /\ l \in DOMAIN StepsLeft /\ OnError[l] \in OneStepLabels
    /\ StepsLeft[OnError[l]] < StepsLeft[l]
  BY DEF OnError, StepsLeft, OneStepLabels

LEMMA StepsForward ==
  ASSUME LockerInv, NEW c \in Clients, LockRoot(c) \/ Progress(c) \/ CallFails(c)
  PROVE  \/ Forward(c)
         \/ pc[c] = "rUnlockExcl" /\ pc'[c] = "rRemoveAll"
         \/ RemoveChild(c)
<1> USE DEF LockerInv, TypeOK, Step, Return
<1>1. CASE LockRoot(c) \/ OpenDir(c) \/ LockDir(c)
  BY <1>1 DEF LockRoot, OpenDir, LockDir, Forward, OneStepLabels, StepsLeft
<1>2. CASE MakeEntry(c) \/ TouchLockFile(c) \/ OpenLockFile(c) \/ ReadLockFile(c)
  BY <1>2 DEF MakeEntry, TouchLockFile, OpenLockFile, ReadLockFile, Forward, OneStepLabels,
     StepsLeft
<1>3. CASE FactoryCall(c) \/ FactoryReturns(c) \/ OpenForTryLock(c) \/ TryLock(c)
  BY <1>3 DEF FactoryCall, FactoryReturns, OpenForTryLock, TryLock, Forward, OneStepLabels,
     StepsLeft
<1>4. CASE CleanUp(c) \/ RemoveDir(c)
  BY <1>4 DEF CleanUp, RemoveDir, Forward, OneStepLabels, StepsLeft
<1>5. CASE AcquireUnlocks(c)
  BY <1>5 DEF AcquireUnlocks, Forward, OneStepLabels, StepsLeft
<1>6. CASE ReleaseUnlocks(c) \/ ReleaseReturns(c)
  BY <1>6 DEF ReleaseUnlocks, ReleaseReturns, Forward, OneStepLabels, StepsLeft
<1>7. CASE PathMissing(c)
  <2>1. pc[c] \in DOMAIN OnError /\ pc'[c] = OnError[pc[c]]
    BY <1>7 DEF PathMissing, OnError
  <2> QED
    BY <2>1, ErrorsForward DEF Forward
<1>8. CASE CallFails(c)
  <2>1. \/ pc[c] = "lockRoot" /\ pc'[c] = "idle"
        \/ pc[c] \in DOMAIN OnError /\ pc'[c] = OnError[pc[c]]
    BY <1>8 DEF CallFails
  <2>2. "lockRoot" \in DOMAIN StepsLeft
    BY DEF StepsLeft
  <2> QED
    BY <2>1, <2>2, ErrorsForward DEF Forward
<1> QED
  BY <1>1, <1>2, <1>3, <1>4, <1>5, <1>6, <1>7, <1>8 DEF Progress

\* A step of its own takes what is left of a call down.
LEMMA OwnStepAdvances ==
  ASSUME LockerInv, LockerInv', NEW c \in Clients, LockRoot(c) \/ Progress(c) \/ CallFails(c)
  PROVE  Left(c)' < Left(c)
<1>1. CASE Forward(c)
  BY <1>1, ForwardAdvances
<1>2. CASE pc[c] = "rUnlockExcl" /\ pc'[c] = "rRemoveAll"
  <2>1. Left(c) = 7
    BY <1>2, LeftNumber, LabelNumber
  <2>2. Left(c)' \in 3 .. 6
    <3>1. Left(c)' = 3 + Children(key[c])' /\ Children(key[c])' \in 0 .. 3
      BY <1>2, LeftNumber
    <3> QED
      BY <3>1
  <2> QED
    BY <2>1, <2>2
<1>3. CASE RemoveChild(c)
  <2>1. /\ pc[c] = "rRemoveAll" /\ pc'[c] = "rRemoveAll" /\ key'[c] = key[c]
        /\ key[c] \in Keys
    BY <1>3 DEF RemoveChild, Step, LockerInv, TypeOK, Shape, KeyShape
  <2>2. /\ Left(c) = 3 + Children(key[c]) /\ Left(c)' = 3 + Children(key[c])'
        /\ Children(key[c]) \in 0 .. 3 /\ Children(key[c])' \in 0 .. 3
    BY <2>1, LeftNumber
  <2>3. Children(key[c])' < Children(key[c])
    <3>1. CASE /\ lockFile[key[c]] # NoInode
               /\ lockFile' = [lockFile EXCEPT ![key[c]] = NoInode]
               /\ UNCHANGED resource
      <4>1. lockFile'[key[c]] = NoInode
        BY <2>1, <3>1 DEF LockerInv, TypeOK
      <4>2. [absent |-> 0, partial |-> 1, ready |-> 2][resource[key[c]]] \in Nat
        BY <2>1 DEF LockerInv, TypeOK, ResourceState
      <4> QED
        BY <2>1, <3>1, <4>1, <4>2 DEF Children
    <3>2. CASE /\ resource[key[c]] # "absent"
               /\ resource' = [resource EXCEPT ![key[c]] =
                                 IF @ = "ready" THEN "partial" ELSE "absent"]
               /\ UNCHANGED lockFile
      <4>1. \/ resource[key[c]] = "ready" /\ resource'[key[c]] = "partial"
            \/ resource[key[c]] = "partial" /\ resource'[key[c]] = "absent"
        BY <2>1, <3>2 DEF LockerInv, TypeOK, ResourceState
      <4> QED
        BY <2>1, <3>2, <4>1 DEF Children
    <3> QED
      BY <1>3, <3>1, <3>2 DEF RemoveChild
  <2> QED
    BY <2>2, <2>3
<1> QED
  BY <1>1, <1>2, <1>3, StepsForward

\* A step of another client leaves it, for the directory lock keeps everybody else out
\* of the directory that is being removed.
LEMMA OthersLeaveLeft ==
  ASSUME LockerInv, LockerInv', Next, NEW c \in Clients, NEW d \in Clients \ {c}, Alone(d),
         DiskAction(d) \/ UNCHANGED disk
  PROVE  Left(c)' = Left(c)
<1>1. pc'[c] = pc[c] /\ key'[c] = key[c]
  BY DEF Alone
<1>2. CASE pc[c] # "rRemoveAll"
  BY <1>1, <1>2 DEF Left
<1>3. CASE pc[c] = "rRemoveAll"
  <2>1. key[c] \in Keys /\ pc[c] \in DirLabels
    BY <1>3 DEF LockerInv, TypeOK, Shape, KeyShape, DirLabels
  <2>2. lockFile'[key[c]] = lockFile[key[c]] /\ resource'[key[c]] = resource[key[c]]
    <3>1. CASE UNCHANGED disk
      BY <3>1 DEF disk
    <3>2. CASE DiskAction(d) /\ key[d] # key[c]
      BY <2>1, <3>2, DiskActionAlone
    <3>3. CASE DiskAction(d) /\ key[d] = key[c]
      <4>1. pc[d] \notin DirLabels
        BY <2>1, <3>3 DEF LockerInv, DirExclusion
      <4> QED
        BY <3>3, <4>1 DEF DiskAction, MakeEntry, TouchLockFile, FactoryCall, FactoryReturns,
           CleanUp, RemoveChild, RemoveDir, Step, DirLabels
    <3> QED
      BY <3>1, <3>2, <3>3
  <2> QED
    BY <1>1, <2>2 DEF Left, Children
<1> QED
  BY <1>2, <1>3

\* A call is begun, or its process dies: only then is more left than before.
LEMMA BeginsOrEnds ==
  ASSUME LockerInv, LockerInv', NEW c \in Clients,
         (\E k \in Keys : Acquire(c, k) \/ ReleaseAgain(c, k)) \/ Release(c) \/ Crash(c)
  PROVE  Left(c) = 0 \/ Left(c)' = 0
<1>1. CASE (\E k \in Keys : Acquire(c, k) \/ ReleaseAgain(c, k)) \/ Release(c)
  <2>1. pc[c] \in {"idle", "holding"}
    BY <1>1 DEF Acquire, ReleaseAgain, Release, Step
  <2> QED
    BY <2>1, LeftNumber, LabelNumber
<1>2. CASE Crash(c)
  <2>1. pc'[c] = "idle"
    BY <1>2 DEF Crash, Return, LockerInv, TypeOK
  <2> QED
    BY <2>1, LeftNumber, LabelNumber
<1> QED
  BY <1>1, <1>2

LEMMA LeftIsNatural ==
  ASSUME LockerInv, LockerInv', NEW c \in Clients
  PROVE  Left(c) \in Nat /\ Left(c)' \in Nat
<1>1. Left(c) \in Nat
  <2>1. CASE pc[c] = "rRemoveAll"
    BY <2>1, LeftNumber
  <2>2. CASE pc[c] \in OneStepLabels
    BY <2>2, LeftNumber, LabelNumber DEF OneStepLabels
  <2>3. CASE pc[c] \notin DOMAIN StepsLeft
    BY <2>3, LeftNumber
  <2> QED
    BY <2>1, <2>2, <2>3 DEF OneStepLabels
<1>2. Left(c)' \in Nat
  <2>1. CASE pc'[c] = "rRemoveAll"
    BY <2>1, LeftNumber
  <2>2. CASE pc'[c] \in OneStepLabels
    BY <2>2, LeftNumber, LabelNumber DEF OneStepLabels
  <2>3. CASE pc'[c] \notin DOMAIN StepsLeft
    BY <2>3, LeftNumber
  <2> QED
    BY <2>1, <2>2, <2>3 DEF OneStepLabels
<1> QED
  BY <1>1, <1>2

\* CallsAdvance: a call takes a bounded number of steps of its own, and no other client
\* sets it back, whatever fails and whoever dies.
THEOREM CallsAdvanceHolds == Spec => CallsAdvance
<1>1. ASSUME LockerInv, LockerInv', Next, NEW c \in Clients PROVE Left(c)' > Left(c) => Left(c) = 0
  <2>1. PICK d \in Clients :
          /\ Alone(d)
          /\ DiskAction(d) \/ UNCHANGED disk
    BY <1>1, StepKinds
  <2>2. Left(c) \in Nat /\ Left(c)' \in Nat
    BY <1>1, LeftIsNatural
  <2>3. CASE d # c
    <3>1. Left(c)' = Left(c)
      BY <1>1, <2>1, <2>3, OthersLeaveLeft
    <3> QED
      BY <2>2, <3>1
  <2>4. CASE d = c /\ DiskAction(c)
    <3>1. Left(c)' < Left(c)
      BY <1>1, <2>4, OwnStepAdvances DEF DiskAction, Progress
    <3> QED
      BY <2>2, <3>1
  <2>5. CASE UNCHANGED disk
    <3>1. PICK e \in Clients : \/ \E k \in Keys : Acquire(e, k) \/ ReleaseAgain(e, k)
                               \/ Release(e) \/ LockRoot(e) \/ Progress(e)
                               \/ CallFails(e) \/ Crash(e)
      BY <1>1 DEF Next
    <3>2. CASE e # c
      <4>1. Left(c)' = Left(c)
        BY <1>1, <2>5, <3>1, <3>2, StepIsAlone, OthersLeaveLeft
      <4> QED
        BY <2>2, <4>1
    <3>3. CASE LockRoot(c) \/ Progress(c) \/ CallFails(c)
      <4>1. Left(c)' < Left(c)
        BY <1>1, <3>3, OwnStepAdvances
      <4> QED
        BY <2>2, <4>1
    <3>4. CASE e = c /\ ~(LockRoot(c) \/ Progress(c) \/ CallFails(c))
      <4>1. Left(c) = 0 \/ Left(c)' = 0
        BY <1>1, <3>1, <3>4, BeginsOrEnds
      <4> QED
        BY <2>2, <4>1
    <3> QED
      BY <3>2, <3>3, <3>4
  <2> QED
    BY <2>1, <2>3, <2>4, <2>5
<1>2. LockerInv /\ LockerInv' /\ [Next]_vars =>
        [\A c \in Clients :
           /\ Left(c)' > Left(c) => Left(c) = 0
           /\ LockRoot(c) \/ Progress(c) \/ CallFails(c) => Left(c)' < Left(c)]_vars
  BY <1>1, OwnStepAdvances
<1> QED
  BY <1>2, InvariantHolds, PTL DEF Spec, CallsAdvance

-----------------------------------------------------------------------------
(* Somebody always goes on                                                 *)

\* The kernel grants the flock c is at, if c is at one.
FlockMayGo(c) ==
  /\ pc[c] \in {"lockRoot", "rLockRoot"} => ~Blocked(c, "globalLock", Root, "exclusive")
  /\ pc[c] \in {"flockDir", "rFlockDir"} =>
       ~Blocked(c, "dirLock", handle[c]["dirLock"].ino, "exclusive")
  /\ pc[c] = "flockFile" => ~Blocked(c, "readLock", handle[c]["readLock"].ino, "shared")

InCall(c) == pc[c] \in AcquireLabels \cup ReleaseLabels

SomebodyGoes == (\E c \in Clients : InCall(c)) => \E c \in Clients : InCall(c) /\ FlockMayGo(c)

LEMMA BlockedWaits ==
  ASSUME TypeOK, NEW c \in Clients, ~FlockMayGo(c)
  PROVE  \E d \in Clients : WaitsFor(c, d)
<1>1. \A d \in Clients : DOMAIN handle[d] = Slots
  BY DEF TypeOK
<1>2. ASSUME NEW s, NEW i, NEW m, Blocked(c, s, i, m)
      PROVE  \E d \in Clients : InTheWay(d, c, s, i, m)
  BY <1>1, <1>2 DEF Blocked, InTheWay
<1> QED
  BY <1>2 DEF FlockMayGo, WaitsFor

\* SomebodyGoes: with any number of clients, while a call of Acquire or release is in
\* progress one of those in progress is not kept waiting by a lock (refcounted.go:84-139);
\* with CallsAdvance, such a call comes nearer to its end.
THEOREM SomebodyGoesHolds == Spec => []SomebodyGoes
<1>1. TypeOK /\ LockOrder => SomebodyGoes
  <2> SUFFICES ASSUME TypeOK, LockOrder, NEW a \in Clients, InCall(a),
                      \A c \in Clients : InCall(c) => ~FlockMayGo(c)
               PROVE  FALSE
    BY DEF SomebodyGoes
  <2>1. PICK b \in Clients : WaitsFor(a, b)
    BY BlockedWaits
  <2>2. pc[b] \in GlobalLabels \cup DirLabels
    BY <2>1 DEF LockOrder
  <2>3. InCall(b)
    BY <2>2 DEF GlobalLabels, DirLabels, InCall, AcquireLabels, ReleaseLabels
  <2>4. PICK c \in Clients : WaitsFor(b, c)
    BY <2>3, BlockedWaits
  <2>5. pc[b] \in {"flockDir", "rFlockDir"} /\ pc[c] \in DirLabels \ GlobalLabels
    BY <2>2, <2>4 DEF LockOrder, GlobalLabels, DirLabels
  <2>6. InCall(c)
    BY <2>5 DEF DirLabels, InCall, AcquireLabels, ReleaseLabels
  <2>7. PICK d \in Clients : WaitsFor(c, d)
    BY <2>6, BlockedWaits
  <2>8. pc[c] \in {"lockRoot", "rLockRoot", "flockDir", "rFlockDir"}
    BY <2>7 DEF LockOrder
  <2> QED
    BY <2>5, <2>8 DEF DirLabels
<1> QED
  BY <1>1, TypeCorrect, LockOrderHolds, PTL

=============================================================================
