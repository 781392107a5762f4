-------------------------- MODULE AtomicFileProofs --------------------------
(***************************************************************************)
(* What holds of AtomicFile for any number of writers and power losses and *)
(* any set of permission bits.                                             *)
(***************************************************************************)
EXTENDS AtomicFile, TLAPS

USE AtomicFileAssumption

\* No file is there but the old one, and nobody has written.
LEMMA InvInit == Init => AtomicFileInv
<1> SUFFICES ASSUME Init PROVE AtomicFileInv
  OBVIOUS
<1>1. TypeOK
  <2>1. currentMask \in SUBSET Bits /\ losses \in 0 .. MaxLosses
    BY DEF Init, DefaultMask
  <2>2. perm \in [Writers -> SUBSET Bits] /\ mode \in [Writers -> SUBSET Bits]
    BY DEF Init
  <2> QED
    BY <2>1, <2>2 DEF Init, TypeOK, Labels, Data
<1>2. WrittenInv
  BY DEF Init, WrittenInv
<1> QED
  BY <1>1, <1>2 DEF AtomicFileInv

-----------------------------------------------------------------------------
\* The two operations on the mask touch no file.
LEMMA MaskSteps ==
  ASSUME AtomicFileInv,
         Inititalize \/ \E m \in SUBSET Bits : SetUmask(m)
  PROVE  AtomicFileInv'
  BY DEF AtomicFileInv, TypeOK, WrittenInv, Inititalize, SetUmask, files

\* Each step of WriteFile puts in place what the next label says it has.
LEMMA WriterStep ==
  ASSUME AtomicFileInv, NEW w \in Writers,
         \/ \E p \in SUBSET Bits : WriteFile(w, p)
         \/ CreateTemp(w) \/ Chmod(w) \/ Copy(w) \/ CopyFails(w) \/ Sync(w)
         \/ Close(w) \/ Rename(w) \/ Fails(w)
  PROVE  AtomicFileInv'
<1> USE DEF AtomicFileInv, TypeOK, WrittenInv, Step, files, masks, Labels, Data
<1>1. CASE \E p \in SUBSET Bits : WriteFile(w, p)
  BY <1>1 DEF WriteFile
<1>2. CASE CreateTemp(w)
  BY <1>2 DEF CreateTemp
<1>3. CASE Chmod(w)
  BY <1>3 DEF Chmod
<1>4. CASE Copy(w)
  BY <1>4 DEF Copy
<1>5. CASE CopyFails(w)
  BY <1>5 DEF CopyFails
<1>6. CASE Sync(w)
  BY <1>6 DEF Sync
<1>7. CASE Close(w)
  BY <1>7 DEF Close
<1>8. CASE Rename(w)
  BY <1>8 DEF Rename
<1>9. CASE Fails(w)
  BY <1>9 DEF Fails
<1> QED
  BY <1>1, <1>2, <1>3, <1>4, <1>5, <1>6, <1>7, <1>8, <1>9

\* The kernel writes back what is there: it cannot undo an fsync.
LEMMA WriteBackStep == ASSUME AtomicFileInv, WriteBack PROVE AtomicFileInv'
<1> USE DEF AtomicFileInv, TypeOK, WrittenInv, WriteBack, Data, masks
<1>1. CASE diskTarget' = target /\ UNCHANGED disk
  BY <1>1
<1>2. CASE /\ \E w \in Writers : disk' = [disk EXCEPT ![w] = data[w]]
           /\ UNCHANGED diskTarget
  BY <1>2
<1> QED
  BY <1>1, <1>2

\* What has survived a power loss was on the disk before, and only a finished
\* call has its file under the name there.
LEMMA PowerLossStep == ASSUME AtomicFileInv, PowerLoss PROVE AtomicFileInv'
<1> USE DEF AtomicFileInv, TypeOK, WrittenInv, PowerLoss, Data, Labels, DefaultMask
<1>1. TypeOK'
  <2>1. pc' \in [Writers -> Labels]
    OBVIOUS
  <2>2. currentMask' \in SUBSET Bits /\ umask' \in SUBSET Bits
    OBVIOUS
  <2>3. losses' \in 0 .. MaxLosses
    OBVIOUS
  <2> QED
    BY <2>1, <2>2, <2>3
<1>2. ASSUME NEW w \in Writers
      PROVE  pc'[w] \in {"idle", "done", "error", "dead"} /\ (pc'[w] = "done" <=> pc[w] = "done")
  OBVIOUS
<1>3. WrittenInv'
  BY <1>2
<1> QED
  BY <1>1, <1>3

\* Every step preserves the invariant.
LEMMA InvStep == AtomicFileInv /\ [Next]_vars => AtomicFileInv'
<1> SUFFICES ASSUME AtomicFileInv, [Next]_vars PROVE AtomicFileInv'
  OBVIOUS
<1>1. CASE UNCHANGED vars
  BY <1>1 DEF vars, files, masks, AtomicFileInv, TypeOK, WrittenInv
<1>2. CASE Next
  BY <1>2, MaskSteps, WriterStep, WriteBackStep, PowerLossStep DEF Next
<1> QED
  BY <1>1, <1>2

-----------------------------------------------------------------------------
\* AtomicFileInv: at each step of WriteFile, so much of the temporary file is in
\* place.
THEOREM InvariantHolds == Spec => []AtomicFileInv
  BY InvInit, InvStep, PTL DEF Spec

\* TargetComplete: the name leads to the old file or to all of one call's data.
THEOREM TargetCompleteHolds == Spec => []TargetComplete
<1>1. AtomicFileInv => TargetComplete
  BY DEF AtomicFileInv, TypeOK, WrittenInv, TargetComplete
<1> QED
  BY <1>1, InvariantHolds, PTL

\* TargetMode: and to a file with the permissions that call asked for.
THEOREM TargetModeHolds == Spec => []TargetMode
<1>1. AtomicFileInv => TargetMode
  BY DEF AtomicFileInv, TypeOK, WrittenInv, TargetMode
<1> QED
  BY <1>1, InvariantHolds, PTL

\* ErrorLeavesFile: a WriteFile that returns an error has replaced nothing.
THEOREM ErrorLeavesFileHolds == Spec => []ErrorLeavesFile
<1>1. AtomicFileInv => ErrorLeavesFile
  BY DEF AtomicFileInv, WrittenInv, ErrorLeavesFile
<1> QED
  BY <1>1, InvariantHolds, PTL

-----------------------------------------------------------------------------
(* The register                                                            *)

\* The file that has the name, here or on the disk, is the old one or that of a call
\* that is done, with all of its data and its permissions.
LEMMA FoundWhole ==
  ASSUME AtomicFileInv
  PROVE  /\ Found(target, data) =
              IF target = Old THEN Old ELSE [call |-> target, data |-> "full", mode |-> perm[target]]
         /\ Found(diskTarget, disk) =
              IF diskTarget = Old THEN Old
              ELSE [call |-> diskTarget, data |-> "full", mode |-> perm[diskTarget]]
  BY DEF Found, AtomicFileInv, TypeOK, WrittenInv

\* Before the first call both sides have the old file.
LEMMA RegisterInit == Init => Register!Init
  BY DEF Init, Register!Init, Found

\* A step that leaves both names alone, and the permissions of calls that are done,
\* leaves the register with its values.
LEMMA ValuesStay ==
  ASSUME AtomicFileInv, AtomicFileInv', UNCHANGED <<target, diskTarget>>,
         \A w \in Writers : pc[w] = "done" => perm'[w] = perm[w]
  PROVE  /\ Found(target, data)' = Found(target, data)
         /\ Found(diskTarget, disk)' = Found(diskTarget, disk)
<1>1. target # Old => target \in Writers /\ perm'[target] = perm[target]
  BY DEF AtomicFileInv, TypeOK, WrittenInv
<1>2. diskTarget # Old => diskTarget \in Writers /\ perm'[diskTarget] = perm[diskTarget]
  BY DEF AtomicFileInv, TypeOK, WrittenInv
<1>3. Found(target, data)' =
        IF target' = Old THEN Old ELSE [call |-> target', data |-> "full", mode |-> perm'[target']]
  BY DEF Found, AtomicFileInv, TypeOK, WrittenInv
<1>4. Found(diskTarget, disk)' =
        IF diskTarget' = Old THEN Old
        ELSE [call |-> diskTarget', data |-> "full", mode |-> perm'[diskTarget']]
  BY DEF Found, AtomicFileInv, TypeOK, WrittenInv
<1> QED
  BY <1>1, <1>2, <1>3, <1>4, FoundWhole

\* A step on the masks is none of the register.
LEMMA RegisterMask ==
  ASSUME AtomicFileInv, AtomicFileInv',
         Inititalize \/ \E m \in SUBSET Bits : SetUmask(m)
  PROVE  UNCHANGED Register!vars
<1>1. UNCHANGED <<pc, perm, files>>
  BY DEF Inititalize, SetUmask
<1>2. UNCHANGED <<Found(target, data), Found(diskTarget, disk)>>
  BY <1>1, ValuesStay DEF files
<1> QED
  BY <1>1, <1>2 DEF Register!vars

\* WriteFile starts a call, Rename puts its file in place, an error ends it, and all
\* other steps of a call are hidden.
LEMMA RegisterCall ==
  ASSUME AtomicFileInv, AtomicFileInv', NEW w \in Writers,
         \/ \E p \in SUBSET Bits : WriteFile(w, p)
         \/ CreateTemp(w) \/ Chmod(w) \/ Copy(w) \/ CopyFails(w) \/ Sync(w)
         \/ Close(w) \/ Rename(w) \/ Fails(w)
  PROVE  Register!Start(w) \/ Register!Put(w) \/ Register!Fail(w) \/ UNCHANGED Register!vars
<1>0. pc \in [Writers -> Labels] /\ perm \in [Writers -> SUBSET Bits]
  BY DEF AtomicFileInv, TypeOK
<1>1. CASE \E p \in SUBSET Bits : WriteFile(w, p)
  <2>1. PICK p \in SUBSET Bits : WriteFile(w, p)
    BY <1>1
  <2>2. UNCHANGED <<target, diskTarget>> /\ pc[w] = "idle" /\ pc' = [pc EXCEPT ![w] = "create"]
        /\ perm' = [perm EXCEPT ![w] = p \ currentMask]
    BY <2>1 DEF WriteFile, Step, files
  <2>3. UNCHANGED <<Found(target, data), Found(diskTarget, disk)>>
    BY <1>0, <2>2, ValuesStay
  <2>4. p \ currentMask \in SUBSET Bits
    OBVIOUS
  <2> QED
    BY <1>0, <2>2, <2>3, <2>4 DEF Register!Start
<1>2. CASE CreateTemp(w) \/ Chmod(w) \/ Copy(w) \/ Sync(w) \/ Close(w)
  <2>1. /\ UNCHANGED <<perm, target, diskTarget>>
        /\ \E from \in {"create", "chmod", "copy", "sync", "close"},
              to \in {"chmod", "copy", "sync", "close", "rename"} :
             pc[w] = from /\ pc' = [pc EXCEPT ![w] = to]
    BY <1>2 DEF CreateTemp, Chmod, Copy, Sync, Close, Step, files
  <2>2. UNCHANGED <<Found(target, data), Found(diskTarget, disk)>>
    BY <2>1, ValuesStay
  <2> QED
    BY <1>0, <2>1, <2>2 DEF Register!vars
<1>3. CASE CopyFails(w) \/ Fails(w)
  <2>1. /\ UNCHANGED <<perm, target, diskTarget>>
        /\ pc[w] \in {"create", "chmod", "copy", "sync", "close", "rename"}
        /\ pc' = [pc EXCEPT ![w] = "error"]
    BY <1>3 DEF CopyFails, Fails, Step, files
  <2>2. UNCHANGED <<Found(target, data), Found(diskTarget, disk)>>
    BY <2>1, ValuesStay
  <2> QED
    BY <1>0, <2>1, <2>2 DEF Register!Fail
<1>4. CASE Rename(w)
  <2>1. /\ UNCHANGED <<perm, diskTarget>> /\ target' = w
        /\ pc[w] = "rename" /\ pc' = [pc EXCEPT ![w] = "done"]
        /\ UNCHANGED <<data, mode, disk>>
    BY <1>4 DEF Rename, Step
  <2>2. Found(target, data)' = [call |-> w, data |-> "full", mode |-> perm[w]]
    BY <2>1 DEF Found, AtomicFileInv, WrittenInv
  <2>3. UNCHANGED Found(diskTarget, disk)
    BY <2>1 DEF Found
  <2> QED
    BY <1>0, <2>1, <2>2, <2>3 DEF Register!Put, Register!Written
<1> QED
  BY <1>1, <1>2, <1>3, <1>4

\* Writing a file's data back changes nothing that the disk has under the name; writing
\* the name back flushes the register.
LEMMA RegisterWriteBack ==
  ASSUME AtomicFileInv, AtomicFileInv', WriteBack
  PROVE  Register!Flush \/ UNCHANGED Register!vars
<1>1. UNCHANGED <<pc, perm, data, mode, target>>
  BY DEF WriteBack
<1>2. UNCHANGED Found(target, data)
  BY <1>1 DEF Found
<1>3. CASE diskTarget' = target /\ UNCHANGED disk
  <2>1. Found(diskTarget, disk)' =
          IF diskTarget' = Old THEN Old
          ELSE [call |-> diskTarget', data |-> "full", mode |-> perm'[diskTarget']]
    BY DEF Found, AtomicFileInv, TypeOK, WrittenInv
  <2>2. Found(diskTarget, disk)' = Found(target, data)
    BY <1>1, <1>3, <2>1, FoundWhole
  <2> QED
    BY <1>1, <1>2, <2>2 DEF Register!Flush
<1>4. CASE UNCHANGED diskTarget
  <2>1. UNCHANGED Found(diskTarget, disk)
    BY <1>1, <1>4, ValuesStay
  <2> QED
    BY <1>1, <1>2, <2>1 DEF Register!vars
<1> QED
  BY <1>3, <1>4 DEF WriteBack

\* A power loss leaves of the register what was flushed, and ends the calls.
LEMMA RegisterPowerLoss ==
  ASSUME AtomicFileInv, PowerLoss
  PROVE  Register!Lose
<1>1. /\ UNCHANGED <<perm, mode, disk, diskTarget>>
      /\ data' = disk /\ target' = diskTarget
      /\ pc' = [w \in Writers |-> IF pc[w] \in {"idle", "done", "error"} THEN pc[w] ELSE "dead"]
  BY DEF PowerLoss
<1>2. Found(target, data)' = Found(diskTarget, disk)
  BY <1>1 DEF Found
<1>3. UNCHANGED Found(diskTarget, disk)
  BY <1>1 DEF Found
<1> QED
  BY <1>1, <1>2, <1>3 DEF Register!Lose, AtomicFileInv, TypeOK, Labels

\* Every step of WriteFile, of the masks, of the kernel and of the power is one of the
\* register or none.
LEMMA RegisterStep ==
  AtomicFileInv /\ AtomicFileInv' /\ [Next]_vars => [Register!Next]_(Register!vars)
<1> SUFFICES ASSUME AtomicFileInv, AtomicFileInv', [Next]_vars
             PROVE  Register!Next \/ UNCHANGED Register!vars
  OBVIOUS
<1>1. CASE UNCHANGED vars
  BY <1>1 DEF vars, files, Found, Register!vars
<1>2. CASE Inititalize \/ \E m \in SUBSET Bits : SetUmask(m)
  BY <1>2, RegisterMask
<1>3. ASSUME NEW w \in Writers,
             \/ \E p \in SUBSET Bits : WriteFile(w, p)
             \/ CreateTemp(w) \/ Chmod(w) \/ Copy(w) \/ CopyFails(w) \/ Sync(w)
             \/ Close(w) \/ Rename(w) \/ Fails(w)
      PROVE  Register!Next \/ UNCHANGED Register!vars
  <2>1. Register!Start(w) \/ Register!Put(w) \/ Register!Fail(w) \/ UNCHANGED Register!vars
    BY <1>3, RegisterCall
  <2> QED
    BY <2>1 DEF Register!Next
<1>4. CASE WriteBack
  BY <1>4, RegisterWriteBack DEF Register!Next
<1>5. CASE PowerLoss
  BY <1>5, RegisterPowerLoss DEF Register!Next
<1> QED
  BY <1>1, <1>2, <1>3, <1>4, <1>5 DEF Next

\* WriteFile implements the atomic register, for any number of calls, errors and power
\* losses and with write-back in any order.
THEOREM AtomicFileImplementsRegister == Spec => RegisterSpec
  BY RegisterInit, RegisterStep, InvariantHolds, PTL DEF Spec, RegisterSpec, Register!Spec

=============================================================================
