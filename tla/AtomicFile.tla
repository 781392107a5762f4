----------------------------- MODULE AtomicFile -----------------------------
(***************************************************************************)
(* filesystem/atomic.go: WriteFile replaces a file by writing a temporary  *)
(* one and renaming it; and filesystem/umask.go and init.go, whose mask it *)
(* applies.  Several calls write the same file, any step of each can fail, *)
(* and power can go at any time.                                           *)
(*                                                                         *)
(* The kernel keeps what is written and renamed in memory, and writes it   *)
(* back when it pleases; only fsync forces a file's data to the disk.      *)
(* A temporary file has the name of its writer.                            *)
(***************************************************************************)
EXTENDS Naturals

CONSTANTS Writers,    \* calls of WriteFile
          Old,        \* the file that was there before
          Bits,       \* permission bits; a mask or mode is a set of them
          Private,    \* the bits of os.CreateTemp's 0600
          MaxLosses   \* bound on power losses

ASSUME AtomicFileAssumption ==
  Old \notin Writers /\ Private \subseteq Bits /\ MaxLosses \in Nat

VARIABLES pc,
          perm,         \* perm[w]: the permissions asked for, masked
          data, mode,   \* data[w], mode[w]: the temporary file, as programs see it
          disk,         \* disk[w]: its data on the disk
          target,       \* whose file has the name, as programs see it
          diskTarget,   \* and on the disk
          currentMask,  \* the package's copy of the umask
          umask,        \* the umask of the process
          initialised,  \* Inititalize has been called
          losses

files == <<data, mode, disk, target, diskTarget>>
masks == <<currentMask, umask, initialised>>
vars == <<pc, perm, files, masks, losses>>

Labels == {"idle", "create", "chmod", "copy", "sync", "close", "rename", "done",
           "error", "dead"}

Data == {"none", "empty", "partial", "full"}

TypeOK ==
  /\ pc \in [Writers -> Labels]
  /\ perm \in [Writers -> SUBSET Bits] /\ mode \in [Writers -> SUBSET Bits]
  /\ data \in [Writers -> Data] /\ disk \in [Writers -> Data]
  /\ target \in Writers \cup {Old} /\ diskTarget \in Writers \cup {Old}
  /\ currentMask \in SUBSET Bits /\ umask \in SUBSET Bits
  /\ initialised \in BOOLEAN /\ losses \in 0 .. MaxLosses

\* defaultUmask is 077: every bit that is not the owner's.
DefaultMask == Bits \ Private

Init ==
  /\ pc = [w \in Writers |-> "idle"]
  /\ perm = [w \in Writers |-> {}] /\ mode = [w \in Writers |-> {}]
  /\ data = [w \in Writers |-> "none"] /\ disk = [w \in Writers |-> "none"]
  /\ target = Old /\ diskTarget = Old
  /\ currentMask = DefaultMask /\ umask \in SUBSET Bits
  /\ initialised = FALSE /\ losses = 0

-----------------------------------------------------------------------------
(* The mask                                                                *)

\* Inititalize reads the umask of the process the only way there is, by setting
\* it, and leaves it at 0.
Inititalize ==
  /\ currentMask' = umask
  /\ umask' = {}
  /\ initialised' = TRUE
  /\ UNCHANGED <<pc, perm, files, losses>>

\* A mask equal to the package's copy goes no further.
SetUmask(m) ==
  /\ m # currentMask
  /\ currentMask' = m /\ umask' = m
  /\ UNCHANGED <<pc, perm, files, initialised, losses>>

-----------------------------------------------------------------------------
(* WriteFile                                                               *)

Step(w, from, to) ==
  /\ pc[w] = from
  /\ pc' = [pc EXCEPT ![w] = to]
  /\ UNCHANGED <<masks, losses>>

\* perm = (^currentMask) & perm
WriteFile(w, p) ==
  /\ Step(w, "idle", "create")
  /\ perm' = [perm EXCEPT ![w] = p \ currentMask]
  /\ UNCHANGED files

CreateTemp(w) ==
  /\ Step(w, "create", "chmod")
  /\ data' = [data EXCEPT ![w] = "empty"]
  /\ disk' = [disk EXCEPT ![w] = "empty"]
  /\ mode' = [mode EXCEPT ![w] = Private \ umask]
  /\ UNCHANGED <<perm, target, diskTarget>>

Chmod(w) ==
  /\ Step(w, "chmod", "copy")
  /\ mode' = [mode EXCEPT ![w] = perm[w]]
  /\ UNCHANGED <<perm, data, disk, target, diskTarget>>

\* Mutant: n < len(data) goes unnoticed.
CopyShort(w) ==
  /\ Step(w, "copy", "sync")
  /\ data' \in {data, [data EXCEPT ![w] = "partial"]}
  /\ UNCHANGED <<perm, mode, disk, target, diskTarget>>

Copy(w) ==
  /\ Step(w, "copy", "sync")
  /\ data' = [data EXCEPT ![w] = "full"]
  /\ UNCHANGED <<perm, mode, disk, target, diskTarget>>

\* A short write or an error: some of the data may be there.
CopyFails(w) ==
  /\ Step(w, "copy", "error")
  /\ data' \in {data, [data EXCEPT ![w] = "partial"]}
  /\ UNCHANGED <<perm, mode, disk, target, diskTarget>>

Sync(w) ==
  /\ Step(w, "sync", "close")
  /\ disk' = [disk EXCEPT ![w] = data[w]]
  /\ UNCHANGED <<perm, data, mode, target, diskTarget>>

\* Mutant: the file is renamed before Close has succeeded.
RenameBeforeClose(w) ==
  /\ Step(w, "close", "rename")
  /\ target' = w
  /\ UNCHANGED <<perm, data, mode, disk, diskTarget>>

Close(w) ==
  /\ Step(w, "close", "rename")
  /\ UNCHANGED <<perm, files>>

Rename(w) ==
  /\ Step(w, "rename", "done")
  /\ target' = w
  /\ UNCHANGED <<perm, data, mode, disk, diskTarget>>

\* Every other error returns at once, and leaves the temporary file behind.
Fails(w) ==
  /\ \E l \in {"create", "chmod", "sync", "close", "rename"} : Step(w, l, "error")
  /\ UNCHANGED <<perm, files>>

-----------------------------------------------------------------------------
(* The kernel                                                              *)

\* In any order, at any time.
WriteBack ==
  /\ \/ /\ \E w \in Writers : disk' = [disk EXCEPT ![w] = data[w]]
        /\ UNCHANGED diskTarget
     \/ diskTarget' = target /\ UNCHANGED disk
  /\ UNCHANGED <<pc, perm, data, mode, target, masks, losses>>

\* After a restart programs see what the disk has; the masks are a new process's.
PowerLoss ==
  /\ losses < MaxLosses /\ losses' = losses + 1
  /\ pc' = [w \in Writers |-> IF pc[w] \in {"idle", "done", "error"} THEN pc[w] ELSE "dead"]
  /\ data' = disk /\ target' = diskTarget
  /\ currentMask' = DefaultMask /\ umask' \in SUBSET Bits /\ initialised' = FALSE
  /\ UNCHANGED <<perm, mode, disk, diskTarget>>

-----------------------------------------------------------------------------
Next ==
  \/ Inititalize
  \/ \E m \in SUBSET Bits : SetUmask(m)
  \/ \E w \in Writers :
       \/ \E p \in SUBSET Bits : WriteFile(w, p)
       \/ CreateTemp(w) \/ Chmod(w) \/ Copy(w) \/ CopyFails(w) \/ Sync(w)
       \/ Close(w) \/ Rename(w) \/ Fails(w)
  \/ WriteBack
  \/ PowerLoss

Spec == Init /\ [][Next]_vars

-----------------------------------------------------------------------------
(* Properties                                                              *)

\* atomic.go:45 "atomically writes data to a file": whoever opens the file, even
\* after a power loss, finds the old data or all of one call's data.
TargetComplete == target # Old => data[target] = "full"

\* And that file has the permissions the call asked for, less the mask in force
\* when it was called, whatever the masks have become.
TargetMode == target # Old => mode[target] = perm[target]

\* A call that returns an error has not touched the file, and cannot later.
ErrorLeavesFile ==
  \A w \in Writers : pc[w] = "error" => target # w /\ diskTarget # w

\* All that a program finds under the name of a file: whose it is, what is in it and
\* its permissions.
Found(name, content) ==
  IF name = Old THEN Old ELSE [call |-> name, data |-> content[name], mode |-> mode[name]]

\* The calls, the file and what the disk has of it behave as a register that every
\* call sets once, at its rename, or not at all.
Register == INSTANCE AtomicRegister WITH
  Calls <- Writers,
  Modes <- SUBSET Bits,
  Initial <- Old,
  state <- [w \in Writers |->
              IF pc[w] \in {"idle", "done", "error", "dead"} THEN pc[w] ELSE "writing"],
  asked <- perm,
  value <- Found(target, data),
  durable <- Found(diskTarget, disk)

RegisterSpec == Register!Spec

\* What the steps preserve, and the three properties above rest on: how much of the
\* temporary file is in place at each step of the call (atomic.go:52-82).
WrittenInv ==
  \A w \in Writers :
    /\ pc[w] \in {"sync", "close", "rename", "done"} => data[w] = "full"
    /\ pc[w] \in {"close", "rename", "done"} => disk[w] = "full"
    /\ pc[w] \in {"copy", "sync", "close", "rename", "done"} => mode[w] = perm[w]
    /\ w \in {target, diskTarget} => pc[w] = "done"

AtomicFileInv == TypeOK /\ WrittenInv

\* umask.go:31 "GetUmask retrieves the current file mode creation mask (umask)
\* for the current process", once Inititalize has been called.
GetUmaskIsUmask == initialised => currentMask = umask

=============================================================================
