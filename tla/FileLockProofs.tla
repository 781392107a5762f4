--------------------------- MODULE FileLockProofs ---------------------------
(***************************************************************************)
(* What holds of the locks on one path for any number of goroutines, files *)
(* and nested calls.                                                       *)
(***************************************************************************)
EXTENDS FileLock, SequenceTheorems, WellFoundedInduction, TLAPS

USE NoInodeAssumption, FileLockAssumption

Frames == 1 .. Depth

\* What call k of the calls q has open as h.  Only the innermost call is on its way.
Frame(q, k, h) ==
  /\ k > Len(q) => h = Closed
  /\ k < Len(q) => q[k].at = "held"
  /\ k <= Len(q) =>
       \/ q[k].at = "open" /\ h = Closed
       \/ q[k].at = "flock" /\ h.ino # NoInode /\ h.mode = "none"
       \/ q[k].at = "held" /\ h.ino # NoInode /\ h.mode = q[k].mode

FramesOK == \A c \in Clients, k \in Frames : Frame(calls[c], k, handle[c][k])

\* On Windows every call locks the same file.
OneLockFile ==
  platform = "windows" =>
    \A c \in Clients, k \in Frames : handle[c][k].ino \in {LockInode, NoInode}

Compatible(c, k, d, l) ==
  /\ <<c, k>> # <<d, l>>
  /\ handle[c][k].ino = handle[d][l].ino
  => ~Incompatible(handle[c][k].mode, handle[d][l].mode)

AllCompatible == \A c, d \in Clients, k, l \in Frames : Compatible(c, k, d, l)

FileLockInv == FileLockTypeOK /\ FramesOK /\ OneLockFile /\ AllCompatible

LEMMA InvInit == FileLockInit => FileLockInv
<1> SUFFICES ASSUME FileLockInit PROVE FileLockInv
  OBVIOUS
<1>1. Closed \in Handle /\ Closed.ino = NoInode /\ Closed.mode = "none"
  BY DEF Closed, Handle, Mode
<1>2. \A c \in Clients, k \in Frames : handle[c][k] = Closed
  BY DEF FileLockInit, Frames
<1>3. \A c \in Clients : calls[c] = <<>>
  BY DEF FileLockInit
<1>4. FileLockTypeOK
  BY <1>1, <1>3 DEF FileLockInit, FileLockTypeOK
<1>5. FramesOK
  BY <1>2, <1>3 DEF FramesOK, Frame, Frames
<1>6. OneLockFile /\ AllCompatible
  BY <1>1, <1>2 DEF OneLockFile, AllCompatible, Compatible, Incompatible
<1> QED
  BY <1>4, <1>5, <1>6 DEF FileLockInv

-----------------------------------------------------------------------------
\* One call of a client c changes what it has open to h, and c's calls to q.
LEMMA CallStep ==
  ASSUME FileLockInv, NEW c \in Clients, NEW s \in Frames, NEW h \in Handle,
         NEW q \in Seq(Call), Len(q) <= Depth,
         handle' = [handle EXCEPT ![c][s] = h],
         calls' = [calls EXCEPT ![c] = q],
         UNCHANGED <<platform, file>>,
         Frame(q, s, h),
         \A k \in Frames : k # s => Frame(q, k, handle[c][k]),
         platform = "windows" => h.ino \in {LockInode, NoInode},
         h.mode = "none" \/ ~Blocked(c, s, h.ino, h.mode)
  PROVE  FileLockInv'
<1>1. /\ handle \in [Clients -> [Frames -> Handle]]
      /\ calls \in [Clients -> Seq(Call)]
      /\ \A d \in Clients : Len(calls[d]) <= Depth
  BY DEF FileLockInv, FileLockTypeOK, Frames
<1>2. \A d \in Clients, k \in Frames :
        handle'[d][k] = IF d = c /\ k = s THEN h ELSE handle[d][k]
  BY <1>1
<1>3. \A d \in Clients : calls'[d] = IF d = c THEN q ELSE calls[d]
  BY <1>1
<1>4. FileLockTypeOK'
  <2>1. handle' \in [Clients -> [Frames -> Handle]]
    <3>1. [handle[c] EXCEPT ![s] = h] \in [Frames -> Handle]
      BY <1>1
    <3> QED
      BY <1>1, <3>1
  <2> QED
    BY <1>1, <1>3, <2>1 DEF FileLockInv, FileLockTypeOK, Frames
<1>5. FramesOK'
  BY <1>2, <1>3 DEF FileLockInv, FramesOK
<1>6. OneLockFile'
  BY <1>2 DEF FileLockInv, OneLockFile
<1>7. AllCompatible'
  <2>1. ASSUME NEW d \in Clients, NEW l \in Frames, <<d, l>> # <<c, s>>, handle[d][l].ino = h.ino
        PROVE  ~Incompatible(h.mode, handle[d][l].mode) /\ ~Incompatible(handle[d][l].mode, h.mode)
    <3>1. l \in DOMAIN handle[d]
      BY <1>1
    <3>2. ~Incompatible(h.mode, handle[d][l].mode)
      BY <2>1, <3>1 DEF Blocked, Incompatible
    <3> QED
      BY <3>2 DEF Incompatible
  <2>2. ASSUME NEW d \in Clients, NEW e \in Clients, NEW k \in Frames, NEW l \in Frames
        PROVE  Compatible(d, k, e, l)'
    <3>1. Compatible(d, k, e, l)
      BY DEF FileLockInv, AllCompatible
    <3>2. CASE d = c /\ k = s
      BY <1>2, <2>1, <3>2 DEF Compatible
    <3>3. CASE e = c /\ l = s /\ ~(d = c /\ k = s)
      BY <1>2, <2>1, <3>3 DEF Compatible
    <3>4. CASE ~(d = c /\ k = s) /\ ~(e = c /\ l = s)
      BY <1>2, <3>1, <3>4 DEF Compatible
    <3> QED
      BY <3>2, <3>3, <3>4
  <2> QED
    BY <2>2 DEF AllCompatible
<1> QED
  BY <1>4, <1>5, <1>6, <1>7 DEF FileLockInv

\* What the calls of a client are, and what they become.
LEMMA Pushed ==
  ASSUME NEW q \in Seq(Call), NEW x \in Call
  PROVE  /\ Append(q, x) \in Seq(Call) /\ Len(Append(q, x)) = Len(q) + 1
         /\ Append(q, x)[Len(q) + 1] = x
         /\ \A k \in 1 .. Len(q) : Append(q, x)[k] = q[k]
  OBVIOUS

LEMMA Popped ==
  ASSUME NEW q \in Seq(Call), q # <<>>
  PROVE  /\ Front(q) \in Seq(Call) /\ Len(Front(q)) = Len(q) - 1 /\ Len(q) >= 1
         /\ \A k \in 1 .. Len(q) - 1 : Front(q)[k] = q[k]
<1>1. Len(q) \in Nat /\ Len(q) >= 1 /\ \A k \in 1 .. Len(q) - 1 : q[k] \in Call
  OBVIOUS
<1>2. /\ SubSeq(q, 1, Len(q) - 1) \in Seq(Call)
      /\ Len(SubSeq(q, 1, Len(q) - 1)) = IF 1 <= Len(q) - 1 THEN (Len(q) - 1) - 1 + 1 ELSE 0
      /\ \A k \in 1 .. (Len(q) - 1) - 1 + 1 : SubSeq(q, 1, Len(q) - 1)[k] = q[1 + k - 1]
  BY <1>1, SubSeqProperties
<1>3. Len(SubSeq(q, 1, Len(q) - 1)) = Len(q) - 1
  <2>1. \A n \in Nat : n >= 1 => n - 1 = IF 1 <= n - 1 THEN (n - 1) - 1 + 1 ELSE 0
    OBVIOUS
  <2> QED
    BY <1>1, <1>2, <2>1
<1>4. ASSUME NEW k \in 1 .. Len(q) - 1 PROVE SubSeq(q, 1, Len(q) - 1)[k] = q[k]
  <2>1. k \in 1 .. (Len(q) - 1) - 1 + 1 /\ 1 + k - 1 = k
    BY <1>1
  <2> QED
    BY <1>2, <2>1
<1> QED
  BY <1>1, <1>2, <1>3, <1>4 DEF Front

-----------------------------------------------------------------------------
LEMMA BeginStep ==
  ASSUME FileLockInv, NEW c \in Clients, NEW op \in {"Lock", "TryLock"},
         NEW mode \in {"shared", "exclusive"}, Begin(c, op, mode)
  PROVE  FileLockInv'
<1> DEFINE x == [op |-> op, mode |-> mode, at |-> "open"]
           q == Append(calls[c], x)
           s == Top(c) + 1
<1>1. /\ handle \in [Clients -> [Frames -> Handle]] /\ calls \in [Clients -> Seq(Call)]
      /\ x \in Call /\ calls[c] \in Seq(Call)
  BY DEF FileLockInv, FileLockTypeOK, Frames, Call
<1>2. s \in Frames /\ s = Len(calls[c]) + 1
  BY <1>1 DEF Begin, Top, Frames
<1>3. handle[c][s] = Closed
  BY <1>1, <1>2 DEF FileLockInv, FramesOK, Frame
<1>4. handle' = [handle EXCEPT ![c][s] = Closed]
  BY <1>1, <1>2, <1>3 DEF Begin
<1>5. calls' = [calls EXCEPT ![c] = q]
  BY DEF Begin
<1>6. /\ q \in Seq(Call) /\ Len(q) = s /\ q[s] = x /\ Len(q) <= Depth
      /\ \A k \in 1 .. Len(calls[c]) : q[k] = calls[c][k]
  BY <1>1, <1>2, Pushed DEF Frames
<1>7. ASSUME NEW k \in Frames
      PROVE  (k # s => Frame(q, k, handle[c][k])) /\ Frame(q, s, Closed)
  <2>1. Frame(calls[c], k, handle[c][k]) /\ k \in Nat /\ k >= 1 /\ Len(calls[c]) \in Nat
    BY <1>1 DEF FileLockInv, FramesOK, Frames
  <2>2. Frame(q, s, Closed)
    BY <1>2, <1>6 DEF Frame
  <2>3. CASE k > s
    BY <1>2, <1>6, <2>1, <2>3 DEF Frame
  <2>4. CASE k < s
    <3>1. k <= Len(calls[c]) /\ q[k] = calls[c][k] /\ k # s
      BY <1>2, <1>6, <2>1, <2>4
    <3>2. calls[c][k].at = "held"
      <4>1. CASE k < Len(calls[c])
        BY <2>1, <4>1 DEF Frame
      <4>2. CASE k = Len(calls[c])
        BY <1>1, <2>1, <4>2 DEF Begin, At, Last
      <4> QED
        BY <2>1, <3>1, <4>1, <4>2
    <3> QED
      BY <1>6, <2>1, <2>4, <3>1, <3>2 DEF Frame
  <2> QED
    BY <1>2, <2>1, <2>2, <2>3, <2>4
<1>8. Closed \in Handle /\ Closed.mode = "none" /\ Closed.ino = NoInode
  BY DEF Closed, Handle, Mode
<1>9. UNCHANGED <<platform, file>>
  BY DEF Begin
<1> HIDE DEF q, s
<1> QED
  BY <1>2, <1>4, <1>5, <1>6, <1>7, <1>8, <1>9, CallStep

\* A call goes on: what it has open is h, and it is at l.
LEMMA AdvanceStep ==
  ASSUME FileLockInv, NEW c \in Clients, calls[c] # <<>>, NEW h \in Handle,
         NEW l \in {"flock", "held"},
         handle' = [handle EXCEPT ![c][Top(c)] = h], Goto(c, l), UNCHANGED <<platform, file>>,
         h.ino # NoInode,
         h.mode = IF l = "flock" THEN "none" ELSE calls[c][Top(c)].mode,
         platform = "windows" => h.ino = LockInode,
         h.mode = "none" \/ ~Blocked(c, Top(c), h.ino, h.mode)
  PROVE  FileLockInv'
<1> DEFINE s == Top(c)
           q == [calls[c] EXCEPT ![s].at = l]
<1>1. /\ calls \in [Clients -> Seq(Call)] /\ calls[c] \in Seq(Call)
      /\ s = Len(calls[c]) /\ s <= Depth /\ s \in Nat
  BY DEF FileLockInv, FileLockTypeOK, Top
<1>2. /\ q \in Seq(Call) /\ Len(q) = s /\ s >= 1
      /\ q[s].at = l /\ q[s].mode = calls[c][s].mode
      /\ \A k \in 1 .. s - 1 : q[k] = calls[c][k]
  <2>1. calls[c] \in [1 .. s -> Call] /\ s >= 1
    BY <1>1
  <2>2. /\ [calls[c][s] EXCEPT !.at = l] \in Call
        /\ [calls[c][s] EXCEPT !.at = l].at = l
        /\ [calls[c][s] EXCEPT !.at = l].mode = calls[c][s].mode
    <3>1. s \in 1 .. s
      BY <1>1, <2>1
    <3>2. calls[c][s] \in Call
      BY <2>1, <3>1
    <3> QED
      BY <3>2 DEF Call
  <2>3. q = [calls[c] EXCEPT ![s] = [calls[c][s] EXCEPT !.at = l]]
    BY <2>1
  <2> QED
    <3>1. q \in [1 .. s -> Call] /\ q[s] = [calls[c][s] EXCEPT !.at = l]
      BY <1>1, <2>1, <2>2, <2>3
    <3>2. \A k \in 1 .. s - 1 : q[k] = calls[c][k]
      BY <1>1, <2>1, <2>3
    <3>3. q \in Seq(Call) /\ Len(q) = s
      BY <1>1, <3>1
    <3> QED
      BY <2>1, <2>2, <3>1, <3>2, <3>3
<1>3. s \in Frames
  BY <1>1, <1>2 DEF Frames
<1>4. calls' = [calls EXCEPT ![c] = q]
  BY <1>1 DEF Goto
<1>5. ASSUME NEW k \in Frames PROVE  (k # s => Frame(q, k, handle[c][k])) /\ Frame(q, s, h)
  <2>1. Frame(calls[c], k, handle[c][k]) /\ k \in Nat /\ k >= 1
    BY DEF FileLockInv, FramesOK, Frames
  <2>2. Frame(q, s, h)
    BY <1>1, <1>2 DEF Frame
  <2>3. CASE k > s
    BY <1>1, <1>2, <2>1, <2>3 DEF Frame
  <2>4. CASE k < s
    <3>1. q[k] = calls[c][k] /\ k # s
      BY <1>1, <1>2, <2>1, <2>4
    <3> QED
      BY <1>1, <1>2, <2>1, <2>4, <3>1 DEF Frame
  <2> QED
    BY <1>1, <2>1, <2>2, <2>3, <2>4
<1>6. /\ handle' = [handle EXCEPT ![c][s] = h]
      /\ h.mode = "none" \/ ~Blocked(c, s, h.ino, h.mode)
      /\ platform = "windows" => h.ino \in {LockInode, NoInode}
      /\ Len(q) <= Depth
  BY <1>1, <1>2
<1>7. Frame(q, s, h) /\ \A k \in Frames : k # s => Frame(q, k, handle[c][k])
  BY <1>3, <1>5
<1> HIDE DEF q, s
<1> QED
  BY <1>2, <1>3, <1>4, <1>6, <1>7, CallStep

LEMMA OpenLockPathStep ==
  ASSUME FileLockInv, NEW c \in Clients, OpenLockPath(c) PROVE FileLockInv'
<1>1. LockPath \in Inodes /\ LockPath # NoInode /\ (platform = "windows" => LockPath = LockInode)
  BY DEF OpenLockPath, LockPath, FileLockInv, FileLockTypeOK
<1>2. /\ Held(LockPath, "none") \in Handle
      /\ Held(LockPath, "none").ino = LockPath /\ Held(LockPath, "none").mode = "none"
  BY <1>1 DEF Held, Handle, Mode
<1> QED
  BY <1>1, <1>2, AdvanceStep DEF OpenLockPath, Open, At

LEMMA GetLockStep ==
  ASSUME FileLockInv, NEW c \in Clients, GetLock(c) PROVE FileLockInv'
<1> DEFINE s == Top(c)
           m == Last(calls[c]).mode
           h == [handle[c][s] EXCEPT !.mode = m]
<1>1. /\ calls[c] \in Seq(Call) /\ calls[c] # <<>> /\ calls[c][s].at = "flock"
      /\ m = calls[c][s].mode /\ s = Len(calls[c]) /\ s \in 1 .. Len(calls[c]) /\ s \in Frames
      /\ handle \in [Clients -> [Frames -> Handle]]
  BY DEF FileLockInv, FileLockTypeOK, Top, GetLock, At, Last, Frames
<1>2. m \in Mode /\ handle[c][s] \in Handle
  <2>1. calls[c][s] \in Call
    BY <1>1
  <2> QED
    BY <1>1, <2>1 DEF Call, Mode
<1>3. h \in Handle /\ h.mode = m /\ h.ino = handle[c][s].ino
  BY <1>2 DEF Handle
<1>4. Frame(calls[c], s, handle[c][s])
  BY <1>1 DEF FileLockInv, FramesOK
<1>5. h.ino # NoInode
  BY <1>1, <1>3, <1>4 DEF Frame
<1>6. handle' = [handle EXCEPT ![c][s] = h] /\ ~Blocked(c, s, h.ino, h.mode)
  BY <1>1, <1>3 DEF GetLock, TakeLock
<1>7. platform = "windows" => h.ino = LockInode
  BY <1>1, <1>3, <1>5 DEF FileLockInv, OneLockFile
<1>8. Goto(c, "held") /\ UNCHANGED <<platform, file>> /\ h.mode = calls[c][Top(c)].mode
  BY <1>1, <1>3 DEF GetLock
<1> HIDE DEF h
<1> QED
  BY <1>1, <1>3, <1>5, <1>6, <1>7, <1>8, AdvanceStep

\* A call ends, whichever way: its file is closed.
LEMMA ReturnStep ==
  ASSUME FileLockInv, NEW c \in Clients, calls[c] # <<>>,
         Unlock(c, Top(c)), Return(c), UNCHANGED <<platform, file>>
  PROVE  FileLockInv'
<1> DEFINE s == Top(c)
           q == Front(calls[c])
<1>1. /\ calls \in [Clients -> Seq(Call)] /\ calls[c] \in Seq(Call)
      /\ s = Len(calls[c]) /\ s <= Depth /\ s \in Nat
  BY DEF FileLockInv, FileLockTypeOK, Top
<1>2. /\ q \in Seq(Call) /\ Len(q) = s - 1 /\ s >= 1
      /\ \A k \in 1 .. s - 1 : q[k] = calls[c][k]
  BY <1>1, Popped
<1>3. s \in Frames /\ Len(q) <= Depth
  BY <1>1, <1>2 DEF Frames
<1>4. calls' = [calls EXCEPT ![c] = q] /\ handle' = [handle EXCEPT ![c][s] = Closed]
  BY <1>1 DEF Return, Unlock
<1>5. ASSUME NEW k \in Frames PROVE  (k # s => Frame(q, k, handle[c][k])) /\ Frame(q, s, Closed)
  <2>1. Frame(calls[c], k, handle[c][k]) /\ k \in Nat /\ k >= 1
    BY DEF FileLockInv, FramesOK, Frames
  <2>2. Frame(q, s, Closed)
    BY <1>1, <1>2 DEF Frame
  <2>3. CASE k > s
    BY <1>1, <1>2, <2>1, <2>3 DEF Frame
  <2>4. CASE k < s
    <3>1. q[k] = calls[c][k] /\ k # s
      BY <1>1, <1>2, <2>1, <2>4
    <3> QED
      BY <1>1, <1>2, <2>1, <2>4, <3>1 DEF Frame
  <2> QED
    BY <1>1, <2>1, <2>2, <2>3, <2>4
<1>6. Closed \in Handle /\ Closed.mode = "none" /\ Closed.ino = NoInode
  BY DEF Closed, Handle, Mode
<1> HIDE DEF q, s
<1> QED
  BY <1>2, <1>3, <1>4, <1>5, <1>6, CallStep

LEMMA DieStep ==
  ASSUME FileLockInv, NEW c \in Clients, Die(c) PROVE FileLockInv'
<1>1. /\ handle \in [Clients -> [Frames -> Handle]] /\ calls \in [Clients -> Seq(Call)]
      /\ \A d \in Clients : Len(calls[d]) <= Depth
  BY DEF FileLockInv, FileLockTypeOK, Frames
<1>2. Closed \in Handle /\ Closed.mode = "none" /\ Closed.ino = NoInode
  BY DEF Closed, Handle, Mode
<1>3. /\ handle' \in [Clients -> [Frames -> Handle]]
      /\ \A d \in Clients, k \in Frames :
           handle'[d][k] = IF d = c THEN Closed ELSE handle[d][k]
  BY <1>1, <1>2 DEF Die, CloseAll
<1>4. /\ calls' \in [Clients -> Seq(Call)]
      /\ \A d \in Clients : calls'[d] = IF d = c THEN <<>> ELSE calls[d]
  BY <1>1 DEF Die
<1>5. UNCHANGED <<platform, file>>
  BY DEF Die
<1>6. FileLockTypeOK'
  BY <1>1, <1>3, <1>4, <1>5 DEF FileLockInv, FileLockTypeOK, Frames
<1>7. FramesOK'
  <2>1. ASSUME NEW d \in Clients, NEW k \in Frames PROVE Frame(calls[d], k, handle[d][k])'
    <3>1. CASE d = c
      BY <1>3, <1>4, <3>1 DEF Frame, Frames
    <3>2. CASE d # c
      BY <1>3, <1>4, <3>2 DEF FileLockInv, FramesOK
    <3> QED
      BY <3>1, <3>2
  <2> QED
    BY <2>1 DEF FramesOK
<1>8. OneLockFile'
  BY <1>2, <1>3, <1>5 DEF FileLockInv, OneLockFile
<1>9. AllCompatible'
  BY <1>2, <1>3 DEF FileLockInv, AllCompatible, Compatible, Incompatible
<1> QED
  BY <1>6, <1>7, <1>8, <1>9 DEF FileLockInv

LEMMA InvNext == FileLockInv /\ [FileLockNext]_fileLockVars => FileLockInv'
<1> SUFFICES ASSUME FileLockInv, [FileLockNext]_fileLockVars PROVE FileLockInv'
  OBVIOUS
<1>1. CASE UNCHANGED fileLockVars
  BY <1>1 DEF fileLockVars, FileLockInv, FileLockTypeOK, FramesOK, OneLockFile, AllCompatible,
    Compatible
<1>2. ASSUME NEW i \in Inodes \cup {NoInode}, Replace(i) PROVE FileLockInv'
  BY <1>2 DEF Replace, FileLockInv, FileLockTypeOK, FramesOK, OneLockFile, AllCompatible,
    Compatible
<1>3. ASSUME NEW c \in Clients, (Refused(c) \/ CannotLock(c)) /\ LockFails(c)
      PROVE  FileLockInv'
  BY <1>3, ReturnStep DEF Refused, CannotLock, LockFails, At
<1>4. ASSUME NEW c \in Clients, NEW e \in Ends, FunctionEnds(c, e) PROVE FileLockInv'
  BY <1>4, ReturnStep DEF FunctionEnds, DeferredUnlock, At
<1> QED
  BY <1>1, <1>2, <1>3, <1>4, BeginStep, OpenLockPathStep, GetLockStep, DieStep DEF FileLockNext

THEOREM FileLockInvHolds == FileLockSpec => []FileLockInv
  BY InvInit, InvNext, PTL DEF FileLockSpec

-----------------------------------------------------------------------------
\* No writer is in a locked part together with anybody: on Windows never, on Unix not
\* on the same file (lock.go:46-102, lock_unix.go:32-75, lock_windows.go:46-146).
THEOREM SectionsExcludeHolds == FileLockSpec => []SectionsExclude
<1>1. FileLockInv => SectionsExclude
  <2> SUFFICES ASSUME FileLockInv,
                      NEW c \in Clients, NEW d \in Clients, NEW k \in Frames, NEW l \in Frames,
                      <<c, k>> # <<d, l>>, Section(c, k), Section(d, l),
                      platform = "windows" \/ handle[c][k].ino = handle[d][l].ino
               PROVE  calls[c][k].mode = "shared" /\ calls[d][l].mode = "shared"
    BY DEF SectionsExclude, Frames
  <2>1. /\ handle[c][k].ino # NoInode /\ handle[c][k].mode = calls[c][k].mode
        /\ handle[d][l].ino # NoInode /\ handle[d][l].mode = calls[d][l].mode
    BY DEF FileLockInv, FramesOK, Frame, Section, Top
  <2>2. handle[c][k].ino = handle[d][l].ino
    BY <2>1 DEF FileLockInv, OneLockFile
  <2>3. ~Incompatible(calls[c][k].mode, calls[d][l].mode)
    BY <2>1, <2>2 DEF FileLockInv, AllCompatible, Compatible
  <2>4. calls[c][k] \in Call /\ calls[d][l] \in Call
    BY DEF FileLockInv, FileLockTypeOK, Frames, Section, Top
  <2>5. /\ calls[c][k].mode \in {"shared", "exclusive"}
        /\ calls[d][l].mode \in {"shared", "exclusive"}
    BY <2>4 DEF Call
  <2> QED
    BY <2>3, <2>5 DEF Incompatible
<1> QED
  BY <1>1, FileLockInvHolds, PTL

\* No error, panic or refusal leaves a file open (lock.go:80-102, lock_unix.go:36-51).
THEOREM NothingLeftOpenHolds == FileLockSpec => []NothingLeftOpen
<1>1. FileLockInv => NothingLeftOpen
  BY DEF FileLockInv, FramesOK, Frame, Frames, NothingLeftOpen, Top
<1> QED
  BY <1>1, FileLockInvHolds, PTL

-----------------------------------------------------------------------------
(* Files replace one another at the path and never come back while they are *)
(* open, so that those in use have an age.                                  *)

InUse(i) ==
  /\ i \in Inodes
  /\ i = LockPath \/ \E c \in Clients, k \in Frames : handle[c][k].ino = i

\* The younger a file, the larger its number; n is a bound on those in use.  What LockPath
\* leads to is the youngest, and of a client's calls the inner ones have the younger files.
Ages(e, n) ==
  /\ \A i \in Inodes : InUse(i) => e[i] <= n /\ (LockPath # NoInode => e[i] <= e[LockPath])
  /\ \A i, j \in Inodes : InUse(i) /\ InUse(j) /\ e[i] = e[j] => i = j
  /\ \A c \in Clients, k, l \in Frames :
       k < l /\ handle[c][k].ino # NoInode /\ handle[c][l].ino # NoInode
         => e[handle[c][k].ino] <= e[handle[c][l].ino]

AgeInv == \E e \in [Inodes -> Nat], n \in Nat : Ages(e, n)

LEMMA Inos ==
  ASSUME FileLockInv
  PROVE  /\ handle \in [Clients -> [Frames -> Handle]]
         /\ \A c \in Clients, k \in Frames : handle[c][k].ino \in Inodes \cup {NoInode}
         /\ LockPath \in Inodes \cup {NoInode}
<1>1. handle \in [Clients -> [Frames -> Handle]]
  BY DEF FileLockInv, FileLockTypeOK, Frames
<1>2. \A c \in Clients, k \in Frames : handle[c][k].ino \in Inodes \cup {NoInode}
  BY <1>1 DEF Handle
<1>3. LockPath \in Inodes \cup {NoInode}
  BY DEF FileLockInv, FileLockTypeOK, LockPath
<1> QED
  BY <1>1, <1>2, <1>3

LEMMA AgeInit == FileLockInit => AgeInv
<1> SUFFICES ASSUME FileLockInit PROVE AgeInv
  OBVIOUS
<1> DEFINE e == [i \in Inodes |-> 0]
<1>1. e \in [Inodes -> Nat] /\ 0 \in Nat
  OBVIOUS
<1>2. \A c \in Clients, k \in Frames : handle[c][k].ino = NoInode
  BY DEF FileLockInit, Frames, Closed
<1>3. LockPath \in Inodes
  BY DEF FileLockInit, LockPath
<1>4. \A i \in Inodes : InUse(i) => i = LockPath
  BY <1>2 DEF InUse
<1>5. Ages(e, 0)
  <2>1. \A i \in Inodes : e[i] = 0
    OBVIOUS
  <2> HIDE DEF e
  <2> QED
    BY <1>2, <1>3, <1>4, <2>1 DEF Ages
<1> QED
  BY <1>1, <1>5 DEF AgeInv

\* No file is opened and the path stays.
LEMMA AgesStay ==
  ASSUME AgeInv, UNCHANGED <<platform, file>>,
         \A c \in Clients, k \in Frames : handle'[c][k].ino \in {handle[c][k].ino, NoInode}
  PROVE  AgeInv'
<1>1. PICK e \in [Inodes -> Nat], n \in Nat : Ages(e, n)
  BY DEF AgeInv
<1>2. LockPath' = LockPath
  BY DEF LockPath
<1>3. \A i \in Inodes : InUse(i)' => InUse(i)
  BY <1>2 DEF InUse
<1>4. Ages(e, n)'
  <2>1. \A i \in Inodes :
          InUse(i)' => e[i] <= n /\ (LockPath' # NoInode => e[i] <= e[LockPath'])
    BY <1>1, <1>2, <1>3 DEF Ages
  <2>2. \A i, j \in Inodes : InUse(i)' /\ InUse(j)' /\ e[i] = e[j] => i = j
    BY <1>1, <1>3 DEF Ages
  <2>3. ASSUME NEW c \in Clients, NEW k \in Frames, NEW l \in Frames,
               k < l, handle'[c][k].ino # NoInode, handle'[c][l].ino # NoInode
        PROVE  e[handle'[c][k].ino] <= e[handle'[c][l].ino]
    <3>1. handle'[c][k].ino = handle[c][k].ino /\ handle'[c][l].ino = handle[c][l].ino
      BY <2>3
    <3> QED
      BY <1>1, <2>3, <3>1 DEF Ages
  <2> QED
    BY <2>1, <2>2, <2>3 DEF Ages
<1> QED
  BY <1>4 DEF AgeInv

LEMMA AgeOpen ==
  ASSUME FileLockInv, AgeInv, NEW c \in Clients, OpenLockPath(c) PROVE AgeInv'
<1> DEFINE s == Top(c)
<1>0. /\ s = Len(calls[c]) /\ s \in Nat /\ s >= 1 /\ s \in Frames
  BY DEF OpenLockPath, At, Top, FileLockInv, FileLockTypeOK, Frames
<1>1. PICK e \in [Inodes -> Nat], n \in Nat : Ages(e, n)
  BY DEF AgeInv
<1>2. LockPath' = LockPath /\ LockPath \in Inodes /\ LockPath # NoInode /\ InUse(LockPath)
  BY Inos DEF OpenLockPath, LockPath, InUse
<1>3. \A d \in Clients, k \in Frames :
        handle'[d][k].ino = IF d = c /\ k = s THEN LockPath ELSE handle[d][k].ino
  BY <1>0, Inos DEF OpenLockPath, Open, Held
<1>4. \A i \in Inodes : InUse(i)' => InUse(i)
  BY <1>2, <1>3 DEF InUse
<1>5. \A k \in Frames : k > s => handle[c][k].ino = NoInode
  BY <1>0 DEF FileLockInv, FramesOK, Frame, Closed
<1>6. ASSUME NEW d \in Clients, NEW k \in Frames, NEW l \in Frames,
             k < l, handle'[d][k].ino # NoInode, handle'[d][l].ino # NoInode
      PROVE  e[handle'[d][k].ino] <= e[handle'[d][l].ino]
  <2>1. k \in Nat /\ l \in Nat
    BY DEF Frames
  <2>2. CASE d = c /\ l = s
    <3>1. handle'[d][l].ino = LockPath /\ handle'[d][k].ino = handle[d][k].ino
      BY <1>3, <1>6, <2>1, <2>2
    <3>2. handle[d][k].ino \in Inodes /\ InUse(handle[d][k].ino)
      BY <1>6, <3>1, Inos DEF InUse
    <3> QED
      BY <1>1, <1>2, <3>1, <3>2 DEF Ages
  <2>3. CASE d = c /\ k = s
    BY <1>0, <1>3, <1>5, <1>6, <2>1, <2>3
  <2>4. CASE d # c \/ (k # s /\ l # s)
    <3>1. handle'[d][k].ino = handle[d][k].ino /\ handle'[d][l].ino = handle[d][l].ino
      BY <1>3, <2>4
    <3> QED
      BY <1>1, <1>6, <3>1 DEF Ages
  <2> QED
    BY <2>2, <2>3, <2>4
<1>7. Ages(e, n)'
  <2>1. \A i \in Inodes :
          InUse(i)' => e[i] <= n /\ (LockPath' # NoInode => e[i] <= e[LockPath'])
    BY <1>1, <1>2, <1>4 DEF Ages
  <2>2. \A i, j \in Inodes : InUse(i)' /\ InUse(j)' /\ e[i] = e[j] => i = j
    BY <1>1, <1>4 DEF Ages
  <2> QED
    BY <1>6, <2>1, <2>2 DEF Ages
<1> QED
  BY <1>7 DEF AgeInv

\* The new file is younger than all.
LEMMA AgeReplace ==
  ASSUME FileLockInv, AgeInv, NEW i \in Inodes \cup {NoInode}, Replace(i) PROVE AgeInv'
<1>1. PICK e \in [Inodes -> Nat], n \in Nat : Ages(e, n)
  BY DEF AgeInv
<1>2. UNCHANGED <<handle, platform>>
  BY DEF Replace
<1>3. CASE platform = "windows" \/ i = NoInode
  <2>1. LockPath' = LockPath \/ LockPath' = NoInode
    BY <1>2, <1>3 DEF LockPath, Replace
  <2>2. \A j \in Inodes : InUse(j)' => InUse(j)
    BY <1>2, <2>1, NoInodeAssumption DEF InUse
  <2>3. \A j \in Inodes : InUse(j)' => e[j] <= n /\ (LockPath' # NoInode => e[j] <= e[LockPath'])
    BY <1>1, <2>1, <2>2 DEF Ages
  <2>4. \A j, k \in Inodes : InUse(j)' /\ InUse(k)' /\ e[j] = e[k] => j = k
    BY <1>1, <2>2 DEF Ages
  <2>5. Ages(e, n)'
    BY <1>1, <1>2, <2>3, <2>4 DEF Ages
  <2> QED
    BY <2>5 DEF AgeInv
<1>4. CASE platform # "windows" /\ i # NoInode
  <2> DEFINE f == [e EXCEPT ![i] = n + 1]
  <2>1. LockPath' = i /\ i \in Inodes
    BY <1>2, <1>4 DEF LockPath, Replace
  <2>2. \A c \in Clients, k \in Frames : handle[c][k].ino # i
    BY <1>4 DEF Replace, Frames
  <2>3. f \in [Inodes -> Nat] /\ n + 1 \in Nat /\ f[i] = n + 1 /\ \A j \in Inodes : j # i => f[j] = e[j]
    BY <2>1
  <2> HIDE DEF f
  <2>4. \A j \in Inodes : InUse(j)' /\ j # i => InUse(j)
    BY <1>2, <2>1 DEF InUse
  <2>5. \A j \in Inodes : InUse(j)' /\ j # i => f[j] <= n /\ f[j] \in Nat
    BY <1>1, <2>3, <2>4 DEF Ages
  <2>6. \A j \in Inodes : InUse(j)' => f[j] <= n + 1 /\ f[j] <= f[LockPath']
    BY <2>1, <2>3, <2>5
  <2>7. \A j, k \in Inodes : InUse(j)' /\ InUse(k)' /\ f[j] = f[k] => j = k
    <3> SUFFICES ASSUME NEW j \in Inodes, NEW k \in Inodes, InUse(j)', InUse(k)', f[j] = f[k]
                 PROVE  j = k
      OBVIOUS
    <3>1. CASE j = i \/ k = i
      BY <2>3, <2>5, <3>1
    <3>2. CASE j # i /\ k # i
      BY <1>1, <2>3, <2>4, <3>2 DEF Ages
    <3> QED
      BY <3>1, <3>2
  <2>8. ASSUME NEW c \in Clients, NEW k \in Frames, NEW l \in Frames,
               k < l, handle[c][k].ino # NoInode, handle[c][l].ino # NoInode
        PROVE  f[handle[c][k].ino] <= f[handle[c][l].ino]
    <3>1. /\ handle[c][k].ino \in Inodes /\ handle[c][k].ino # i
          /\ handle[c][l].ino \in Inodes /\ handle[c][l].ino # i
      BY <2>2, <2>8, Inos
    <3> QED
      BY <1>1, <2>3, <2>8, <3>1 DEF Ages
  <2>9. Ages(f, n + 1)'
    BY <1>2, <2>6, <2>7, <2>8 DEF Ages
  <2> QED
    BY <2>3, <2>9 DEF AgeInv
<1> QED
  BY <1>3, <1>4

LEMMA AgeNext == FileLockInv /\ AgeInv /\ [FileLockNext]_fileLockVars => AgeInv'
<1> SUFFICES ASSUME FileLockInv, AgeInv, [FileLockNext]_fileLockVars PROVE AgeInv'
  OBVIOUS
<1>0. handle \in [Clients -> [Frames -> Handle]] /\ Closed.ino = NoInode
  BY Inos DEF Closed
<1>1. CASE UNCHANGED <<handle, platform, file>>
  BY <1>1, AgesStay
<1>2. ASSUME NEW c \in Clients, Unlock(c, Top(c)), UNCHANGED <<platform, file>> PROVE AgeInv'
  BY <1>0, <1>2, AgesStay DEF Unlock
<1>3. ASSUME NEW c \in Clients, GetLock(c) PROVE AgeInv'
  BY <1>0, <1>3, AgesStay DEF GetLock, TakeLock, Handle
<1>4. ASSUME NEW c \in Clients, Die(c) PROVE AgeInv'
  <2>1. \A d \in Clients, k \in Frames : handle'[d][k] = IF d = c THEN Closed ELSE handle[d][k]
    BY <1>0, <1>4 DEF Die, CloseAll
  <2> QED
    BY <1>0, <1>4, <2>1, AgesStay DEF Die
<1>5. ASSUME NEW c \in Clients, NEW op \in {"Lock", "TryLock"}, NEW mode \in {"shared", "exclusive"},
             Begin(c, op, mode)
      PROVE  AgeInv'
  BY <1>1, <1>5 DEF Begin
<1>6. ASSUME NEW c \in Clients, LockFails(c) PROVE AgeInv'
  BY <1>2, <1>6 DEF LockFails
<1>7. ASSUME NEW c \in Clients, NEW e \in Ends, FunctionEnds(c, e) PROVE AgeInv'
  BY <1>2, <1>7 DEF FunctionEnds, DeferredUnlock
<1> QED
  BY <1>1, <1>3, <1>4, <1>5, <1>6, <1>7, AgeOpen, AgeReplace DEF FileLockNext, fileLockVars

\* In a set of bounded numbers one is the greatest.
LEMMA Youngest ==
  ASSUME NEW S, S # {}, NEW age \in [S -> Nat], NEW n \in Nat, \A c \in S : age[c] <= n
  PROVE  \E c \in S : \A d \in S : age[d] <= age[c]
<1> DEFINE R == OpToRel(<, Nat)
           T == {n - age[c] : c \in S}
<1>1. IsWellFoundedOn(R, Nat)
  BY NatLessThanWellFounded
<1>2. \A c \in S : age[c] \in Nat /\ n - age[c] \in Nat
  <2>1. \A a, b \in Nat : a <= b => b - a \in Nat
    OBVIOUS
  <2> QED
    BY <2>1
<1>3. T \subseteq Nat /\ T # {}
  BY <1>2
<1> HIDE DEF R
<1>4. PICK m \in T : \A u \in T : ~(<<u, m>> \in R)
  <2> HIDE DEF T
  <2> QED
    BY <1>1, <1>3, WFMin
<1>5. PICK c \in S : m = n - age[c]
  OBVIOUS
<1>6. ASSUME NEW d \in S PROVE age[d] <= age[c]
  <2>1. n - age[d] \in T /\ n - age[d] \in Nat /\ n - age[c] \in Nat
    BY <1>2
  <2>2. n - age[d] < n - age[c] => <<n - age[d], n - age[c]>> \in R
    BY <2>1 DEF R, OpToRel
  <2>3. ~(n - age[d] < n - age[c])
    BY <1>4, <1>5, <2>1, <2>2
  <2>4. \A a, b \in Nat : ~(n - a < n - b) => a <= b
    OBVIOUS
  <2> QED
    BY <1>2, <2>3, <2>4
<1> QED
  BY <1>6

\* Whoever c waits for has a lock on what c has opened; if it waits itself, for a file no
\* younger, then it waits for that very file, and keeps itself waiting.
LEMMA OwnLock ==
  ASSUME FileLockInv, NEW c \in Clients, NEW d \in Clients, NEW f \in Clients,
         NEW e \in [Inodes -> Nat], NEW n \in Nat, Ages(e, n),
         WaitsFor(c, d), WaitsFor(d, f),
         e[handle[d][Top(d)].ino] <= e[handle[c][Top(c)].ino]
  PROVE  WaitsFor(d, d) /\ Last(calls[d]).op = "Lock"
<1> DEFINE s == Top(d)
           i == handle[d][s].ino
<1>1. /\ calls \in [Clients -> Seq(Call)] /\ \A a \in Clients : Len(calls[a]) <= Depth
      /\ handle \in [Clients -> [Frames -> Handle]]
      /\ \A a \in Clients, k \in Frames : handle[a][k].ino \in Inodes \cup {NoInode}
  BY Inos DEF FileLockInv, FileLockTypeOK
<1>2. ASSUME NEW a \in Clients, At(a, "flock")
      PROVE  /\ Top(a) \in Frames /\ Top(a) = Len(calls[a]) /\ Last(calls[a]) = calls[a][Top(a)]
             /\ calls[a][Top(a)] \in Call
             /\ handle[a][Top(a)].ino \in Inodes /\ handle[a][Top(a)].ino # NoInode
             /\ handle[a][Top(a)].mode = "none"
  <2>1. /\ Top(a) \in Frames /\ Top(a) = Len(calls[a]) /\ Last(calls[a]) = calls[a][Top(a)]
        /\ calls[a][Top(a)] \in Call /\ calls[a][Top(a)].at = "flock"
    BY <1>1, <1>2 DEF At, Top, Last, Frames
  <2>2. Frame(calls[a], Top(a), handle[a][Top(a)])
    BY <2>1 DEF FileLockInv, FramesOK
  <2> QED
    BY <1>1, <2>1, <2>2 DEF Frame
<1>3. At(c, "flock") /\ At(d, "flock")
  BY DEF WaitsFor
<1>4. PICK k \in Frames :
        /\ <<d, k>> # <<c, Top(c)>>
        /\ handle[d][k].ino = handle[c][Top(c)].ino
        /\ Incompatible(Last(calls[c]).mode, handle[d][k].mode)
  BY DEF WaitsFor, Frames
<1>5. PICK l \in Frames :
        /\ <<f, l>> # <<d, s>>
        /\ handle[f][l].ino = i
        /\ Incompatible(Last(calls[d]).mode, handle[f][l].mode)
  BY DEF WaitsFor, Frames
<1>6. handle[d][k].mode # "none" /\ handle[f][l].mode # "none"
  BY <1>4, <1>5 DEF Incompatible
<1>7. /\ s \in Frames /\ s = Len(calls[d]) /\ handle[d][s].mode = "none" /\ i \in Inodes /\ i # NoInode
      /\ handle[c][Top(c)].ino \in Inodes /\ handle[c][Top(c)].ino # NoInode
  BY <1>2, <1>3
<1>8. k < s
  <2>1. k # s
    BY <1>6, <1>7
  <2>2. k > s => handle[d][k] = Closed
    BY <1>7 DEF FileLockInv, FramesOK, Frame
  <2>3. k \in Nat /\ s \in Nat
    BY <1>7 DEF Frames
  <2> QED
    BY <1>6, <2>1, <2>2, <2>3 DEF Closed
<1>9. handle[d][k].ino = i
  <2>1. e[handle[d][k].ino] <= e[i]
    BY <1>4, <1>7, <1>8 DEF Ages
  <2>2. e[handle[d][k].ino] = e[i]
    BY <1>4, <1>7, <2>1
  <2>3. InUse(i) /\ InUse(handle[d][k].ino) /\ handle[d][k].ino \in Inodes
    BY <1>4, <1>7 DEF InUse
  <2> HIDE DEF i
  <2> QED
    BY <1>7, <2>2, <2>3 DEF Ages
<1>10. Incompatible(Last(calls[d]).mode, handle[d][k].mode)
  <2>1. CASE <<f, l>> = <<d, k>>
    BY <1>5, <2>1
  <2>2. CASE <<f, l>> # <<d, k>>
    <3>1. ~Incompatible(handle[d][k].mode, handle[f][l].mode)
      BY <1>5, <1>9, <2>2 DEF FileLockInv, AllCompatible, Compatible
    <3>2. Last(calls[d]).mode = "exclusive"
      BY <1>5, <1>6, <3>1 DEF Incompatible
    <3> QED
      BY <1>6, <3>2 DEF Incompatible
  <2> QED
    BY <2>1, <2>2
<1>11. <<d, k>> # <<d, s>> /\ handle[d][k].ino = handle[d][s].ino /\ k \in Frames
  BY <1>7, <1>8, <1>9 DEF Frames
<1>12. WaitsFor(d, d)
  BY <1>10, <1>11 DEF WaitsFor, Frames
<1>13. Last(calls[d]).op = "Lock"
  <2>1. Last(calls[d]).op \in {"Lock", "TryLock"}
    BY <1>2, <1>3 DEF Call
  <2>2. Blocked(d, s, i, Last(calls[d]).mode)
    BY <1>1, <1>10, <1>11 DEF Blocked, Frames
  <2>3. Last(calls[d]).op # "TryLock"
    BY <1>3, <2>2 DEF WaitsFor, Refused
  <2> QED
    BY <2>1, <2>3
<1> QED
  BY <1>12, <1>13

\* Goroutines are stuck with each other only where one waits for itself (lock.go:39-94,
\* lock_unix.go:41-57): take one that waits for the youngest file any of them waits for.
THEOREM OnlyOwnLocksStickHolds == FileLockSpec => []OnlyOwnLocksStick
<1>1. FileLockInv /\ AgeInv => OnlyOwnLocksStick
  <2> SUFFICES ASSUME FileLockInv, AgeInv, NEW S \in (SUBSET Clients) \ {{}}, Stuck(S)
               PROVE  \E c \in S : Last(calls[c]).op = "Lock" /\ WaitsFor(c, c)
    BY DEF OnlyOwnLocksStick
  <2>1. PICK e \in [Inodes -> Nat], n \in Nat : Ages(e, n)
    BY DEF AgeInv
  <2> DEFINE age == [c \in S |-> e[handle[c][Top(c)].ino]]
  <2>2. ASSUME NEW c \in S
        PROVE  /\ handle[c][Top(c)].ino \in Inodes
               /\ e[handle[c][Top(c)].ino] \in Nat /\ e[handle[c][Top(c)].ino] <= n
    <3>1. c \in Clients /\ At(c, "flock")
      BY DEF Stuck, WaitsFor
    <3>2. Top(c) \in Frames /\ Top(c) <= Len(calls[c]) /\ calls[c][Top(c)].at = "flock"
      BY <3>1 DEF FileLockInv, FileLockTypeOK, At, Top, Last, Frames
    <3>3. handle[c][Top(c)].ino # NoInode
      BY <3>1, <3>2 DEF FileLockInv, FramesOK, Frame
    <3>4. handle[c][Top(c)].ino \in Inodes
      BY <3>1, <3>2, <3>3, Inos
    <3>5. InUse(handle[c][Top(c)].ino)
      BY <3>1, <3>2, <3>4 DEF InUse
    <3> QED
      BY <2>1, <3>4, <3>5 DEF Ages
  <2>3. age \in [S -> Nat] /\ \A c \in S : age[c] <= n
    BY <2>2
  <2>4. PICK c \in S : \A d \in S : age[d] <= age[c]
    <3>1. S # {}
      OBVIOUS
    <3> HIDE DEF age
    <3> QED
      BY <2>1, <2>3, <3>1, Youngest
  <2>5. PICK d \in S : WaitsFor(c, d)
    BY DEF Stuck
  <2>6. PICK f \in S : WaitsFor(d, f)
    BY DEF Stuck
  <2>7. e[handle[d][Top(d)].ino] <= e[handle[c][Top(c)].ino]
    BY <2>4
  <2> HIDE DEF age
  <2>8. WaitsFor(d, d) /\ Last(calls[d]).op = "Lock"
    BY <2>1, <2>5, <2>6, <2>7, OwnLock
  <2> QED
    BY <2>8
<1> QED
  BY <1>1, FileLockInvHolds, AgeInit, AgeNext, PTL DEF FileLockSpec

=============================================================================
