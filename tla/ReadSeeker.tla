----------------------------- MODULE ReadSeeker -----------------------------
(***************************************************************************)
(* filesystem/readseeker.go: a buffer before an io.ReadSeeker.  The source *)
(* is external; it reads short, fails, and reports EOF with or after the   *)
(* last bytes, as io.Reader allows.  Integers wrap at the width of int.    *)
(***************************************************************************)
EXTENDS Integers

CONSTANTS Size,      \* len(rs.buf)
          Length,    \* of the source
          MaxInt,    \* the largest int: 2^(w-1) - 1 for a word of w bits
          DestSizes, \* len(dest) of the Reads
          Offsets    \* offset of the Seeks

ASSUME ReadSeekerAssumption ==
  /\ Size \in Nat \ {0} /\ Length \in Nat /\ MaxInt \in Nat
  /\ Length + Size <= MaxInt
  /\ DestSizes \subseteq 0 .. MaxInt
  /\ Offsets \subseteq -MaxInt - 1 .. MaxInt

VARIABLES off, end,  \* the buffer's read offset and its end
          base,      \* the place in the source of buf[0]
          pos,       \* the position of the source
          closed,    \* the source has been closed
          out        \* the last call and what it returned

vars == <<off, end, base, pos, closed, out>>

\* Two's complement: the sum or difference of two ints, as an int.
Wrap(x) ==
  IF x > MaxInt THEN x - 2 * (MaxInt + 1)
  ELSE IF x < -MaxInt - 1 THEN x + 2 * (MaxInt + 1)
  ELSE x

Whences == {"start", "current", "end"}

\* What was called and what it returned: n bytes from place from (none have no
\* place), or a position, and an error.
ReadResult(len, n, from, e) ==
  [op |-> "read", len |-> len, n |-> n, from |-> IF n = 0 THEN 0 ELSE from, err |-> e]
SeekResult(offset, whence, n, e) ==
  [op |-> "seek", offset |-> offset, whence |-> whence, n |-> n, err |-> e]
CloseResult(e) == [op |-> "close", err |-> e]

Ints == -MaxInt - 1 .. MaxInt

Errors == {"nil", "EOF", "fail", "panic"}

Results ==
  [op : {"read"}, len : DestSizes, n : Ints, from : Ints, err : Errors]
    \cup [op : {"seek"}, offset : Offsets, whence : Whences, n : Ints, err : Errors]
    \cup [op : {"close"}, err : Errors]

TypeOK ==
  /\ off \in Ints /\ end \in 0 .. Size
  /\ base \in 0 .. Length /\ pos \in 0 .. MaxInt
  /\ closed \in BOOLEAN
  /\ out \in Results

Init ==
  /\ off = 0 /\ end = 0 /\ base = 0 /\ pos = 0
  /\ closed = FALSE
  /\ out = CloseResult("nil")

Min2(a, b) == IF a < b THEN a ELSE b

-----------------------------------------------------------------------------
(* The source                                                              *)

\* What Read of the source may answer to a request for len > 0 bytes.
SourceReads(len) ==
  {[n |-> 0, err |-> "fail"]} \cup
  IF closed THEN {}
  ELSE IF pos >= Length THEN {[n |-> 0, err |-> "EOF"]}
  ELSE [n : 1 .. Min2(len, Length - pos), err : {"nil", "fail"}]
         \cup IF len >= Length - pos THEN {[n |-> Length - pos, err |-> "EOF"]} ELSE {}

\* Where Seek of the source may go: nowhere when it fails.
SourceSeeks(offset, whence) ==
  LET origin == CASE whence = "start" -> 0
                  [] whence = "current" -> pos
                  [] whence = "end" -> Length
      target == origin + offset
  IN IF closed THEN {} ELSE {target} \cap 0 .. MaxInt

-----------------------------------------------------------------------------
(* Read                                                                    *)

ReadNothing ==
  /\ 0 \in DestSizes
  /\ out' = ReadResult(0, 0, 0, "nil")
  /\ UNCHANGED <<off, end, base, pos, closed>>

\* Slicing rs.buf with a negative offset panics.
ReadBuffered(len) ==
  /\ len > 0 /\ off < end
  /\ IF off < 0
       THEN out' = ReadResult(len, 0, 0, "panic") /\ UNCHANGED off
       ELSE LET n == Min2(len, end - off) IN
            /\ out' = ReadResult(len, n, base + off, "nil")
            /\ off' = off + n
  /\ UNCHANGED <<end, base, pos, closed>>

ReadDirectly(len) ==
  /\ len > 0 /\ off >= end /\ len >= Size
  /\ \E r \in SourceReads(len) :
       /\ out' = ReadResult(len, r.n, pos, r.err)
       /\ pos' = pos + r.n
  /\ UNCHANGED <<off, end, base, closed>>

\* An error that comes with bytes is dropped: the next Refill meets it again, or
\* does not.
Refill(len) ==
  /\ len > 0 /\ off >= end /\ len < Size
  /\ \E r \in SourceReads(Size) :
       /\ pos' = pos + r.n
       /\ IF r.n > 0
            THEN LET copied == Min2(len, r.n) IN
                 /\ base' = pos /\ end' = r.n /\ off' = copied
                 /\ out' = ReadResult(len, copied, pos, "nil")
            ELSE /\ out' = ReadResult(len, 0, 0, r.err)
                 /\ UNCHANGED <<base, end, off>>
  /\ UNCHANGED closed

-----------------------------------------------------------------------------
(* Seek                                                                    *)

\* newOff <= rs.end: the seek stays in the buffer.
StaysInBuffer(offset, whence) ==
  /\ whence = "current" /\ offset >= 0
  /\ Wrap(off + offset) <= end

\* The offset moves before the source is asked for its position.
SeekInBuffer(offset, whence) ==
  /\ StaysInBuffer(offset, whence)
  /\ off' = Wrap(off + offset)
  /\ \/ out' = SeekResult(offset, whence, 0, "fail")
     \/ ~closed /\ out' = SeekResult(offset, whence, Wrap(pos - Wrap(end - off')), "nil")
  /\ UNCHANGED <<end, base, pos, closed>>

\* Mutant: the distance is taken from the source's position.
SeekSourceFromItsPosition(offset, whence) ==
  /\ ~StaysInBuffer(offset, whence)
  /\ off' = 0 /\ end' = 0
  /\ \/ out' = SeekResult(offset, whence, 0, "fail") /\ UNCHANGED pos
     \/ \E p \in SourceSeeks(offset, whence) : pos' = p /\ out' = SeekResult(offset, whence, p, "nil")
  /\ UNCHANGED <<base, closed>>

\* Mutant: the buffer stays.
SeekSourceOnly(offset, whence) ==
  LET delegated == IF whence = "current" THEN Wrap(offset - Wrap(end - off)) ELSE offset IN
  /\ ~StaysInBuffer(offset, whence)
  /\ \/ out' = SeekResult(offset, whence, 0, "fail") /\ UNCHANGED pos
     \/ \E p \in SourceSeeks(delegated, whence) : pos' = p /\ out' = SeekResult(offset, whence, p, "nil")
  /\ UNCHANGED <<off, end, base, closed>>

\* The buffer is gone whether or not the source's Seek succeeds.
SeekSource(offset, whence) ==
  LET delegated == IF whence = "current" THEN Wrap(offset - Wrap(end - off)) ELSE offset IN
  /\ ~StaysInBuffer(offset, whence)
  /\ off' = 0 /\ end' = 0
  /\ \/ out' = SeekResult(offset, whence, 0, "fail") /\ UNCHANGED pos
     \/ \E p \in SourceSeeks(delegated, whence) : pos' = p /\ out' = SeekResult(offset, whence, p, "nil")
  /\ UNCHANGED <<base, closed>>

-----------------------------------------------------------------------------
\* Close closes a source that is an io.Closer, and leaves the buffer alone.
Close ==
  /\ closed' \in {closed, TRUE}
  /\ \E e \in {"nil", "fail"} : out' = CloseResult(e)
  /\ UNCHANGED <<off, end, base, pos>>

Next ==
  \/ ReadNothing
  \/ \E len \in DestSizes : ReadBuffered(len) \/ ReadDirectly(len) \/ Refill(len)
  \/ \E offset \in Offsets, whence \in Whences :
       SeekInBuffer(offset, whence) \/ SeekSource(offset, whence)
  \/ Close

Spec == Init /\ [][Next]_vars

-----------------------------------------------------------------------------
(* Properties                                                              *)

\* The bytes in the buffer are the ones right before the source's position, and
\* the read offset is within them (readseeker.go:94-95).
BufferCoherent ==
  /\ 0 <= off /\ off <= end
  /\ off < end => base + end = pos /\ pos <= Length

ReadSeekerInv == TypeOK /\ BufferCoherent

\* The wrapped reader behaves like the plain one: every byte comes once, in order
\* and from where the last Seek went.  A Seek that fails may lose what was in the
\* buffer, no more.
Plain == INSTANCE PlainReader WITH at <- pos - (end - off), Slack <- Size

PlainSpec == Plain!Spec

\* readseeker.go:23-24 "Seeks invalidate the buffer except for small forward
\* SeekCurrent operations that fall within the buffered data": whenever a Seek
\* leaves bytes in the buffer, it has moved forward within them.
SeekKeepsOnlyWhatItPasses ==
  [][out'.op = "seek" /\ end' # 0 => off <= off' /\ off' <= end]_vars

=============================================================================
