-------------------------- MODULE ReadSeekerProofs --------------------------
(***************************************************************************)
(* What holds of ReadSeeker for every size of buffer and source and every  *)
(* width of int, as long as no Seek is longer than ShortSeeks allows.      *)
(***************************************************************************)
EXTENDS ReadSeeker, TLAPS

USE ReadSeekerAssumption

\* No Seek comes so near the largest int that adding the buffer's offset to it
\* overflows (readseeker.go:99).
ShortSeeks == \A offset \in Offsets : offset + Size <= MaxInt

-----------------------------------------------------------------------------
\* What a call returns is a result.
LEMMA ReadResultIsResult ==
  ASSUME NEW len \in DestSizes, NEW n \in Ints, NEW from \in Ints, NEW e \in Errors
  PROVE  ReadResult(len, n, from, e) \in Results
<1>1. 0 \in Ints
  BY DEF Ints
<1> QED
  BY <1>1 DEF ReadResult, Results

LEMMA SeekResultIsResult ==
  ASSUME NEW offset \in Offsets, NEW whence \in Whences, NEW n \in Ints, NEW e \in Errors
  PROVE  SeekResult(offset, whence, n, e) \in Results
  BY DEF SeekResult, Results

\* Nothing is in the buffer to begin with.
LEMMA InvInit == Init => ReadSeekerInv
<1> SUFFICES ASSUME Init PROVE ReadSeekerInv
  OBVIOUS
<1>1. 0 \in Ints
  BY DEF Ints
<1>2. closed \in BOOLEAN
  BY DEF Init
<1>3. /\ off \in Ints /\ end \in 0 .. Size /\ base \in 0 .. Length /\ pos \in 0 .. MaxInt
      /\ BufferCoherent
  BY <1>1 DEF Init, BufferCoherent
<1>4. CloseResult("nil") \in Results
  BY DEF CloseResult, Results, Errors
<1> QED
  BY <1>2, <1>3, <1>4 DEF Init, ReadSeekerInv, TypeOK

\* A source with room for len > 0 bytes answers n of them, and n > 0 only while
\* there are some.
LEMMA SourceReadsWhatIsThere ==
  ASSUME TypeOK, NEW len \in Nat, NEW r \in SourceReads(len)
  PROVE  /\ r.n \in Nat /\ r.n <= len
         /\ r.n > 0 => pos + r.n <= Length
         /\ r.err \in {"nil", "fail", "EOF"}
         /\ r.n = 0 /\ len > 0 => r.err # "nil"
         /\ r.err = "EOF" => pos + r.n >= Length
<1> USE DEF TypeOK
<1>1. \/ r = [n |-> 0, err |-> "fail"]
      \/ r = [n |-> 0, err |-> "EOF"] /\ pos >= Length
      \/ pos < Length /\ r \in [n : 1 .. Min2(len, Length - pos), err : {"nil", "fail"}]
      \/ pos < Length /\ len >= Length - pos /\ r = [n |-> Length - pos, err |-> "EOF"]
  BY DEF SourceReads
<1>2. CASE r = [n |-> 0, err |-> "fail"]
  BY <1>2
<1>3. CASE r = [n |-> 0, err |-> "EOF"] /\ pos >= Length
  BY <1>3
<1>4. CASE pos < Length /\ r \in [n : 1 .. Min2(len, Length - pos), err : {"nil", "fail"}]
  <2>1. r.n \in 1 .. Min2(len, Length - pos) /\ r.err \in {"nil", "fail"}
    BY <1>4
  <2> QED
    BY <1>4, <2>1 DEF Min2
<1>5. CASE pos < Length /\ len >= Length - pos /\ r = [n |-> Length - pos, err |-> "EOF"]
  BY <1>5
<1> QED
  BY <1>1, <1>2, <1>3, <1>4, <1>5

\* While the buffer is coherent, no arithmetic of Seek wraps but the distance of
\* the most negative relative Seeks, and such a one fails in the source.
LEMMA SeekArithmetic ==
  ASSUME ShortSeeks, ReadSeekerInv, NEW offset \in Offsets
  PROVE  /\ Wrap(end - off) = end - off
         /\ Wrap(off + offset) = off + offset
         /\ offset - (end - off) >= -MaxInt - 1 =>
              Wrap(offset - (end - off)) = offset - (end - off)
         /\ offset - (end - off) < -MaxInt - 1 =>
              pos + Wrap(offset - (end - off)) > MaxInt
<1>1. /\ off \in Int /\ end \in Nat /\ pos \in Nat /\ base \in Nat
      /\ 0 <= off /\ off <= end /\ end <= Size
      /\ off < end => base + end = pos
      /\ offset \in Int /\ -MaxInt - 1 <= offset /\ offset + Size <= MaxInt
      /\ MaxInt \in Nat /\ Size \in Nat /\ Size <= MaxInt
  BY DEF ShortSeeks, ReadSeekerInv, TypeOK, BufferCoherent, Ints
<1> QED
  BY <1>1 DEF Wrap

-----------------------------------------------------------------------------
(* The invariant                                                           *)

\* Each step of Read leaves the buffer right behind the source's position.
LEMMA ReadStep ==
  ASSUME ReadSeekerInv, NEW len \in DestSizes,
         ReadBuffered(len) \/ ReadDirectly(len) \/ Refill(len)
  PROVE  ReadSeekerInv'
<1> USE DEF ReadSeekerInv, TypeOK, BufferCoherent, Ints
<1>0. len \in Nat /\ len <= MaxInt
  OBVIOUS
<1>1. CASE ReadBuffered(len)
  <2>1. /\ off \in Nat /\ off < end /\ base + end = pos /\ pos <= Length /\ len > 0
        /\ UNCHANGED <<end, base, pos, closed>>
    BY <1>1 DEF ReadBuffered
  <2> DEFINE n == Min2(len, end - off)
  <2>2. n \in Nat /\ n <= end - off /\ n <= MaxInt
    BY <1>0, <2>1 DEF Min2
  <2>3. out' = ReadResult(len, n, base + off, "nil") /\ off' = off + n
    BY <1>1, <2>1 DEF ReadBuffered
  <2>4. n \in Ints /\ base + off \in Ints /\ "nil" \in Errors
    BY <2>1, <2>2 DEF Errors
  <2>5. out' \in Results
    BY <2>3, <2>4, ReadResultIsResult
  <2> HIDE DEF n
  <2> QED
    BY <2>1, <2>2, <2>3, <2>5
<1>2. CASE ReadDirectly(len)
  <2>1. PICK r \in SourceReads(len) : /\ out' = ReadResult(len, r.n, pos, r.err)
                                      /\ pos' = pos + r.n
    BY <1>2 DEF ReadDirectly
  <2>2. r.n \in Nat /\ r.n <= len /\ r.err \in Errors /\ (r.n > 0 => pos + r.n <= Length)
    BY <1>0, SourceReadsWhatIsThere DEF Errors
  <2>3. r.n \in Ints /\ pos \in Ints
    BY <1>0, <2>2
  <2>4. out' \in Results
    BY <2>1, <2>2, <2>3, ReadResultIsResult
  <2>5. off >= end /\ UNCHANGED <<off, end, base, closed>>
    BY <1>2 DEF ReadDirectly
  <2> QED
    BY <2>1, <2>2, <2>4, <2>5
<1>3. CASE Refill(len)
  <2>1. PICK r \in SourceReads(Size) :
          /\ pos' = pos + r.n
          /\ IF r.n > 0
               THEN LET copied == Min2(len, r.n) IN
                    /\ base' = pos /\ end' = r.n /\ off' = copied
                    /\ out' = ReadResult(len, copied, pos, "nil")
               ELSE /\ out' = ReadResult(len, 0, 0, r.err)
                    /\ UNCHANGED <<base, end, off>>
    BY <1>3 DEF Refill
  <2>2. r.n \in Nat /\ r.n <= Size /\ r.err \in Errors /\ (r.n > 0 => pos + r.n <= Length)
    BY SourceReadsWhatIsThere DEF Errors
  <2>3. off >= end /\ UNCHANGED closed
    BY <1>3 DEF Refill
  <2>4. CASE r.n > 0
    <3> DEFINE copied == Min2(len, r.n)
    <3>1. copied \in Nat /\ copied <= r.n
      BY <1>0, <2>2 DEF Min2
    <3>2. base' = pos /\ end' = r.n /\ off' = copied /\ out' = ReadResult(len, copied, pos, "nil")
      BY <2>1, <2>4
    <3>3. copied \in Ints /\ pos \in Ints /\ "nil" \in Errors
      BY <2>2, <3>1 DEF Errors
    <3>4. out' \in Results
      BY <3>2, <3>3, ReadResultIsResult
    <3> HIDE DEF copied
    <3> QED
      BY <2>1, <2>2, <2>3, <2>4, <3>1, <3>2, <3>4
  <2>5. CASE r.n = 0
    <3>1. out' = ReadResult(len, 0, 0, r.err) /\ UNCHANGED <<base, end, off>>
      BY <2>1, <2>5
    <3>2. 0 \in Ints
      OBVIOUS
    <3>3. out' \in Results
      BY <2>2, <3>1, <3>2, ReadResultIsResult
    <3> QED
      BY <2>1, <2>2, <2>3, <2>5, <3>1, <3>3
  <2> QED
    BY <2>2, <2>4, <2>5
<1> QED
  BY <1>1, <1>2, <1>3

\* So does each step of Seek, when it is short.
LEMMA SeekStep ==
  ASSUME ShortSeeks, ReadSeekerInv, NEW offset \in Offsets, NEW whence \in Whences,
         SeekInBuffer(offset, whence) \/ SeekSource(offset, whence)
  PROVE  ReadSeekerInv'
<1> USE DEF ReadSeekerInv, TypeOK, BufferCoherent, Ints
<1>0. 0 \in Ints /\ "nil" \in Errors /\ "fail" \in Errors
  BY DEF Errors
<1>1. CASE SeekInBuffer(offset, whence)
  <2>1. off' = off + offset /\ offset >= 0 /\ off' <= end
    BY <1>1, SeekArithmetic DEF SeekInBuffer, StaysInBuffer
  <2>2. Wrap(pos - Wrap(end - off')) \in Ints
    BY <2>1 DEF Wrap
  <2>3. out' \in Results
    BY <1>0, <1>1, <2>2, SeekResultIsResult DEF SeekInBuffer
  <2>4. UNCHANGED <<end, base, pos, closed>>
    BY <1>1 DEF SeekInBuffer
  <2> QED
    BY <2>1, <2>3, <2>4
<1>2. CASE SeekSource(offset, whence)
  <2>1. off' = 0 /\ end' = 0 /\ UNCHANGED <<base, closed>>
    BY <1>2 DEF SeekSource
  <2>2. \/ out' = SeekResult(offset, whence, 0, "fail") /\ UNCHANGED pos
        \/ \E p \in 0 .. MaxInt : pos' = p /\ out' = SeekResult(offset, whence, p, "nil")
    BY <1>2 DEF SeekSource, SourceSeeks
  <2>3. \A p \in 0 .. MaxInt : p \in Ints
    OBVIOUS
  <2>4. out' \in Results /\ pos' \in 0 .. MaxInt
    BY <1>0, <2>2, <2>3, SeekResultIsResult
  <2> QED
    BY <2>1, <2>4
<1> QED
  BY <1>1, <1>2

\* Every step preserves the invariant.
LEMMA InvStep == ShortSeeks /\ ReadSeekerInv /\ [Next]_vars => ReadSeekerInv'
<1> SUFFICES ASSUME ShortSeeks, ReadSeekerInv, [Next]_vars PROVE ReadSeekerInv'
  OBVIOUS
<1>1. CASE UNCHANGED vars
  BY <1>1 DEF vars, ReadSeekerInv, TypeOK, BufferCoherent
<1>2. CASE ReadNothing
  <2>1. 0 \in Ints /\ "nil" \in Errors /\ 0 \in DestSizes
    BY <1>2 DEF ReadNothing, Ints, Errors
  <2>2. out' \in Results
    BY <1>2, <2>1, ReadResultIsResult DEF ReadNothing
  <2> QED
    BY <1>2, <2>2 DEF ReadNothing, ReadSeekerInv, TypeOK, BufferCoherent
<1>3. CASE Close
  <2>1. closed' \in BOOLEAN
    BY <1>3 DEF Close, ReadSeekerInv, TypeOK
  <2>2. out' \in Results
    BY <1>3 DEF Close, CloseResult, Results, Errors
  <2> QED
    BY <1>3, <2>1, <2>2 DEF Close, ReadSeekerInv, TypeOK, BufferCoherent
<1> QED
  BY <1>1, <1>2, <1>3, ReadStep, SeekStep DEF Next

\* ReadSeekerInv: unless a Seek is so long that the sum overflows, the buffer
\* holds the bytes right before the source's position and the read offset is
\* within it.
THEOREM InvariantHolds == ASSUME ShortSeeks PROVE Spec => []ReadSeekerInv
<1>1. ReadSeekerInv /\ [Next]_vars => ReadSeekerInv'
  BY ShortSeeks, InvStep
<1> QED
  BY <1>1, InvInit, PTL DEF Spec

-----------------------------------------------------------------------------
(* ReadSeeker implements PlainReader                                       *)

\* The position of the plain reader is the place of the next byte.
At == pos - (end - off)

\* Reads read on from there.
LEMMA ReadRefines ==
  ASSUME ReadSeekerInv, NEW len \in DestSizes,
         ReadBuffered(len) \/ ReadDirectly(len) \/ Refill(len)
  PROVE  Plain!Read(len)
<1> USE DEF ReadSeekerInv, TypeOK, BufferCoherent, ReadResult, Ints
<1>0. len \in Nat
  OBVIOUS
<1>1. CASE ReadBuffered(len)
  <2>1. /\ off \in Nat /\ end \in Nat /\ off < end /\ base + end = pos /\ len > 0
        /\ UNCHANGED <<end, pos>>
    BY <1>1 DEF ReadBuffered
  <2> DEFINE n == Min2(len, end - off)
  <2>2. n \in 1 .. len /\ n <= end - off
    BY <1>0, <2>1 DEF Min2
  <2>3. out' = ReadResult(len, n, At, "nil") /\ off' = off + n
    BY <1>1, <2>1, <2>2 DEF ReadBuffered, At
  <2>4. At + n <= Length
    BY <2>1, <2>2 DEF At
  <2> QED
    BY <1>0, <2>1, <2>2, <2>3, <2>4 DEF Plain!Read, Plain!ReadResult, At
<1>2. CASE ReadDirectly(len)
  <2>1. PICK r \in SourceReads(len) : out' = ReadResult(len, r.n, pos, r.err) /\ pos' = pos + r.n
    BY <1>2 DEF ReadDirectly
  <2>2. /\ r.n \in 0 .. len /\ r.err \in {"nil", "EOF", "fail"}
        /\ r.n > 0 => pos + r.n <= Length
        /\ r.n = 0 /\ len > 0 => r.err # "nil"
        /\ r.err = "EOF" => pos + r.n >= Length
    BY <1>0, SourceReadsWhatIsThere
  <2>3. At = pos /\ At' = pos + r.n
    BY <1>2, <2>1, <2>2 DEF ReadDirectly, At
  <2> QED
    BY <1>0, <2>1, <2>2, <2>3 DEF Plain!Read, Plain!ReadResult, At
<1>3. CASE Refill(len)
  <2>1. PICK r \in SourceReads(Size) :
          /\ pos' = pos + r.n
          /\ IF r.n > 0
               THEN LET copied == Min2(len, r.n) IN
                    /\ base' = pos /\ end' = r.n /\ off' = copied
                    /\ out' = ReadResult(len, copied, pos, "nil")
               ELSE /\ out' = ReadResult(len, 0, 0, r.err)
                    /\ UNCHANGED <<base, end, off>>
    BY <1>3 DEF Refill
  <2>2. /\ r.n \in 0 .. Size /\ r.err \in {"nil", "EOF", "fail"}
        /\ r.n > 0 => pos + r.n <= Length
        /\ r.n = 0 => r.err # "nil"
        /\ r.err = "EOF" => pos + r.n >= Length
    BY SourceReadsWhatIsThere
  <2>3. At = pos /\ len > 0
    BY <1>3 DEF Refill, At
  <2>4. CASE r.n > 0
    <3>1. Min2(len, r.n) \in 1 .. len /\ Min2(len, r.n) <= r.n
      BY <1>0, <2>2, <2>3, <2>4 DEF Min2
    <3>2. At' = pos + Min2(len, r.n) /\ out' = ReadResult(len, Min2(len, r.n), pos, "nil")
      BY <2>1, <2>2, <2>4, <3>1 DEF At
    <3> QED
      BY <1>0, <2>2, <2>3, <3>1, <3>2 DEF Plain!Read, Plain!ReadResult, At
  <2>5. CASE r.n = 0
    <3>1. At' = At /\ out' = ReadResult(len, 0, 0, r.err)
      BY <2>1, <2>2, <2>3, <2>5 DEF At
    <3> QED
      BY <1>0, <2>2, <2>3, <2>5, <3>1 DEF Plain!Read, Plain!ReadResult, At
  <2> QED
    BY <2>2, <2>4, <2>5
<1> QED
  BY <1>1, <1>2, <1>3

\* A Seek goes where the plain reader's goes, or fails; then it moves the reader
\* by what was in the buffer at most.
LEMMA SeekRefines ==
  ASSUME ShortSeeks, ReadSeekerInv, NEW offset \in Offsets, NEW whence \in Whences,
         SeekInBuffer(offset, whence) \/ SeekSource(offset, whence)
  PROVE  Plain!Seek(offset, whence)
<1> USE DEF ReadSeekerInv, TypeOK, BufferCoherent, SeekResult, Ints
<1>0. offset \in Int /\ -MaxInt - 1 <= offset
  OBVIOUS
<1>1. CASE SeekInBuffer(offset, whence)
  <2>1. off' = off + offset /\ offset >= 0 /\ off' <= end /\ whence = "current"
        /\ UNCHANGED <<end, pos>>
    BY <1>1, SeekArithmetic DEF SeekInBuffer, StaysInBuffer
  <2>2. At' = At + offset /\ At \in Int /\ offset <= Size
    BY <1>0, <2>1 DEF At
  <2>3. CASE out' = SeekResult(offset, whence, 0, "fail")
    BY <1>0, <2>1, <2>2, <2>3 DEF Plain!Seek, Plain!SeekResult, At
  <2>4. CASE out' = SeekResult(offset, whence, Wrap(pos - Wrap(end - off')), "nil")
    <3>1. Wrap(pos - Wrap(end - off')) = At'
      BY <1>0, <2>1 DEF Wrap, At
    <3>2. Plain!Target(offset, whence) = At'
      BY <2>1, <2>2 DEF Plain!Target, At
    <3>3. At' \in 0 .. MaxInt
      BY <1>0, <2>1 DEF At
    <3> QED
      BY <2>4, <3>1, <3>2, <3>3 DEF Plain!Seek, Plain!SeekResult, At
  <2> QED
    BY <1>1, <2>3, <2>4 DEF SeekInBuffer
<1>2. CASE SeekSource(offset, whence)
  <2> DEFINE delegated ==
        IF whence = "current" THEN Wrap(offset - Wrap(end - off)) ELSE offset
  <2>1. At' = pos'
    <3>1. pos' \in Int
      BY <1>2 DEF SeekSource, SourceSeeks
    <3>2. off' = 0 /\ end' = 0
      BY <1>2 DEF SeekSource
    <3>3. At' = pos' - (0 - 0)
      BY <3>2 DEF At
    <3>4. \A p \in Int : p - (0 - 0) = p
      OBVIOUS
    <3> QED
      BY <3>1, <3>3, <3>4
  <2>2. CASE out' = SeekResult(offset, whence, 0, "fail") /\ UNCHANGED pos
    <3>1. pos \in At .. At + Size /\ At \in Int
      BY DEF At
    <3> QED
      BY <2>1, <2>2, <3>1 DEF Plain!Seek, Plain!SeekResult, At
  <2>3. CASE \E p \in SourceSeeks(delegated, whence) : pos' = p /\ out' = SeekResult(offset, whence, p, "nil")
    <3>1. pos' \in SourceSeeks(delegated, whence) /\ out' = SeekResult(offset, whence, pos', "nil")
      BY <2>3
    <3>2. pos' \in 0 .. MaxInt
      BY <3>1 DEF SourceSeeks
    <3>3. pos' = Plain!Target(offset, whence)
      <4>1. CASE whence = "start"
        BY <1>0, <3>1, <4>1 DEF SourceSeeks, Plain!Target
      <4>2. CASE whence = "end"
        BY <1>0, <3>1, <4>2 DEF SourceSeeks, Plain!Target
      <4>3. CASE whence = "current"
        <5>1. delegated = Wrap(offset - (end - off))
          BY <4>3, SeekArithmetic
        <5>2. pos' = pos + delegated
          BY <3>1, <4>3 DEF SourceSeeks
        <5>3. pos' = pos + (offset - (end - off))
          BY <1>0, <3>2, <5>1, <5>2, SeekArithmetic
        <5> QED
          BY <1>0, <4>3, <5>3 DEF Plain!Target
      <4> QED
        BY <4>1, <4>2, <4>3 DEF Whences
    <3> QED
      BY <2>1, <3>1, <3>2, <3>3 DEF Plain!Seek, Plain!SeekResult, At
  <2> QED
    BY <1>2, <2>2, <2>3 DEF SeekSource
<1> QED
  BY <1>1, <1>2

LEMMA PlainInit == Init => Plain!Init
  BY DEF Init, Plain!Init, CloseResult, Plain!CloseResult

LEMMA PlainStep == ShortSeeks /\ ReadSeekerInv /\ [Next]_vars => [Plain!Next]_(Plain!vars)
<1> SUFFICES ASSUME ShortSeeks, ReadSeekerInv, [Next]_vars
             PROVE  [Plain!Next]_(Plain!vars)
  OBVIOUS
<1>1. CASE UNCHANGED vars
  BY <1>1 DEF vars, Plain!vars
<1>2. CASE ReadNothing
  BY <1>2 DEF ReadNothing, ReadResult, Plain!Next, Plain!Read, Plain!ReadResult,
     ReadSeekerInv, TypeOK, Ints
<1>3. CASE Close
  BY <1>3 DEF Close, CloseResult, Plain!Next, Plain!Close, Plain!CloseResult
<1>4. ASSUME NEW len \in DestSizes, ReadBuffered(len) \/ ReadDirectly(len) \/ Refill(len)
      PROVE  Plain!Next
  BY <1>4, ReadRefines DEF Plain!Next
<1>5. ASSUME NEW offset \in Offsets, NEW whence \in Whences,
             SeekInBuffer(offset, whence) \/ SeekSource(offset, whence)
      PROVE  Plain!Next
  BY <1>5, SeekRefines DEF Plain!Next, Plain!Whences, Whences
<1> QED
  BY <1>1, <1>2, <1>3, <1>4, <1>5 DEF Next

\* PlainSpec: a program cannot tell the buffered reader from the plain one, as
\* long as no Seek is so long that the sum overflows.
THEOREM ReadSeekerImplementsPlainReader == ASSUME ShortSeeks PROVE Spec => PlainSpec
<1>1. ReadSeekerInv /\ [Next]_vars => [Plain!Next]_(Plain!vars)
  BY ShortSeeks, PlainStep
<1> QED
  BY <1>1, PlainInit, InvariantHolds, PTL DEF Spec, PlainSpec, Plain!Spec

=============================================================================
