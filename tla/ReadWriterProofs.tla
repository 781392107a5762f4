-------------------------- MODULE ReadWriterProofs --------------------------
(***************************************************************************)
(* What holds of ReadWriter for every size of the buffers and of the       *)
(* source, and for reads and writes of any length.                         *)
(***************************************************************************)
EXTENDS ReadWriter, SequenceTheorems, TLAPS

USE ReadWriterAssumption

\* The read buffer ends at or before the source's position.
PositionInv ==
  /\ pos \in Nat /\ from \in Nat /\ to \in Nat
  /\ from <= to /\ to <= pos
  /\ returned \in SUBSET Nat /\ own \in SUBSET Nat
  /\ OnePosition

\* Until a write fails, the bytes of all Writes are in the source, then in the buffer.
StreamInv ==
  /\ accepted \in Nat /\ wbuf \in Seq(Nat) /\ written \in Seq(Nat)
  /\ StreamInOrder
  /\ ~failed => /\ Len(written) + Len(wbuf) = accepted
                /\ \A i \in 1 .. Len(wbuf) : wbuf[i] = Len(written) + i
  /\ told \in {"none", "nil", "error"}
  /\ CloseNilMeansWritten

LEMMA InvInit == ReadWriterInit => PositionInv /\ StreamInv
<1> SUFFICES ASSUME ReadWriterInit PROVE PositionInv /\ StreamInv
  OBVIOUS
<1> USE DEF ReadWriterInit
<1>1. PositionInv
  BY DEF PositionInv, OnePosition
<1>2. StreamInv
  BY DEF StreamInv, StreamInOrder, CloseNilMeansWritten
<1> QED
  BY <1>1, <1>2

-----------------------------------------------------------------------------
\* Every way of reading moves the position over places nobody has had yet.
LEMMA ReadPositions ==
  ASSUME PositionInv, NEW n \in Requests, Read(n)
  PROVE  PositionInv'
<1> USE DEF PositionInv, OnePosition
<1>1. UNCHANGED own /\ n \in Nat \ {0}
  BY DEF Read, writeVars
<1>2. CASE ReadBuffered(n)
  <2> DEFINE m == IF n < to - from THEN n ELSE to - from
  <2>1. m \in Nat /\ from + m <= to
    BY <1>1, <1>2 DEF ReadBuffered
  <2>2. from' = from + m /\ to' = to /\ pos' = pos /\ returned' = returned \cup from .. from + m - 1
    BY <1>2 DEF ReadBuffered, Returns
  <2> QED
    BY <1>1, <2>1, <2>2
<1>3. CASE ReadDirectly(n)
  <2>1. PICK m \in 1 .. n : SourceReads(n, m) /\ Returns(pos, m)
    BY <1>3 DEF ReadDirectly
  <2>2. /\ pos' = pos + m /\ returned' = returned \cup pos .. pos + m - 1
        /\ from = to /\ UNCHANGED <<from, to>>
    BY <1>3, <2>1 DEF ReadDirectly, SourceReads, Returns
  <2> QED
    BY <1>1, <2>2
<1>4. CASE FillAndRead(n)
  <2>1. PICK m \in 1 .. Size :
          LET k == IF n < m THEN n ELSE m
          IN  SourceReads(Size, m) /\ Returns(pos, k) /\ from' = pos + k /\ to' = pos + m
    BY <1>4 DEF FillAndRead
  <2>2. PICK k \in 1 .. m :
          /\ pos' = pos + m /\ returned' = returned \cup pos .. pos + k - 1
          /\ from' = pos + k /\ to' = pos + m
    BY <1>1, <2>1 DEF SourceReads, Returns
  <2>3. from = to
    BY <1>4 DEF FillAndRead
  <2> QED
    BY <1>1, <2>2, <2>3
<1> QED
  BY <1>2, <1>3, <1>4 DEF Read

\* A write moves the position on from where reads have left it.
LEMMA WritePositions ==
  ASSUME PositionInv, NEW g \in Nat,
         pos' = pos + g, own' = own \cup pos .. pos + g - 1, UNCHANGED readVars
  PROVE  PositionInv'
  BY DEF PositionInv, OnePosition, readVars

-----------------------------------------------------------------------------
\* The source goes on with the first g of some bytes that follow what it has.
LEMMA Continues ==
  ASSUME NEW w \in Seq(Nat), NEW bytes \in Seq(Nat), NEW g \in 0 .. Len(bytes),
         \A i \in 1 .. Len(w) : w[i] = i,
         \A i \in 1 .. Len(bytes) : bytes[i] = Len(w) + i
  PROVE  LET v == w \o SubSeq(bytes, 1, g)
         IN  /\ v \in Seq(Nat) /\ Len(v) = Len(w) + g
             /\ \A i \in 1 .. Len(v) : v[i] = i
<1> DEFINE s == SubSeq(bytes, 1, g)
<1>1. \A i \in 1 .. g : bytes[i] \in Nat
  BY ElementOfSeq
<1>2. s \in Seq(Nat) /\ Len(s) = g /\ \A i \in 1 .. g : s[i] = bytes[i]
  BY <1>1, SubSeqProperties
<1>3. Len(w) \in Nat /\ Len(bytes) \in Nat
  BY LenProperties
<1> HIDE DEF s
<1>4. /\ w \o s \in Seq(Nat) /\ Len(w \o s) = Len(w) + Len(s)
      /\ \A i \in 1 .. Len(w) + Len(s) :
           (w \o s)[i] = IF i <= Len(w) THEN w[i] ELSE s[i - Len(w)]
  BY <1>2, ConcatProperties
<1>5. ASSUME NEW i \in 1 .. Len(w) + g PROVE (w \o s)[i] = i
  <2>1. CASE i <= Len(w)
    BY <1>2, <1>3, <1>4, <2>1
  <2>2. CASE i > Len(w)
    <3>1. i - Len(w) \in 1 .. g /\ i - Len(w) \in 1 .. Len(bytes)
      BY <1>3, <2>2
    <3>2. s[i - Len(w)] = Len(w) + (i - Len(w))
      BY <1>2, <3>1
    <3> QED
      BY <1>2, <1>3, <1>4, <2>2, <3>2
  <2>3. i \in Int /\ Len(w) \in Int
    BY <1>3
  <2>4. i <= Len(w) \/ i > Len(w)
    BY <2>3
  <2> QED
    BY <2>1, <2>2, <2>4
<1> QED
  BY <1>2, <1>4, <1>5 DEF s

\* Both ends of a sequence that follows what the source has.
Numbered(s, c) == \A i \in 1 .. Len(s) : s[i] = c + i

InTwo(all, h, c) ==
  /\ SubSeq(all, 1, h) \in Seq(Nat) /\ Len(SubSeq(all, 1, h)) = h
  /\ \A i \in 1 .. h : SubSeq(all, 1, h)[i] = c + i
  /\ SubSeq(all, h + 1, Len(all)) \in Seq(Nat)
  /\ Len(SubSeq(all, h + 1, Len(all))) = Len(all) - h
  /\ \A i \in 1 .. Len(all) - h : SubSeq(all, h + 1, Len(all))[i] = c + h + i

LEMMA Pieces ==
  ASSUME NEW all \in Seq(Nat), NEW h \in 0 .. Len(all), NEW c \in Nat, Numbered(all, c)
  PROVE  InTwo(all, h, c)
<1>1. Len(all) \in Nat
  BY LenProperties
<1>2. \A i \in 1 .. Len(all) : all[i] \in Nat
  BY ElementOfSeq
<1>3. /\ SubSeq(all, 1, h) \in Seq(Nat) /\ Len(SubSeq(all, 1, h)) = h
      /\ \A i \in 1 .. h : SubSeq(all, 1, h)[i] = all[i]
  BY <1>1, <1>2, SubSeqProperties
<1>4. /\ SubSeq(all, h + 1, Len(all)) \in Seq(Nat)
      /\ Len(SubSeq(all, h + 1, Len(all))) = Len(all) - h
      /\ \A i \in 1 .. Len(all) - h : SubSeq(all, h + 1, Len(all))[i] = all[h + i]
  <2>1. \A i \in h + 1 .. Len(all) : all[i] \in Nat
    BY <1>1, <1>2
  <2>2. /\ SubSeq(all, h + 1, Len(all)) \in Seq(Nat)
        /\ Len(SubSeq(all, h + 1, Len(all))) = IF h + 1 <= Len(all) THEN Len(all) - (h + 1) + 1 ELSE 0
        /\ \A i \in 1 .. Len(all) - (h + 1) + 1 : SubSeq(all, h + 1, Len(all))[i] = all[h + 1 + i - 1]
    BY <1>1, <2>1, SubSeqProperties
  <2> QED
    BY <1>1, <2>2
<1> QED
  BY <1>1, <1>3, <1>4 DEF Numbered, InTwo

\* What bufio may hand on: the buffered bytes and the new ones follow each other.
LEMMA AllFollows ==
  ASSUME StreamInv, ~failed, NEW n \in Nat
  PROVE  /\ wbuf \o New(n) \in Seq(Nat)
         /\ Len(wbuf \o New(n)) = Len(wbuf) + n
         /\ Len(wbuf) \in Nat /\ Len(written) \in Nat
         /\ \A i \in 1 .. Len(wbuf \o New(n)) : (wbuf \o New(n))[i] = Len(written) + i
         /\ HandedOn(n) \in 0 .. Len(wbuf) + n
<1> USE DEF StreamInv
<1>1. New(n) \in Seq(Nat) /\ Len(New(n)) = n /\ \A i \in 1 .. n : New(n)[i] = accepted + i
  BY DEF New
<1>2. Len(wbuf) \in Nat /\ Len(written) \in Nat
  BY LenProperties
<1>3. /\ wbuf \o New(n) \in Seq(Nat) /\ Len(wbuf \o New(n)) = Len(wbuf) + n
      /\ \A i \in 1 .. Len(wbuf) + n :
           (wbuf \o New(n))[i] = IF i <= Len(wbuf) THEN wbuf[i] ELSE New(n)[i - Len(wbuf)]
  <2> DEFINE s == New(n)
  <2>1. s \in Seq(Nat) /\ Len(s) = n
    BY <1>1
  <2> HIDE DEF s
  <2>2. /\ wbuf \o s \in Seq(Nat) /\ Len(wbuf \o s) = Len(wbuf) + Len(s)
        /\ \A i \in 1 .. Len(wbuf) + Len(s) :
             (wbuf \o s)[i] = IF i <= Len(wbuf) THEN wbuf[i] ELSE s[i - Len(wbuf)]
    BY <2>1, ConcatProperties
  <2> QED
    BY <2>1, <2>2 DEF s
<1>4. ASSUME NEW i \in 1 .. Len(wbuf) + n PROVE (wbuf \o New(n))[i] = Len(written) + i
  <2>1. CASE i <= Len(wbuf)
    BY <1>2, <1>3, <2>1
  <2>2. CASE i > Len(wbuf)
    <3>1. i - Len(wbuf) \in 1 .. n
      BY <1>2, <2>2
    <3>2. New(n)[i - Len(wbuf)] = accepted + (i - Len(wbuf))
      BY <1>1, <3>1
    <3>3. ~(i <= Len(wbuf)) /\ (wbuf \o New(n))[i] = New(n)[i - Len(wbuf)]
      BY <1>2, <1>3, <2>2
    <3>4. accepted = Len(written) + Len(wbuf)
      OBVIOUS
    <3> QED
      BY <1>2, <3>2, <3>3, <3>4
  <2>3. i \in Int /\ Len(wbuf) \in Int
    BY <1>2
  <2>4. i <= Len(wbuf) \/ i > Len(wbuf)
    BY <2>3
  <2> QED
    BY <2>1, <2>2, <2>4
<1>5. HandedOn(n) \in 0 .. Len(wbuf) + n
  BY <1>2 DEF HandedOn
<1> QED
  BY <1>2, <1>3, <1>4, <1>5

-----------------------------------------------------------------------------
LEMMA WriteStep ==
  ASSUME PositionInv, StreamInv, NEW n \in Requests, Write(n)
  PROVE  PositionInv' /\ StreamInv'
<1> DEFINE all == wbuf \o New(n)
           bytes == SubSeq(all, 1, HandedOn(n))
<1>1. n \in Nat /\ ~failed /\ UNCHANGED readVars /\ told' = "none"
  BY DEF Write
<1>2. /\ all \in Seq(Nat) /\ Len(all) = Len(wbuf) + n
      /\ Len(wbuf) \in Nat /\ Len(written) \in Nat
      /\ \A i \in 1 .. Len(all) : all[i] = Len(written) + i
      /\ HandedOn(n) \in 0 .. Len(all)
  BY <1>1, AllFollows
<1> HIDE DEF all
<1>3. /\ bytes \in Seq(Nat) /\ Len(bytes) = HandedOn(n)
      /\ \A i \in 1 .. Len(bytes) : bytes[i] = Len(written) + i
      /\ SubSeq(all, HandedOn(n) + 1, Len(all)) \in Seq(Nat)
      /\ Len(SubSeq(all, HandedOn(n) + 1, Len(all))) = Len(all) - HandedOn(n)
      /\ \A i \in 1 .. Len(all) - HandedOn(n) :
           SubSeq(all, HandedOn(n) + 1, Len(all))[i] = Len(written) + HandedOn(n) + i
  <2> DEFINE h == HandedOn(n)
             c == Len(written)
  <2>1. all \in Seq(Nat) /\ h \in 0 .. Len(all) /\ c \in Nat
    BY <1>2
  <2>2. Numbered(all, c)
    BY <1>2 DEF Numbered
  <2> HIDE DEF h, c
  <2>3. InTwo(all, h, c)
    BY <2>1, <2>2, Pieces
  <2> QED
    BY <2>3 DEF h, c, InTwo
<1> HIDE DEF bytes
<1>4. ASSUME NEW g \in 0 .. Len(bytes), SourceWrites(bytes, g)
      PROVE  /\ PositionInv'
             /\ written' \in Seq(Nat) /\ Len(written') = Len(written) + g
             /\ \A i \in 1 .. Len(written') : written'[i] = i
  <2>1. g \in Nat
    BY <1>2, <1>3
  <2>2. PositionInv'
    BY <1>1, <1>4, <2>1, WritePositions DEF SourceWrites
  <2>3. written' = written \o SubSeq(bytes, 1, g)
    BY <1>4 DEF SourceWrites
  <2> QED
    BY <1>3, <2>2, <2>3, Continues DEF StreamInv, StreamInOrder
<1>5. CASE /\ SourceWrites(bytes, Len(bytes)) /\ accepted' = accepted + n
           /\ wbuf' = SubSeq(all, Len(bytes) + 1, Len(all)) /\ UNCHANGED failed
  <2>1. Len(bytes) \in 0 .. Len(bytes)
    BY <1>2, <1>3
  <2>2. /\ PositionInv' /\ written' \in Seq(Nat) /\ Len(written') = Len(written) + Len(bytes)
        /\ \A i \in 1 .. Len(written') : written'[i] = i
    BY <1>4, <1>5, <2>1
  <2>3. /\ wbuf' \in Seq(Nat) /\ Len(wbuf') = Len(all) - Len(bytes)
        /\ \A i \in 1 .. Len(wbuf') : wbuf'[i] = Len(written') + i
    BY <1>3, <1>5, <2>2
  <2>4. accepted' \in Nat /\ Len(written') + Len(wbuf') = accepted'
    <3>1. Len(written) + Len(wbuf) = accepted /\ accepted \in Nat
      BY <1>1 DEF StreamInv
    <3>2. Len(written') + Len(wbuf') = Len(written) + Len(wbuf) + n
      BY <1>1, <1>2, <1>3, <2>2, <2>3
    <3>3. accepted' = accepted + n
      BY <1>5
    <3> QED
      BY <1>1, <3>1, <3>2, <3>3
  <2> QED
    BY <1>1, <2>2, <2>3, <2>4 DEF StreamInv, StreamInOrder, CloseNilMeansWritten
<1>6. CASE /\ \E g \in 0 .. Len(bytes) : SourceWrites(bytes, g)
           /\ failed' = TRUE /\ UNCHANGED <<accepted, wbuf>>
  BY <1>1, <1>4, <1>6 DEF StreamInv, StreamInOrder, CloseNilMeansWritten
<1> QED
  BY <1>5, <1>6 DEF Write, BufferedWrite, all, bytes

\* Close says nil only if the flush has emptied the buffer.
LEMMA CloseStep ==
  ASSUME PositionInv, StreamInv, Close
  PROVE  PositionInv' /\ StreamInv'
<1>1. PICK flushErr, closeErr \in BOOLEAN :
        Flush(flushErr) /\ told' = IF Join(flushErr, closeErr) THEN "error" ELSE "nil"
  BY DEF Close
<1>2. UNCHANGED <<readVars, accepted>>
  BY DEF Close
<1>3. Len(wbuf) \in Nat /\ Len(written) \in Nat
  BY LenProperties DEF StreamInv
<1>4. ASSUME ~failed, NEW g \in 0 .. Len(wbuf), SourceWrites(wbuf, g)
      PROVE  /\ PositionInv'
             /\ written' \in Seq(Nat) /\ Len(written') = Len(written) + g
             /\ \A i \in 1 .. Len(written') : written'[i] = i
  <2>1. PositionInv'
    BY <1>2, <1>3, <1>4, WritePositions DEF SourceWrites
  <2>2. written' = written \o SubSeq(wbuf, 1, g)
    BY <1>4 DEF SourceWrites
  <2> QED
    BY <1>4, <2>1, <2>2, Continues DEF StreamInv, StreamInOrder
<1>5. CASE ~failed /\ SourceWrites(wbuf, Len(wbuf)) /\ wbuf' = <<>> /\ UNCHANGED failed
  <2>1. /\ PositionInv' /\ written' \in Seq(Nat) /\ Len(written') = Len(written) + Len(wbuf)
        /\ \A i \in 1 .. Len(written') : written'[i] = i
    BY <1>3, <1>4, <1>5
  <2>2. wbuf' \in Seq(Nat) /\ Len(wbuf') = 0
    BY <1>5
  <2> QED
    BY <1>1, <1>2, <1>3, <1>5, <2>1, <2>2 DEF StreamInv, StreamInOrder, CloseNilMeansWritten
<1>6. CASE /\ ~failed /\ \E g \in 0 .. Len(wbuf) : SourceWrites(wbuf, g)
           /\ failed' = TRUE /\ flushErr /\ UNCHANGED wbuf
  BY <1>1, <1>2, <1>4, <1>6 DEF StreamInv, StreamInOrder, CloseNilMeansWritten, Join
<1>7. CASE failed /\ flushErr /\ UNCHANGED <<pos, wbuf, written, own, failed>>
  <2>1. PositionInv'
    BY <1>2, <1>7 DEF PositionInv, OnePosition, readVars
  <2> QED
    BY <1>1, <1>2, <1>7, <2>1 DEF StreamInv, StreamInOrder, CloseNilMeansWritten, Join
<1> QED
  BY <1>1, <1>5, <1>6, <1>7 DEF Flush

LEMMA InvNext ==
  ASSUME PositionInv, StreamInv, [ReadWriterNext]_readWriterVars
  PROVE  PositionInv' /\ StreamInv'
<1>1. ASSUME NEW n \in Requests, Read(n)
      PROVE  StreamInv'
  BY <1>1 DEF Read, writeVars, StreamInv, StreamInOrder, CloseNilMeansWritten
<1>2. CASE UNCHANGED readWriterVars
  BY <1>2 DEF PositionInv, OnePosition, StreamInv, StreamInOrder, CloseNilMeansWritten,
              readWriterVars, readVars, writeVars
<1> QED
  BY <1>1, <1>2, ReadPositions, WriteStep, CloseStep DEF ReadWriterNext

THEOREM ReadWriterInvHolds == ReadWriterSpec => [](PositionInv /\ StreamInv)
  BY InvInit, InvNext, PTL DEF ReadWriterSpec

-----------------------------------------------------------------------------
\* No place of the source is read twice, or written over what was read, and none is
\* skipped, for reads and writes in any order (readwriter.go:51-60).
THEOREM OnePositionHolds == ReadWriterSpec => []OnePosition
<1>1. PositionInv => OnePosition
  BY DEF PositionInv
<1> QED
  BY <1>1, ReadWriterInvHolds, PTL

\* The source gets the bytes of the Writes in order and without gaps, up to the first
\* error (readwriter.go:58-60).
THEOREM StreamInOrderHolds == ReadWriterSpec => []StreamInOrder
<1>1. StreamInv => StreamInOrder
  BY DEF StreamInv
<1> QED
  BY <1>1, ReadWriterInvHolds, PTL

\* A Close that returns nil has written everything (readwriter.go:66-74).
THEOREM CloseNilMeansWrittenHolds == ReadWriterSpec => []CloseNilMeansWritten
<1>1. StreamInv => CloseNilMeansWritten
  BY DEF StreamInv
<1> QED
  BY <1>1, ReadWriterInvHolds, PTL

=============================================================================
