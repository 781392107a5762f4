----------------------------- MODULE ReadWriter -----------------------------
(***************************************************************************)
(* filesystem/reader.go and readwriter.go: a bufio.Reader and, in a        *)
(* ReadWriter, a bufio.Writer, both on one source.  A file has a single    *)
(* position, which reads move ahead of the program by what is buffered and *)
(* writes move behind it.                                                  *)
(*                                                                         *)
(* Bytes of the source are named by their place, bytes the program writes  *)
(* by their number.                                                        *)
(***************************************************************************)
EXTENDS Naturals, Sequences

CONSTANTS Size,      \* of both buffers
          Length,    \* of the source, at first
          Requests,  \* len(p) of the calls
          MaxBytes   \* bound on what the program writes

ASSUME ReadWriterAssumption ==
  Size \in Nat \ {0} /\ Length \in Nat /\ Requests \subseteq Nat \ {0} /\ MaxBytes \in Nat

VARIABLES kind,      \* "Reader" or "ReadWriter"
          closable,  \* src implements io.Closer
          pos,       \* the position of the source
          from, to,  \* places from .. to - 1 are in the read buffer
          returned,  \* the places Read has returned
          accepted,  \* the number of bytes of Writes that returned nil
          wbuf,      \* the write buffer
          written,   \* the bytes the source has got, in this order
          own,       \* the places they have gone to
          failed,    \* bufio.Writer.err: no write goes through any more
          closed,    \* the source is closed
          told       \* what Close has just returned

readVars == <<from, to, returned>>
writeVars == <<accepted, wbuf, written, own, failed>>
readWriterVars == <<kind, closable, pos, readVars, writeVars, closed, told>>

ReadWriterTypeOK ==
  /\ kind \in {"Reader", "ReadWriter"} /\ closable \in BOOLEAN
  /\ pos \in Nat /\ from \in Nat /\ to \in Nat
  /\ returned \in SUBSET Nat /\ own \in SUBSET Nat
  /\ accepted \in Nat /\ wbuf \in Seq(Nat) /\ written \in Seq(Nat)
  /\ failed \in BOOLEAN /\ closed \in BOOLEAN
  /\ told \in {"none", "nil", "error"}

ReadWriterInit ==
  /\ kind \in {"Reader", "ReadWriter"} /\ closable \in BOOLEAN
  /\ pos = 0 /\ from = 0 /\ to = 0 /\ returned = {}
  /\ accepted = 0 /\ wbuf = <<>> /\ written = <<>> /\ own = {}
  /\ failed = FALSE /\ closed = FALSE /\ told = "none"

-----------------------------------------------------------------------------
\* The source returns up to n bytes, of those that are left: the rest of the file is
\* as it was, because writes never go beyond the position.
SourceReads(n, m) ==
  /\ m \in 1 .. n /\ pos + m <= Length /\ ~closed
  /\ pos' = pos + m

\* The program gets places a .. a + m - 1.
Returns(a, m) == returned' = returned \cup a .. a + m - 1

ReadBuffered(n) ==
  LET m == IF n < to - from THEN n ELSE to - from
  IN  /\ from < to
      /\ Returns(from, m)
      /\ from' = from + m
      /\ UNCHANGED <<pos, to>>

ReadDirectly(n) ==
  /\ from = to /\ n >= Size
  /\ \E m \in 1 .. n : SourceReads(n, m) /\ Returns(pos, m)
  /\ UNCHANGED <<from, to>>

FillAndRead(n) ==
  /\ from = to /\ n < Size
  /\ \E m \in 1 .. Size :
       LET k == IF n < m THEN n ELSE m
       IN  /\ SourceReads(Size, m)
           /\ Returns(pos, k)
           /\ from' = pos + k /\ to' = pos + m

\* Mutant: a long Read goes to the source, whatever is in the buffer.
ReadLongFromSource(n) ==
  /\ \/ n >= Size /\ (\E m \in 1 .. n : SourceReads(n, m) /\ Returns(pos, m)) /\ UNCHANGED <<from, to>>
     \/ n < Size /\ (ReadBuffered(n) \/ FillAndRead(n))
  /\ told' = "none"
  /\ UNCHANGED <<kind, closable, writeVars, closed>>

\* Read: rw.r.Read(p).  A Read at the end or with an error returns nothing.
Read(n) ==
  /\ ReadBuffered(n) \/ ReadDirectly(n) \/ FillAndRead(n)
  /\ told' = "none"
  /\ UNCHANGED <<kind, closable, writeVars, closed>>

-----------------------------------------------------------------------------
\* The source takes the first g of bytes, all of them if there is no error.
SourceWrites(bytes, g) ==
  /\ g \in 0 .. Len(bytes)
  /\ closed => g = 0
  /\ written' = written \o SubSeq(bytes, 1, g)
  /\ own' = own \cup pos .. pos + g - 1
  /\ pos' = pos + g

\* bufio hands on how many of the buffered and the new bytes: none if they fit, all
\* if the new ones are more than fit in an empty buffer, or a full buffer.
HandedOn(n) ==
  LET total == Len(wbuf) + n
  IN  CASE total <= Size -> 0
        [] total > Size /\ (wbuf = <<>> \/ total > 2 * Size) -> total
        [] OTHER -> Size

New(n) == [i \in 1 .. n |-> accepted + i]

\* bufio.Writer.Write, while it has met no error.
BufferedWrite(n) ==
  LET all == wbuf \o New(n)
      bytes == SubSeq(all, 1, HandedOn(n))
  IN  \/ /\ SourceWrites(bytes, Len(bytes))
         /\ accepted' = accepted + n
         /\ wbuf' = SubSeq(all, Len(bytes) + 1, Len(all))
         /\ UNCHANGED failed
      \/ /\ bytes # <<>>
         /\ \E g \in 0 .. Len(bytes) : SourceWrites(bytes, g)
         /\ failed' = TRUE
         /\ UNCHANGED <<accepted, wbuf>>

\* Mutant: Write passes the buffer by if p is longer, whatever is in it.
WriteLongToSource(n) ==
  /\ kind = "ReadWriter" /\ ~failed
  /\ accepted + n <= MaxBytes
  /\ \/ n <= Size /\ BufferedWrite(n)
     \/ /\ n > Size /\ SourceWrites(New(n), n)
        /\ accepted' = accepted + n
        /\ UNCHANGED <<wbuf, failed>>
  /\ told' = "none"
  /\ UNCHANGED <<kind, closable, readVars, closed>>

\* Write: rw.w.Write(p).
Write(n) ==
  /\ kind = "ReadWriter" /\ ~failed
  /\ accepted + n <= MaxBytes
  /\ BufferedWrite(n)
  /\ told' = "none"
  /\ UNCHANGED <<kind, closable, readVars, closed>>

\* Flush, which a Reader has not got: nothing if it has failed before.
Flush(err) ==
  \/ /\ ~failed /\ SourceWrites(wbuf, Len(wbuf))
     /\ wbuf' = <<>> /\ ~err /\ UNCHANGED failed
  \/ /\ ~failed /\ wbuf # <<>> /\ \E g \in 0 .. Len(wbuf) : SourceWrites(wbuf, g)
     /\ failed' = TRUE /\ err /\ UNCHANGED wbuf
  \/ failed /\ err /\ UNCHANGED <<pos, wbuf, written, own, failed>>

\* Mutant: Close returns what the source's Close returns.
JoinCloseOnly(flushErr, closeErr) == closeErr

\* errors.Join(flushErr, closer.Close()).
Join(flushErr, closeErr) == flushErr \/ closeErr

\* Close, of a source that is not closed twice without an error.
Close ==
  /\ \E flushErr, closeErr \in BOOLEAN :
       /\ Flush(flushErr)
       /\ closeErr => closable
       /\ closable /\ closed => closeErr
       /\ told' = IF Join(flushErr, closeErr) THEN "error" ELSE "nil"
  /\ closed' = (closed \/ closable)
  /\ UNCHANGED <<kind, closable, readVars, accepted>>

ReadWriterNext == (\E n \in Requests : Read(n) \/ Write(n)) \/ Close

ReadWriterSpec == ReadWriterInit /\ [][ReadWriterNext]_readWriterVars

-----------------------------------------------------------------------------
\* What the program writes reaches the source in order and once, whatever is flushed
\* when, and nothing that comes after a failed write does.
StreamInOrder == \A i \in 1 .. Len(written) : written[i] = i

\* A Close that returns nil says that every byte of every Write is in the source: an
\* error of the flush is not hidden by the Close that succeeds after it.
CloseNilMeansWritten == told = "nil" => Len(written) = accepted

\* Reads and writes share one position, and still no place is read twice, written
\* twice, or read and written: the places before the position are those returned, then
\* those buffered, with those written between them.
OnePosition ==
  /\ returned \cup own \cup from .. to - 1 = 0 .. pos - 1
  /\ returned \cap own = {} /\ from .. to - 1 \cap own = {}
  /\ \A p \in returned, q \in from .. to - 1 : p < q

=============================================================================
