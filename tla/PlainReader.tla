----------------------------- MODULE PlainReader -----------------------------
(***************************************************************************)
(* What ReadSeeker promises: to behave like the reader it wraps.  There is *)
(* one position; a Read gives the bytes from there on, a Seek moves it.    *)
(* Bytes are named by their place in the source.                           *)
(***************************************************************************)
EXTENDS Integers

CONSTANTS Length,    \* of the source
          MaxInt,    \* the largest int
          DestSizes, \* len(dest) of the Reads
          Offsets,   \* offset of the Seeks
          Slack      \* how far a Seek that fails may move the position

VARIABLES at,  \* where the next Read begins
          out  \* the last call and what it returned

vars == <<at, out>>

Whences == {"start", "current", "end"}

\* What was called and what it returned: n bytes from place from (none have no
\* place), or a position, and an error.
ReadResult(len, n, from, e) ==
  [op |-> "read", len |-> len, n |-> n, from |-> IF n = 0 THEN 0 ELSE from, err |-> e]
SeekResult(offset, whence, n, e) ==
  [op |-> "seek", offset |-> offset, whence |-> whence, n |-> n, err |-> e]
CloseResult(e) == [op |-> "close", err |-> e]

Init == at = 0 /\ out = CloseResult("nil")

\* At least one byte or an error, unless nothing was asked for.
Read(len) ==
  \E n \in 0 .. len, e \in {"nil", "EOF", "fail"} :
    /\ n > 0 => at + n <= Length
    /\ n = 0 /\ len > 0 => e # "nil"
    /\ e = "EOF" => at + n >= Length
    /\ at' = at + n
    /\ out' = ReadResult(len, n, at, e)

Target(offset, whence) ==
  offset + CASE whence = "start" -> 0 [] whence = "current" -> at [] whence = "end" -> Length

Seek(offset, whence) ==
  \/ /\ Target(offset, whence) \in 0 .. MaxInt
     /\ at' = Target(offset, whence)
     /\ out' = SeekResult(offset, whence, at', "nil")
  \/ /\ at' \in at .. at + Slack
     /\ out' = SeekResult(offset, whence, 0, "fail")

Close == \E e \in {"nil", "fail"} : out' = CloseResult(e) /\ UNCHANGED at

Next ==
  \/ \E len \in DestSizes : Read(len)
  \/ \E offset \in Offsets, whence \in Whences : Seek(offset, whence)
  \/ Close

Spec == Init /\ [][Next]_vars

=============================================================================
