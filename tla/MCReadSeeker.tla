---------------------------- MODULE MCReadSeeker ----------------------------
(***************************************************************************)
(* Small instances of ReadSeeker for TLC.                                  *)
(***************************************************************************)
EXTENDS ReadSeeker

\* Requests below, at and above the size of the buffer.
SomeSizes == 0 .. Size + 1

\* Every seek within, to the edges of and beyond a source that is not near MaxInt.
ShortOffsets == -Length - 1 .. Length + 1

\* And the longest seek there is.
AnyOffsets == ShortOffsets \cup {MaxInt}

=============================================================================
