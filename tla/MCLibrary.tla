----------------------------- MODULE MCLibrary -----------------------------
(***************************************************************************)
(* Small instances of App with HttpTransport, of DotProduct, and of the    *)
(* functions of Formatters and LibraryCalls, for TLC, in one run.  A       *)
(* behaviour is about one of these: part says which, and the variables of  *)
(* the others keep what they have at first.                                *)
(***************************************************************************)
EXTENDS App, DotProduct, Formatters, LibraryCalls

CONSTANTS n1, n2, t1, t2, k1, k2, r1, g1, g2

VARIABLE part

vars == <<appVars, dotVars, part, call>>

Init ==
  /\ AppInit /\ DotInit /\ CallsInit
  /\ \/ part = "app" /\ arch = "amd64" /\ count = 0
     \/ part = "dot" /\ default = "plain"
     \/ part = "call" /\ default = "plain" /\ arch = "amd64" /\ count = 0

-----------------------------------------------------------------------------
\* Any two of the same kind may be exchanged.
Alike == Permutations(Names) \cup Permutations(Clones) \cup Permutations(Tokens)
           \cup Permutations(Goroutines)

Levels == {Trace, Debug, Warn, 9}

Lengths40 == 0 .. 40

Keys == <<"a", "b", "spectrogram_path", "spectrogram_rel_path">>

Maps(keys, values) == {Map(f) : f \in UNION {[K -> values] : K \in SUBSET keys}}

SlicesUpTo(n, values) == {Slice(s) : s \in UNION {[1 .. k -> values] : k \in 0 .. n}}

Scalars == {Scalar(is) : is \in {"text", "empty", "number"}}

Flat ==
  Scalars \cup SlicesUpTo(1, Scalars)
    \cup Maps({"a", "spectrogram_path", "spectrogram_rel_path"}, Scalars)

Small == {v \in Flat : v.kind # "map" \/ Cardinality(DOMAIN v.fields) < 2}

\* Maps and slices of two, in all combinations.
Values == Flat \cup Maps({"a", "b"}, Small) \cup SlicesUpTo(2, Small)

RECURSIVE Deep(_, _)
\* A value in n maps and slices.
Deep(n, v) ==
  IF n = 0 THEN v
  ELSE IF n % 2 = 1 THEN Map([k \in {"a"} |-> Deep(n - 1, v)])
  ELSE Slice(<<Scalar("text"), Deep(n - 1, v)>>)

Datum(v) == [object |-> "o", meta |-> [k \in {"b"} |-> v]]

\* One Data, or two; the second one with headings of every level.
DataOf(v) == {<<Datum(v)>>, <<Datum(v), Datum(Deep(5, v))>>}

CallPrintAll ==
  \E v \in Values, format \in {"Console", "Markdown"} : \E data \in DataOf(v) :
    call' = [fn |-> format, data |-> data,
             out |-> IF format = "Console" THEN Console(data) ELSE Markdown(data)]

Lengths128 == {0, 39, 40, 41, 63, 64, 65, 96, 127, 128, 129}

Parts == {Text(alg) : alg \in Algorithm \cup {"md5"}} \cup {Chars(n, hex) : n \in Lengths128, hex \in BOOLEAN}

SmallDigests ==
  {dgst \in UNION {[1 .. k -> Parts] : k \in 1 .. 3} : Len(dgst) = 3 => dgst[3] = Chars(0, TRUE)}

\* With each kind of volume.
Beginnings ==
  {<<>>, <<"a", ":">>, <<"con">>, <<"NUL">>, <<"\\", "\\">>, <<"\\", "\\", "a", "\\">>,
   <<"\\", "/", "?", "\\">>, <<"\\", "?", "?", "/">>, <<"\\", "\\", ".", "\\", "UNC", "\\">>}

SmallPaths ==
  {first \o path : first \in Beginnings,
                   path \in UNION {[1 .. k -> {"a", ".", " ", "/", "\\"}] : k \in 0 .. 5}}

OneHome == {<<"home">>}

\* The usual directory of v if there is one, for temporary files the one on Windows.
UsualOne(v) ==
  IF Usual(v, <<"home">>) = {} THEN Unset ELSE CHOOSE dir \in Usual(v, <<"home">>) : Len(dir) > 1

\* Each variable unset, as usual, or a directory of its own.
SmallEnvironments ==
  {[v \in Variables |-> CASE set[v] = "no" -> Unset [] set[v] = "own" -> <<v>>
                           [] set[v] = "usual" -> UsualOne(v)] :
     set \in [Variables -> {"no", "own", "usual"}]}

Apps == {"quark", "cache"}

Next ==
  \/ part = "app" /\ AppNext /\ UNCHANGED <<dotVars, part, call>>
  \/ part = "dot" /\ DotNext /\ UNCHANGED <<appVars, part, call>>
  \/ /\ part = "call" /\ call = Idling
     /\ CallPrintAll \/ CallFromString \/ CallValidate \/ CallDirs
     /\ UNCHANGED <<appVars, dotVars, part>>

Spec == Init /\ [][Next]_vars

-----------------------------------------------------------------------------
\* Console's output shows which value belongs to which keys, for maps and slices of
\* every shape: its indentation alone is enough to read all the data back.
ConsoleReadsBack ==
  call.fn = "Console" => \A i \in DOMAIN call.data : ReadsBack(call.data[i])

\* Every row of Markdown's tables stands where its headings say which value it is, once,
\* however maps and slices are nested: no section comes between a heading and its table.
MarkdownTablesReadBack ==
  call.fn = "Markdown" => \A i \in DOMAIN call.data : TablesReadBack(call.data[i])

\* No heading of Markdown skips a level, however deep the data are.
HeadingsNested == call.fn = "Markdown" => Nests(call.out)

=============================================================================
