----------------------------- MODULE Formatters -----------------------------
(***************************************************************************)
(* format: what Console and Markdown print of a Data, piece by piece.  A   *)
(* piece is the output of one Fprintf: its depth (indentation or number of *)
(* "#"), its label and its value.                                          *)
(*                                                                         *)
(* A value is a scalar, a map or a slice, as in map[string]any.            *)
(***************************************************************************)
EXTENDS Naturals, Sequences, FiniteSets, SequencesExt

CONSTANTS KeyOrder,         \* all keys, as sort.Strings puts them
          MaxHeadingLevel   \* maxHeadingLevel

ASSUME FormattersAssumption == MaxHeadingLevel \in Nat /\ IsInjective(KeyOrder)

\* is is "text", "empty" (both strings) or "number".
Scalar(is) == [kind |-> "scalar", is |-> is]
Map(fields) == [kind |-> "map", fields |-> fields]
Slice(items) == [kind |-> "slice", items |-> items]

Nested(v) == v.kind \in {"map", "slice"}

Key(k) == [key |-> k]
Index(i) == [index |-> i]

\* Where a piece has no value.
Heading == [kind |-> "heading"]

Piece(depth, label, value) == <<[depth |-> depth, label |-> label, value |-> value]>>

SortedKeys(fields) == SelectSeq(KeyOrder, LAMBDA k : k \in DOMAIN fields)

\* Entry(k, value) for all entries, in this order.
InOrder(fields, Entry(_, _)) ==
  LET keys == SortedKeys(fields)
  IN  FlattenSeq([i \in DOMAIN keys |-> Entry(keys[i], fields[keys[i]])])

ForEach(items, Entry(_, _)) == FlattenSeq([i \in DOMAIN items |-> Entry(i, items[i])])

Title(data) == Piece(2, Key(data.object), Heading)

Rule == Piece(0, Key("rule"), Heading)

\* The entries of data, with a rule before each but the first.
PrintEach(data, PrintOne(_)) ==
  ForEach(data, LAMBDA i, d : (IF i > 1 THEN Rule ELSE <<>>) \o PrintOne(d))

-----------------------------------------------------------------------------
RECURSIVE ConsoleMap(_, _)

\* Mutant: the fields of an item are indented as the item is.
ConsoleSliceFlat(items, indent) ==
  ForEach(items, LAMBDA i, v :
    IF v.kind = "map" THEN Piece(indent, Index(i - 1), Heading) \o ConsoleMap(v.fields, indent)
    ELSE Piece(indent, Index(i - 1), v))

\* printSlice: a slice in a slice is printed as %v.
ConsoleSlice(items, indent) ==
  ForEach(items, LAMBDA i, v :
    IF v.kind = "map" THEN Piece(indent, Index(i - 1), Heading) \o ConsoleMap(v.fields, indent + 1)
    ELSE Piece(indent, Index(i - 1), v))

ConsoleMap(fields, indent) ==
  InOrder(fields, LAMBDA k, v :
    CASE v.kind = "map" -> Piece(indent, Key(k), Heading) \o ConsoleMap(v.fields, indent + 1)
      [] v.kind = "slice" -> Piece(indent, Key(k), Heading) \o ConsoleSlice(v.items, indent + 1)
      [] OTHER -> Piece(indent, Key(k), v))

Console(data) == PrintEach(data, LAMBDA d : Title(d) \o ConsoleMap(d.meta, 0))

-----------------------------------------------------------------------------
Capped(level) == IF level < MaxHeadingLevel THEN level ELSE MaxHeadingLevel

\* printTable.  A spectrogram_path is an image if it is a string, and both its fields
\* are then taken out of the table.
Table(scalars) ==
  LET path == "spectrogram_path"
      image == path \in DOMAIN scalars /\ scalars[path].is \in {"text", "empty"}
      rows == IF image THEN DOMAIN scalars \ {path, "spectrogram_rel_path"} ELSE DOMAIN scalars
  IN  InOrder([k \in rows |-> scalars[k]], LAMBDA k, v : Piece(0, Key(k), v))
        \o (IF image /\ scalars[path].is # "empty" THEN Piece(0, Key(path), scalars[path]) ELSE <<>>)

\* separateFields.
Part(fields, nested) ==
  [k \in {l \in DOMAIN fields : Nested(fields[l]) = nested} |-> fields[k]]

RECURSIVE MarkdownValue(_, _, _)

\* printMap, and the loops over nested fields.
MarkdownMap(fields, level) == InOrder(fields, LAMBDA k, v : MarkdownValue(k, v, level))

\* Mutant: the sections come before the table.
SectionTableLast(fields, level) ==
  MarkdownMap(Part(fields, TRUE), level) \o Table(Part(fields, FALSE))

\* The table of a map's scalars, then its sections.
Section(fields, level) ==
  Table(Part(fields, FALSE)) \o MarkdownMap(Part(fields, TRUE), level)

\* Mutant: the heading of an item as deep as those in it.
StreamTooDeep(i, fields, level) ==
  Piece(Capped(level + 1), Index(i), Heading) \o Section(fields, level + 1)

\* "Stream i" and what is in the item.
Stream(i, fields, level) == Piece(Capped(level), Index(i), Heading) \o Section(fields, level + 1)

\* printValue: nothing for a scalar, which can only be at the top.
MarkdownValue(k, v, level) ==
  CASE v.kind = "map" -> Piece(Capped(level), Key(k), Heading) \o Section(v.fields, level + 1)
    [] v.kind = "slice" ->
         Piece(Capped(level), Key(k), Heading)
           \o ForEach(v.items, LAMBDA i, item :
                IF item.kind = "map" THEN Stream(i, item.fields, level + 1)
                ELSE Piece(0, Index(i), item))
    [] OTHER -> <<>>

Markdown(data) == PrintEach(data, LAMBDA d : Title(d) \o MarkdownMap(d.meta, 3))

-----------------------------------------------------------------------------
RECURSIVE Leaves(_, _)

\* The scalars of a value and the slices in its slices, with their paths.
Leaves(v, path) ==
  CASE v.kind = "map" ->
         UNION {Leaves(v.fields[k], Append(path, Key(k))) : k \in DOMAIN v.fields}
    [] v.kind = "slice" ->
         UNION {LET p == Append(path, Index(i - 1)) IN
                IF v.items[i].kind = "slice" THEN {<<p, v.items[i]>>} ELSE Leaves(v.items[i], p)
                : i \in DOMAIN v.items}
    [] OTHER -> {<<path, v>>}

\* What a reader makes of Console's indentation: the pieces with a value, each below the
\* last less indented pieces before it.
ReadIndented(out) ==
  LET depths == [i \in DOMAIN out |-> out[i].depth]
      LabelAt(i, d) == out[CHOOSE j \in 1 .. i : /\ depths[j] = d
                                                 /\ \A l \in j + 1 .. i : depths[l] > d].label
  IN  {<<[d \in 1 .. depths[i] + 1 |-> LabelAt(i, d - 1)], out[i].value>> :
         i \in {j \in DOMAIN out : out[j].value # Heading}}

\* Console's output shows which value belongs to which keys, for maps and slices of
\* every shape: the indentation alone is enough to read all the data back.
ReadsBack(d) == ReadIndented(ConsoleMap(d.meta, 0)) = Leaves(Map(d.meta), <<>>)

\* A field of a table, other than the two that printTable treats on their own.
Plain(label) ==
  "key" \in DOMAIN label /\ label.key \notin {"spectrogram_path", "spectrogram_rel_path"}

\* What a reader makes of Markdown's tables: the plain fields, each below the heading
\* before it, and this below the last higher heading, and so on.
ReadTables(out) ==
  LET rows == {i \in DOMAIN out : out[i].value # Heading /\ Plain(out[i].label)}
      Above(i, j) ==
        /\ j < i /\ out[j].value = Heading
        /\ \A l \in j + 1 .. i - 1 : out[l].value = Heading => out[l].depth > out[j].depth
      Headings(i) == SelectSeq([j \in DOMAIN out |-> j], LAMBDA j : Above(i, j))
      Labels(is) == [n \in DOMAIN is |-> out[is[n]].label]
  IN  {[row |-> i, path |-> Labels(Append(Headings(i), i)), value |-> out[i].value] : i \in rows}

\* The path as Markdown's headings can show it: streams count from one, and of the
\* headings beyond the last level there is only the last one.
Shown(path) ==
  LET labels == [i \in DOMAIN path |->
                   IF "key" \in DOMAIN path[i] THEN path[i] ELSE Index(path[i].index + 1)]
  IN  IF Len(path) < MaxHeadingLevel THEN labels
      ELSE SubSeq(labels, 1, MaxHeadingLevel - 3) \o SubSeq(labels, Len(path) - 1, Len(path))

\* The rows of Markdown's tables can be read back, each once, with all headings above it
\* as far as there are levels for them.
TablesReadBack(d) ==
  LET read == ReadTables(MarkdownMap(d.meta, 3))
      fields == {leaf \in Leaves(Map(d.meta), <<>>) :
                   Len(leaf[1]) > 1 /\ Plain(Last(leaf[1])) /\ leaf[2].kind = "scalar"}
  IN  /\ {<<r.path, r.value>> : r \in read} = {<<Shown(f[1]), f[2]>> : f \in fields}
      /\ Cardinality(read) = Cardinality(fields)

\* Below a title, no heading skips a level, nor is there one deeper than Markdown has.
Nests(out) ==
  LET headings == SelectSeq(out, LAMBDA p : p.value = Heading /\ p.depth # 0)
  IN  \A i \in DOMAIN headings :
        /\ headings[i].depth \in 2 .. MaxHeadingLevel
        /\ headings[i].depth <= IF i = 1 THEN 2 ELSE headings[i - 1].depth + 1

=============================================================================
