----------------------------- MODULE DotProduct -----------------------------
(***************************************************************************)
(* simd: the loops of DotFloat32, in simd/dot.go, the two assembly files   *)
(* and dot_generic.go.  In assembly, blocks of sixteen products go to      *)
(* several accumulators, blocks of four and single products to the first;  *)
(* what is in the others must have been added to it before.                *)
(*                                                                         *)
(* acc[r][i] is how often the product of the elements i is in accumulator  *)
(* r, over all its lanes.  Rounding is not modelled.                       *)
(***************************************************************************)
EXTENDS Naturals

CONSTANT Lengths  \* of the slices

ASSUME LengthsAssumption == Lengths \subseteq Nat

VARIABLES arch,   \* dot_amd64.s, dot_arm64.s, or dot_generic.go for the others
          count,  \* min(len(first), len(second))
          at,     \* the loop that is next
          index,  \* AX, how far R0 and R2 have moved, or idx
          left,   \* BX, the iterations that are left, or R1, the elements
          acc     \* the accumulators X0 and X1, V0 to V3, or sum

dotVars == <<arch, count, at, index, left, acc>>

Registers == 0 .. 3

Zero == [r \in Registers |-> [i \in 0 .. count - 1 |-> 0]]

Minimum(a, b) == IF a < b THEN a ELSE b

\* DotFloat32(first, second): nothing is called for an empty slice.
DotInit ==
  /\ arch \in {"amd64", "arm64", "generic"}
  /\ \E first, second \in Lengths : count = Minimum(first, second)
  /\ at = IF count = 0 THEN "done" ELSE IF arch = "generic" THEN "range" ELSE "start"
  /\ index = 0 /\ left = 0 /\ acc = Zero

\* The products of the next n elements are added, each i to accumulator register[i].
Accumulate(n, register) ==
  /\ acc' = [r \in Registers |-> [i \in 0 .. count - 1 |->
               acc[r][i] + (IF i \in index .. index + n - 1 /\ register[i] = r THEN 1 ELSE 0)]]
  /\ index' = index + n

\* MOVQ CX, BX; SHRQ $4, BX; JZ loop4_setup: or CMP $16, R1; BLT loop4.
Start ==
  /\ at = "start"
  /\ \/ arch = "amd64" /\ left' = count \div 16 /\ at' = IF left' = 0 THEN "setup4" ELSE "loop16"
     \/ arch = "arm64" /\ left' = count /\ at' = IF left' < 16 THEN "loop4" ELSE "loop16"
  /\ UNCHANGED <<arch, count, index, acc>>

\* Four loads of four, to X0, X1, X0, X1, or to V0, V1, V2, V3.
Register16 ==
  [i \in index .. index + 15 |->
     LET load == (i - index) \div 4
     IN  IF arch = "amd64" THEN load % 2 ELSE load]

Loop16 ==
  /\ at = "loop16"
  /\ Accumulate(16, Register16)
  /\ \/ arch = "amd64" /\ left' = left - 1 /\ at' = IF left' = 0 THEN "merge" ELSE "loop16"
     \/ arch = "arm64" /\ left' = left - 16 /\ at' = IF left' < 16 THEN "merge" ELSE "loop16"
  /\ UNCHANGED <<arch, count>>

\* Mutant: ADDPS X1, X0 and the first and third FADD only.
MergedWithoutV3(i) == acc[0][i] + acc[1][i] + acc[2][i]

\* X0 + X1; or (V0 + V1) + (V2 + V3).
Merged(i) ==
  IF arch = "amd64" THEN acc[0][i] + acc[1][i]
  ELSE acc[0][i] + acc[1][i] + (acc[2][i] + acc[3][i])

Merge ==
  /\ at = "merge"
  /\ acc' = [acc EXCEPT ![0] = [i \in 0 .. count - 1 |-> Merged(i)]]
  /\ at' = IF arch = "amd64" THEN "setup4" ELSE "loop4"
  /\ UNCHANGED <<arch, count, index, left>>

\* Mutant: the quotient is not taken of the rest (ANDQ $0xF, BX is missing).
QuartersOfAll == count \div 4

\* MOVQ CX, BX; ANDQ $0xF, BX; SHRQ $2, BX.
Quarters == (count % 16) \div 4

Setup4 ==
  /\ at = "setup4"
  /\ left' = Quarters
  /\ at' = IF left' = 0 THEN "setup1" ELSE "loop4"
  /\ UNCHANGED <<arch, count, index, acc>>

First == [i \in 0 .. count - 1 |-> 0]

\* On amd64 the test follows the iteration, on arm64 it comes before.
Loop4 ==
  /\ at = "loop4"
  /\ \/ /\ arch = "amd64" /\ Accumulate(4, First)
        /\ left' = left - 1 /\ at' = IF left' = 0 THEN "setup1" ELSE "loop4"
     \/ /\ arch = "arm64" /\ left >= 4 /\ Accumulate(4, First)
        /\ left' = left - 4 /\ UNCHANGED at
     \/ /\ arch = "arm64" /\ left < 4
        /\ at' = "setup1" /\ UNCHANGED <<index, left, acc>>
  /\ UNCHANGED <<arch, count>>

\* The lanes of the first accumulator are added up, and MOVQ CX, BX; ANDQ $3, BX;
\* JZ done: or CBZ R1, done.
Setup1 ==
  /\ at = "setup1"
  /\ left' = IF arch = "amd64" THEN count % 4 ELSE left
  /\ at' = IF left' = 0 THEN "done" ELSE "scalar"
  /\ UNCHANGED <<arch, count, index, acc>>

Loop1 ==
  /\ at = "scalar"
  /\ Accumulate(1, First)
  /\ left' = left - 1
  /\ at' = IF left' = 0 THEN "done" ELSE "scalar"
  /\ UNCHANGED <<arch, count>>

\* for idx := range first.
LoopGeneric ==
  /\ at = "range"
  /\ Accumulate(1, First)
  /\ at' = IF index' = count THEN "done" ELSE "range"
  /\ UNCHANGED <<arch, count, left>>

DotNext == LoopGeneric \/ Start \/ Loop16 \/ Merge \/ Setup4 \/ Loop4 \/ Setup1 \/ Loop1

DotSpec == DotInit /\ [][DotNext]_dotVars

-----------------------------------------------------------------------------
\* The result is the sum of the products of all elements, each once, for every length:
\* no block, tail or accumulator is left out or added twice.
EveryProductOnce ==
  at = "done" => \A i \in 0 .. count - 1 : acc[0][i] = 1

\* No load goes beyond the shorter slice.
WithinBounds == index <= count

=============================================================================
