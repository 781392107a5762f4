--------------------------- MODULE LibraryProofs ---------------------------
(***************************************************************************)
(* What holds of the loops of DotProduct for slices of any length, and of  *)
(* LibraryCalls for any arguments.                                         *)
(***************************************************************************)
EXTENDS DotProduct, LibraryCalls, Integers, SequenceTheorems, WellFoundedInduction, TLAPS

USE LengthsAssumption

Indices == 0 .. count - 1

\* Whether the product of the elements i has been added.
Added(i) == IF i < index THEN 1 ELSE 0

Total(i) == acc[0][i] + acc[1][i] + acc[2][i] + acc[3][i]

Before == {"start", "loop16", "merge"}
After == {"setup4", "loop4", "setup1", "scalar", "range", "done"}

\* What is left when a loop is next.
LeftInv ==
  /\ at = "start" => index = 0
  /\ at = "setup4" => arch = "amd64"
  /\ arch = "amd64" =>
       /\ at = "loop16" => left > 0 /\ index + 16 * left = 16 * (count \div 16)
       /\ at \in {"merge", "setup4"} => index = 16 * (count \div 16)
       /\ at = "loop4" => left > 0 /\ index + 4 * left = 4 * (count \div 4)
       /\ at = "setup1" => index = 4 * (count \div 4)
  /\ arch = "arm64" =>
       /\ at \in {"loop16", "merge", "loop4", "setup1"} => index + left = count
       /\ at = "loop16" => left >= 16
  /\ arch = "generic" => at \in {"range", "done"}
  /\ at = "range" => arch = "generic" /\ index < count
  /\ at = "scalar" => left > 0 /\ index + left = count
  /\ at = "done" => index = count

\* Before the merge every product is in one of the accumulators, and then in the first.
AccInv ==
  /\ at \in Before => \A i \in Indices : Total(i) = Added(i)
  /\ at \in Before /\ arch = "amd64" => \A i \in Indices : acc[2][i] = 0 /\ acc[3][i] = 0
  /\ at \in After => \A i \in Indices : acc[0][i] = Added(i)

DotTypeOK ==
  /\ arch \in {"amd64", "arm64", "generic"} /\ count \in Nat
  /\ at \in Before \cup After
  /\ index \in Nat /\ left \in Nat
  /\ acc \in [Registers -> [Indices -> Nat]]

DotInv == DotTypeOK /\ LeftInv /\ AccInv /\ index <= count

LEMMA InvInit == DotInit => DotInv
<1> SUFFICES ASSUME DotInit PROVE DotInv
  OBVIOUS
<1>1. count \in Nat /\ arch \in {"amd64", "arm64", "generic"}
  BY DEF DotInit, Minimum
<1>2. /\ index = 0 /\ left = 0
      /\ at = IF count = 0 THEN "done" ELSE IF arch = "generic" THEN "range" ELSE "start"
  BY DEF DotInit
<1>3. acc = [r \in Registers |-> [i \in Indices |-> 0]]
  BY DEF DotInit, Zero, Indices
<1>4. \A i \in Indices : acc[0][i] = 0 /\ acc[1][i] = 0 /\ acc[2][i] = 0 /\ acc[3][i] = 0
  BY <1>3 DEF Registers
<1>5. \A i \in Indices : Added(i) = 0
  BY <1>1, <1>2 DEF Added, Indices
<1>6. DotTypeOK
  BY <1>1, <1>2, <1>3 DEF DotTypeOK, Before, After
<1>7. LeftInv
  BY <1>1, <1>2 DEF LeftInv
<1>8. AccInv
  BY <1>4, <1>5 DEF AccInv, Total
<1> QED
  BY <1>1, <1>2, <1>6, <1>7, <1>8 DEF DotInv

-----------------------------------------------------------------------------
\* The next n products go to one accumulator each, and the others stay.
LEMMA AccumulateAdds ==
  ASSUME DotTypeOK, NEW n \in Nat, NEW register, UNCHANGED count,
         index + n <= count,
         \A i \in index .. index + n - 1 : register[i] \in Registers,
         Accumulate(n, register)
  PROVE  /\ index' = index + n
         /\ acc' \in [Registers -> [Indices' -> Nat]]
         /\ \A i \in Indices :
              /\ i \notin index .. index + n - 1 => \A r \in Registers : acc'[r][i] = acc[r][i]
              /\ i \in index .. index + n - 1 =>
                   \A r \in Registers :
                     acc'[r][i] = acc[r][i] + (IF register[i] = r THEN 1 ELSE 0)
         /\ \A i \in Indices : Total(i)' = Total(i) + (Added(i)' - Added(i))
<1> DEFINE New(r, i) ==
      acc[r][i] + (IF i \in index .. index + n - 1 /\ register[i] = r THEN 1 ELSE 0)
<1>1. index' = index + n /\ Indices' = Indices
  BY DEF Accumulate, Indices
<1>2. acc' = [r \in Registers |-> [i \in Indices |-> New(r, i)]]
  BY DEF Accumulate, Indices
<1>3. \A r \in Registers, i \in Indices : acc[r][i] \in Nat
  BY DEF DotTypeOK
<1>4. \A r \in Registers, i \in Indices : New(r, i) \in Nat
  BY <1>3
<1>5. acc' \in [Registers -> [Indices' -> Nat]]
  BY <1>1, <1>2, <1>4
<1>6. \A r \in Registers, i \in Indices : acc'[r][i] = New(r, i)
  BY <1>2
<1>7. ASSUME NEW i \in Indices PROVE Total(i)' = Total(i) + (Added(i)' - Added(i))
  <2> USE DEF Registers
  <2>1. acc[0][i] \in Nat /\ acc[1][i] \in Nat /\ acc[2][i] \in Nat /\ acc[3][i] \in Nat
    BY <1>3
  <2>2. i \in Int /\ index \in Nat
    <3>1. count \in Nat /\ index \in Nat
      BY DEF DotTypeOK
    <3> QED
      BY <3>1 DEF Indices
  <2>3. Total(i)' = acc'[0][i] + acc'[1][i] + acc'[2][i] + acc'[3][i]
    BY DEF Total
  <2>4. CASE i \in index .. index + n - 1
    <3>1. register[i] = 0 \/ register[i] = 1 \/ register[i] = 2 \/ register[i] = 3
      BY <2>4
    <3>2. /\ acc'[0][i] = acc[0][i] + (IF register[i] = 0 THEN 1 ELSE 0)
          /\ acc'[1][i] = acc[1][i] + (IF register[i] = 1 THEN 1 ELSE 0)
          /\ acc'[2][i] = acc[2][i] + (IF register[i] = 2 THEN 1 ELSE 0)
          /\ acc'[3][i] = acc[3][i] + (IF register[i] = 3 THEN 1 ELSE 0)
      BY <1>6, <2>4
    <3>3. Total(i)' = Total(i) + 1
      BY <2>1, <2>3, <3>1, <3>2 DEF Total
    <3>4. Added(i)' = 1 /\ Added(i) = 0
      BY <1>1, <2>2, <2>4 DEF Added
    <3> QED
      BY <2>1, <3>3, <3>4 DEF Total
  <2>5. CASE i \notin index .. index + n - 1
    <3>1. /\ acc'[0][i] = acc[0][i] /\ acc'[1][i] = acc[1][i]
          /\ acc'[2][i] = acc[2][i] /\ acc'[3][i] = acc[3][i]
      BY <1>6, <2>1, <2>5
    <3>2. Added(i)' = Added(i) /\ Added(i) \in Nat
      BY <1>1, <2>2, <2>5 DEF Added
    <3> QED
      BY <2>1, <2>3, <3>1, <3>2 DEF Total
  <2> QED
    BY <2>4, <2>5
<1>8. ASSUME NEW i \in Indices
      PROVE  /\ i \notin index .. index + n - 1 => \A r \in Registers : acc'[r][i] = acc[r][i]
             /\ i \in index .. index + n - 1 =>
                  \A r \in Registers : acc'[r][i] = acc[r][i] + (IF register[i] = r THEN 1 ELSE 0)
  BY <1>3, <1>6
<1> QED
  BY <1>1, <1>5, <1>7, <1>8

\* Where only the first accumulator is used.
LEMMA FirstAdds ==
  ASSUME DotInv, at \in After, NEW n \in Nat, UNCHANGED count, index + n <= count,
         Accumulate(n, First)
  PROVE  /\ index' = index + n
         /\ acc' \in [Registers -> [Indices' -> Nat]]
         /\ \A i \in Indices' : acc'[0][i] = Added(i)'
<1>1. \A i \in index .. index + n - 1 : First[i] = 0 /\ First[i] \in Registers
  BY DEF First, Registers, DotInv, DotTypeOK
<1>2. DotTypeOK
  BY DEF DotInv
<1>3. /\ index' = index + n
      /\ acc' \in [Registers -> [Indices' -> Nat]]
      /\ \A i \in Indices :
           /\ i \notin index .. index + n - 1 => \A r \in Registers : acc'[r][i] = acc[r][i]
           /\ i \in index .. index + n - 1 =>
                \A r \in Registers : acc'[r][i] = acc[r][i] + (IF First[i] = r THEN 1 ELSE 0)
  BY <1>1, <1>2, AccumulateAdds
<1>4. ASSUME NEW i \in Indices PROVE acc'[0][i] = Added(i)'
  <2>1. acc[0][i] = Added(i) /\ 0 \in Registers /\ i \in Int /\ index \in Nat
    BY <1>2 DEF DotInv, AccInv, Registers, Indices, DotTypeOK
  <2>2. CASE i \in index .. index + n - 1
    <3>1. acc'[0][i] = acc[0][i] + 1
      BY <1>1, <1>3, <2>1, <2>2
    <3> QED
      BY <1>3, <2>1, <2>2, <3>1 DEF Added
  <2>3. CASE i \notin index .. index + n - 1
    <3>1. acc'[0][i] = acc[0][i]
      BY <1>3, <2>1, <2>3
    <3> QED
      BY <1>3, <2>1, <2>3, <3>1 DEF Added
  <2> QED
    BY <2>2, <2>3
<1>5. Indices' = Indices
  BY DEF Indices
<1> QED
  BY <1>3, <1>4, <1>5

-----------------------------------------------------------------------------
\* How many blocks there are, in whole numbers.
LEMMA Blocks ==
  ASSUME NEW c \in Nat
  PROVE  /\ c \div 16 \in Nat /\ 16 * (c \div 16) <= c
         /\ c \div 4 \in Nat /\ 4 * (c \div 4) <= c
         /\ (c % 16) \div 4 \in Nat
         /\ 16 * (c \div 16) + 4 * ((c % 16) \div 4) = 4 * (c \div 4)
         /\ c % 4 \in Nat /\ 4 * (c \div 4) + (c % 4) = c
  BY Z3

LEMMA StartStep == DotInv /\ Start => DotInv'
<1> SUFFICES ASSUME DotInv, Start PROVE DotInv'
  OBVIOUS
<1>1. /\ count \in Nat /\ count \div 16 \in Nat /\ 16 * (count \div 16) <= count
  BY Blocks DEF DotInv, DotTypeOK
<1>2. index = 0 /\ UNCHANGED <<arch, count, index, acc>> /\ index' = 0
  BY DEF Start, DotInv, LeftInv
<1>3. at' \in {"setup4", "loop4", "loop16"} /\ left' \in Nat
  BY <1>1 DEF Start
<1>4. DotTypeOK'
  BY <1>2, <1>3 DEF DotInv, DotTypeOK, Before, After, Indices
<1>5. LeftInv'
  <2>1. CASE arch = "amd64"
    <3>1. left' = count \div 16 /\ at' = IF left' = 0 THEN "setup4" ELSE "loop16"
      BY <2>1 DEF Start
    <3>2. index' + 16 * left' = 16 * (count' \div 16)
      BY <1>1, <1>2, <3>1
    <3>3. at' = "setup4" => index' = 16 * (count' \div 16)
      BY <1>2, <1>3, <3>1, <3>2
    <3> QED
      BY <1>2, <1>3, <2>1, <3>1, <3>2, <3>3 DEF LeftInv
  <2>2. CASE arch = "arm64"
    BY <1>1, <1>2, <1>3, <2>2 DEF Start, LeftInv
  <2> QED
    BY <2>1, <2>2 DEF Start
<1>6. AccInv'
  <2>1. ASSUME NEW i \in Indices PROVE Added(i) = 0 /\ Total(i) = 0
    BY <1>2 DEF Start, DotInv, AccInv, Before, Added, Indices
  <2>2. ASSUME NEW i \in Indices PROVE acc[0][i] = 0
    <3>1. acc[0][i] \in Nat /\ acc[1][i] \in Nat /\ acc[2][i] \in Nat /\ acc[3][i] \in Nat
      BY DEF DotInv, DotTypeOK, Registers
    <3>2. acc[0][i] + acc[1][i] + acc[2][i] + acc[3][i] = 0
      BY <2>1 DEF Total
    <3>3. \A a, b, c, d \in Nat : a + b + c + d = 0 => a = 0
      OBVIOUS
    <3> QED
      BY <3>1, <3>2, <3>3
  <2>3. \A i \in Indices : Total(i)' = Total(i) /\ Added(i)' = Added(i)
    BY <1>2 DEF Total, Added
  <2>4. Indices' = Indices /\ (arch = "amd64" => \A i \in Indices : acc[2][i] = 0 /\ acc[3][i] = 0)
    BY <1>2 DEF Start, DotInv, AccInv, Before, Indices
  <2> QED
    BY <1>2, <2>1, <2>2, <2>3, <2>4 DEF AccInv
<1> QED
  BY <1>1, <1>2, <1>4, <1>5, <1>6 DEF DotInv

LEMMA Loop16Step == DotInv /\ Loop16 => DotInv'
<1> SUFFICES ASSUME DotInv, Loop16 PROVE DotInv'
  OBVIOUS
<1> USE DEF DotInv
<1>1. /\ count \in Nat /\ count \div 16 \in Nat /\ 16 * (count \div 16) <= count
      /\ index \in Nat /\ left \in Nat
  BY Blocks DEF DotTypeOK
<1>2. index + 16 <= count
  BY <1>1 DEF Loop16, LeftInv, DotTypeOK
<1>3. ASSUME NEW i \in index .. index + 15
      PROVE  /\ Register16[i] \in Registers
             /\ arch = "amd64" => Register16[i] \in 0 .. 1
  <2>1. (i - index) \div 4 \in 0 .. 3
    BY <1>1, Z3
  <2>2. \A x \in 0 .. 3 : x % 2 \in 0 .. 1
    BY Z3
  <2> QED
    BY <2>1, <2>2 DEF Register16, Registers
<1>4. /\ index' = index + 16
      /\ acc' \in [Registers -> [Indices' -> Nat]]
      /\ \A i \in Indices :
           /\ i \notin index .. index + 15 => \A r \in Registers : acc'[r][i] = acc[r][i]
           /\ i \in index .. index + 15 =>
                \A r \in Registers : acc'[r][i] = acc[r][i] + (IF Register16[i] = r THEN 1 ELSE 0)
      /\ \A i \in Indices : Total(i)' = Total(i) + (Added(i)' - Added(i))
  <2>1. Accumulate(16, Register16) /\ 16 \in Nat /\ index + 16 - 1 = index + 15 /\ UNCHANGED count
    BY <1>1 DEF Loop16
  <2> QED
    BY <1>2, <1>3, <2>1, AccumulateAdds
<1>5. at' \in {"merge", "loop16"} /\ left' \in Nat /\ UNCHANGED <<arch, count>>
  BY <1>1 DEF Loop16, LeftInv, DotTypeOK
<1>6. DotTypeOK'
  BY <1>1, <1>4, <1>5 DEF DotTypeOK, Before, After
<1>7. LeftInv'
  <2>1. CASE arch = "amd64"
    <3>1. left' = left - 1 /\ at' = IF left' = 0 THEN "merge" ELSE "loop16"
      BY <2>1 DEF Loop16
    <3>2. index + 16 * left = 16 * (count \div 16)
      BY <2>1 DEF Loop16, LeftInv
    <3>3. index' + 16 * left' = 16 * (count' \div 16)
      BY <1>1, <1>4, <1>5, <3>1, <3>2
    <3>4. at' = "merge" => index' = 16 * (count' \div 16)
      BY <1>1, <1>4, <1>5, <3>1, <3>3
    <3>5. at' = "loop16" => left' > 0
      <4>1. at' = "loop16" => left' # 0
        BY <3>1
      <4>2. \A n \in Nat : n # 0 => n > 0
        OBVIOUS
      <4> QED
        BY <1>5, <4>1, <4>2
    <3>6. arch' = "amd64" /\ at' \notin {"start", "setup4", "loop4", "setup1", "scalar", "range", "done"}
      BY <1>5, <2>1
    <3> QED
      BY <3>3, <3>4, <3>5, <3>6 DEF LeftInv
  <2>2. CASE arch = "arm64"
    BY <1>1, <1>4, <1>5, <2>2 DEF Loop16, LeftInv
  <2> QED
    BY <2>1, <2>2 DEF Loop16
<1>8. AccInv'
  <2>1. Indices' = Indices
    BY <1>5 DEF Indices
  <2>2. ASSUME NEW i \in Indices PROVE Total(i)' = Added(i)'
    <3>1. Total(i) = Added(i)
      BY DEF AccInv, Loop16, Before
    <3>2. Added(i) \in Int /\ Added(i)' \in Int
      BY DEF Added
    <3> QED
      BY <1>4, <3>1, <3>2
  <2>3. ASSUME arch = "amd64", NEW i \in Indices PROVE acc'[2][i] = 0 /\ acc'[3][i] = 0
    <3>1. acc[2][i] = 0 /\ acc[3][i] = 0
      BY <2>3 DEF AccInv, Loop16, Before
    <3> QED
      BY <1>3, <1>4, <2>3, <3>1 DEF Registers
  <2> QED
    BY <1>5, <2>1, <2>2, <2>3 DEF AccInv, Before, After
<1> QED
  BY <1>1, <1>2, <1>4, <1>5, <1>6, <1>7, <1>8

LEMMA MergeStep == DotInv /\ Merge => DotInv'
<1> SUFFICES ASSUME DotInv, Merge PROVE DotInv'
  OBVIOUS
<1> USE DEF DotInv
<1>1. UNCHANGED <<arch, count, index, left>> /\ Indices' = Indices
  BY DEF Merge, Indices
<1>2. ASSUME NEW i \in Indices PROVE Merged(i) = Added(i)
  <2>1. acc[0][i] \in Nat /\ acc[1][i] \in Nat /\ acc[2][i] \in Nat /\ acc[3][i] \in Nat
    BY DEF DotTypeOK, Registers
  <2>2. Total(i) = Added(i) /\ (arch = "amd64" => acc[2][i] = 0 /\ acc[3][i] = 0)
    BY DEF Merge, AccInv, Before
  <2> QED
    BY <2>1, <2>2 DEF Merged, Total
<1>3. acc' = [acc EXCEPT ![0] = [i \in Indices |-> Merged(i)]]
  BY DEF Merge, Indices
<1>4. \A i \in Indices : Added(i) \in Nat
  BY DEF Added
<1>5. acc' \in [Registers -> [Indices -> Nat]] /\ \A i \in Indices : acc'[0][i] = Added(i)
  BY <1>2, <1>3, <1>4 DEF DotTypeOK, Registers
<1>6. at' \in {"setup4", "loop4"}
  BY DEF Merge
<1>7. DotTypeOK'
  BY <1>1, <1>5, <1>6 DEF DotTypeOK, Before, After
<1>8. LeftInv'
  BY <1>1 DEF Merge, LeftInv, DotTypeOK
<1>9. AccInv'
  BY <1>1, <1>5, <1>6 DEF AccInv, Before, Added
<1> QED
  BY <1>1, <1>7, <1>8, <1>9

\* The steps that only look at what is left.
LEMMA SetupSteps == DotInv /\ (Setup4 \/ Setup1) => DotInv'
<1> SUFFICES ASSUME DotInv, Setup4 \/ Setup1 PROVE DotInv'
  OBVIOUS
<1> USE DEF DotInv
<1>1. UNCHANGED <<arch, count, index, acc>> /\ Indices' = Indices
  BY DEF Setup4, Setup1, Indices
<1>2. /\ count \in Nat /\ (count % 16) \div 4 \in Nat /\ count % 4 \in Nat
      /\ 16 * (count \div 16) + 4 * ((count % 16) \div 4) = 4 * (count \div 4)
      /\ 4 * (count \div 4) + (count % 4) = count
      /\ count \div 4 \in Nat /\ index \in Nat /\ left \in Nat
  BY Blocks DEF DotTypeOK
<1>3. at \in {"setup4", "setup1"} /\ at' \in {"setup1", "loop4", "done", "scalar"} /\ left' \in Nat
  BY <1>2 DEF Setup4, Setup1, Quarters
<1>4. DotTypeOK'
  BY <1>1, <1>3 DEF DotTypeOK, Before, After
<1>5. LeftInv'
  <2>1. CASE Setup4
    BY <1>1, <1>2, <2>1 DEF Setup4, Quarters, LeftInv
  <2>2. CASE Setup1
    BY <1>1, <1>2, <2>2 DEF Setup1, LeftInv, DotTypeOK
  <2> QED
    BY <2>1, <2>2
<1>6. AccInv'
  BY <1>1, <1>3 DEF AccInv, Before, After, Added
<1> QED
  BY <1>1, <1>4, <1>5, <1>6

LEMMA Loop4Step == DotInv /\ Loop4 => DotInv'
<1> SUFFICES ASSUME DotInv, Loop4 PROVE DotInv'
  OBVIOUS
<1> USE DEF DotInv
<1>1. /\ count \in Nat /\ count \div 4 \in Nat /\ 4 * (count \div 4) <= count
      /\ index \in Nat /\ left \in Nat /\ UNCHANGED <<arch, count>>
  BY Blocks DEF DotTypeOK, Loop4
<1>2. CASE Accumulate(4, First)
  <2>1. index + 4 <= count /\ at \in After
    BY <1>1, <1>2 DEF Loop4, LeftInv, After, DotTypeOK, Accumulate
  <2>2. /\ index' = index + 4 /\ acc' \in [Registers -> [Indices' -> Nat]]
        /\ \A i \in Indices' : acc'[0][i] = Added(i)'
    BY <1>1, <1>2, <2>1, FirstAdds
  <2>3. at' \in {"loop4", "setup1"} /\ left' \in Nat
    BY <1>1, <2>2 DEF Loop4, LeftInv
  <2>4. DotTypeOK'
    BY <1>1, <2>2, <2>3 DEF DotTypeOK, Before, After
  <2>5. LeftInv'
    <3>1. CASE arch = "amd64"
      <4>1. left' = left - 1 /\ at' = IF left' = 0 THEN "setup1" ELSE "loop4"
        BY <1>1, <3>1 DEF Loop4
      <4>2. index + 4 * left = 4 * (count \div 4)
        BY <3>1 DEF Loop4, LeftInv
      <4>3. index' + 4 * left' = 4 * (count' \div 4)
        BY <1>1, <2>2, <4>1, <4>2
      <4>4. at' = "setup1" => index' = 4 * (count' \div 4)
        BY <1>1, <2>2, <4>1, <4>3
      <4> QED
        BY <1>1, <2>3, <3>1, <4>1, <4>3, <4>4 DEF LeftInv
    <3>2. CASE arch = "arm64"
      <4>1. index + left = count
        BY <3>2 DEF Loop4, LeftInv
      <4>2. left' = left - 4 \/ index' = index
        BY <3>2 DEF Loop4
      <4>3. index' + left' = count'
        BY <1>1, <2>2, <4>1, <4>2
      <4>4. arch' = "arm64" /\ at' \notin {"start", "setup4", "loop16", "scalar", "range", "done"}
        BY <1>1, <2>3, <3>2
      <4> QED
        BY <4>3, <4>4 DEF LeftInv
    <3> QED
      BY <3>1, <3>2 DEF Loop4
  <2>6. AccInv'
    BY <2>2, <2>3 DEF AccInv, Before
  <2> QED
    BY <1>1, <2>1, <2>2, <2>4, <2>5, <2>6
<1>3. CASE arch = "arm64" /\ left < 4 /\ at' = "setup1" /\ UNCHANGED <<index, left, acc>>
  <2>1. Indices' = Indices
    BY <1>1 DEF Indices
  <2>2. DotTypeOK'
    BY <1>1, <1>3, <2>1 DEF DotTypeOK, Before, After
  <2>3. LeftInv'
    BY <1>1, <1>3 DEF Loop4, LeftInv
  <2>4. AccInv'
    BY <1>3, <2>1 DEF Loop4, AccInv, Before, After, Added
  <2> QED
    BY <1>1, <1>3, <2>2, <2>3, <2>4
<1> QED
  BY <1>2, <1>3 DEF Loop4

LEMMA Loop1Step == DotInv /\ Loop1 => DotInv'
<1> SUFFICES ASSUME DotInv, Loop1 PROVE DotInv'
  OBVIOUS
<1> USE DEF DotInv
<1>1. count \in Nat /\ index \in Nat /\ left \in Nat /\ UNCHANGED <<arch, count>>
  BY DEF DotTypeOK, Loop1
<1>2. index + 1 <= count /\ at \in After /\ Accumulate(1, First) /\ left > 0
  BY <1>1 DEF Loop1, LeftInv, After
<1>3. /\ index' = index + 1 /\ acc' \in [Registers -> [Indices' -> Nat]]
      /\ \A i \in Indices' : acc'[0][i] = Added(i)'
  BY <1>1, <1>2, FirstAdds
<1>4. at' \in {"done", "scalar"} /\ left' \in Nat
  BY <1>1, <1>2 DEF Loop1
<1>5. DotTypeOK'
  BY <1>1, <1>3, <1>4 DEF DotTypeOK, Before, After
<1>6. LeftInv'
  BY <1>1, <1>2, <1>3, <1>4 DEF Loop1, LeftInv
<1>7. AccInv'
  BY <1>3, <1>4 DEF AccInv, Before
<1> QED
  BY <1>1, <1>2, <1>3, <1>5, <1>6, <1>7

LEMMA LoopGenericStep == DotInv /\ LoopGeneric => DotInv'
<1> SUFFICES ASSUME DotInv, LoopGeneric PROVE DotInv'
  OBVIOUS
<1> USE DEF DotInv
<1>1. count \in Nat /\ index \in Nat /\ left \in Nat /\ UNCHANGED <<arch, count, left>>
  BY DEF DotTypeOK, LoopGeneric
<1>2. index + 1 <= count /\ at \in After /\ Accumulate(1, First) /\ arch = "generic"
  BY <1>1 DEF LoopGeneric, LeftInv, After
<1>3. /\ index' = index + 1 /\ acc' \in [Registers -> [Indices' -> Nat]]
      /\ \A i \in Indices' : acc'[0][i] = Added(i)'
  BY <1>1, <1>2, FirstAdds
<1>4. at' \in {"done", "range"} /\ (at' = "done" <=> index' = count)
  BY DEF LoopGeneric
<1>5. DotTypeOK'
  BY <1>1, <1>3, <1>4 DEF DotTypeOK, Before, After
<1>6. LeftInv'
  BY <1>1, <1>2, <1>3, <1>4 DEF LeftInv
<1>7. AccInv'
  BY <1>3, <1>4 DEF AccInv, Before
<1> QED
  BY <1>1, <1>2, <1>3, <1>5, <1>6, <1>7

LEMMA InvNext == DotInv /\ [DotNext]_dotVars => DotInv'
<1>1. DotInv /\ UNCHANGED dotVars => DotInv'
  BY DEF DotInv, DotTypeOK, LeftInv, AccInv, Indices, Added, Total, dotVars
<1> QED
  BY <1>1, StartStep, Loop16Step, MergeStep, SetupSteps, Loop4Step, Loop1Step,
     LoopGenericStep DEF DotNext

THEOREM DotInvHolds == DotSpec => []DotInv
  BY InvInit, InvNext, PTL DEF DotSpec

-----------------------------------------------------------------------------
\* The dot product of slices of any length has every product once, in both assembly
\* files and in Go (dot_amd64.s:33-100, dot_arm64.s:39-99, dot_generic.go:21-28).
THEOREM EveryProductOnceHolds == DotSpec => []EveryProductOnce
<1>1. DotInv => EveryProductOnce
  BY DEF DotInv, DotTypeOK, LeftInv, AccInv, After, Added, Indices, EveryProductOnce
<1> QED
  BY <1>1, DotInvHolds, PTL

\* And no load is beyond its end.
THEOREM WithinBoundsHolds == DotSpec => []WithinBounds
<1>1. DotInv => WithinBounds
  BY DEF DotInv, WithinBounds
<1> QED
  BY <1>1, DotInvHolds, PTL

-----------------------------------------------------------------------------
(* Digest                                                                  *)

\* ComesBack holds of every string that can be cut into parts.
LEMMA EveryDigestComesBack ==
  ASSUME NEW dgst \in Seq(DigestPart), dgst # <<>>
  PROVE  ComesBack(dgst)
<1> DEFINE d == FromString(dgst)
           alg == dgst[1].name
<1>1. dgst[1] \in DigestPart /\ Len(dgst) \in Nat \ {0}
  OBVIOUS
<1>2. \A a \in Algorithm : EncodedLength(a) = 2 * Size(a)
  BY DEF Algorithm, EncodedLength, Size
<1>3. NoDigest.algorithm \notin Algorithm
  BY DEF NoDigest, Algorithm
<1>4. ASSUME d # NoDigest
      PROVE  d.algorithm \in Algorithm /\ String(d) = dgst
             /\ d.encoded[1].length = 2 * Size(d.algorithm)
  <2>1. /\ Len(dgst) = 2 /\ alg \in Algorithm /\ dgst[2].length = EncodedLength(alg)
        /\ d.algorithm = alg /\ d.encoded = Tail(dgst)
    BY <1>4 DEF FromString
  <2>2. dgst[1] = Text(alg)
    <3>1. alg # ""
      BY <2>1 DEF Algorithm
    <3> QED
      BY <1>1, <3>1 DEF DigestPart
  <2>3. Tail(dgst) \in Seq(DigestPart) /\ Len(Tail(dgst)) = 1 /\ Tail(dgst)[1] = dgst[2]
    <3>1. Len(Tail(dgst)) = Len(dgst) - 1 /\ Tail(dgst) \in Seq(DigestPart)
      BY HeadTailProperties
    <3>2. \A i \in 1 .. Len(Tail(dgst)) : Tail(dgst)[i] = dgst[i + 1]
      BY HeadTailProperties
    <3>3. Len(dgst) = 2
      BY <2>1
    <3> HIDE DEF d, alg
    <3>4. Len(Tail(dgst)) = 1
      BY <3>1, <3>3
    <3>5. 1 \in 1 .. Len(Tail(dgst)) /\ 1 + 1 = 2
      BY <3>4
    <3>6. Tail(dgst)[1] = dgst[2]
      BY <3>2, <3>5
    <3> QED
      BY <3>1, <3>4, <3>6
  <2>4. <<Text(alg)>> \in Seq(DigestPart)
    BY <1>1, <2>2
  <2> HIDE DEF d, alg
  <2>5. String(d) = <<Text(alg)>> \o Tail(dgst)
    BY <2>1 DEF String
  <2>6. <<Text(alg)>> \o Tail(dgst) = dgst
    <3>1. Len(<<Text(alg)>>) = 1 /\ <<Text(alg)>>[1] = Text(alg)
      OBVIOUS
    <3> DEFINE all == <<Text(alg)>> \o Tail(dgst)
    <3>2. all \in Seq(DigestPart) /\ Len(all) = 2
      BY <2>3, <2>4, <3>1, ConcatProperties
    <3>3. all[1] = Text(alg) /\ all[2] = dgst[2]
      BY <2>3, <2>4, <3>1, ConcatProperties
    <3>4. Len(dgst) = 2 /\ dgst[1] = Text(alg)
      BY <2>1, <2>2
    <3> HIDE DEF all
    <3>5. \A i \in 1 .. Len(all) : all[i] = dgst[i]
      BY <3>2, <3>3, <3>4
    <3>6. Len(all) = Len(dgst) /\ all \in Seq(DigestPart)
      BY <3>2, <3>4
    <3>7. all = dgst
      BY <3>5, <3>6, SeqEqual
    <3> QED
      BY <3>7 DEF all
  <2> QED
    BY <1>2, <2>1, <2>3, <2>5, <2>6
<1>5. ASSUME NEW a \in Algorithm, dgst = HashString(a) PROVE d # NoDigest
  <2>1. /\ Len(dgst) = 2 /\ alg = a /\ dgst[2].hex /\ dgst[2].length = 2 * Size(a)
    BY <1>5 DEF HashString, Text, Chars
  <2>2. d.algorithm = a
    BY <1>2, <2>1 DEF FromString
  <2> QED
    BY <1>3, <2>2
<1> QED
  BY <1>4, <1>5 DEF ComesBack

-----------------------------------------------------------------------------
(* Paths                                                                   *)

\* A set of natural numbers has a least one, and one with a bound a greatest.
LEMMA Least ==
  ASSUME NEW T, T \subseteq Nat, T # {}
  PROVE  \E m \in T : \A n \in T : m <= n
<1> DEFINE R == OpToRel(<, Nat)
<1>1. IsWellFoundedOn(R, Nat)
  BY NatLessThanWellFounded
<1> HIDE DEF R
<1>2. PICK m \in T : \A n \in T : ~(<<n, m>> \in R)
  BY <1>1, WFMin
<1>3. ASSUME NEW n \in T PROVE m <= n
  <2>1. n \in Nat /\ m \in Nat
    OBVIOUS
  <2>2. n < m => <<n, m>> \in R
    BY <2>1 DEF R, OpToRel
  <2> QED
    BY <1>2, <2>1, <2>2
<1> QED
  BY <1>3

LEMMA Greatest ==
  ASSUME NEW T, NEW bound \in Nat, T \subseteq 0 .. bound, T # {}
  PROVE  \E m \in T : \A n \in T : n <= m
<1> DEFINE U == {bound - n : n \in T}
<1>1. U \subseteq Nat /\ U # {}
  <2>1. \A n \in 0 .. bound : bound - n \in Nat
    OBVIOUS
  <2> QED
    BY <2>1
<1> HIDE DEF U
<1>2. PICK u \in U : \A v \in U : u <= v
  BY <1>1, Least
<1>3. PICK m \in T : u = bound - m
  BY DEF U
<1>4. \A n \in T : bound - m <= bound - n
  BY <1>2, <1>3 DEF U
<1>5. \A n \in T : n \in Nat /\ n <= bound
  OBVIOUS
<1> QED
  BY <1>4, <1>5

\* Every character that separates nothing is in a component.
LEMMA RunAround ==
  ASSUME NEW path \in Seq(STRING), NEW seps, NEW p \in DOMAIN path, path[p] \notin seps
  PROVE  \E i, j \in DOMAIN path : i <= p /\ p <= j /\ IsRun(path, seps, i, j)
<1>0. DOMAIN path = 1 .. Len(path) /\ Len(path) \in Nat /\ p \in 1 .. Len(path)
  OBVIOUS
<1>1. PICK i \in 1 .. p : /\ \A k \in i .. p : path[k] \notin seps
                          /\ i = 1 \/ path[i - 1] \in seps
  <2> DEFINE I == {i \in 1 .. p : \A k \in i .. p : path[k] \notin seps}
  <2>1. p \in I /\ I \subseteq Nat
    BY <1>0
  <2>2. PICK i \in I : \A k \in I : i <= k
    <3> HIDE DEF I
    <3> QED
      BY <2>1, Least
  <2>3. i \in 1 .. p /\ \A k \in i .. p : path[k] \notin seps
    BY <2>2
  <2>4. ASSUME i # 1, path[i - 1] \notin seps PROVE FALSE
    <3>1. i - 1 \in 1 .. p
      BY <1>0, <2>3, <2>4
    <3>2. \A k \in (i - 1) .. p : k = i - 1 \/ k \in i .. p
      BY <1>0, <2>3
    <3>3. i - 1 \in I
      BY <2>3, <2>4, <3>1, <3>2
    <3>4. ~(i <= i - 1)
      BY <1>0, <2>3
    <3> QED
      BY <2>2, <3>3, <3>4
  <2> QED
    BY <2>3, <2>4
<1>2. PICK j \in p .. Len(path) : /\ \A k \in p .. j : path[k] \notin seps
                                  /\ j = Len(path) \/ path[j + 1] \in seps
  <2> DEFINE J == {j \in p .. Len(path) : \A k \in p .. j : path[k] \notin seps}
  <2>1. p \in J /\ J \subseteq 0 .. Len(path)
    BY <1>0
  <2>2. PICK j \in J : \A k \in J : k <= j
    <3> HIDE DEF J
    <3> QED
      BY <1>0, <2>1, Greatest
  <2>3. j \in p .. Len(path) /\ \A k \in p .. j : path[k] \notin seps
    BY <2>2
  <2>4. ASSUME j # Len(path), path[j + 1] \notin seps PROVE FALSE
    <3>0. \A a, n \in Nat : \A b \in a .. n : b # n => b + 1 \in a .. n
      OBVIOUS
    <3>n. p \in Nat /\ Len(path) \in Nat
      BY <1>0
    <3>j. j \in p .. Len(path) /\ j # Len(path)
      BY <2>3, <2>4
    <3>1. j + 1 \in p .. Len(path)
      <4> HIDE DEF J
      <4> QED
        BY <3>0, <3>n, <3>j
    <3>2. \A k \in p .. (j + 1) : k = j + 1 \/ k \in p .. j
      BY <1>0, <2>3
    <3>3. j + 1 \in J
      BY <2>3, <2>4, <3>1, <3>2
    <3>4. ~(j + 1 <= j)
      BY <1>0, <2>3
    <3> QED
      BY <2>2, <3>3, <3>4
  <2> QED
    BY <2>3, <2>4
<1>3. \A k \in i .. j : k \in i .. p \/ k \in p .. j
  BY <1>0
<1>4. i \in DOMAIN path /\ j \in DOMAIN path /\ i <= p /\ p <= j /\ i <= j
  BY <1>0
<1>5. IsRun(path, seps, i, j)
  BY <1>1, <1>2, <1>3, <1>4 DEF IsRun
<1> QED
  BY <1>4, <1>5

\* What a component is.
LEMMA ComponentIsRun ==
  ASSUME NEW path \in Seq(STRING), NEW seps, NEW component \in Components(path, seps)
  PROVE  \E i, j \in DOMAIN path :
           IsRun(path, seps, i, j) /\ component = SubSeq(path, i, j)
<1>1. PICK i \in DOMAIN path :
        component \in {SubSeq(path, i, j) : j \in {k \in DOMAIN path : IsRun(path, seps, i, k)}}
  <2>1. PICK S \in {{SubSeq(path, i, j) : j \in {k \in DOMAIN path : IsRun(path, seps, i, k)}} :
                      i \in DOMAIN path} : component \in S
    BY DEF Components
  <2> QED
    BY <2>1
<1>2. PICK j \in {k \in DOMAIN path : IsRun(path, seps, i, k)} : component = SubSeq(path, i, j)
  BY <1>1
<1> QED
  BY <1>2

LEMMA RunIsComponent ==
  ASSUME NEW path \in Seq(STRING), NEW seps, NEW i \in DOMAIN path, NEW j \in DOMAIN path,
         IsRun(path, seps, i, j)
  PROVE  SubSeq(path, i, j) \in Components(path, seps)
<1> DEFINE From(a) == {SubSeq(path, a, b) : b \in {k \in DOMAIN path : IsRun(path, seps, a, k)}}
<1>1. SubSeq(path, i, j) \in From(i)
  OBVIOUS
<1>2. Components(path, seps) = UNION {From(a) : a \in DOMAIN path}
  BY DEF Components
<1> HIDE DEF From
<1> QED
  BY <1>1, <1>2

LEMMA Characters ==
  ASSUME NEW path \in Seq(STRING), NEW i \in DOMAIN path, NEW j \in DOMAIN path, i <= j
  PROVE  /\ SubSeq(path, i, j) \in Seq(STRING)
         /\ Len(SubSeq(path, i, j)) = j - i + 1
         /\ \A k \in 1 .. j - i + 1 : SubSeq(path, i, j)[k] = path[i + k - 1]
<1>1. i \in Int /\ j \in Int /\ \A k \in i .. j : path[k] \in STRING
  OBVIOUS
<1> QED
  BY <1>1, SubSeqProperties

LEMMA ComponentIsString ==
  ASSUME NEW path \in Seq(STRING), NEW seps, NEW component \in Components(path, seps)
  PROVE  component \in Seq(STRING) /\ Len(component) \in Nat \ {0}
<1>1. PICK i, j \in DOMAIN path : IsRun(path, seps, i, j) /\ component = SubSeq(path, i, j)
  BY ComponentIsRun
<1>2. i <= j
  BY <1>1 DEF IsRun
<1> QED
  BY <1>1, <1>2, Characters

\* Windows takes a slash for a separator and path.go does not, so that it is a
\* character of some component, which is refused for it.
LEMMA NoSlash ==
  ASSUME NEW path \in Seq(STRING), NEW p \in DOMAIN path,
         \A component \in Components(path, {"\\"}) : ValidatePathComponent("windows", component)
  PROVE  path[p] # "/"
<1> SUFFICES ASSUME path[p] = "/" PROVE FALSE
  OBVIOUS
<1>1. path[p] \notin {"\\"}
  OBVIOUS
<1>2. PICK i, j \in DOMAIN path : i <= p /\ p <= j /\ IsRun(path, {"\\"}, i, j)
  BY <1>1, RunAround
<1> DEFINE component == SubSeq(path, i, j)
<1>3. ValidatePathComponent("windows", component)
  BY <1>2, RunIsComponent
<1>4. i <= j /\ i \in Nat /\ j \in Nat /\ p \in Nat
  BY <1>2 DEF IsRun
<1>5. Len(component) = j - i + 1 /\ component \in Seq(STRING)
      /\ \A k \in 1 .. j - i + 1 : component[k] = path[i + k - 1]
  BY <1>4, Characters
<1> HIDE DEF component
<1>6. p - i + 1 \in 1 .. j - i + 1 /\ i + (p - i + 1) - 1 = p
  BY <1>2, <1>4
<1>7. p - i + 1 \in DOMAIN component /\ component[p - i + 1] = "/"
  BY <1>5, <1>6
<1> QED
  BY <1>3, <1>7 DEF ValidatePathComponent, ReservedCharacters

\* So both split an accepted path alike.
LEMMA SplitAlike ==
  ASSUME NEW os \in Platforms, NEW path \in Seq(STRING),
         \A component \in Components(path, {PathSeparator(os)}) : ValidatePathComponent(os, component)
  PROVE  Components(path, Separators(os)) = Components(path, {PathSeparator(os)})
<1>1. CASE os # "windows"
  BY <1>1 DEF Separators, PathSeparator
<1>2. CASE os = "windows"
  <2>1. PathSeparator(os) = "\\" /\ Separators(os) = {"/", "\\"}
    BY <1>2 DEF PathSeparator, Separators
  <2>2. \A p \in DOMAIN path : path[p] # "/"
    BY <1>2, <2>1, NoSlash
  <2>3. ASSUME NEW i \in DOMAIN path, NEW j \in DOMAIN path
        PROVE  IsRun(path, {"/", "\\"}, i, j) <=> IsRun(path, {"\\"}, i, j)
    <3>1. i = 1 \/ i - 1 \in DOMAIN path
      OBVIOUS
    <3>2. j = Len(path) \/ j + 1 \in DOMAIN path
      OBVIOUS
    <3>3. \A k \in i .. j : k \in DOMAIN path
      OBVIOUS
    <3> QED
      BY <2>2, <3>1, <3>2, <3>3 DEF IsRun
  <2>4. ASSUME NEW component \in Components(path, {"/", "\\"})
        PROVE  component \in Components(path, {"\\"})
    <3>1. PICK i, j \in DOMAIN path :
            IsRun(path, {"/", "\\"}, i, j) /\ component = SubSeq(path, i, j)
      BY ComponentIsRun
    <3> QED
      BY <2>3, <3>1, RunIsComponent
  <2>5. ASSUME NEW component \in Components(path, {"\\"})
        PROVE  component \in Components(path, {"/", "\\"})
    <3>1. PICK i, j \in DOMAIN path :
            IsRun(path, {"\\"}, i, j) /\ component = SubSeq(path, i, j)
      BY ComponentIsRun
    <3> QED
      BY <2>3, <3>1, RunIsComponent
  <2>6. Components(path, {"/", "\\"}) = Components(path, {"\\"})
    BY <2>4, <2>5
  <2> QED
    BY <2>1, <2>6
<1> QED
  BY <1>1, <1>2

\* A component that is accepted is a name.
LEMMA NotNavigating ==
  ASSUME NEW os \in Platforms, NEW component \in Seq(STRING), Len(component) \in Nat \ {0},
         ValidatePathComponent(os, component)
  PROVE  ~Navigates(os, component)
<1>1. CASE os = "windows"
  <2>1. component[Len(component)] \notin {".", " "}
    BY <1>1 DEF ValidatePathComponent, BadLastCharacter, Last
  <2>2. Len(component) \in DOMAIN component
    OBVIOUS
  <2> QED
    BY <1>1, <2>1, <2>2 DEF Navigates
<1>2. CASE os # "windows"
  BY <1>2 DEF ValidatePathComponent, Disallowed, Navigates
<1> QED
  BY <1>1, <1>2

\* What has no separator in it is its own component, and the only one.
LEMMA OneComponent ==
  ASSUME NEW path \in Seq(STRING), NEW seps, Len(path) \in Nat \ {0},
         \A p \in DOMAIN path : path[p] \notin seps
  PROVE  Components(path, seps) = {path}
<1>0. DOMAIN path = 1 .. Len(path) /\ 1 \in DOMAIN path /\ Len(path) \in DOMAIN path
  OBVIOUS
<1>1. SubSeq(path, 1, Len(path)) = path
  OBVIOUS
<1>2. IsRun(path, seps, 1, Len(path))
  BY <1>0 DEF IsRun
<1>3. path \in Components(path, seps)
  BY <1>0, <1>1, <1>2, RunIsComponent
<1>4. ASSUME NEW component \in Components(path, seps) PROVE component = path
  <2>1. PICK i, j \in DOMAIN path : IsRun(path, seps, i, j) /\ component = SubSeq(path, i, j)
    BY ComponentIsRun
  <2>2. i = 1 \/ i - 1 \in DOMAIN path
    BY <1>0
  <2>3. j = Len(path) \/ j + 1 \in DOMAIN path
    BY <1>0
  <2>4. i = 1 /\ j = Len(path)
    BY <2>1, <2>2, <2>3 DEF IsRun
  <2> QED
    BY <1>1, <2>1, <2>4
<1> QED
  BY <1>3, <1>4

\* A volume is a part of the path.
LEMMA VolumeWithin ==
  ASSUME NEW path \in Seq(STRING)
  PROVE  VolumeLength(path) \in 0 .. Len(path)
<1>1. ASSUME NEW from \in Nat \ {0}, NEW n PROVE UpTo(path, from, n) \in 0 .. Len(path)
  <2> DEFINE seps == {i \in from .. Len(path) : path[i] \in Separators("windows")}
             nth == {i \in seps : Cardinality({j \in seps : j <= i}) = n}
  <2>0. Len(path) \in Nat
    OBVIOUS
  <2>1. nth \subseteq from .. Len(path)
    OBVIOUS
  <2>2. UpTo(path, from, n) = IF nth = {} THEN Len(path) ELSE (CHOOSE i \in nth : TRUE) - 1
    BY DEF UpTo
  <2>3. nth # {} => (CHOOSE i \in nth : TRUE) \in nth
    <3> HIDE DEF nth
    <3> QED
      OBVIOUS
  <2> HIDE DEF nth
  <2>4. \A i \in nth : i - 1 \in 0 .. Len(path)
    BY <2>0, <2>1
  <2>5. CASE nth = {}
    BY <2>0, <2>2, <2>5
  <2>6. CASE nth # {}
    BY <2>2, <2>3, <2>4, <2>6
  <2> QED
    BY <2>5, <2>6
<1>2. /\ UpTo(path, 7, 2) \in 0 .. Len(path)
      /\ UpTo(path, 5, 1) \in 0 .. Len(path)
      /\ UpTo(path, 3, 2) \in 0 .. Len(path)
  BY <1>1
<1>3. 0 \in 0 .. Len(path) /\ (Len(path) >= 2 => 2 \in 0 .. Len(path))
  OBVIOUS
<1> QED
  BY <1>2, <1>3 DEF VolumeLength

\* What has neither a colon nor a separator in it has no volume.
LEMMA NoVolume ==
  ASSUME NEW path \in Seq(STRING),
         \A p \in DOMAIN path : path[p] \notin Separators("windows") \cup {":"}
  PROVE  VolumeLength(path) = 0
<1>1. \A p \in 1 .. 2 : Len(path) >= 2 => path[p] # ":" /\ path[p] \notin Separators("windows")
  OBVIOUS
<1>2. Len(path) >= 1 => path[1] \notin Separators("windows") /\ path[1] # "\\"
  BY DEF Separators
<1>3. /\ ~Begins(path, <<"\\", "\\", ".", "\\", "UNC">>)
      /\ ~Begins(path, <<"\\", "\\", ".">>)
      /\ ~Begins(path, <<"\\", "\\", "?">>)
      /\ ~Begins(path, <<"\\", "?", "?">>)
  <2>1. ~Begins(path, <<"\\", "\\", ".", "\\", "UNC">>)
    BY <1>2 DEF Begins
  <2>2. ~Begins(path, <<"\\", "\\", ".">>)
    BY <1>2 DEF Begins
  <2>3. ~Begins(path, <<"\\", "\\", "?">>)
    BY <1>2 DEF Begins
  <2>4. ~Begins(path, <<"\\", "?", "?">>)
    BY <1>2 DEF Begins
  <2> QED
    BY <2>1, <2>2, <2>3, <2>4
<1>4. ~(Len(path) >= 2 /\ path[2] = ":")
  BY <1>1
<1>5. ~(Len(path) >= 2 /\ {path[1], path[2]} \subseteq Separators("windows"))
  BY <1>1
<1> QED
  BY <1>3, <1>4, <1>5 DEF VolumeLength

\* Accepted holds of every path on every platform.
LEMMA EveryPathAccepted ==
  ASSUME NEW os \in Platforms, NEW path \in Seq(STRING)
  PROVE  Accepted(os, path)
<1> DEFINE rest == WithoutVolume(os, path)
<1>1. rest \in Seq(STRING)
  <2> DEFINE n == VolumeLength(path)
  <2>1. n \in Nat /\ n + 1 \in Int /\ Len(path) \in Int
    BY VolumeWithin
  <2>2. \A i \in n + 1 .. Len(path) : path[i] \in STRING
    BY <2>1
  <2> HIDE DEF n
  <2>3. SubSeq(path, n + 1, Len(path)) \in Seq(STRING)
    BY <2>1, <2>2, SubSeqProperties
  <2> QED
    BY <2>3 DEF WithoutVolume, n
<1>2. ASSUME ValidatePathComponent(os, path) PROVE rest = path /\ ReadsAs(os, path, {path})
  <2>1. Len(path) \in Nat \ {0}
    <3>1. PICK i \in DOMAIN path : path[i] # " "
      BY <1>2 DEF ValidatePathComponent
    <3>2. DOMAIN path = 1 .. Len(path) /\ Len(path) \in Nat
      OBVIOUS
    <3>3. i \in 1 .. Len(path)
      BY <3>1, <3>2
    <3> QED
      BY <3>2, <3>3
  <2>2. \A p \in DOMAIN path : path[p] \notin ReservedCharacters(os)
    BY <1>2 DEF ValidatePathComponent
  <2>3. \A p \in DOMAIN path : path[p] \notin Separators(os)
    BY <2>2 DEF ReservedCharacters, Separators
  <2>4. os = "windows" => VolumeLength(path) = 0
    BY <2>2, NoVolume DEF ReservedCharacters, Separators
  <2>5. rest = path
    BY <2>4 DEF WithoutVolume
  <2>6. Components(path, Separators(os)) = {path}
    BY <2>1, <2>3, OneComponent
  <2>7. ~Navigates(os, path) /\ Len(path) <= PathComponentMaxLength
    BY <1>2, <2>1, NotNavigating DEF ValidatePathComponent
  <2> QED
    BY <2>5, <2>6, <2>7 DEF ReadsAs
<1>3. ASSUME ValidatePath(os, path)
      PROVE  ReadsAs(os, rest, Components(rest, {PathSeparator(os)}))
  <2>1. \A c \in Components(rest, {PathSeparator(os)}) : ValidatePathComponent(os, c)
    BY <1>3 DEF ValidatePath
  <2> HIDE DEF rest
  <2>2. Components(rest, Separators(os)) = Components(rest, {PathSeparator(os)})
    BY <1>1, <2>1, SplitAlike
  <2>3. ASSUME NEW c \in Components(rest, {PathSeparator(os)})
        PROVE  ~Navigates(os, c) /\ Len(c) <= PathComponentMaxLength
    <3>1. c \in Seq(STRING) /\ Len(c) \in Nat \ {0}
      BY <1>1, ComponentIsString
    <3> QED
      BY <2>1, <3>1, NotNavigating DEF ValidatePathComponent
  <2> QED
    BY <2>2, <2>3 DEF ReadsAs
<1> QED
  BY <1>2, <1>3 DEF Accepted

-----------------------------------------------------------------------------
(* Locations                                                               *)

\* The strings, with the names in Locations: no prover knows that a literal is a string.
Names == STRING \cup {"tmp", "bin", "cache", ".cache", "Library", "Caches", "Application Support",
                      ".local", "share", ".config", "AppData", "Local", "Roaming", "Temp"}

Directory == Seq(Names)

LEMMA StringsAreNames ==
  ASSUME NEW s \in Seq(STRING)
  PROVE  s \in Directory
<1>1. STRING \subseteq Names
  BY DEF Names
<1>2. Len(s) \in Nat /\ s \in [1 .. Len(s) -> STRING]
  OBVIOUS
<1>3. s \in [1 .. Len(s) -> Names]
  BY <1>1, <1>2
<1>4. s \in Seq(Names)
  BY <1>2, <1>3
<1> QED
  BY <1>4 DEF Directory

\* A directory is in another one, name by name.
LEMMA PrefixIs ==
  ASSUME NEW s \in Directory, NEW t \in Directory
  PROVE  IsPrefix(s, t) <=> Len(s) <= Len(t) /\ \A i \in 1 .. Len(s) : s[i] = t[i]
<1> USE DEF Directory
<1>1. Len(s) \in Nat /\ Len(t) \in Nat /\ 1 \in Int
  OBVIOUS
<1>2. /\ SubSeq(s, 1, Len(s)) \in Seq(Names) /\ Len(SubSeq(s, 1, Len(s))) = Len(s)
      /\ \A i \in 1 .. Len(s) : SubSeq(s, 1, Len(s))[i] = s[i]
  <2>1. \A i \in 1 .. Len(s) : s[i] \in Names
    OBVIOUS
  <2>2. \A i \in 1 .. Len(s) - 1 + 1 : SubSeq(s, 1, Len(s))[i] = s[1 + i - 1]
    BY <1>1, <2>1, SubSeqProperties
  <2>3. /\ SubSeq(s, 1, Len(s)) \in Seq(Names)
        /\ Len(SubSeq(s, 1, Len(s))) = IF 1 <= Len(s) THEN Len(s) - 1 + 1 ELSE 0
    BY <1>1, <2>1, SubSeqProperties
  <2> QED
    BY <1>1, <2>2, <2>3
<1>3. ASSUME Len(s) <= Len(t)
      PROVE  /\ SubSeq(t, 1, Len(s)) \in Seq(Names) /\ Len(SubSeq(t, 1, Len(s))) = Len(s)
             /\ \A i \in 1 .. Len(s) : SubSeq(t, 1, Len(s))[i] = t[i]
  <2>1. \A i \in 1 .. Len(s) : t[i] \in Names
    BY <1>1, <1>3
  <2>2. \A i \in 1 .. Len(s) - 1 + 1 : SubSeq(t, 1, Len(s))[i] = t[1 + i - 1]
    BY <1>1, <2>1, SubSeqProperties
  <2>3. /\ SubSeq(t, 1, Len(s)) \in Seq(Names)
        /\ Len(SubSeq(t, 1, Len(s))) = IF 1 <= Len(s) THEN Len(s) - 1 + 1 ELSE 0
    BY <1>1, <2>1, SubSeqProperties
  <2> QED
    BY <1>1, <2>2, <2>3
<1>4. IsPrefix(s, t) => Len(s) <= Len(t) /\ \A i \in 1 .. Len(s) : s[i] = t[i]
  BY <1>2, <1>3 DEF IsPrefix
<1>5. ASSUME Len(s) <= Len(t), \A i \in 1 .. Len(s) : s[i] = t[i] PROVE IsPrefix(s, t)
  <2> DEFINE u == SubSeq(s, 1, Len(s))
             w == SubSeq(t, 1, Len(s))
  <2>1. u \in Seq(Names) /\ w \in Seq(Names) /\ Len(u) = Len(w)
        /\ \A i \in 1 .. Len(u) : u[i] = w[i]
    BY <1>2, <1>3, <1>5
  <2>2. u = w
    <3> HIDE DEF u, w
    <3> QED
      BY <2>1, SeqEqual
  <2> QED
    BY <1>5, <2>2 DEF IsPrefix
<1> QED
  BY <1>4, <1>5

\* The names of h \o x.
LEMMA Joined ==
  ASSUME NEW h \in Directory, NEW x \in Directory
  PROVE  /\ h \o x \in Directory /\ Len(h \o x) = Len(h) + Len(x)
         /\ \A i \in 1 .. Len(h) : (h \o x)[i] = h[i]
         /\ \A i \in 1 .. Len(x) : (h \o x)[Len(h) + i] = x[i]
<1>1. Len(h) \in Nat /\ Len(x) \in Nat /\ h \in Seq(Names) /\ x \in Seq(Names)
  BY DEF Directory
<1>2. h \o x \in Seq(Names) /\ Len(h \o x) = Len(h) + Len(x)
  BY <1>1, ConcatProperties
<1>3. \A i \in 1 .. Len(h) + Len(x) :
        (h \o x)[i] = IF i <= Len(h) THEN h[i] ELSE x[i - Len(h)]
  BY <1>1, ConcatProperties
<1>4. \A i \in 1 .. Len(h) : (h \o x)[i] = h[i]
  BY <1>1, <1>3
<1>5. \A m, n \in Nat : \A i \in 1 .. n :
        m + i \in 1 .. m + n /\ ~(m + i <= m) /\ m + i - m = i
  OBVIOUS
<1>6. \A i \in 1 .. Len(x) : (h \o x)[Len(h) + i] = x[i]
  BY <1>1, <1>3, <1>5
<1> QED
  BY <1>2, <1>4, <1>6 DEF Directory

LEMMA Named ==
  ASSUME NEW h \in Directory, NEW n \in Names
  PROVE  /\ Append(h, n) \in Directory /\ Len(Append(h, n)) = Len(h) + 1
         /\ \A i \in 1 .. Len(h) : Append(h, n)[i] = h[i]
         /\ Append(h, n)[Len(h) + 1] = n
<1>1. h \in Seq(Names)
  BY DEF Directory
<1> DEFINE w == Append(h, n)
<1>2. w \in Seq(Names) /\ Len(w) = Len(h) + 1
  BY <1>1, AppendProperties, Zenon
<1>3. ASSUME NEW i \in 1 .. Len(h) PROVE w[i] = h[i]
  BY <1>1, SMT
<1>5. w[Len(h) + 1] = n
  BY <1>1, AppendProperties, Zenon
<1> HIDE DEF w
<1>4. w \in Directory
  BY <1>2 DEF Directory
<1> QED
  BY <1>2, <1>3, <1>4, <1>5 DEF w

\* What is in h \o x is in h.
LEMMA InJoined ==
  ASSUME NEW h \in Directory, NEW x \in Directory, NEW t \in Directory, IsPrefix(h \o x, t)
  PROVE  IsPrefix(h, t)
<1>1. Len(h) \in Nat /\ Len(x) \in Nat /\ Len(t) \in Nat
  BY DEF Directory
<1> DEFINE u == h \o x
<1>2. /\ u \in Directory /\ Len(u) = Len(h) + Len(x)
      /\ \A i \in 1 .. Len(h) : u[i] = h[i]
  BY Joined
<1>3. IsPrefix(u, t)
  OBVIOUS
<1> HIDE DEF u
<1>4. Len(u) <= Len(t) /\ \A i \in 1 .. Len(u) : u[i] = t[i]
  BY <1>2, <1>3, PrefixIs
<1>5. \A i \in 1 .. Len(h) : i \in 1 .. Len(u)
  BY <1>1, <1>2
<1>6. \A i \in 1 .. Len(h) : h[i] = t[i]
  BY <1>2, <1>4, <1>5
<1>7. Len(h) <= Len(t)
  BY <1>1, <1>2, <1>4
<1> QED
  BY <1>6, <1>7, PrefixIs

\* What h \o y is in is in h, or h in it.
LEMMA AroundJoined ==
  ASSUME NEW h \in Directory, NEW y \in Directory, NEW s \in Directory, IsPrefix(s, h \o y)
  PROVE  IsPrefix(s, h) \/ IsPrefix(h, s)
<1>1. Len(h) \in Nat /\ Len(y) \in Nat /\ Len(s) \in Nat
  BY DEF Directory
<1> DEFINE u == h \o y
<1>2. u \in Directory /\ \A i \in 1 .. Len(h) : u[i] = h[i]
  BY Joined
<1>3. IsPrefix(s, u)
  OBVIOUS
<1> HIDE DEF u
<1>4. \A i \in 1 .. Len(s) : s[i] = u[i]
  BY <1>2, <1>3, PrefixIs
<1>5. CASE Len(s) <= Len(h)
  <2>1. \A i \in 1 .. Len(s) : i \in 1 .. Len(h)
    BY <1>1, <1>5
  <2>2. \A i \in 1 .. Len(s) : s[i] = h[i]
    BY <1>2, <1>4, <2>1
  <2> QED
    BY <1>5, <2>2, PrefixIs
<1>6. CASE Len(h) <= Len(s)
  <2>1. \A i \in 1 .. Len(h) : i \in 1 .. Len(s)
    BY <1>1, <1>6
  <2>2. \A i \in 1 .. Len(h) : h[i] = s[i]
    BY <1>2, <1>4, <2>1
  <2> QED
    BY <1>6, <2>2, PrefixIs
<1> QED
  BY <1>1, <1>5, <1>6

\* In the same directory only what differs counts.
LEMMA SameParent ==
  ASSUME NEW h \in Directory, NEW x \in Directory, NEW y \in Directory,
         IsPrefix(h \o x, h \o y)
  PROVE  IsPrefix(x, y)
<1>1. Len(h) \in Nat /\ Len(x) \in Nat /\ Len(y) \in Nat
  BY DEF Directory
<1> DEFINE u == h \o x
           w == h \o y
<1>2. /\ u \in Directory /\ Len(u) = Len(h) + Len(x)
      /\ \A i \in 1 .. Len(x) : u[Len(h) + i] = x[i]
  BY Joined
<1>3. /\ w \in Directory /\ Len(w) = Len(h) + Len(y)
      /\ \A i \in 1 .. Len(y) : w[Len(h) + i] = y[i]
  BY Joined
<1>4. IsPrefix(u, w)
  OBVIOUS
<1> HIDE DEF u, w
<1>5. Len(u) <= Len(w) /\ \A i \in 1 .. Len(u) : u[i] = w[i]
  BY <1>2, <1>3, <1>4, PrefixIs
<1>6. \A m, n \in Nat : \A i \in 1 .. n : m + i \in 1 .. m + n
  OBVIOUS
<1>7. Len(x) <= Len(y)
  BY <1>1, <1>2, <1>3, <1>5
<1>8. \A i \in 1 .. Len(x) : Len(h) + i \in 1 .. Len(u) /\ i \in 1 .. Len(y)
  BY <1>1, <1>2, <1>6, <1>7
<1>9. \A i \in 1 .. Len(x) : x[i] = y[i]
  BY <1>2, <1>3, <1>5, <1>8
<1> QED
  BY <1>7, <1>9, PrefixIs

\* A directory for a program is in another one only if its parent is in the other's.
LEMMA InNamed ==
  ASSUME NEW a \in Directory, NEW b \in Directory, NEW m \in Names, NEW n \in Names,
         IsPrefix(Append(a, m), Append(b, n))
  PROVE  IsPrefix(a, b)
<1>1. Len(a) \in Nat /\ Len(b) \in Nat
  BY DEF Directory
<1> DEFINE u == Append(a, m)
           w == Append(b, n)
<1>2. /\ u \in Directory /\ Len(u) = Len(a) + 1
      /\ \A i \in 1 .. Len(a) : u[i] = a[i]
  BY Named
<1>3. /\ w \in Directory /\ Len(w) = Len(b) + 1
      /\ \A i \in 1 .. Len(b) : w[i] = b[i]
  BY Named
<1>4. IsPrefix(u, w)
  OBVIOUS
<1> HIDE DEF u, w
<1>5. Len(u) <= Len(w) /\ \A i \in 1 .. Len(u) : u[i] = w[i]
  BY <1>2, <1>3, <1>4, PrefixIs
<1>6. Len(a) <= Len(b)
  BY <1>1, <1>2, <1>3, <1>5
<1>7. \A i \in 1 .. Len(a) : i \in 1 .. Len(u) /\ i \in 1 .. Len(b)
  BY <1>1, <1>2, <1>6
<1>8. \A i \in 1 .. Len(a) : a[i] = b[i]
  BY <1>2, <1>3, <1>5, <1>7
<1> QED
  BY <1>6, <1>8, PrefixIs

LEMMA HoldsNamed ==
  ASSUME NEW a \in Directory, NEW n \in Names
  PROVE  IsPrefix(a, Append(a, n))
<1> DEFINE w == Append(a, n)
<1>1. Len(a) \in Nat
  BY DEF Directory
<1>2. w \in Directory /\ Len(w) = Len(a) + 1 /\ \A i \in 1 .. Len(a) : w[i] = a[i]
  BY Named
<1> HIDE DEF w
<1>3. IsPrefix(a, w)
  BY <1>1, <1>2, PrefixIs
<1> QED
  BY <1>3 DEF w

LEMMA NotEmpty ==
  ASSUME NEW x \in Directory
  PROVE  Len(x) \in Nat /\ (x # <<>> <=> Len(x) \in Nat \ {0})
<1>1. x \in Seq(Names) /\ Len(x) \in Nat
  BY DEF Directory
<1>2. x = <<>> <=> Len(x) = 0
  BY <1>1, EmptySeq
<1> QED
  BY <1>1, <1>2

LEMMA ShortSequences ==
  ASSUME NEW S, NEW l \in S, NEW m \in S, NEW n \in S
  PROVE  <<n>> \in Seq(S) /\ <<m, n>> \in Seq(S) /\ <<l, m, n>> \in Seq(S)
OBVIOUS

LEMMA OneName ==
  ASSUME NEW n \in Names
  PROVE  <<n>> \in Directory /\ Len(<<n>>) = 1 /\ <<n>>[1] = n
<1>1. <<n>> \in Directory
  BY ShortSequences DEF Directory
<1> QED
  BY <1>1

LEMMA TwoNames ==
  ASSUME NEW m \in Names, NEW n \in Names
  PROVE  /\ <<m, n>> \in Directory /\ Len(<<m, n>>) = 2
         /\ <<m, n>>[1] = m /\ <<m, n>>[2] = n
<1>1. <<m, n>> \in Directory
  BY ShortSequences DEF Directory
<1> QED
  BY <1>1

LEMMA ThreeNames ==
  ASSUME NEW l \in Names, NEW m \in Names, NEW n \in Names
  PROVE  /\ <<l, m, n>> \in Directory /\ Len(<<l, m, n>>) = 3
         /\ <<l, m, n>>[1] = l /\ <<l, m, n>>[2] = m /\ <<l, m, n>>[3] = n
<1>1. <<l, m, n>> \in Directory
  BY ShortSequences DEF Directory
<1> QED
  BY <1>1

\* A name more, within h.
LEMMA JoinedName ==
  ASSUME NEW h \in Directory, NEW x \in Directory, NEW n \in Names
  PROVE  h \o Append(x, n) = Append(h \o x, n)
<1>1. h \in Seq(Names) /\ x \in Seq(Names) /\ <<n>> \in Seq(Names)
  BY OneName DEF Directory
<1>2. h \o x \in Seq(Names)
  BY <1>1, ConcatProperties
<1>3. Append(x, n) = x \o <<n>>
  BY <1>1, AppendIsConcat
<1>4. Append(h \o x, n) = (h \o x) \o <<n>>
  BY <1>2, AppendIsConcat
<1>5. (h \o x) \o <<n>> = h \o (x \o <<n>>)
  BY <1>1, ConcatAssociative
<1> QED
  BY <1>3, <1>4, <1>5

\* A directory apart from h is apart from everything in h.
LEMMA ApartFromAll ==
  ASSUME NEW h \in Directory, NEW x \in Directory, NEW d \in Directory, Disjoint(d, h)
  PROVE  Disjoint(d, h \o x)
BY InJoined, AroundJoined DEF Disjoint

\* Nothing under a name other than "tmp" holds the directory for temporary files.
LEMMA HomeNotTmp ==
  ASSUME NEW h \in Directory, NEW x \in Directory, x # <<>>, x[1] # "tmp"
  PROVE  ~IsPrefix(h \o x, <<"tmp">>)
<1> DEFINE t == <<"tmp">>
           u == h \o x
<1> SUFFICES ASSUME IsPrefix(u, t) PROVE FALSE
  OBVIOUS
<1>1. Len(h) \in Nat /\ Len(x) \in Nat \ {0}
  BY NotEmpty
<1>2. t \in Directory /\ Len(t) = 1 /\ t[1] = "tmp"
  BY OneName DEF Names
<1>3. /\ u \in Directory /\ Len(u) = Len(h) + Len(x)
      /\ \A i \in 1 .. Len(x) : u[Len(h) + i] = x[i]
  BY Joined
<1>4. 1 \in 1 .. Len(x)
  BY <1>1
<1>5. u[Len(h) + 1] = x[1]
  BY <1>3, <1>4
<1> HIDE DEF t, u
<1>6. Len(u) <= Len(t) /\ \A i \in 1 .. Len(u) : u[i] = t[i]
  BY <1>2, <1>3, PrefixIs
<1>7. Len(h) = 0 /\ Len(u) = 1
  BY <1>1, <1>2, <1>3, <1>6
<1> QED
  BY <1>2, <1>5, <1>6, <1>7

\* Nothing in h holds h.
LEMMA NotAround ==
  ASSUME NEW h \in Directory, NEW x \in Directory, x # <<>>
  PROVE  ~IsPrefix(h \o x, h)
<1> DEFINE u == h \o x
<1>1. Len(h) \in Nat /\ Len(x) \in Nat \ {0}
  BY NotEmpty
<1>2. u \in Directory /\ Len(u) = Len(h) + Len(x)
  BY Joined
<1> HIDE DEF u
<1>3. ~IsPrefix(u, h)
  BY <1>1, <1>2, PrefixIs
<1> QED
  BY <1>3 DEF u

-----------------------------------------------------------------------------
(* The directories themselves, without the program's name at their end.    *)

\* A variable that is set to a directory of its own.
SetApart(env, home, v) == env[v] # Unset /\ OwnDirectory(env, home, v)

CachesAtHome == {<<".cache">>, <<"Library", "Caches">>}

OthersAtHome == {<<"Library", "Application Support">>, <<".local", "share">>, <<".config">>,
                 <<"AppData", "Local", "Temp">>}

CacheParents(env, home) ==
  {home \o x : x \in CachesAtHome} \cup
  {d \in Directory : SetApart(env, home, "XDG_CACHE_HOME") /\ d = env["XDG_CACHE_HOME"]}

OtherParents(env, home) ==
  {<<"tmp">>} \cup {home \o x : x \in OthersAtHome} \cup
  {d \in Directory :
     \E v \in Variables \ {"XDG_CACHE_HOME"} : SetApart(env, home, v) /\ d = env[v]}

LEMMA AtHome ==
  /\ \A x \in CachesAtHome : x \in Directory /\ x # <<>> /\ x[1] # "tmp"
  /\ \A y \in OthersAtHome : y \in Directory
  /\ \A x \in CachesAtHome, y \in OthersAtHome : ~IsPrefix(x, y)
<1>1. ASSUME NEW x \in CachesAtHome
      PROVE  /\ x \in Directory /\ x # <<>> /\ x[1] # "tmp"
             /\ \/ Len(x) = 1 /\ x[1] = ".cache"
                \/ Len(x) = 2 /\ x[1] = "Library" /\ x[2] = "Caches"
  <2>1. CASE x = <<".cache">>
    <3>1. x \in Directory /\ Len(x) = 1 /\ x[1] = ".cache"
      BY <2>1, OneName DEF Names
    <3> QED
      BY <3>1, NotEmpty
  <2>2. CASE x = <<"Library", "Caches">>
    <3>1. x \in Directory /\ Len(x) = 2 /\ x[1] = "Library" /\ x[2] = "Caches"
      BY <2>2, TwoNames DEF Names
    <3> QED
      BY <3>1, NotEmpty
  <2> QED
    BY <2>1, <2>2 DEF CachesAtHome
<1>2. ASSUME NEW y \in OthersAtHome
      PROVE  /\ y \in Directory
             /\ \/ Len(y) = 2 /\ y[1] = "Library" /\ y[2] = "Application Support"
                \/ y[1] \in {".local", ".config", "AppData"}
  <2>1. CASE y = <<"Library", "Application Support">>
    BY <2>1, TwoNames DEF Names
  <2>2. CASE y = <<".local", "share">>
    BY <2>2, TwoNames DEF Names
  <2>3. CASE y = <<".config">>
    BY <2>3, OneName DEF Names
  <2>4. CASE y = <<"AppData", "Local", "Temp">>
    BY <2>4, ThreeNames DEF Names
  <2> QED
    BY <2>1, <2>2, <2>3, <2>4 DEF OthersAtHome
<1>3. ASSUME NEW x \in CachesAtHome, NEW y \in OthersAtHome, IsPrefix(x, y) PROVE FALSE
  <2>1. Len(x) <= Len(y) /\ \A i \in 1 .. Len(x) : x[i] = y[i]
    BY <1>1, <1>2, <1>3, PrefixIs
  <2>2. x[1] = y[1] /\ (Len(x) = 2 => x[2] = y[2])
    <3>1. Len(x) \in Nat \ {0}
      BY <1>1, NotEmpty
    <3> QED
      BY <2>1, <3>1
  <2>3. \/ Len(x) = 1 /\ x[1] = ".cache"
        \/ Len(x) = 2 /\ x[1] = "Library" /\ x[2] = "Caches"
    BY <1>1
  <2>4. \/ Len(y) = 2 /\ y[1] = "Library" /\ y[2] = "Application Support"
        \/ y[1] \in {".local", ".config", "AppData"}
    BY <1>2
  <2> QED
    BY <2>2, <2>3, <2>4
<1> QED
  BY <1>1, <1>2, <1>3

\* Where a cache is, nothing else is, on the systems other than Windows.
LEMMA ParentsApart ==
  ASSUME NEW home \in Directory, NEW env \in [Variables -> Directory],
         NEW c \in CacheParents(env, home), NEW b \in OtherParents(env, home)
  PROVE  ~IsPrefix(c, b)
<1>1. <<"tmp">> \in Directory
  BY OneName DEF Names
<1>2. \/ \E x \in CachesAtHome : c = home \o x
      \/ SetApart(env, home, "XDG_CACHE_HOME") /\ c = env["XDG_CACHE_HOME"]
  BY DEF CacheParents
<1>3. \/ b = <<"tmp">>
      \/ \E y \in OthersAtHome : b = home \o y
      \/ \E v \in Variables \ {"XDG_CACHE_HOME"} : SetApart(env, home, v) /\ b = env[v]
  BY DEF OtherParents
<1>4. "XDG_CACHE_HOME" \in Variables
  BY DEF Variables
<1>5. CASE \E x \in CachesAtHome : c = home \o x
  <2> PICK x \in CachesAtHome : c = home \o x
    BY <1>5
  <2>1. x \in Directory /\ x # <<>> /\ x[1] # "tmp"
    BY AtHome
  <2>2. CASE b = <<"tmp">>
    BY <2>1, <2>2, HomeNotTmp
  <2>3. CASE \E y \in OthersAtHome : b = home \o y
    <3> PICK y \in OthersAtHome : b = home \o y
      BY <2>3
    <3>1. y \in Directory /\ ~IsPrefix(x, y)
      BY AtHome
    <3> QED
      BY <2>1, <3>1, SameParent
  <2>4. CASE \E v \in Variables \ {"XDG_CACHE_HOME"} : SetApart(env, home, v) /\ b = env[v]
    <3> PICK v \in Variables \ {"XDG_CACHE_HOME"} : SetApart(env, home, v) /\ b = env[v]
      BY <2>4
    <3>1. b \in Directory /\ Disjoint(b, home)
      BY DEF SetApart, OwnDirectory
    <3> QED
      BY <2>1, <3>1, ApartFromAll DEF Disjoint
  <2> QED
    BY <1>3, <2>2, <2>3, <2>4
<1>6. CASE SetApart(env, home, "XDG_CACHE_HOME") /\ c = env["XDG_CACHE_HOME"]
  <2>1. /\ c \in Directory /\ Disjoint(c, home) /\ Disjoint(c, <<"tmp">>)
        /\ \A w \in Variables \ {"XDG_CACHE_HOME"} : env[w] # Unset => Disjoint(c, env[w])
    BY <1>4, <1>6 DEF SetApart, OwnDirectory
  <2>2. CASE b = <<"tmp">>
    BY <2>1, <2>2 DEF Disjoint
  <2>3. CASE \E y \in OthersAtHome : b = home \o y
    <3> PICK y \in OthersAtHome : b = home \o y
      BY <2>3
    <3>1. y \in Directory
      BY AtHome
    <3> QED
      BY <2>1, <3>1, ApartFromAll DEF Disjoint
  <2>4. CASE \E v \in Variables \ {"XDG_CACHE_HOME"} : SetApart(env, home, v) /\ b = env[v]
    BY <2>1, <2>4 DEF Disjoint, SetApart
  <2> QED
    BY <1>3, <2>2, <2>3, <2>4
<1> QED
  BY <1>2, <1>5, <1>6

LEMMA LastName ==
  ASSUME NEW h \in Directory, NEW a \in Names, NEW b \in Names, NEW n \in Names
  PROVE  /\ h \o <<a, n>> = Append(h \o <<a>>, n)
         /\ h \o <<a, b, n>> = Append(h \o <<a, b>>, n)
<1>1. <<a>> \in Directory /\ <<a, b>> \in Directory
  BY OneName, TwoNames
<1>2. Append(<<a>>, n) = <<a, n>>
  <2> DEFINE u == Append(<<a>>, n)
             w == <<a, n>>
  <2>1. u \in Directory /\ Len(u) = 2 /\ u[1] = a /\ u[2] = n
    BY <1>1, Named, OneName
  <2>2. w \in Directory /\ Len(w) = 2 /\ w[1] = a /\ w[2] = n
    BY TwoNames
  <2> HIDE DEF u, w
  <2>3. u \in Seq(Names) /\ w \in Seq(Names) /\ \A i \in 1 .. Len(u) : u[i] = w[i]
    BY <2>1, <2>2 DEF Directory
  <2>4. u = w
    BY <2>1, <2>2, <2>3, SeqEqual
  <2> QED
    BY <2>4 DEF u, w
<1>5. Append(<<a, b>>, n) = <<a, b, n>>
  <2> DEFINE u == Append(<<a, b>>, n)
             w == <<a, b, n>>
  <2>1. u \in Directory /\ Len(u) = 3 /\ u[1] = a /\ u[2] = b /\ u[3] = n
    BY <1>1, Named, TwoNames
  <2>2. w \in Directory /\ Len(w) = 3 /\ w[1] = a /\ w[2] = b /\ w[3] = n
    BY ThreeNames
  <2> HIDE DEF u, w
  <2>3. u \in Seq(Names) /\ w \in Seq(Names) /\ \A i \in 1 .. Len(u) : u[i] = w[i]
    BY <2>1, <2>2 DEF Directory
  <2>4. u = w
    BY <2>1, <2>2, <2>3, SeqEqual
  <2> QED
    BY <2>4 DEF u, w
<1>3. h \o Append(<<a>>, n) = Append(h \o <<a>>, n)
  BY <1>1, JoinedName
<1>4. h \o Append(<<a, b>>, n) = Append(h \o <<a, b>>, n)
  BY <1>1, JoinedName
<1> QED
  BY <1>2, <1>3, <1>4, <1>5

\* The parents are directories.
LEMMA ParentsAreDirectories ==
  ASSUME NEW home \in Directory, NEW env \in [Variables -> Directory]
  PROVE  CacheParents(env, home) \subseteq Directory /\ OtherParents(env, home) \subseteq Directory
<1>1. <<"tmp">> \in Directory
  BY OneName DEF Names
<1>2. \A x \in CachesAtHome \cup OthersAtHome : home \o x \in Directory
  BY AtHome, Joined
<1> QED
  BY <1>1, <1>2 DEF CacheParents, OtherParents

\* A variable that is set is usual or apart.
LEMMA WhatIsSet ==
  ASSUME NEW home \in Directory, NEW env \in [Variables -> Directory], Tidy(env, home),
         NEW v \in Variables, env[v] # Unset
  PROVE  /\ env[v] \in Usual(v, home) \/ SetApart(env, home, v)
         /\ env[v] \in Directory
BY DEF Tidy, SetApart

\* Where data are by default, the name comes last.
LEMMA DataNameLast ==
  ASSUME NEW home \in Directory, NEW name \in Names
  PROVE  /\ home \o <<"Library", "Application Support", name>>
              = Append(home \o <<"Library", "Application Support">>, name)
         /\ home \o <<".local", "share", name>> = Append(home \o <<".local", "share">>, name)
<1>1. "Library" \in Names /\ "Application Support" \in Names
  BY DEF Names
<1>2. ".local" \in Names /\ "share" \in Names
  BY DEF Names
<1>3. home \o <<"Library", "Application Support", name>>
        = Append(home \o <<"Library", "Application Support">>, name)
  BY <1>1, LastName
<1>4. home \o <<".local", "share", name>> = Append(home \o <<".local", "share">>, name)
  BY <1>2, LastName
<1> QED
  BY <1>3, <1>4

\* On the systems other than Windows.
LEMMA CacheHasParent ==
  ASSUME NEW home \in Directory, NEW env \in [Variables -> Directory], Tidy(env, home),
         NEW name \in Names, NEW os \in Systems \ {"windows"}
  PROVE  \E c \in CacheParents(env, home) : CacheDir(os, env, home, name) = Append(c, name)
<1>1. os \in {"linux", "darwin", "freebsd"}
  BY DEF Systems
<1>2. home \o <<".cache", name>> = Append(home \o <<".cache">>, name)
  <2>1. ".cache" \in Names
    BY DEF Names
  <2> QED
    BY <2>1, LastName
<1>3. home \o <<"Library", "Caches", name>> = Append(home \o <<"Library", "Caches">>, name)
  <2>1. "Library" \in Names /\ "Caches" \in Names
    BY DEF Names
  <2> QED
    BY <2>1, LastName
<1>4. home \o <<".cache">> \in CacheParents(env, home)
  BY DEF CacheParents, CachesAtHome
<1>5. home \o <<"Library", "Caches">> \in CacheParents(env, home)
  BY DEF CacheParents, CachesAtHome
<1>6. CASE os = "darwin"
  BY <1>3, <1>5, <1>6 DEF CacheDir
<1>7. CASE os = "freebsd"
  BY <1>2, <1>4, <1>7 DEF CacheDir
<1>8. CASE os = "linux"
  <2> DEFINE c == Or(env, "XDG_CACHE_HOME", home \o <<".cache">>)
  <2>1. "XDG_CACHE_HOME" \in Variables
    BY DEF Variables
  <2>2. c \in CacheParents(env, home)
    <3>1. CASE env["XDG_CACHE_HOME"] = Unset
      BY <1>4, <3>1 DEF Or
    <3>2. CASE env["XDG_CACHE_HOME"] # Unset
      <4>1. /\ \/ env["XDG_CACHE_HOME"] \in Usual("XDG_CACHE_HOME", home)
               \/ SetApart(env, home, "XDG_CACHE_HOME")
            /\ env["XDG_CACHE_HOME"] \in Directory
        BY <2>1, <3>2, WhatIsSet
      <4>2. Usual("XDG_CACHE_HOME", home) = {home \o <<".cache">>}
        BY DEF Usual
      <4>3. c = env["XDG_CACHE_HOME"]
        BY <3>2 DEF Or
      <4> HIDE DEF c
      <4> QED
        BY <1>4, <4>1, <4>2, <4>3 DEF CacheParents
    <3> QED
      BY <3>1, <3>2
  <2>3. CacheDir(os, env, home, name) = Append(c, name)
    BY <1>8 DEF CacheDir
  <2> QED
    BY <2>2, <2>3
<1> QED
  BY <1>1, <1>6, <1>7, <1>8

\* v, or a directory where others are, is where others are.
LEMMA OrOther ==
  ASSUME NEW home \in Directory, NEW env \in [Variables -> Directory], Tidy(env, home),
         NEW v \in Variables \ {"XDG_CACHE_HOME"}, NEW default \in OtherParents(env, home),
         Usual(v, home) \subseteq OtherParents(env, home)
  PROVE  Or(env, v, default) \in OtherParents(env, home)
<1>1. CASE env[v] = Unset
  BY <1>1 DEF Or
<1>2. CASE env[v] # Unset
  <2>1. Or(env, v, default) = env[v]
    BY <1>2 DEF Or
  <2>2. (env[v] \in Usual(v, home) \/ SetApart(env, home, v)) /\ env[v] \in Directory
    BY <1>2, WhatIsSet
  <2> QED
    BY <2>1, <2>2 DEF OtherParents
<1> QED
  BY <1>1, <1>2

LEMMA OthersHaveParents ==
  ASSUME NEW home \in Directory, NEW env \in [Variables -> Directory], Tidy(env, home),
         NEW name \in Names, NEW os \in Systems \ {"windows"},
         NEW dir \in {DataDir(os, env, home, name), ConfigDir(os, env, home, name),
                      RuntimeDir(os, env, home, name)}
  PROVE  dir = <<>> \/ \E b \in OtherParents(env, home) : dir = Append(b, name)
<1> DEFINE others == OtherParents(env, home)
<1>1. os \in {"linux", "darwin", "freebsd"}
  BY DEF Systems
<1>2. {"XDG_RUNTIME_DIR", "XDG_DATA_HOME", "XDG_CONFIG_HOME", "TMPDIR"}
        \subseteq Variables \ {"XDG_CACHE_HOME"}
  BY DEF Variables
<1>3. /\ <<"tmp">> \in others
      /\ home \o <<"Library", "Application Support">> \in others
      /\ home \o <<".local", "share">> \in others
      /\ home \o <<".config">> \in others
      /\ home \o <<"AppData", "Local", "Temp">> \in others
  BY DEF OtherParents, OthersAtHome
<1>4. /\ Usual("XDG_RUNTIME_DIR", home) = {}
      /\ Usual("XDG_DATA_HOME", home) = {home \o <<".local", "share">>}
      /\ Usual("XDG_CONFIG_HOME", home) = {home \o <<".config">>}
      /\ Usual("TMPDIR", home) = {<<"tmp">>, home \o <<"AppData", "Local", "Temp">>}
  BY DEF Usual
<1> HIDE DEF others
<1>5. TempDir(os, env, home) \in others
  <2>1. Usual("TMPDIR", home) \subseteq others
    BY <1>3, <1>4
  <2>2. TempDir(os, env, home) = Or(env, "TMPDIR", <<"tmp">>)
    BY DEF TempDir
  <2> QED
    BY <1>2, <1>3, <2>1, <2>2, OrOther DEF others
<1>6. Or(env, "XDG_RUNTIME_DIR", TempDir(os, env, home)) \in others
  BY <1>2, <1>4, <1>5, OrOther DEF others
<1>7. Or(env, "XDG_DATA_HOME", home \o <<".local", "share">>) \in others
  <2>1. Usual("XDG_DATA_HOME", home) \subseteq others
    BY <1>3, <1>4
  <2> QED
    BY <1>2, <1>3, <2>1, OrOther DEF others
<1>8. Or(env, "XDG_CONFIG_HOME", home \o <<".config">>) \in others
  <2>1. Usual("XDG_CONFIG_HOME", home) \subseteq others
    BY <1>3, <1>4
  <2> QED
    BY <1>2, <1>3, <2>1, OrOther DEF others
<1>9. \E b \in others : RuntimeDir(os, env, home, name) = Append(b, name)
  BY <1>5, <1>6 DEF RuntimeDir
<1>10. \E b \in others : DataDir(os, env, home, name) = Append(b, name)
  <2>1. home \o <<"Library", "Application Support", name>>
          = Append(home \o <<"Library", "Application Support">>, name)
    BY DataNameLast
  <2>2. home \o <<".local", "share", name>> = Append(home \o <<".local", "share">>, name)
    BY DataNameLast
  <2> QED
    BY <1>1, <1>3, <1>7, <2>1, <2>2 DEF DataDir
<1>11. \/ ConfigDir(os, env, home, name) = <<>>
       \/ \E b \in others : ConfigDir(os, env, home, name) = Append(b, name)
  <2> DEFINE base == UserConfigDir(os, env, home)
  <2>1. base \in others
    BY <1>1, <1>3, <1>8 DEF UserConfigDir
  <2>2. ConfigDir(os, env, home, name) = IF base = Unset THEN Unset ELSE Append(base, name)
    BY DEF ConfigDir
  <2> HIDE DEF base
  <2> QED
    BY <2>1, <2>2 DEF Unset
<1> QED
  BY <1>9, <1>10, <1>11 DEF others

LEMMA UnixApart ==
  ASSUME NEW home \in Directory, NEW env \in [Variables -> Directory], Tidy(env, home),
         NEW name \in Names, NEW os \in Systems \ {"windows"},
         NEW dir \in {DataDir(os, env, home, name), ConfigDir(os, env, home, name),
                      RuntimeDir(os, env, home, name)}
  PROVE  ~IsPrefix(CacheDir(os, env, home, name), dir)
<1>1. PICK c \in CacheParents(env, home) : CacheDir(os, env, home, name) = Append(c, name)
  BY CacheHasParent
<1>2. c \in Directory
  BY ParentsAreDirectories
<1>3. CASE dir = <<>>
  <2> DEFINE u == Append(c, name)
  <2>1. u \in Directory /\ Len(u) = Len(c) + 1 /\ Len(c) \in Nat
    BY <1>2, Named, NotEmpty
  <2>2. <<>> \in Directory /\ Len(<<>>) = 0
    BY EmptySeq DEF Directory
  <2> HIDE DEF u
  <2>3. ~IsPrefix(u, <<>>)
    BY <2>1, <2>2, PrefixIs
  <2> QED
    BY <1>1, <1>3, <2>3 DEF u
<1>4. CASE \E b \in OtherParents(env, home) : dir = Append(b, name)
  <2>1. PICK b \in OtherParents(env, home) : dir = Append(b, name)
    BY <1>4
  <2>2. b \in Directory /\ ~IsPrefix(c, b)
    BY ParentsAreDirectories, ParentsApart
  <2>3. ~IsPrefix(Append(c, name), Append(b, name))
    BY <1>2, <2>2, InNamed
  <2> QED
    BY <1>1, <2>1, <2>3
<1> QED
  BY <1>3, <1>4, OthersHaveParents

LEMMA AppendJoins ==
  ASSUME NEW h \in Directory, NEW n \in Names
  PROVE  Append(h, n) = h \o <<n>>
<1>1. h \in Seq(Names)
  BY DEF Directory
<1> QED
  BY <1>1, AppendIsConcat

\* On Windows.
LocalParents(env, home) ==
  {home, <<"tmp">>, home \o <<"AppData", "Roaming">>} \cup
  {d \in Directory :
     \E v \in Variables \ {"LOCALAPPDATA"} : SetApart(env, home, v) /\ d = env[v]}

LEMMA LocalIs ==
  ASSUME NEW home \in Directory, NEW env \in [Variables -> Directory], Tidy(env, home)
  PROVE  /\ LocalAppData(env, home) \in Directory
         /\ \/ LocalAppData(env, home) = home \o <<"AppData", "Local">>
            \/ /\ SetApart(env, home, "LOCALAPPDATA")
               /\ LocalAppData(env, home) = env["LOCALAPPDATA"]
<1>1. "LOCALAPPDATA" \in Variables
  BY DEF Variables
<1>2. home \o <<"AppData", "Local">> \in Directory
  <2>1. "AppData" \in Names /\ "Local" \in Names
    BY DEF Names
  <2> QED
    BY <2>1, TwoNames, Joined
<1>3. CASE env["LOCALAPPDATA"] = Unset
  BY <1>2, <1>3 DEF LocalAppData, Or
<1>4. CASE env["LOCALAPPDATA"] # Unset
  <2>1. LocalAppData(env, home) = env["LOCALAPPDATA"]
    BY <1>4 DEF LocalAppData, Or
  <2>2. Usual("LOCALAPPDATA", home) = {home \o <<"AppData", "Local">>}
    BY DEF Usual
  <2>3. /\ \/ env["LOCALAPPDATA"] \in Usual("LOCALAPPDATA", home)
           \/ SetApart(env, home, "LOCALAPPDATA")
        /\ env["LOCALAPPDATA"] \in Directory
    BY <1>1, <1>4, WhatIsSet
  <2> QED
    BY <2>1, <2>2, <2>3
<1> QED
  BY <1>3, <1>4

LEMMA LocalApart ==
  ASSUME NEW home \in Directory, NEW env \in [Variables -> Directory], Tidy(env, home),
         NEW b \in LocalParents(env, home)
  PROVE  b \in Directory /\ ~IsPrefix(LocalAppData(env, home), b)
<1> DEFINE l == LocalAppData(env, home)
           local == <<"AppData", "Local">>
           roaming == <<"AppData", "Roaming">>
<1>1. /\ l \in Directory
      /\ \/ l = home \o local
         \/ SetApart(env, home, "LOCALAPPDATA") /\ l = env["LOCALAPPDATA"]
  BY LocalIs
<1>2. "AppData" \in Names /\ "Local" \in Names /\ "Roaming" \in Names /\ "tmp" \in Names
  BY DEF Names
<1>3. local \in Directory /\ Len(local) = 2 /\ local[1] = "AppData" /\ local[2] = "Local"
  BY <1>2, TwoNames
<1>4. roaming \in Directory /\ Len(roaming) = 2 /\ roaming[2] = "Roaming"
  BY <1>2, TwoNames
<1>5. local # <<>>
  BY <1>3, NotEmpty
<1>6. <<"tmp">> \in Directory
  BY <1>2, OneName
<1>7. \/ b = home \/ b = <<"tmp">> \/ b = home \o roaming
      \/ \E v \in Variables \ {"LOCALAPPDATA"} : SetApart(env, home, v) /\ b = env[v]
  BY DEF LocalParents
<1>8. "LOCALAPPDATA" \in Variables
  BY DEF Variables
<1> HIDE DEF l, local, roaming
<1>9. ~IsPrefix(local, roaming)
  <2>1. 2 \in 1 .. Len(local) /\ local[2] # roaming[2]
    BY <1>3, <1>4
  <2> QED
    BY <1>3, <1>4, <2>1, PrefixIs
<1>10. b \in Directory
  <2>1. home \o roaming \in Directory
    BY <1>4, Joined
  <2> QED
    BY <1>6, <1>7, <2>1
<1>11. CASE l = home \o local
  <2> SUFFICES ~IsPrefix(l, b)
    BY <1>10 DEF l
  <2>1. CASE b = home
    BY <1>3, <1>5, <1>11, <2>1, NotAround
  <2>2. CASE b = <<"tmp">>
    BY <1>3, <1>5, <1>11, <2>2, HomeNotTmp
  <2>3. CASE b = home \o roaming
    BY <1>3, <1>4, <1>9, <1>11, <2>3, SameParent
  <2>4. CASE \E v \in Variables \ {"LOCALAPPDATA"} : SetApart(env, home, v) /\ b = env[v]
    <3>1. Disjoint(b, home)
      BY <2>4 DEF SetApart, OwnDirectory
    <3> QED
      BY <1>3, <1>10, <1>11, <3>1, ApartFromAll DEF Disjoint
  <2> QED
    BY <1>7, <2>1, <2>2, <2>3, <2>4
<1>12. CASE SetApart(env, home, "LOCALAPPDATA") /\ l = env["LOCALAPPDATA"]
  <2> SUFFICES ~IsPrefix(l, b)
    BY <1>10 DEF l
  <2>1. /\ Disjoint(l, home) /\ Disjoint(l, <<"tmp">>)
        /\ \A w \in Variables \ {"LOCALAPPDATA"} : env[w] # Unset => Disjoint(l, env[w])
    BY <1>12 DEF SetApart, OwnDirectory
  <2>2. CASE b = home \/ b = <<"tmp">>
    BY <2>1, <2>2 DEF Disjoint
  <2>3. CASE b = home \o roaming
    BY <1>1, <1>4, <2>1, <2>3, ApartFromAll DEF Disjoint
  <2>4. CASE \E v \in Variables \ {"LOCALAPPDATA"} : SetApart(env, home, v) /\ b = env[v]
    BY <2>1, <2>4 DEF Disjoint, SetApart
  <2> QED
    BY <1>7, <2>2, <2>3, <2>4
<1> QED
  BY <1>1, <1>11, <1>12 DEF l, local

\* What the cache holds, under a directory b for a name n.
LEMMA CacheOnWindows ==
  ASSUME NEW home \in Directory, NEW env \in [Variables -> Directory], Tidy(env, home),
         NEW name \in Names, NEW n \in Names, NEW b \in Directory,
         IsPrefix(CacheDir("windows", env, home, name), Append(b, n))
  PROVE  /\ IsPrefix(Append(LocalAppData(env, home), name), b)
         /\ IsPrefix(LocalAppData(env, home), b)
<1> DEFINE l == LocalAppData(env, home)
<1>1. l \in Directory
  BY LocalIs
<1>2. CacheDir("windows", env, home, name) = l \o <<name, "cache">>
  BY DEF CacheDir
<1>3. "cache" \in Names
  BY DEF Names
<1>4. <<name>> \in Directory
  BY OneName
<1> HIDE DEF l
<1>5. l \o <<name, "cache">> = Append(l \o <<name>>, "cache")
  BY <1>1, <1>3, LastName
<1>6. Append(l, name) = l \o <<name>> /\ l \o <<name>> \in Directory
  BY <1>1, <1>4, AppendJoins, Joined
<1>7. IsPrefix(l \o <<name>>, b)
  BY <1>2, <1>3, <1>5, <1>6, InNamed
<1>8. IsPrefix(l, b)
  BY <1>1, <1>4, <1>7, InJoined
<1> QED
  BY <1>6, <1>7, <1>8 DEF l

\* The directory for temporary files is in that of the data, as the cache is.
LEMMA CacheNotTemp ==
  ASSUME NEW l \in Directory, NEW name \in Names
  PROVE  ~IsPrefix(l \o <<name, "cache">>, Append(Append(l, "Temp"), name))
<1> DEFINE x == <<name, "cache">>
           y == <<"Temp", name>>
<1>1. "cache" \in Names /\ "Temp" \in Names
  BY DEF Names
<1>2. x \in Directory /\ Len(x) = 2 /\ x[1] = name /\ x[2] = "cache"
  BY <1>1, TwoNames
<1>3. y \in Directory /\ Len(y) = 2 /\ y[1] = "Temp" /\ y[2] = name
  BY <1>1, TwoNames
<1>4. Append(l, "Temp") = l \o <<"Temp">> /\ l \o <<"Temp", name>> = Append(l \o <<"Temp">>, name)
  BY <1>1, AppendJoins, LastName
<1>5. Append(Append(l, "Temp"), name) = l \o y
  BY <1>4
<1> HIDE DEF x, y
<1>6. ~IsPrefix(x, y)
  <2>1. 1 \in 1 .. Len(x) /\ 2 \in 1 .. Len(x) /\ ~(x[1] = y[1] /\ x[2] = y[2])
    BY <1>2, <1>3
  <2> QED
    BY <1>2, <1>3, <2>1, PrefixIs
<1>7. ~IsPrefix(l \o x, l \o y)
  BY <1>2, <1>3, <1>6, SameParent
<1> QED
  BY <1>5, <1>7 DEF x

LEMMA WindowsApart ==
  ASSUME NEW home \in Directory, NEW env \in [Variables -> Directory], Tidy(env, home),
         NEW name \in Names
  PROVE  /\ ~IsPrefix(CacheDir("windows", env, home, name), DataDir("windows", env, home, name))
         /\ ~IsPrefix(CacheDir("windows", env, home, name), ConfigDir("windows", env, home, name))
         /\ ~IsPrefix(CacheDir("windows", env, home, name), RuntimeDir("windows", env, home, name))
<1> DEFINE l == LocalAppData(env, home)
           cache == CacheDir("windows", env, home, name)
<1>1. l \in Directory
  BY LocalIs
<1>2. <<name>> \in Directory /\ <<name>> # <<>>
  BY OneName, NotEmpty
<1>3. {"AppData", "TMPDIR"} \subseteq Variables \ {"LOCALAPPDATA"}
  BY DEF Variables
<1>4. ~IsPrefix(cache, DataDir("windows", env, home, name))
  <2>1. DataDir("windows", env, home, name) = Append(l, name)
    BY DEF DataDir
  <2>2. Append(l, name) = l \o <<name>>
    BY <1>1, AppendJoins
  <2>3. ~IsPrefix(l \o <<name>>, l)
    BY <1>1, <1>2, NotAround
  <2> QED
    BY <1>1, <2>1, <2>2, <2>3, CacheOnWindows
<1>5. \A v \in {"AppData", "TMPDIR"} :
        env[v] # Unset /\ SetApart(env, home, v) => env[v] \in LocalParents(env, home)
  BY <1>3 DEF LocalParents
<1>6. ~IsPrefix(cache, ConfigDir("windows", env, home, name))
  <2> DEFINE b == env["AppData"]
  <2>1. ConfigDir("windows", env, home, name) = IF b = Unset THEN Unset ELSE Append(b, name)
    BY DEF ConfigDir, UserConfigDir
  <2>2. CASE b = Unset
    <3>1. <<>> \in Directory /\ Len(<<>>) = 0
      BY EmptySeq DEF Directory
    <3>2. <<name, "cache">> \in Directory /\ Len(<<name, "cache">>) = 2
      BY TwoNames DEF Names
    <3>3. cache = l \o <<name, "cache">>
      BY DEF CacheDir
    <3>4. cache \in Directory /\ Len(cache) = Len(l) + 2 /\ Len(l) \in Nat
      <4> HIDE DEF cache, l
      <4> QED
        BY <1>1, <3>2, <3>3, Joined, NotEmpty
    <3> HIDE DEF cache, l, b
    <3>5. ~IsPrefix(cache, <<>>)
      BY <3>1, <3>4, PrefixIs
    <3> QED
      BY <2>1, <2>2, <3>5 DEF Unset
  <2>3. CASE b # Unset
    <3>1. b \in Usual("AppData", home) \/ SetApart(env, home, "AppData")
      BY <1>3, <2>3, WhatIsSet
    <3>2. Usual("AppData", home) = {home \o <<"AppData", "Roaming">>}
      BY DEF Usual
    <3>3. b \in LocalParents(env, home)
      BY <1>5, <2>3, <3>1, <3>2 DEF LocalParents
    <3>4. b \in Directory /\ ~IsPrefix(l, b)
      BY <3>3, LocalApart
    <3>5. ~IsPrefix(cache, Append(b, name))
      BY <3>4, CacheOnWindows
    <3> QED
      BY <2>1, <2>3, <3>5
  <2> QED
    BY <2>2, <2>3
<1>7. ~IsPrefix(cache, RuntimeDir("windows", env, home, name))
  <2> DEFINE t == TempDir("windows", env, home)
             temp == home \o <<"AppData", "Local", "Temp">>
  <2>1. RuntimeDir("windows", env, home, name) = Append(t, name)
    BY DEF RuntimeDir
  <2>2. \/ t \in {home, <<"tmp">>, temp}
        \/ t = env["TMPDIR"] /\ env["TMPDIR"] # Unset /\ SetApart(env, home, "TMPDIR")
    <3>1. t = IF env["TMPDIR"] # Unset THEN env["TMPDIR"] ELSE home
      BY DEF TempDir, Or
    <3>2. Usual("TMPDIR", home) = {<<"tmp">>, temp}
      BY DEF Usual
    <3>3. env["TMPDIR"] # Unset =>
            env["TMPDIR"] \in Usual("TMPDIR", home) \/ SetApart(env, home, "TMPDIR")
      BY <1>3, WhatIsSet
    <3> HIDE DEF t, temp
    <3> QED
      BY <3>1, <3>2, <3>3
  <2> HIDE DEF t
  <2>3. CASE t \in LocalParents(env, home)
    <3>1. t \in Directory /\ ~IsPrefix(l, t)
      BY <2>3, LocalApart
    <3> QED
      BY <2>1, <3>1, CacheOnWindows
  <2>4. CASE t = temp
    <3>1. {"AppData", "Local", "Temp"} \subseteq Names
      BY DEF Names
    <3>2. <<"AppData", "Local", "Temp">> \in Directory /\ <<"AppData", "Local">> \in Directory
      BY <3>1, ThreeNames, TwoNames
    <3>3. t \in Directory
      BY <2>4, <3>2, Joined
    <3>4. CASE l = home \o <<"AppData", "Local">>
      <4>1. temp = Append(l, "Temp")
        BY <3>1, <3>4, LastName
      <4>2. ~IsPrefix(l \o <<name, "cache">>, Append(Append(l, "Temp"), name))
        BY <1>1, CacheNotTemp
      <4>3. cache = l \o <<name, "cache">>
        BY DEF CacheDir
      <4> QED
        BY <2>1, <2>4, <4>1, <4>2, <4>3
    <3>5. CASE SetApart(env, home, "LOCALAPPDATA") /\ l = env["LOCALAPPDATA"]
      <4>1. Disjoint(l, home)
        BY <3>5 DEF SetApart, OwnDirectory
      <4> HIDE DEF l
      <4>2. ~IsPrefix(l, t)
        BY <1>1, <2>4, <3>2, <4>1, ApartFromAll DEF Disjoint
      <4> QED
        BY <2>1, <3>3, <4>2, CacheOnWindows DEF l
    <3> QED
      BY <3>4, <3>5, LocalIs
  <2>5. t = temp \/ t \in LocalParents(env, home)
    BY <1>5, <2>2 DEF LocalParents
  <2> QED
    BY <2>3, <2>4, <2>5
<1> QED
  BY <1>4, <1>6, <1>7

\* Data, configuration and sockets are in no cache; the binaries are.
LEMMA EverywhereApart ==
  ASSUME NEW home \in Seq(STRING), NEW env \in [Variables -> Seq(STRING)], Tidy(env, home),
         NEW name \in STRING, NEW os \in Systems
  PROVE  Apart(os, env, home, name)
<1> DEFINE cache == CacheDir(os, env, home, name)
<1>1. home \in Directory /\ env \in [Variables -> Directory] /\ name \in Names
  BY StringsAreNames DEF Names
<1>2. cache \in Directory
  <2>1. CASE os = "windows"
    <3>1. <<name, "cache">> \in Directory
      BY <1>1, TwoNames DEF Names
    <3> QED
      BY <1>1, <2>1, <3>1, LocalIs, Joined DEF CacheDir
  <2>2. CASE os \in Systems \ {"windows"}
    <3>1. PICK c \in CacheParents(env, home) : cache = Append(c, name)
      BY <1>1, <2>2, CacheHasParent
    <3>2. c \in Directory
      BY <1>1, ParentsAreDirectories
    <3> QED
      BY <1>1, <3>1, <3>2, Named
  <2> QED
    BY <2>1, <2>2
<1>3. IsPrefix(cache, BinDir(os, env, home, name))
  <2>1. BinDir(os, env, home, name) = Append(cache, "bin")
    BY DEF BinDir
  <2>2. "bin" \in Names
    BY DEF Names
  <2> HIDE DEF cache
  <2> QED
    BY <1>2, <2>1, <2>2, HoldsNamed
<1>4. ASSUME NEW dir \in {DataDir(os, env, home, name), ConfigDir(os, env, home, name),
                          RuntimeDir(os, env, home, name)}
      PROVE  ~IsPrefix(cache, dir)
  <2>1. CASE os = "windows"
    BY <1>1, <2>1, WindowsApart
  <2>2. CASE os \in Systems \ {"windows"}
    BY <1>1, <2>2, UnixApart
  <2> QED
    BY <2>1, <2>2
<1> QED
  BY <1>3, <1>4 DEF Apart

-----------------------------------------------------------------------------
(* The calls, for whatever arguments LibraryCallsAssumption allows.        *)

\* The one call of a behaviour is of one of three functions.
AnyCall ==
  \/ call = Idling
  \/ \E dgst \in Digests : call = [fn |-> "FromString", dgst |-> dgst]
  \/ \E os \in Platforms, path \in AnyPaths : call = [fn |-> "Validate", os |-> os, path |-> path]
  \/ \E os \in Systems, env \in Environments, home \in Homes, app \in AppNames :
       call = [fn |-> "Dirs", os |-> os, env |-> env, home |-> home, name |-> app]

LEMMA AnyCallHolds == CallsSpec => []AnyCall
<1>1. CallsInit => AnyCall
  BY DEF CallsInit, AnyCall
<1>2. AnyCall /\ [CallsNext]_call => AnyCall'
  <2> SUFFICES ASSUME AnyCall, [CallsNext]_call PROVE AnyCall'
    OBVIOUS
  <2>1. CASE CallFromString
    BY <2>1 DEF CallFromString, AnyCall
  <2>2. CASE CallValidate
    BY <2>2 DEF CallValidate, AnyCall
  <2>3. CASE CallDirs
    BY <2>3 DEF CallDirs, AnyCall
  <2>4. CASE UNCHANGED call
    BY <2>4 DEF AnyCall
  <2> QED
    BY <2>1, <2>2, <2>3, <2>4 DEF CallsNext
<1> QED
  BY <1>1, <1>2, PTL DEF CallsSpec

\* What FromString accepts comes back from String, and is as long as what the Hash of its
\* algorithm makes: digest.go's two tables agree.
THEOREM DigestRoundTripHolds == CallsSpec => []DigestRoundTrip
<1>1. AnyCall => DigestRoundTrip
  <2> SUFFICES ASSUME AnyCall, call.fn = "FromString" PROVE ComesBack(call.dgst)
    BY DEF DigestRoundTrip
  <2>1. PICK dgst \in Digests : call = [fn |-> "FromString", dgst |-> dgst]
    BY DEF AnyCall, Idling
  <2>2. dgst \in Seq(DigestPart) /\ dgst # <<>>
    BY LibraryCallsAssumption
  <2>3. ComesBack(dgst)
    BY <2>2, EveryDigestComesBack
  <2>4. call.dgst = dgst
    BY <2>1
  <2> QED
    BY <2>3, <2>4
<1> QED
  BY <1>1, AnyCallHolds, PTL

\* On both systems, and however long it is: a component that path.go:35-51 accepts has no
\* volume and names one entry of a directory, and what follows the volume in a path that
\* path.go:53-72 accepts is split by the system as by the code, into names that fit.
THEOREM AcceptedPathsHolds == CallsSpec => []AcceptedPaths
<1>1. AnyCall => AcceptedPaths
  <2> SUFFICES ASSUME AnyCall, call.fn = "Validate" PROVE Accepted(call.os, call.path)
    BY DEF AcceptedPaths
  <2>1. PICK os \in Platforms, path \in AnyPaths :
          call = [fn |-> "Validate", os |-> os, path |-> path]
    BY DEF AnyCall, Idling
  <2>2. path \in Seq(STRING)
    BY LibraryCallsAssumption
  <2>3. Accepted(os, path)
    BY <2>2, EveryPathAccepted
  <2>4. call.os = os /\ call.path = path
    BY <2>1
  <2> QED
    BY <2>3, <2>4
<1> QED
  BY <1>1, AnyCallHolds, PTL

\* In whatever tidy environment, locations.go puts the cache where nothing else is.
THEOREM CacheApartHolds == CallsSpec => []CacheApart
<1>1. AnyCall => CacheApart
  <2> SUFFICES ASSUME AnyCall, call.fn = "Dirs"
               PROVE  Apart(call.os, call.env, call.home, call.name)
    BY DEF CacheApart
  <2>1. PICK os \in Systems, env \in Environments, home \in Homes, app \in AppNames :
          call = [fn |-> "Dirs", os |-> os, env |-> env, home |-> home, name |-> app]
    BY DEF AnyCall, Idling
  <2>2. /\ env \in [Variables -> Seq(STRING)] /\ home \in Seq(STRING) /\ app \in STRING
        /\ Tidy(env, home)
    BY LibraryCallsAssumption
  <2>3. Apart(os, env, home, app)
    BY <2>2, EverywhereApart
  <2>4. call.os = os /\ call.env = env /\ call.home = home /\ call.name = app
    BY <2>1
  <2> QED
    BY <2>3, <2>4
<1> QED
  BY <1>1, AnyCallHolds, PTL

=============================================================================
