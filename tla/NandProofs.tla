----------------------------- MODULE NandProofs -----------------------------
(* Proofs about the NAND driver.  NandEcc: a page is corrected, for every  *)
(* word size of at least three address bits, every number of words, every  *)
(* content and every fault.  Nand: the wait for the controller is correct  *)
(* whether the interrupt flags follow levels or edges, and with any number *)
(* of interrupts of the SD controller.  NandRead: the composition          *)
(* implements both of its parts, so that what is proved of them holds of   *)
(* it, and a page reported as read is the page, for pages of any size, any *)
(* faults and any interrupts.                                              *)
EXTENDS NandRead, NandEcc, FiniteSetTheorems, TLAPS

---------------------------------------------------------------------------
(* The error correction.                                                  *)

\* Counting one further turns a parity.
LEMMA NextParity == \A n \in Nat : (n + 1) % 2 = 1 <=> ~(n % 2 = 1)
<1> SUFFICES ASSUME NEW n \in Nat PROVE (n + 1) % 2 = 1 <=> ~(n % 2 = 1)
  OBVIOUS
<1>1. n % 2 \in 0 .. 1 /\ (n + 1) % 2 \in 0 .. 1
  BY SMT
<1>2. n % 2 # (n + 1) % 2
  BY SMT
<1> QED
  BY <1>1, <1>2, SMT

\* Adding or removing one element turns the parity of a finite set.
LEMMA ParityFlip ==
  ASSUME NEW S, IsFiniteSet(S), NEW x
  PROVE  IsOdd(Xor(S, {x})) <=> ~IsOdd(S)
<1>1. Cardinality(S) \in Nat
  BY FS_CardinalityType
<1>2. CASE x \in S
  <2>1. Xor(S, {x}) = S \ {x}
    BY <1>2 DEF Xor
  <2>2. Cardinality(S \ {x}) = Cardinality(S) - 1
    BY <1>2, FS_RemoveElement
  <2>3. Cardinality(S) >= 1
    BY <1>1, <1>2, FS_EmptySet
  <2>4. Cardinality(S) - 1 \in Nat /\ (Cardinality(S) - 1) + 1 = Cardinality(S)
    BY <1>1, <2>3
  <2> QED
    BY <1>1, <2>1, <2>2, <2>3, <2>4, NextParity DEF IsOdd
<1>3. CASE x \notin S
  <2>1. Xor(S, {x}) = S \cup {x}
    BY <1>3 DEF Xor
  <2>2. Cardinality(S \cup {x}) = Cardinality(S) + 1
    BY <1>3, FS_AddElement
  <2> QED
    BY <1>1, <2>1, <2>2, NextParity DEF IsOdd
<1> QED
  BY <1>2, <1>3

\* The bits of a word are finitely many.
LEMMA FiniteWord ==
  /\ IsFiniteSet(Bits)
  /\ IsFiniteSet(Address)
  /\ \A D \in SUBSET Address : IsFiniteSet(D)
<1>1. IsFiniteSet(Bits)
  BY NandEccAssumption, FS_Interval DEF Bits
<1>2. IsFiniteSet(Address)
  BY <1>1, FS_SUBSET DEF Address
<1> QED
  BY <1>1, <1>2, FS_Subset

\* One flipped bit of the data turns the odd parities of its address' ones and
\* the even parities of its zeros.
LEMMA EccFlip ==
  ASSUME NEW D \in SUBSET Address, NEW a \in Address
  PROVE  /\ Odd(Xor(D, {a})) = Xor(Odd(D), a)
         /\ Even(Xor(D, {a})) = Xor(Even(D), Bits \ a)
<1>0. a \subseteq Bits
  BY DEF Address
<1>1. ASSUME NEW b \in Bits
      PROVE  IsOdd({c \in Xor(D, {a}) : b \in c})
               <=> IF b \in a THEN ~IsOdd({c \in D : b \in c}) ELSE IsOdd({c \in D : b \in c})
  <2> DEFINE S == {c \in D : b \in c}
  <2>1. IsFiniteSet(S)
    BY FiniteWord, FS_Subset
  <2>2. CASE b \in a
    <3>1. {c \in Xor(D, {a}) : b \in c} = Xor(S, {a})
      BY <2>2 DEF Xor
    <3> QED
      BY <2>1, <2>2, <3>1, ParityFlip
  <2>3. CASE b \notin a
    <3>1. {c \in Xor(D, {a}) : b \in c} = S
      BY <2>3 DEF Xor
    <3> QED
      BY <2>3, <3>1
  <2> QED
    BY <2>2, <2>3
<1>2. ASSUME NEW b \in Bits
      PROVE  IsOdd({c \in Xor(D, {a}) : b \notin c})
               <=> IF b \in a THEN IsOdd({c \in D : b \notin c}) ELSE ~IsOdd({c \in D : b \notin c})
  <2> DEFINE S == {c \in D : b \notin c}
  <2>1. IsFiniteSet(S)
    BY FiniteWord, FS_Subset
  <2>2. CASE b \in a
    <3>1. {c \in Xor(D, {a}) : b \notin c} = S
      BY <2>2 DEF Xor
    <3> QED
      BY <2>2, <3>1
  <2>3. CASE b \notin a
    <3>1. {c \in Xor(D, {a}) : b \notin c} = Xor(S, {a})
      BY <2>3 DEF Xor
    <3> QED
      BY <2>1, <2>3, <3>1, ParityFlip
  <2> QED
    BY <2>2, <2>3
<1>3. Odd(Xor(D, {a})) = Xor(Odd(D), a)
  <2>1. \A b \in Bits : b \in Odd(Xor(D, {a})) <=> b \in Xor(Odd(D), a)
    <3> SUFFICES ASSUME NEW b \in Bits
                 PROVE  b \in Odd(Xor(D, {a})) <=> b \in Xor(Odd(D), a)
      OBVIOUS
    <3>1. b \in Odd(Xor(D, {a})) <=> IsOdd({c \in Xor(D, {a}) : b \in c})
      BY DEF Odd
    <3>2. b \in Odd(D) <=> IsOdd({c \in D : b \in c})
      BY DEF Odd
    <3> QED
      BY <1>1, <3>1, <3>2 DEF Xor
  <2>2. Odd(Xor(D, {a})) \subseteq Bits /\ Xor(Odd(D), a) \subseteq Bits
    BY <1>0 DEF Odd, Xor
  <2> QED
    BY <2>1, <2>2
<1>4. Even(Xor(D, {a})) = Xor(Even(D), Bits \ a)
  <2>1. \A b \in Bits : b \in Even(Xor(D, {a})) <=> b \in Xor(Even(D), Bits \ a)
    <3> SUFFICES ASSUME NEW b \in Bits
                 PROVE  b \in Even(Xor(D, {a})) <=> b \in Xor(Even(D), Bits \ a)
      OBVIOUS
    <3>1. b \in Even(Xor(D, {a})) <=> IsOdd({c \in Xor(D, {a}) : b \notin c})
      BY DEF Even
    <3>2. b \in Even(D) <=> IsOdd({c \in D : b \notin c})
      BY DEF Even
    <3> QED
      BY <1>2, <3>1, <3>2 DEF Xor
  <2>2. Even(Xor(D, {a})) \subseteq Bits /\ Xor(Even(D), Bits \ a) \subseteq Bits
    BY <1>0 DEF Even, Xor
  <2> QED
    BY <2>1, <2>2
<1> QED
  BY <1>3, <1>4

\* Small sets, by the elements they cannot have.
LEMMA SmallSets ==
  ASSUME NEW S, IsFiniteSet(S)
  PROVE  /\ Cardinality(S) \in Nat
         /\ Cardinality(S) = 0 => S = {}
         /\ Cardinality(S) <= 1 => \A x, y \in S : x = y
         /\ Cardinality(S) <= 2 => \A x, y, z \in S : x = y \/ y = z \/ x = z
<1>1. Cardinality(S) \in Nat /\ (Cardinality(S) = 0 => S = {})
  BY FS_CardinalityType, FS_EmptySet
<1>2. ASSUME NEW x \in S, NEW y \in S, x # y PROVE Cardinality(S) >= 2
  <2>1. IsFiniteSet(S \ {x}) /\ Cardinality(S \ {x}) = Cardinality(S) - 1
    BY FS_RemoveElement
  <2>2. y \in S \ {x} /\ Cardinality(S \ {x}) \in Nat
    BY <1>2, <2>1, FS_CardinalityType
  <2>3. Cardinality(S \ {x}) # 0
    BY <2>1, <2>2, FS_EmptySet
  <2> QED
    BY <1>1, <2>1, <2>2, <2>3
<1>3. ASSUME NEW x \in S, NEW y \in S, NEW z \in S, x # y, y # z, x # z
      PROVE Cardinality(S) >= 3
  <2>1. IsFiniteSet(S \ {x}) /\ Cardinality(S \ {x}) = Cardinality(S) - 1
    BY FS_RemoveElement
  <2>2. IsFiniteSet((S \ {x}) \ {y}) /\ Cardinality((S \ {x}) \ {y}) = Cardinality(S) - 2
    <3> DEFINE T == S \ {x}
    <3>1. y \in T /\ IsFiniteSet(T) /\ Cardinality(T) = Cardinality(S) - 1
      BY <1>3, <2>1
    <3>2. IsFiniteSet(T \ {y}) /\ Cardinality(T \ {y}) = Cardinality(T) - 1
      BY <3>1, FS_RemoveElement
    <3> QED
      BY <1>1, <3>1, <3>2
  <2>3. z \in (S \ {x}) \ {y} /\ Cardinality((S \ {x}) \ {y}) \in Nat
    BY <1>3, <2>2, FS_CardinalityType
  <2>4. Cardinality((S \ {x}) \ {y}) # 0
    BY <2>2, <2>3, FS_EmptySet
  <2> QED
    BY <1>1, <2>2, <2>3, <2>4
<1> QED
  BY <1>1, <1>2, <1>3

\* Three different address bits.
LEMMA ThreeBits == 0 \in Bits /\ 1 \in Bits /\ 2 \in Bits
BY NandEccAssumption DEF Bits

\* What a fault of at most two bits can look like.
LEMMA FaultShape ==
  ASSUME NEW f \in Fault, Flips(f) <= 2
  PROVE  /\ f.data \in SUBSET Address /\ f.odd \in SUBSET Bits /\ f.even \in SUBSET Bits
         /\ \/ /\ f.data = {}
               /\ \A x, y, z \in f.odd \cup f.even : x = y \/ y = z \/ x = z
            \/ /\ \E a \in Address : f.data = {a}
               /\ f.odd = {} \/ f.even = {}
               /\ \A x, y \in f.odd \cup f.even : x = y
            \/ /\ \E a, b \in Address : a # b /\ f.data = {a, b}
               /\ f.odd = {} /\ f.even = {}
<1>1. f.data \in SUBSET Address /\ f.odd \in SUBSET Bits /\ f.even \in SUBSET Bits
  BY DEF Fault
<1>2. IsFiniteSet(f.data) /\ IsFiniteSet(f.odd) /\ IsFiniteSet(f.even)
  BY <1>1, FiniteWord, FS_Subset
<1> DEFINE d == Cardinality(f.data)
           o == Cardinality(f.odd)
           e == Cardinality(f.even)
           oe == Cardinality(f.odd \cup f.even)
<1>3. d \in Nat /\ o \in Nat /\ e \in Nat /\ d + o + e <= 2
  BY <1>2, FS_CardinalityType DEF Flips
<1>4. /\ IsFiniteSet(f.odd \cup f.even) /\ oe \in Nat /\ oe <= o + e
      /\ Cardinality(f.odd \cap f.even) \in Nat
  <2>1. /\ IsFiniteSet(f.odd \cup f.even) /\ IsFiniteSet(f.odd \cap f.even)
        /\ oe = o + e - Cardinality(f.odd \cap f.even)
    BY <1>2, FS_Union, FS_Intersection
  <2>2. oe \in Nat /\ Cardinality(f.odd \cap f.even) \in Nat
    BY <2>1, FS_CardinalityType
  <2> QED
    BY <1>3, <2>1, <2>2
<1>5. CASE d = 0
  <2>1. f.data = {}
    BY <1>2, <1>5, SmallSets
  <2>2. oe <= 2
    BY <1>3, <1>4, <1>5
  <2> QED
    BY <1>1, <1>4, <2>1, <2>2, SmallSets
<1>6. CASE d = 1
  <2>1. f.data # {}
    BY <1>6, FS_EmptySet
  <2>2. \A x, y \in f.data : x = y
    BY <1>2, <1>6, SmallSets
  <2>3. PICK a \in f.data : TRUE
    BY <2>1
  <2>4. a \in Address /\ f.data = {a}
    BY <1>1, <2>2, <2>3
  <2>5. oe <= 1 /\ (o = 0 \/ e = 0)
    BY <1>3, <1>4, <1>6
  <2>6. f.odd = {} \/ f.even = {}
    BY <1>2, <2>5, SmallSets
  <2>7. \A x, y \in f.odd \cup f.even : x = y
    BY <1>4, <2>5, SmallSets
  <2> QED
    BY <1>1, <2>4, <2>6, <2>7
<1>7. CASE d = 2
  <2>1. f.data # {}
    BY <1>7, FS_EmptySet
  <2>2. PICK a \in f.data : TRUE
    BY <2>1
  <2>3. IsFiniteSet(f.data \ {a}) /\ Cardinality(f.data \ {a}) = 1
    BY <1>2, <1>3, <1>7, FS_RemoveElement
  <2>4. f.data \ {a} # {}
    BY <2>3, FS_EmptySet
  <2>5. PICK b \in f.data \ {a} : TRUE
    BY <2>4
  <2>6. \A x, y \in f.data \ {a} : x = y
    BY <2>3, SmallSets
  <2>7. a \in Address /\ b \in Address /\ a # b /\ f.data = {a, b}
    BY <1>1, <2>2, <2>5, <2>6
  <2>8. o = 0 /\ e = 0
    BY <1>3, <1>7
  <2>9. f.odd = {} /\ f.even = {}
    BY <1>2, <2>8, SmallSets
  <2> QED
    BY <1>1, <2>7, <2>9
<1>8. d = 0 \/ d = 1 \/ d = 2
  BY <1>3
<1> QED
  BY <1>5, <1>6, <1>7, <1>8

\* The syndrome of a word with at most two wrong bits tells what to do with it:
\* a syndrome of at most one bit means that the data is right, and one with
\* complementary halves names the only wrong bit.
LEMMA SyndromeTells ==
  ASSUME NEW D \in SUBSET Address, NEW f \in Fault, Flips(f) <= 2,
         NEW o, o = Xor(Xor(Odd(D), f.odd), Odd(Xor(D, f.data))),
         NEW e, e = Xor(Xor(Even(D), f.even), Even(Xor(D, f.data)))
  PROVE  /\ AtMostOneBit(o, e) => f.data = {}
         /\ Xor(o, e) = Bits /\ ~AtMostOneBit(o, e) => Xor(Xor(D, f.data), {o}) = D
<1>0. f.data \in SUBSET Address /\ f.odd \in SUBSET Bits /\ f.even \in SUBSET Bits
  BY FaultShape
<1>1. CASE f.data = {} /\ \A x, y, z \in f.odd \cup f.even : x = y \/ y = z \/ x = z
  <2>1. o = f.odd /\ e = f.even
    <3>1. Xor(D, f.data) = D
      BY <1>1 DEF Xor
    <3> QED
      BY <3>1 DEF Xor
  <2>2. Xor(o, e) # Bits
    <3> SUFFICES ASSUME Xor(o, e) = Bits PROVE FALSE
      OBVIOUS
    <3>1. 0 \in f.odd \cup f.even /\ 1 \in f.odd \cup f.even /\ 2 \in f.odd \cup f.even
      BY <2>1, ThreeBits DEF Xor
    <3> QED
      BY <1>1, <3>1
  <2> QED
    BY <1>1, <2>2
<1>2. CASE /\ \E a \in Address : f.data = {a}
           /\ f.odd = {} \/ f.even = {}
           /\ \A x, y \in f.odd \cup f.even : x = y
  <2>1. PICK a \in Address : f.data = {a}
    BY <1>2
  <2>2. a \subseteq Bits
    BY DEF Address
  <2>3. o = Xor(f.odd, a) /\ e = Xor(f.even, Bits \ a)
    BY <2>1, EccFlip DEF Xor
  <2>4. ~AtMostOneBit(o, e)
    <3>1. CASE f.odd = {}
      <4>1. o = a
        BY <2>3, <3>1 DEF Xor
      <4>2. CASE a = {}
        <5>1. e = Bits \ f.even
          BY <1>0, <2>3, <4>2 DEF Xor
        <5> QED
          BY <1>2, <5>1, ThreeBits DEF AtMostOneBit
      <4>3. CASE e = {}
        <5>1. a = Bits \ f.even
          BY <1>0, <2>2, <2>3, <4>3 DEF Xor
        <5> QED
          BY <1>2, <4>1, <5>1, ThreeBits DEF AtMostOneBit
      <4> QED
        BY <4>1, <4>2, <4>3 DEF AtMostOneBit
    <3>2. CASE f.even = {}
      <4>1. e = Bits \ a
        BY <2>3, <3>2 DEF Xor
      <4>2. CASE e = {}
        <5>1. o = Bits \ f.odd
          BY <1>0, <2>2, <2>3, <4>1, <4>2 DEF Xor
        <5> QED
          BY <1>2, <5>1, ThreeBits DEF AtMostOneBit
      <4>3. CASE o = {}
        <5>1. e = Bits \ f.odd
          BY <1>0, <2>2, <2>3, <4>1, <4>3 DEF Xor
        <5> QED
          BY <1>2, <5>1, ThreeBits DEF AtMostOneBit
      <4> QED
        BY <4>2, <4>3 DEF AtMostOneBit
    <3> QED
      BY <1>2, <3>1, <3>2
  <2>5. ASSUME Xor(o, e) = Bits PROVE Xor(Xor(D, f.data), {o}) = D
    <3>1. f.odd = {} /\ f.even = {}
      BY <1>0, <1>2, <2>2, <2>3, <2>5 DEF Xor
    <3>2. o = a
      BY <2>3, <3>1 DEF Xor
    <3> QED
      BY <2>1, <3>2 DEF Xor
  <2> QED
    BY <2>4, <2>5
<1>3. CASE (\E a, b \in Address : a # b /\ f.data = {a, b}) /\ f.odd = {} /\ f.even = {}
  <2>1. PICK a \in Address, b \in Address : a # b /\ f.data = {a, b}
    BY <1>3
  <2>2. a \subseteq Bits /\ b \subseteq Bits
    BY DEF Address
  <2>3. Xor(D, f.data) = Xor(Xor(D, {a}), {b}) /\ Xor(D, {a}) \in SUBSET Address
    BY <2>1 DEF Xor
  <2>4. /\ Odd(Xor(D, f.data)) = Xor(Xor(Odd(D), a), b)
        /\ Even(Xor(D, f.data)) = Xor(Xor(Even(D), Bits \ a), Bits \ b)
    BY <2>3, EccFlip
  <2>5. o = Xor(a, b)
    BY <1>3, <2>4 DEF Xor
  <2>6. e = Xor(a, b)
    BY <1>3, <2>2, <2>4 DEF Xor
  <2>7. o # {}
    BY <2>1, <2>5 DEF Xor
  <2>8. Xor(o, e) = {}
    BY <2>5, <2>6 DEF Xor
  <2> QED
    BY <2>5, <2>6, <2>7, <2>8, ThreeBits DEF AtMostOneBit
<1> QED
  BY FaultShape, <1>1, <1>2, <1>3

\* The syndrome of a word with at most one wrong bit never gives it up.
LEMMA SyndromeOfOne ==
  ASSUME NEW D \in SUBSET Address, NEW f \in Fault, ~(Flips(f) > 1),
         NEW o, o = Xor(Xor(Odd(D), f.odd), Odd(Xor(D, f.data))),
         NEW e, e = Xor(Xor(Even(D), f.even), Even(Xor(D, f.data)))
  PROVE  AtMostOneBit(o, e) \/ Xor(o, e) = Bits
<1>1. f.data \in SUBSET Address /\ f.odd \in SUBSET Bits /\ f.even \in SUBSET Bits
  BY DEF Fault
<1>2. IsFiniteSet(f.data) /\ IsFiniteSet(f.odd) /\ IsFiniteSet(f.even)
  BY <1>1, FiniteWord, FS_Subset
<1>3. /\ Cardinality(f.data) \in Nat /\ Cardinality(f.odd) \in Nat /\ Cardinality(f.even) \in Nat
      /\ Cardinality(f.data) + Cardinality(f.odd) + Cardinality(f.even) <= 1
  BY <1>2, FS_CardinalityType DEF Flips
<1>4. CASE Cardinality(f.data) = 0
  <2>1. f.data = {}
    BY <1>2, <1>4, SmallSets
  <2>2. o = f.odd /\ e = f.even
    <3>1. Xor(D, f.data) = D
      BY <2>1 DEF Xor
    <3> QED
      BY <3>1 DEF Xor
  <2>3. Cardinality(f.odd) <= 1 /\ Cardinality(f.even) <= 1
        /\ (Cardinality(f.odd) = 0 \/ Cardinality(f.even) = 0)
    BY <1>3
  <2>4. (\A x, y \in f.odd : x = y) /\ (\A x, y \in f.even : x = y) /\ (f.odd = {} \/ f.even = {})
    BY <1>2, <2>3, SmallSets
  <2> QED
    BY <2>2, <2>4 DEF AtMostOneBit
<1>5. CASE Cardinality(f.data) # 0
  <2>1. Cardinality(f.data) = 1 /\ Cardinality(f.odd) = 0 /\ Cardinality(f.even) = 0
    BY <1>3, <1>5
  <2>2. f.odd = {} /\ f.even = {} /\ \A x, y \in f.data : x = y
    BY <1>2, <2>1, SmallSets
  <2>3. f.data # {}
    BY <1>5, FS_EmptySet
  <2>4. PICK a \in f.data : f.data = {a}
    BY <2>2, <2>3
  <2>5. a \in Address /\ a \subseteq Bits
    BY <1>1, <2>4 DEF Address
  <2>6. /\ Odd(Xor(D, f.data)) = Xor(Odd(D), a)
        /\ Even(Xor(D, f.data)) = Xor(Even(D), Bits \ a)
    BY <2>4, <2>5, EccFlip
  <2>7. o = a /\ e = Bits \ a
    BY <2>2, <2>6 DEF Xor
  <2>8. Xor(a, Bits \ a) = Bits
    BY <2>5 DEF Xor
  <2> QED
    BY <2>7, <2>8
<1> QED
  BY <1>4, <1>5

---------------------------------------------------------------------------
\* nand_ecc_correct never changes the ECC words, only the data.
ArgsRight ==
  /\ ecc_save = [w \in Word |->
       IF formatted
       THEN [odd |-> Xor(Odd(written[w]), fault[w].odd),
             even |-> Xor(Even(written[w]), fault[w].even), top |-> 0]
       ELSE Unformatted]
  /\ ecc_calc = [w \in Word |-> Ecc(Xor(written[w], fault[w].data))]
Args == eccPc # "idle" => ArgsRight

\* What the call passes on.
LEMMA CallArgs == EccCall => ArgsRight' /\ data' = [w \in Word |-> Xor(written'[w], fault'[w].data)]
<1> SUFFICES ASSUME EccCall
             PROVE  ArgsRight' /\ data' = [w \in Word |-> Xor(written'[w], fault'[w].data)]
  OBVIOUS
<1>1. /\ data' = [w \in Word |-> Xor(written'[w], fault'[w].data)]
      /\ ecc_calc' = [w \in Word |-> Ecc(data'[w])]
  BY DEF EccCall
<1>2. ecc_calc' = [w \in Word |-> Ecc(Xor(written'[w], fault'[w].data))]
  BY <1>1, Zenon
<1>3. ecc_save' = [w \in Word |->
        IF formatted'
        THEN [odd |-> Xor(Odd(written'[w]), fault'[w].odd),
              even |-> Xor(Even(written'[w]), fault'[w].even), top |-> 0]
        ELSE Unformatted]
  BY DEF EccCall
<1> QED
  BY <1>1, <1>2, <1>3 DEF ArgsRight

LEMMA ArgsKept == EccSpec => []Args
<1>1. EccInit => Args
  BY DEF EccInit, Args
<1>2. Args /\ [EccNext]_eccVars => Args'
  <2> SUFFICES ASSUME Args, [EccNext]_eccVars PROVE Args'
    OBVIOUS
  <2>1. CASE EccCall
    BY <2>1, CallArgs DEF Args
  <2>2. CASE EccLeave
    BY <2>2 DEF EccLeave, Args
  <2>3. CASE Correcting \/ UNCHANGED eccVars
    <3>1. UNCHANGED <<written, fault, formatted, ecc_save, ecc_calc>>
      BY <2>3 DEF Correcting, Compare, Continue, Uncorrectable, Fix, Return, eccVars, page
    <3>2. eccPc' # "idle" => eccPc # "idle"
      BY <2>3 DEF Correcting, Compare, Continue, Uncorrectable, Fix, Return, InLoop, eccVars, page
    <3> QED
      BY <3>1, <3>2 DEF Args, ArgsRight
  <2> QED
    BY <2>1, <2>2, <2>3 DEF EccNext
<1> QED
  BY <1>1, <1>2, PTL DEF EccSpec

\* The halves of the syndrome are those of a word of Bits.
LEMMA SyndromeBits ==
  ASSUME ArgsRight, NEW w \in Word, fault \in [Word -> Fault]
  PROVE  /\ odd(w) \in Address /\ even(w) \in Address
         /\ formatted =>
              /\ odd(w) = Xor(Xor(Odd(written[w]), fault[w].odd),
                              Odd(Xor(written[w], fault[w].data)))
              /\ even(w) = Xor(Xor(Even(written[w]), fault[w].even),
                               Even(Xor(written[w], fault[w].data)))
              /\ ecc_save[w] # Unformatted
              /\ ecc_save[w] = ecc_calc[w] => odd(w) = {} /\ even(w) = {}
<1>1. /\ ecc_calc[w].odd = Odd(Xor(written[w], fault[w].data))
      /\ ecc_calc[w].even = Even(Xor(written[w], fault[w].data))
  BY DEF ArgsRight, Ecc
<1>2. ASSUME formatted
      PROVE  /\ ecc_save[w].odd = Xor(Odd(written[w]), fault[w].odd)
             /\ ecc_save[w].even = Xor(Even(written[w]), fault[w].even)
             /\ ecc_save[w].top = 0
  BY <1>2 DEF ArgsRight
<1>3. ASSUME ~formatted PROVE ecc_save[w] = Unformatted
  BY <1>3 DEF ArgsRight
<1>4. \A D : Odd(D) \subseteq Bits /\ Even(D) \subseteq Bits
  BY DEF Odd, Even
<1>5. fault[w].odd \subseteq Bits /\ fault[w].even \subseteq Bits
  BY DEF Fault
<1>6. odd(w) \in Address /\ even(w) \in Address
  <2>1. CASE formatted
    BY <2>1, <1>1, <1>2, <1>4, <1>5 DEF odd, even, Xor, Address
  <2>2. CASE ~formatted
    BY <2>2, <1>1, <1>3, <1>4 DEF odd, even, Xor, Address, Unformatted
  <2> QED
    BY <2>1, <2>2
<1>7. ASSUME formatted
      PROVE  /\ ecc_save[w] # Unformatted
             /\ ecc_save[w] = ecc_calc[w] => odd(w) = {} /\ even(w) = {}
  <2>1. ecc_save[w] # Unformatted
    BY <1>2, <1>7 DEF Unformatted
  <2>2. ecc_save[w] = ecc_calc[w] => odd(w) = {} /\ even(w) = {}
    BY DEF odd, even, Xor
  <2> QED
    BY <2>1, <2>2
<1> QED
  BY <1>1, <1>2, <1>6, <1>7 DEF odd, even

\* The loop's types: the data stays a page while its bits are put right.
THEOREM EccTypeCorrect == EccSpec => []EccTypeOK
<1> USE NandEccAssumption DEF page
<1>0. 1 \in 1 .. Words + 1
  OBVIOUS
<1>1. EccInit => EccTypeOK
  BY <1>0 DEF EccInit, EccTypeOK
<1>2. EccTypeOK /\ Args /\ [EccNext]_eccVars => EccTypeOK'
  <2> SUFFICES ASSUME EccTypeOK, Args, [EccNext]_eccVars PROVE EccTypeOK'
    OBVIOUS
  <2> USE DEF EccTypeOK
  <2>7. CASE EccCall
    <3>1. written' \in [Word -> SUBSET Address] /\ fault' \in [Word -> Fault]
      BY <2>7 DEF EccCall
    <3>2. \A w \in Word : Xor(written'[w], fault'[w].data) \in SUBSET Address
      BY <3>1 DEF Xor, Fault
    <3>3. data' \in [Word -> SUBSET Address]
      BY <2>7, <3>2, CallArgs
    <3> QED
      BY <2>7, <3>1, <3>3 DEF EccCall
  <2>8. CASE EccLeave
    BY <1>0, <2>8 DEF EccLeave
  <2>1. CASE Compare
    BY <2>1 DEF Compare
  <2>2. CASE Continue
    BY <2>2 DEF Continue, InLoop
  <2>3. CASE Uncorrectable
    BY <2>3 DEF Uncorrectable, InLoop
  <2>4. CASE Fix
    <3>1. i \in Word /\ i' \in 1 .. Words + 1
      BY <2>4 DEF Fix, InLoop, Word
    <3>2. odd(i) \in Address
      BY <2>4, <3>1, SyndromeBits DEF Fix, InLoop, Args
    <3>3. Xor(data[i], {odd(i)}) \in SUBSET Address
      BY <2>4, <3>1, <3>2 DEF Xor, Fix, InLoop
    <3> QED
      BY <2>4, <3>1, <3>3 DEF Fix
  <2>5. CASE Return
    BY <2>5 DEF Return
  <2>6. CASE UNCHANGED eccVars
    BY <2>6 DEF eccVars
  <2> QED
    BY <2>1, <2>2, <2>3, <2>4, <2>5, <2>6, <2>7, <2>8 DEF EccNext, Correcting
<1> QED
  BY <1>1, <1>2, ArgsKept, PTL DEF EccSpec

\* What is known of a word before and after the loop has been at it.
LoopInv ==
  /\ eccPc \in {"idle", "compare"} => i = 1 /\ eccRes = 0
  /\ eccPc \in {"compare", "loop"} =>
       /\ eccRes = 0
       /\ \A w \in Word : w >= i => data[w] = Xor(written[w], fault[w].data)
       /\ \A w \in Word : w < i /\ formatted /\ Flips(fault[w]) <= 2 => data[w] = written[w]
       /\ \A w \in Word : ~formatted => data[w] = Xor(written[w], fault[w].data)
  /\ PassedIsRight
  /\ UnformattedKept

\* One word that is skipped or repaired is right afterwards.
LEMMA WordRight ==
  ASSUME EccTypeOK, eccPc # "idle", ArgsRight, NEW w \in Word, formatted, Flips(fault[w]) <= 2
  PROVE  /\ Skip(w) => Xor(written[w], fault[w].data) = written[w]
         /\ ~Skip(w) /\ Xor(odd(w), even(w)) = Bits
              => Xor(Xor(written[w], fault[w].data), {odd(w)}) = written[w]
<1>1. written[w] \in SUBSET Address /\ fault[w] \in Fault
  BY DEF EccTypeOK
<1> DEFINE o == odd(w)
           e == even(w)
<1>2. /\ o = Xor(Xor(Odd(written[w]), fault[w].odd), Odd(Xor(written[w], fault[w].data)))
      /\ e = Xor(Xor(Even(written[w]), fault[w].even), Even(Xor(written[w], fault[w].data)))
      /\ ecc_save[w] # Unformatted
      /\ ecc_save[w] = ecc_calc[w] => o = {} /\ e = {}
  BY SyndromeBits DEF EccTypeOK
<1>3. /\ AtMostOneBit(o, e) => fault[w].data = {}
      /\ Xor(o, e) = Bits /\ ~AtMostOneBit(o, e)
           => Xor(Xor(written[w], fault[w].data), {o}) = written[w]
  <2> DEFINE D == written[w]
             f == fault[w]
  <2>1. /\ D \in SUBSET Address /\ f \in Fault /\ Flips(f) <= 2
        /\ o = Xor(Xor(Odd(D), f.odd), Odd(Xor(D, f.data)))
        /\ e = Xor(Xor(Even(D), f.even), Even(Xor(D, f.data)))
    BY <1>1, <1>2
  <2> HIDE DEF o, e, D, f
  <2>2. /\ AtMostOneBit(o, e) => f.data = {}
        /\ Xor(o, e) = Bits /\ ~AtMostOneBit(o, e) => Xor(Xor(D, f.data), {o}) = D
    BY <2>1, SyndromeTells
  <2> QED
    BY <2>2 DEF D, f
<1>4. Skip(w) => AtMostOneBit(o, e)
  BY <1>2 DEF Skip, AtMostOneBit
<1>5. ~Skip(w) => ~AtMostOneBit(o, e)
  BY DEF Skip
<1>6. fault[w].data = {} => Xor(written[w], fault[w].data) = written[w]
  BY DEF Xor
<1> QED
  BY <1>3, <1>4, <1>5, <1>6

THEOREM LoopInvariant == EccSpec => []LoopInv
<1> USE NandEccAssumption DEF page
<1>1. EccInit => LoopInv
  BY DEF EccInit, LoopInv, PassedIsRight, UnformattedKept, Word
<1>2. EccTypeOK /\ EccTypeOK' /\ Args /\ LoopInv /\ [EccNext]_eccVars => LoopInv'
  <2> SUFFICES ASSUME EccTypeOK, EccTypeOK', Args, LoopInv, [EccNext]_eccVars PROVE LoopInv'
    OBVIOUS
  <2>0. \A w \in Word : w \in Int /\ i \in Int /\ (w < i + 1 <=> w < i \/ w = i)
                        /\ (w >= i + 1 => w >= i /\ w # i)
    BY DEF Word, EccTypeOK
  <2>7. CASE EccCall
    BY <2>0, <2>7, CallArgs DEF EccCall, LoopInv, PassedIsRight, UnformattedKept, Word
  <2>8. CASE EccLeave
    BY <2>8 DEF EccLeave, LoopInv, PassedIsRight, UnformattedKept
  <2>1. CASE Compare
    <3>1. UNCHANGED <<written, fault, formatted, data, ecc_save, ecc_calc, i, eccRes>> /\ i = 1
          /\ eccPc = "compare" /\ eccRes = 0
      BY <2>1 DEF Compare, LoopInv
    <3>2. \A w \in Word : data[w] = Xor(written[w], fault[w].data)
      BY <3>1 DEF LoopInv, Word
    <3>3. CASE ecc_save = ecc_calc
      <4>1. eccPc' = "done"
        BY <2>1, <3>3 DEF Compare
      <4>2. ASSUME formatted, \A w \in Word : Flips(fault[w]) <= 2
            PROVE  data = written
        <5>1. \A w \in Word : Xor(written[w], fault[w].data) = written[w]
          BY <3>1, <3>3, <4>2, WordRight DEF Skip, Args
        <5>2. \A w \in Word : data[w] = written[w]
          BY <3>2, <5>1
        <5> QED
          BY <3>1, <5>2 DEF EccTypeOK
      <4>3. PassedIsRight'
        BY <3>1, <4>2 DEF PassedIsRight
      <4>4. UnformattedKept'
        BY <3>1, <3>2 DEF UnformattedKept
      <4> QED
        BY <4>1, <4>3, <4>4 DEF LoopInv
    <3>4. CASE ecc_save # ecc_calc
      <4>1. eccPc' = "loop"
        BY <2>1, <3>4 DEF Compare
      <4> QED
        BY <3>1, <3>2, <4>1 DEF LoopInv, PassedIsRight, UnformattedKept, Word
    <3> QED
      BY <3>3, <3>4
  <2>2. CASE Continue
    <3>1. /\ UNCHANGED <<written, fault, formatted, data, ecc_save, ecc_calc, eccPc, eccRes>>
          /\ eccPc = "loop" /\ i' = i + 1 /\ i \in Word /\ Skip(i)
      BY <2>2 DEF Continue, InLoop, EccTypeOK, Word
    <3>2. formatted /\ Flips(fault[i]) <= 2 => data[i] = written[i]
      <4>1. data[i] = Xor(written[i], fault[i].data)
        BY <3>1, <2>0 DEF LoopInv
      <4> QED
        BY <3>1, <4>1, WordRight DEF Args
    <3> QED
      BY <2>0, <3>1, <3>2 DEF LoopInv, PassedIsRight, UnformattedKept
  <2>3. CASE Uncorrectable
    <3>1. eccPc' = "done" /\ eccRes' = -1 /\ formatted' = formatted /\ eccPc = "loop" /\ i \in Word
          /\ ecc_save[i] # Unformatted
      BY <2>3 DEF Uncorrectable, InLoop, EccTypeOK, Word, Skip
    <3>2. formatted
      BY <3>1 DEF Args, ArgsRight
    <3> QED
      BY <3>1, <3>2 DEF LoopInv, PassedIsRight, UnformattedKept
  <2>4. CASE Fix
    <3>1. /\ UNCHANGED <<written, fault, formatted, ecc_save, ecc_calc, eccPc, eccRes>>
          /\ eccPc = "loop" /\ i' = i + 1 /\ i \in Word /\ ~Skip(i)
          /\ Xor(odd(i), even(i)) = Bits
          /\ data' = [data EXCEPT ![i] = Xor(data[i], {odd(i)})]
      BY <2>4 DEF Fix, InLoop, EccTypeOK, Word
    <3>2. data'[i] = Xor(data[i], {odd(i)}) /\ \A w \in Word : w # i => data'[w] = data[w]
      BY <3>1 DEF EccTypeOK
    <3>3. formatted
      BY <3>1 DEF Args, ArgsRight, Skip
    <3>4. Flips(fault[i]) <= 2 => data'[i] = written[i]
      <4>1. data[i] = Xor(written[i], fault[i].data)
        BY <3>1, <2>0 DEF LoopInv
      <4> QED
        BY <3>1, <3>2, <3>3, <4>1, WordRight DEF Args
    <3> QED
      BY <2>0, <3>1, <3>2, <3>3, <3>4 DEF LoopInv, PassedIsRight, UnformattedKept
  <2>5. CASE Return
    <3>1. /\ UNCHANGED <<written, fault, formatted, data>>
          /\ eccPc = "loop" /\ eccPc' = "done" /\ i > Words /\ eccRes' = 1
      BY <2>5 DEF Return
    <3>2. \A w \in Word : w < i
      BY <3>1 DEF Word, EccTypeOK
    <3>3. formatted /\ (\A w \in Word : Flips(fault[w]) <= 2) => data = written
      BY <3>1, <3>2 DEF LoopInv, EccTypeOK
    <3> QED
      BY <3>1, <3>3 DEF LoopInv, PassedIsRight, UnformattedKept
  <2>6. CASE UNCHANGED eccVars
    BY <2>6 DEF eccVars, LoopInv, PassedIsRight, UnformattedKept
  <2> QED
    BY <2>1, <2>2, <2>3, <2>4, <2>5, <2>6, <2>7, <2>8 DEF EccNext, Correcting
<1> QED
  BY <1>1, <1>2, EccTypeCorrect, ArgsKept, PTL DEF EccSpec

\* A page that is given up has a word with more than one wrong bit.
THEOREM GivenUpCorrect == EccSpec => []GivenUpForReason
<1>1. EccInit => GivenUpForReason
  BY DEF EccInit, GivenUpForReason
<1>2. EccTypeOK /\ Args /\ LoopInv /\ GivenUpForReason /\ [EccNext]_eccVars => GivenUpForReason'
  <2> SUFFICES ASSUME EccTypeOK, Args, LoopInv, GivenUpForReason, [EccNext]_eccVars,
                      eccPc' = "done" /\ eccRes' < 0
               PROVE  formatted' /\ \E w \in Word : Flips(fault'[w]) > 1
    BY DEF GivenUpForReason, Flips
  <2>1. CASE Uncorrectable
    <3>1. /\ UNCHANGED <<written, fault, formatted>>
          /\ eccPc = "loop" /\ i \in Word /\ ~Skip(i) /\ Xor(odd(i), even(i)) # Bits
      BY NandEccAssumption, <2>1 DEF Uncorrectable, InLoop, EccTypeOK, Word, page
    <3>2. ArgsRight /\ written[i] \in SUBSET Address /\ fault \in [Word -> Fault]
          /\ fault[i] \in Fault
      BY <3>1 DEF Args, EccTypeOK
    <3>3. formatted
      BY <3>1, <3>2 DEF ArgsRight, Skip
    <3> DEFINE D == written[i]
               f == fault[i]
               o == odd(i)
               e == even(i)
    <3>4. /\ o = Xor(Xor(Odd(D), f.odd), Odd(Xor(D, f.data)))
          /\ e = Xor(Xor(Even(D), f.even), Even(Xor(D, f.data)))
      BY <3>1, <3>2, <3>3, SyndromeBits
    <3>5. ~AtMostOneBit(o, e) /\ Xor(o, e) # Bits /\ D \in SUBSET Address /\ f \in Fault
      BY <3>1, <3>2 DEF Skip
    <3>6. Flips(f) > 1
      <4> HIDE DEF D, f, o, e
      <4> QED
        BY <3>4, <3>5, SyndromeOfOne
    <3> QED
      BY <3>1, <3>3, <3>6
  <2>2. CASE UNCHANGED eccVars
    BY <2>2 DEF eccVars, page, GivenUpForReason
  <2>3. CASE Compare
    BY <2>3 DEF Compare, LoopInv
  <2>4. CASE EccCall \/ EccLeave \/ Continue \/ Fix \/ Return
    BY <2>4 DEF EccCall, EccLeave, Continue, Fix, Return, InLoop
  <2> QED
    BY <2>1, <2>2, <2>3, <2>4 DEF EccNext, Correcting
<1> QED
  BY <1>1, <1>2, EccTypeCorrect, ArgsKept, LoopInvariant, PTL DEF EccSpec

\* A page that nand_ecc_correct passes on is what was written, unless a word of
\* it has more than two wrong bits.
THEOREM PassedCorrect == EccSpec => []PassedIsRight
BY LoopInvariant, PTL DEF LoopInv

\* A page that was never written is passed on as it was read.
THEOREM UnformattedCorrect == EccSpec => []UnformattedKept
BY LoopInvariant, PTL DEF LoopInv

---------------------------------------------------------------------------
(* The wait for the controller.                                           *)

\* Every variable keeps its type; nand_initialize resets the chip twice.
THEOREM TypeCorrect == Spec => []TypeOK
<1> USE NandAssumption DEF nandctrl, lattice, handler, At, Error, Success
<1>1. Init => TypeOK
  <2> SUFFICES ASSUME Init PROVE TypeOK
    OBVIOUS
  <2>1. BitsOK
    BY DEF Init, BitsOK
  <2>2. SetsOK
    BY DEF Init, SetsOK, Irq
  <2>3. ControlOK
    BY DEF Init, ControlOK
  <2>4. CountsOK
    BY DEF Init, CountsOK
  <2> QED
    BY <2>1, <2>2, <2>3, <2>4 DEF TypeOK
<1>2. TypeOK /\ [Next]_vars => TypeOK'
  <2> SUFFICES ASSUME TypeOK, [Next]_vars PROVE TypeOK'
    OBVIOUS
  <2> USE DEF TypeOK
  <2>1. CASE ReadPage
    <3>1. BitsOK'
      BY <2>1 DEF ReadPage, BitsOK, Execute, ClearCtrl
    <3>2. SetsOK'
      BY <2>1 DEF ReadPage, SetsOK, Irq, Execute, ClearCtrl, Raise, Ack, Pending
    <3>3. ControlOK'
      BY <2>1 DEF ReadPage, ControlOK, Waiting
    <3>4. CountsOK'
      BY <2>1 DEF ReadPage, CountsOK
    <3> QED
      BY <3>1, <3>2, <3>3, <3>4
  <2>2. CASE ReadChipid
    <3>1. BitsOK'
      BY <2>2 DEF ReadChipid, BitsOK, Execute, ClearCtrl
    <3>2. SetsOK'
      BY <2>2 DEF ReadChipid, SetsOK, Irq, Execute, ClearCtrl, Raise, Ack, Pending
    <3>3. ControlOK'
      BY <2>2 DEF ReadChipid, ControlOK, Waiting
    <3>4. CountsOK'
      BY <2>2 DEF ReadChipid, CountsOK
    <3> QED
      BY <3>1, <3>2, <3>3, <3>4
  <2>3. CASE Refuse
    <3>1. BitsOK'
      BY <2>3 DEF Refuse, BitsOK, Execute, ClearCtrl
    <3>2. SetsOK'
      BY <2>3 DEF Refuse, SetsOK, Irq, Execute, ClearCtrl, Raise, Ack, Pending
    <3>3. ControlOK'
      BY <2>3 DEF Refuse, ControlOK, Waiting
    <3>4. CountsOK'
      BY <2>3 DEF Refuse, CountsOK
    <3> QED
      BY <3>1, <3>2, <3>3, <3>4
  <2>4. CASE Poll
    <3>1. BitsOK'
      BY <2>4 DEF Poll, BitsOK, Execute, ClearCtrl
    <3>2. SetsOK'
      BY <2>4 DEF Poll, SetsOK, Irq, Execute, ClearCtrl, Raise, Ack, Pending
    <3>3. ControlOK'
      BY <2>4 DEF Poll, ControlOK, Waiting
    <3>4. CountsOK'
      BY <2>4 DEF Poll, CountsOK
    <3> QED
      BY <3>1, <3>2, <3>3, <3>4
  <2>5. CASE ClearFlag
    <3>1. BitsOK'
      BY <2>5 DEF ClearFlag, BitsOK, Execute, ClearCtrl
    <3>2. SetsOK'
      BY <2>5 DEF ClearFlag, SetsOK, Irq, Execute, ClearCtrl, Raise, Ack, Pending
    <3>3. ControlOK'
      BY <2>5 DEF ClearFlag, ControlOK, Waiting
    <3>4. CountsOK'
      BY <2>5 DEF ClearFlag, CountsOK
    <3> QED
      BY <3>1, <3>2, <3>3, <3>4
  <2>6. CASE EnableIrq
    <3>1. BitsOK'
      BY <2>6 DEF EnableIrq, BitsOK, Execute, ClearCtrl
    <3>2. SetsOK'
      BY <2>6 DEF EnableIrq, SetsOK, Irq, Execute, ClearCtrl, Raise, Ack, Pending
    <3>3. ControlOK'
      BY <2>6 DEF EnableIrq, ControlOK, Waiting
    <3>4. CountsOK'
      BY <2>6 DEF EnableIrq, CountsOK
    <3> QED
      BY <3>1, <3>2, <3>3, <3>4
  <2>7. CASE ExecRead
    <3>1. BitsOK'
      BY <2>7 DEF ExecRead, BitsOK, Execute, ClearCtrl
    <3>2. SetsOK'
      BY <2>7 DEF ExecRead, SetsOK, Irq, Execute, ClearCtrl, Raise, Ack, Pending
    <3>3. ControlOK'
      BY <2>7 DEF ExecRead, ControlOK, Waiting
    <3>4. CountsOK'
      BY <2>7 DEF ExecRead, CountsOK
    <3> QED
      BY <3>1, <3>2, <3>3, <3>4
  <2>8. CASE Check
    <3>1. BitsOK'
      BY <2>8 DEF Check, BitsOK, Execute, ClearCtrl
    <3>2. SetsOK'
      BY <2>8 DEF Check, SetsOK, Irq, Execute, ClearCtrl, Raise, Ack, Pending
    <3>3. ControlOK'
      BY <2>8 DEF Check, ControlOK, Waiting
    <3>4. CountsOK'
      BY <2>8 DEF Check, CountsOK
    <3> QED
      BY <3>1, <3>2, <3>3, <3>4
  <2>9. CASE Kill
    <3>1. BitsOK'
      BY <2>9 DEF Kill, BitsOK, Execute, ClearCtrl
    <3>2. SetsOK'
      BY <2>9 DEF Kill, SetsOK, Irq, Execute, ClearCtrl, Raise, Ack, Pending
    <3>3. ControlOK'
      BY <2>9 DEF Kill, ControlOK, Waiting
    <3>4. CountsOK'
      BY <2>9 DEF Kill, CountsOK
    <3> QED
      BY <3>1, <3>2, <3>3, <3>4
  <2>10. CASE Recheck
    <3>1. BitsOK'
      BY <2>10 DEF Recheck, BitsOK, Execute, ClearCtrl
    <3>2. SetsOK'
      BY <2>10 DEF Recheck, SetsOK, Irq, Execute, ClearCtrl, Raise, Ack, Pending
    <3>3. ControlOK'
      BY <2>10 DEF Recheck, ControlOK, Waiting
    <3>4. CountsOK'
      BY <2>10 DEF Recheck, CountsOK
    <3> QED
      BY <3>1, <3>2, <3>3, <3>4
  <2>11. CASE Wake
    <3>1. BitsOK'
      BY <2>11 DEF Wake, BitsOK, Execute, ClearCtrl
    <3>2. SetsOK'
      BY <2>11 DEF Wake, SetsOK, Irq, Execute, ClearCtrl, Raise, Ack, Pending
    <3>3. ControlOK'
      BY <2>11 DEF Wake, ControlOK, Waiting
    <3>4. CountsOK'
      BY <2>11 DEF Wake, CountsOK
    <3> QED
      BY <3>1, <3>2, <3>3, <3>4
  <2>12. CASE Restore
    <3>1. BitsOK'
      BY <2>12 DEF Restore, BitsOK, Execute, ClearCtrl
    <3>2. SetsOK'
      BY <2>12 DEF Restore, SetsOK, Irq, Execute, ClearCtrl, Raise, Ack, Pending
    <3>3. ControlOK'
      BY <2>12 DEF Restore, ControlOK, Waiting
    <3>4. CountsOK'
      BY <2>12 DEF Restore, CountsOK
    <3> QED
      BY <3>1, <3>2, <3>3, <3>4
  <2>13. CASE Status
    <3>1. BitsOK'
      BY <2>13 DEF Status, BitsOK, Execute, ClearCtrl
    <3>2. SetsOK'
      BY <2>13 DEF Status, SetsOK, Irq, Execute, ClearCtrl, Raise, Ack, Pending
    <3>3. ControlOK'
      BY <2>13 DEF Status, ControlOK, Waiting
    <3>4. CountsOK'
      BY <2>13 DEF Status, CountsOK
    <3> QED
      BY <3>1, <3>2, <3>3, <3>4
  <2>14. CASE ResetChip
    <3>1. BitsOK'
      BY <2>14 DEF ResetChip, BitsOK, Execute, ClearCtrl
    <3>2. SetsOK'
      BY <2>14 DEF ResetChip, SetsOK, Irq, Execute, ClearCtrl, Raise, Ack, Pending
    <3>3. ControlOK'
      BY <2>14 DEF ResetChip, ControlOK, Waiting
    <3>4. CountsOK'
      <4>1. sdEvents' \in 0 .. MaxSdEvents
        BY <2>14 DEF ResetChip, CountsOK
      <4>2. resets \in 0 .. 2 /\ (IF resets > 0 THEN resets' = resets - 1 ELSE resets' = resets)
        BY <2>14 DEF ResetChip, CountsOK
      <4> QED
        BY <4>1, <4>2 DEF CountsOK
    <3> QED
      BY <3>1, <3>2, <3>3, <3>4
  <2>15. CASE ResetDone
    <3>1. BitsOK'
      BY <2>15 DEF ResetDone, BitsOK, Execute, ClearCtrl
    <3>2. SetsOK'
      BY <2>15 DEF ResetDone, SetsOK, Irq, Execute, ClearCtrl, Raise, Ack, Pending
    <3>3. ControlOK'
      BY <2>15 DEF ResetDone, ControlOK, Waiting
    <3>4. CountsOK'
      BY <2>15 DEF ResetDone, CountsOK
    <3> QED
      BY <3>1, <3>2, <3>3, <3>4
  <2>16. CASE TakeIrq
    <3>1. BitsOK'
      BY <2>16 DEF TakeIrq, BitsOK, Execute, ClearCtrl
    <3>2. SetsOK'
      BY <2>16 DEF TakeIrq, SetsOK, Irq, Execute, ClearCtrl, Raise, Ack, Pending
    <3>3. ControlOK'
      BY <2>16 DEF TakeIrq, ControlOK, Waiting
    <3>4. CountsOK'
      BY <2>16 DEF TakeIrq, CountsOK
    <3> QED
      BY <3>1, <3>2, <3>3, <3>4
  <2>17. CASE QuietNand
    <3>1. BitsOK'
      BY <2>17 DEF QuietNand, BitsOK, Execute, ClearCtrl
    <3>2. SetsOK'
      BY <2>17 DEF QuietNand, SetsOK, Irq, Execute, ClearCtrl, Raise, Ack, Pending
    <3>3. ControlOK'
      BY <2>17 DEF QuietNand, ControlOK, Waiting
    <3>4. CountsOK'
      BY <2>17 DEF QuietNand, CountsOK
    <3> QED
      BY <3>1, <3>2, <3>3, <3>4
  <2>18. CASE AckNand
    <3>1. BitsOK'
      BY <2>18 DEF AckNand, BitsOK, Execute, ClearCtrl
    <3>2. SetsOK'
      BY <2>18 DEF AckNand, SetsOK, Irq, Execute, ClearCtrl, Raise, Ack, Pending
    <3>3. ControlOK'
      BY <2>18 DEF AckNand, ControlOK, Waiting
    <3>4. CountsOK'
      BY <2>18 DEF AckNand, CountsOK
    <3> QED
      BY <3>1, <3>2, <3>3, <3>4
  <2>19. CASE NandIrq
    <3>1. BitsOK'
      BY <2>19 DEF NandIrq, BitsOK, Execute, ClearCtrl
    <3>2. SetsOK'
      BY <2>19 DEF NandIrq, SetsOK, Irq, Execute, ClearCtrl, Raise, Ack, Pending
    <3>3. ControlOK'
      BY <2>19 DEF NandIrq, ControlOK, Waiting
    <3>4. CountsOK'
      BY <2>19 DEF NandIrq, CountsOK
    <3> QED
      BY <3>1, <3>2, <3>3, <3>4
  <2>20. CASE SdcardIrq
    <3>1. BitsOK'
      BY <2>20 DEF SdcardIrq, BitsOK, Execute, ClearCtrl
    <3>2. SetsOK'
      BY <2>20 DEF SdcardIrq, SetsOK, Irq, Execute, ClearCtrl, Raise, Ack, Pending
    <3>3. ControlOK'
      BY <2>20 DEF SdcardIrq, ControlOK, Waiting
    <3>4. CountsOK'
      BY <2>20 DEF SdcardIrq, CountsOK
    <3> QED
      BY <3>1, <3>2, <3>3, <3>4
  <2>21. CASE AckSd
    <3>1. BitsOK'
      BY <2>21 DEF AckSd, BitsOK, Execute, ClearCtrl
    <3>2. SetsOK'
      BY <2>21 DEF AckSd, SetsOK, Irq, Execute, ClearCtrl, Raise, Ack, Pending
    <3>3. ControlOK'
      BY <2>21 DEF AckSd, ControlOK, Waiting
    <3>4. CountsOK'
      BY <2>21 DEF AckSd, CountsOK
    <3> QED
      BY <3>1, <3>2, <3>3, <3>4
  <2>22. CASE HwDone
    <3>1. BitsOK'
      BY <2>22 DEF HwDone, BitsOK, Execute, ClearCtrl
    <3>2. SetsOK'
      BY <2>22 DEF HwDone, SetsOK, Irq, Execute, ClearCtrl, Raise, Ack, Pending
    <3>3. ControlOK'
      BY <2>22 DEF HwDone, ControlOK, Waiting
    <3>4. CountsOK'
      BY <2>22 DEF HwDone, CountsOK
    <3> QED
      BY <3>1, <3>2, <3>3, <3>4
  <2>23. CASE HwSd
    <3>1. BitsOK'
      BY <2>23 DEF HwSd, BitsOK, Execute, ClearCtrl
    <3>2. SetsOK'
      BY <2>23 DEF HwSd, SetsOK, Irq, Execute, ClearCtrl, Raise, Ack, Pending
    <3>3. ControlOK'
      BY <2>23 DEF HwSd, ControlOK, Waiting
    <3>4. CountsOK'
      BY <2>23 DEF HwSd, CountsOK
    <3> QED
      BY <3>1, <3>2, <3>3, <3>4
  <2>25. CASE Correct
    <3>0. PICK bad \in BOOLEAN : Corrected(bad)
      BY <2>25 DEF Correct
    <3>1. BitsOK'
      BY <3>0 DEF Corrected, BitsOK
    <3>2. SetsOK'
      BY <3>0 DEF Corrected, SetsOK, Irq
    <3>3. ControlOK'
      BY <3>0 DEF Corrected, ControlOK
    <3>4. CountsOK'
      BY <3>0 DEF Corrected, CountsOK
    <3> QED
      BY <3>1, <3>2, <3>3, <3>4
  <2>24. CASE UNCHANGED vars
    <3>1. BitsOK'
      BY <2>24 DEF vars, BitsOK, Execute, ClearCtrl
    <3>2. SetsOK'
      BY <2>24 DEF vars, SetsOK, Irq, Execute, ClearCtrl, Raise, Ack, Pending
    <3>3. ControlOK'
      BY <2>24 DEF vars, ControlOK, Waiting
    <3>4. CountsOK'
      BY <2>24 DEF vars, CountsOK
    <3> QED
      BY <3>1, <3>2, <3>3, <3>4
  <2> QED
    BY <2>1, <2>2, <2>3, <2>4, <2>5, <2>6, <2>7, <2>8, <2>9, <2>10, <2>11, <2>12,
       <2>13, <2>14, <2>15, <2>16, <2>17, <2>18, <2>19, <2>20, <2>21, <2>22, <2>23, <2>24,
       <2>25 DEF Next, Program, Wait, Resetting, Handler
<1> QED
  BY <1>1, <1>2, PTL DEF Spec

---------------------------------------------------------------------------
\* The handler is not about to serve NAND, or has already set irq_flag.
NotServing == /\ hpc \notin {"ackNand", "flag"}
              /\ hpc = "nand" => "NAND" \notin all_mask

\* No completion is on its way from the controller to irq_flag.
Silent == "NAND" \notin line /\ "NAND" \notin intsr /\ NotServing

\* How far the completion of the command waited for has come.
Running   == exec /\ wantIrq /\ ~irq_flag /\ Silent
Signalled == ~exec /\ ~irq_flag /\ "NAND" \in line /\ "NAND" \in intsr
               /\ hpc \notin {"ackNand", "flag"}
Quieted   == hpc = "ackNand" /\ ~exec /\ ~irq_flag /\ "NAND" \notin line /\ "NAND" \in intsr
Acked     == hpc = "flag" /\ ~exec /\ ~irq_flag /\ "NAND" \notin line /\ "NAND" \notin intsr
Served    == ~exec /\ irq_flag /\ Silent

WaitInv ==
  /\ pc \in Waiting => Running \/ Signalled \/ Quieted \/ Acked \/ Served
  /\ pc = "status" => Served
  /\ pc \notin Waiting => Silent /\ (exec => ~wantIrq)
  /\ pc \in Waiting \cup {"exec"} => "NAND" \in intmr
  /\ masked <=> pc \in {"recheck", "sleep", "restore"}
  /\ masked => hpc = "none"
  /\ pc = "sleep" => ~irq_flag
  /\ pc \in {"enable", "exec"} => ~irq_flag

\* The completion of a command is followed from the controller to irq_flag, and
\* never seen outside the wait it belongs to.
THEOREM WaitInvariant == Spec => []WaitInv
<1> USE DEF Irq, Waiting, nandctrl, lattice, handler, At, Execute, ClearCtrl, Raise, Ack,
            Error, Success, Pending, NotServing, Silent, Running, Signalled, Quieted, Acked, Served
<1>1. Init => WaitInv
  BY DEF Init, WaitInv
<1>2. TypeOK /\ WaitInv /\ [Next]_vars => WaitInv'
  <2> SUFFICES ASSUME TypeOK, WaitInv, [Next]_vars PROVE WaitInv'
    OBVIOUS
  <2> USE DEF TypeOK, BitsOK, SetsOK, ControlOK, WaitInv
  <2>1. CASE ReadPage
    BY <2>1 DEF ReadPage
  <2>2. CASE ReadChipid
    BY <2>2 DEF ReadChipid
  <2>3. CASE Refuse
    BY <2>3 DEF Refuse
  <2>4. CASE Poll
    BY <2>4 DEF Poll
  <2>5. CASE ClearFlag
    BY <2>5 DEF ClearFlag
  <2>6. CASE EnableIrq
    BY <2>6 DEF EnableIrq
  <2>7. CASE ExecRead
    BY <2>7 DEF ExecRead
  <2>8. CASE Check
    BY <2>8 DEF Check
  <2>9. CASE Kill
    BY <2>9 DEF Kill
  <2>10. CASE Recheck
    BY <2>10 DEF Recheck
  <2>11. CASE Wake
    BY <2>11 DEF Wake
  <2>12. CASE Restore
    BY <2>12 DEF Restore
  <2>13. CASE Status
    BY <2>13 DEF Status
  <2>14. CASE ResetChip
    BY <2>14 DEF ResetChip
  <2>15. CASE ResetDone
    BY <2>15 DEF ResetDone
  <2>16. CASE TakeIrq
    BY <2>16 DEF TakeIrq
  <2>17. CASE QuietNand
    BY <2>17 DEF QuietNand
  <2>18. CASE AckNand
    BY <2>18 DEF AckNand
  <2>19. CASE NandIrq
    BY <2>19 DEF NandIrq
  <2>20. CASE SdcardIrq
    BY <2>20 DEF SdcardIrq
  <2>21. CASE AckSd
    BY <2>21 DEF AckSd
  <2>22. CASE HwDone
    BY <2>22 DEF HwDone
  <2>23. CASE HwSd
    BY <2>23 DEF HwSd
  <2>25. CASE Correct
    BY <2>25 DEF Correct, Corrected
  <2>24. CASE UNCHANGED vars
    BY <2>24 DEF vars
  <2> QED
    BY <2>1, <2>2, <2>3, <2>4, <2>5, <2>6, <2>7, <2>8, <2>9, <2>10, <2>11, <2>12, <2>13,
       <2>14, <2>15, <2>16, <2>17, <2>18, <2>19, <2>20, <2>21, <2>22, <2>23, <2>24,
       <2>25 DEF Next, Program, Wait, Resetting, Handler
<1> QED
  BY <1>1, <1>2, TypeCorrect, PTL DEF Spec

\* nand_wait_irq returns only after the command it waits for.
THEOREM WaitCorrect == Spec => []WaitMeansDone
<1>1. WaitInv => WaitMeansDone
  BY DEF WaitInv, WaitMeansDone, Served
<1> QED
  BY <1>1, WaitInvariant, PTL

\* nand_wait_irq never puts the core to sleep after its wake-up has been used up.
THEOREM SleepCorrect == Spec => []SleepIsWoken
<1>1. WaitInv => SleepIsWoken
  BY DEF WaitInv, SleepIsWoken, Waiting, Pending, Running, Signalled, Quieted, Acked, Served
<1> QED
  BY <1>1, WaitInvariant, PTL

\* Where the error of the command waited for is: none yet, or still in the register.
ErrorKept ==
  /\ exec => pc \in Waiting \cup {"poll", "resetting"}
  /\ pc \in Waiting \cup {"status"} /\ ~exec => (faulty => err)
  /\ pc = "ecc" => ~faulty
  /\ pc \notin {"idle", "reset", "resetting"} => res = "none"
  /\ res = "ok" => ~faulty /\ pc = "idle"

\* The error of a command stays where the program will look for it, on a
\* controller whose error bit survives the handler's write.
THEOREM ErrorInvariant ==
  ASSUME ~AckClearsError
  PROVE  Spec => []ErrorKept
<1> USE DEF Irq, Waiting, nandctrl, lattice, handler, At, Execute, ClearCtrl, Raise, Ack,
            Error, Success, Pending
<1>1. Init => ErrorKept
  BY DEF Init, ErrorKept
<1>2. TypeOK /\ WaitInv /\ ErrorKept /\ [Next]_vars => ErrorKept'
  <2> SUFFICES ASSUME TypeOK, WaitInv, ErrorKept, [Next]_vars PROVE ErrorKept'
    OBVIOUS
  <2> USE DEF TypeOK, BitsOK, ControlOK, ErrorKept
  <2>1. CASE ReadPage
    BY <2>1 DEF ReadPage
  <2>2. CASE ReadChipid
    BY <2>2 DEF ReadChipid
  <2>3. CASE Refuse
    BY <2>3 DEF Refuse
  <2>4. CASE Poll
    BY <2>4 DEF Poll
  <2>5. CASE ClearFlag
    BY <2>5 DEF ClearFlag
  <2>6. CASE EnableIrq
    BY <2>6 DEF EnableIrq
  <2>7. CASE ExecRead
    BY <2>7 DEF ExecRead, WaitInv
  <2>8. CASE Check
    BY <2>8 DEF Check, WaitInv, NotServing, Silent, Running, Signalled, Quieted, Acked, Served
  <2>9. CASE Kill
    BY <2>9 DEF Kill
  <2>10. CASE Recheck
    BY <2>10 DEF Recheck
  <2>11. CASE Wake
    BY <2>11 DEF Wake
  <2>12. CASE Restore
    BY <2>12 DEF Restore
  <2>13. CASE Status
    BY <2>13 DEF Status, WaitInv, Served
  <2>14. CASE ResetChip
    BY <2>14 DEF ResetChip
  <2>15. CASE ResetDone
    BY <2>15 DEF ResetDone
  <2>16. CASE TakeIrq
    BY <2>16 DEF TakeIrq
  <2>17. CASE QuietNand
    BY <2>17 DEF QuietNand, WaitInv, NotServing, Silent, Running, Signalled, Quieted, Acked, Served
  <2>18. CASE AckNand
    BY <2>18 DEF AckNand
  <2>19. CASE NandIrq
    BY <2>19 DEF NandIrq
  <2>20. CASE SdcardIrq
    BY <2>20 DEF SdcardIrq
  <2>21. CASE AckSd
    BY <2>21 DEF AckSd
  <2>22. CASE HwDone
    BY <2>22 DEF HwDone, WaitInv, Silent
  <2>23. CASE HwSd
    BY <2>23 DEF HwSd
  <2>24. CASE UNCHANGED vars
    BY <2>24 DEF vars
  <2>25. CASE Correct
    BY <2>25 DEF Correct, Corrected
  <2> QED
    BY <2>1, <2>2, <2>3, <2>4, <2>5, <2>6, <2>7, <2>8, <2>9, <2>10, <2>11, <2>12, <2>13,
       <2>14, <2>15, <2>16, <2>17, <2>18, <2>19, <2>20, <2>21, <2>22, <2>23, <2>24, <2>25
       DEF Next, Program, Wait, Resetting, Handler
<1> QED
  BY <1>1, <1>2, TypeCorrect, WaitInvariant, PTL DEF Spec

\* On a controller whose error bit survives the handler's write, a command that
\* failed is never reported as read.
THEOREM FailureCorrect ==
  ASSUME ~AckClearsError
  PROVE  Spec => []FailureReported
<1>1. ErrorKept => FailureReported
  BY DEF ErrorKept, FailureReported
<1> QED
  BY <1>1, ErrorInvariant, PTL

\* The handler's write to NAND_CTRL never stops a command that is being executed.
THEOREM QuietCorrect == Spec => NoStrayQuiet
<1>1. WaitInv => (hpc = "nand" /\ "NAND" \in all_mask => ~exec /\ pc \in Waiting)
  BY DEF WaitInv, Waiting, NotServing, Silent, Running, Signalled, Quieted, Acked, Served
<1> QED
  BY <1>1, WaitInvariant, PTL DEF NoStrayQuiet

-----------------------------------------------------------------------------
(* The composition: Nand and NandEcc.                                     *)

\* A step of the composition is a step of the wait and a step of the correction.
LEMMA StepImplements ==
  /\ [ReadNext]_readVars => [Next]_vars
  /\ [ReadNext]_readVars => [EccNext]_eccVars
<1> SUFFICES ASSUME [ReadNext]_readVars PROVE [Next]_vars /\ [EccNext]_eccVars
  OBVIOUS
<1>1. CASE Alone(ReadPage \/ ReadChipid \/ Refuse \/ Handler \/ HwDone \/ HwSd)
  BY <1>1 DEF Alone, Next
<1>2. CASE Alone(Poll \/ Wait \/ Resetting)
  BY <1>2 DEF Alone, Next, Program
<1>3. CASE ReadStatus
  BY <1>3 DEF ReadStatus, Next, Program, EccNext
<1>4. CASE CorrectPage
  BY <1>4 DEF CorrectPage, EccNext
<1>5. CASE ReadResult
  <2>1. (eccRes < 0) \in BOOLEAN
    OBVIOUS
  <2>2. Correct
    BY <1>5, <2>1 DEF ReadResult, Correct
  <2> QED
    BY <1>5, <2>2 DEF ReadResult, Next, Program, EccNext
<1>6. CASE UNCHANGED readVars
  BY <1>6 DEF readVars
<1> QED
  BY <1>1, <1>2, <1>3, <1>4, <1>5, <1>6 DEF ReadNext, ReadProgram

\* nand_read_page waits as Nand says and corrects as NandEcc says.
THEOREM Implements == ReadSpec => Spec /\ EccSpec
<1>1. ReadInit => Init /\ EccInit
  BY DEF ReadInit
<1> QED
  BY <1>1, StepImplements, PTL DEF ReadSpec, Spec, EccSpec

\* The correction runs exactly while the program is in its call.
CallInv == eccPc # "idle" <=> pc = "ecc"

LEMMA CallInvariant == ReadSpec => []CallInv
<1>1. ReadInit => CallInv
  BY DEF ReadInit, Init, EccInit, CallInv
<1>2. TypeOK /\ EccTypeOK /\ CallInv /\ [ReadNext]_readVars => CallInv'
  <2> SUFFICES ASSUME TypeOK, EccTypeOK, CallInv, [ReadNext]_readVars PROVE CallInv'
    OBVIOUS
  <2> USE DEF CallInv, At, handler
  <2>1. CASE Alone(ReadPage \/ ReadChipid \/ Refuse)
    BY <2>1 DEF Alone, eccVars, ReadPage, ReadChipid, Refuse, Error
  <2>2. CASE Alone(Handler \/ HwDone \/ HwSd)
    BY <2>2 DEF Alone, eccVars, Handler, TakeIrq, QuietNand, AckNand, NandIrq, SdcardIrq, AckSd,
                HwDone, HwSd
  <2>3. CASE Alone(Poll \/ Wait \/ Resetting)
    BY <2>3 DEF Alone, eccVars, Poll, Wait, Resetting, ClearFlag, EnableIrq, ExecRead, Check, Kill,
                Recheck, Wake, Restore, ResetChip, ResetDone
  <2>4. CASE ReadStatus
    BY <2>4 DEF ReadStatus, Status, Error, Success, EccCall, eccVars
  <2>5. CASE CorrectPage
    BY <2>5 DEF CorrectPage, Correcting, Compare, Continue, Uncorrectable, Fix, Return, InLoop, vars
  <2>6. CASE ReadResult
    BY <2>6 DEF ReadResult, Corrected, Error, Success, EccLeave
  <2>7. CASE UNCHANGED readVars
    BY <2>7 DEF readVars, vars, eccVars
  <2> QED
    BY <2>1, <2>2, <2>3, <2>4, <2>5, <2>6, <2>7 DEF ReadNext, ReadProgram, Alone
<1> QED
  BY <1>1, <1>2, Implements, TypeCorrect, EccTypeCorrect, PTL DEF ReadSpec

\* Types of both parts, and the call.
THEOREM ReadTypeCorrect == ReadSpec => []ReadTypeOK
<1>1. TypeOK /\ EccTypeOK /\ CallInv => ReadTypeOK
  BY DEF ReadTypeOK, CallInv
<1> QED
  BY <1>1, Implements, TypeCorrect, EccTypeCorrect, CallInvariant, PTL

\* Only the end of the correction reports a page, with the correction's result.
LEMMA ResultStep ==
  ASSUME TypeOK, ReadTypeOK, [ReadNext]_readVars, pc = "ecc", res' # res
  PROVE  /\ eccPc = "done"
         /\ res' = "ok" => eccRes >= 0
         /\ res' = "error" => eccRes < 0
<1>1. CASE ReadResult
  <2>1. eccRes \in {-1, 0, 1}
    BY DEF ReadTypeOK, EccTypeOK
  <2> QED
    BY <1>1, <2>1 DEF ReadResult, Corrected, Error, Success, EccLeave
<1>2. CASE Alone(ReadPage \/ ReadChipid \/ Refuse \/ Poll \/ Wait \/ Resetting) \/ ReadStatus
  BY <1>2 DEF Alone, At, ReadPage, ReadChipid, Refuse, Poll, Wait, Resetting, ClearFlag, EnableIrq,
              ExecRead, Check, Kill, Recheck, Wake, Restore, ResetChip, ResetDone, ReadStatus, Status
<1>3. CASE Alone(Handler \/ HwDone \/ HwSd) \/ CorrectPage \/ UNCHANGED readVars
  BY <1>3 DEF Alone, Handler, TakeIrq, QuietNand, AckNand, NandIrq, SdcardIrq, AckSd, HwDone, HwSd,
              CorrectPage, readVars, vars
<1> QED
  BY <1>1, <1>2, <1>3 DEF ReadNext, ReadProgram, Alone

\* A page reported as read is the page, on a controller whose error bit survives
\* the handler's write.
THEOREM PageCorrect ==
  ASSUME ~AckClearsError
  PROVE  ReadSpec => PageIsRight
<1>1. /\ TypeOK /\ ReadTypeOK /\ ErrorKept /\ PassedIsRight /\ UnformattedKept /\ [ReadNext]_readVars
      => [pc = "ecc" /\ res' = "ok" =>
            /\ ~faulty
            /\ IF formatted
               THEN (\A w \in Word : Flips(fault[w]) <= 2) => data = written
               ELSE \A w \in Word : data[w] = Xor(written[w], fault[w].data)]_readVars
  <2> SUFFICES ASSUME TypeOK, ReadTypeOK, ErrorKept, PassedIsRight, UnformattedKept,
                      [ReadNext]_readVars, pc = "ecc", res' = "ok"
               PROVE  /\ ~faulty
                      /\ formatted /\ (\A w \in Word : Flips(fault[w]) <= 2) => data = written
                      /\ ~formatted => \A w \in Word : data[w] = Xor(written[w], fault[w].data)
    BY Zenon
  <2>1. ~faulty /\ res = "none"
    BY DEF ErrorKept
  <2>2. eccPc = "done" /\ eccRes >= 0
    BY <2>1, ResultStep
  <2> QED
    BY <2>1, <2>2 DEF PassedIsRight, UnformattedKept
<1> QED
  BY <1>1, Implements, TypeCorrect, ReadTypeCorrect, ErrorInvariant, PassedCorrect,
     UnformattedCorrect, PTL DEF ReadSpec, PageIsRight

\* A page is refused only for a word of it with more than one wrong bit.
THEOREM RefusalCorrect ==
  ASSUME ~AckClearsError
  PROVE  ReadSpec => RefusedForReason
<1>1. /\ TypeOK /\ ReadTypeOK /\ ErrorKept /\ GivenUpForReason /\ [ReadNext]_readVars
      => [pc = "ecc" /\ res' = "error" => formatted /\ \E w \in Word : Flips(fault[w]) > 1]_readVars
  <2> SUFFICES ASSUME TypeOK, ReadTypeOK, ErrorKept, GivenUpForReason, [ReadNext]_readVars,
                      pc = "ecc", res' = "error"
               PROVE  formatted /\ \E w \in Word : Flips(fault[w]) > 1
    OBVIOUS
  <2>1. res = "none"
    BY DEF ErrorKept
  <2>2. eccPc = "done" /\ eccRes < 0
    BY <2>1, ResultStep
  <2> QED
    BY <2>2 DEF GivenUpForReason
<1> QED
  BY <1>1, Implements, TypeCorrect, ReadTypeCorrect, ErrorInvariant, GivenUpCorrect, PTL
     DEF ReadSpec, RefusedForReason

\* What is proved of the wait holds of the whole read.
THEOREM ReadWaits ==
  ReadSpec => [](WaitMeansDone /\ SleepIsWoken) /\ NoStrayQuiet
BY Implements, WaitCorrect, SleepCorrect, QuietCorrect, PTL
=============================================================================
