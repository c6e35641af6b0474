------------------------------- MODULE NandEcc -------------------------------
(***************************************************************************)
(* nand_ecc_correct of arm/storage/nand/nand.c: a page read from the NAND  *)
(* comes with the ECC words stored with it and the ones the controller     *)
(* computed from the data as read, one word per 512 bytes.                 *)
(*                                                                         *)
(* A bit of the data is named by its address, the set of the positions of  *)
(* the ones in its binary number; the data of a word is the set of the     *)
(* addresses of its ones, and an exclusive or is a symmetric difference.   *)
(* The code has 12 address bits: odd = bits 16 to 27 of an ECC word, even  *)
(* = bits 0 to 11.  That the controller computes this code is assumed: it  *)
(* is the one the correction undoes.                                       *)
(***************************************************************************)
EXTENDS Integers, FiniteSets

CONSTANTS
  AddressBits,  \* 12 in the code
  Words,        \* ECC_SIZE / 4
  Contents,     \* what may have been written to a word
  Faults        \* the bits of a page that may have flipped since, word by word

Bits == 0 .. AddressBits - 1
Address == SUBSET Bits
Word == 1 .. Words
Fault == [data : SUBSET Address, odd : SUBSET Bits, even : SUBSET Bits]

ASSUME NandEccAssumption ==
  /\ AddressBits \in Nat /\ AddressBits >= 3
  /\ Words \in Nat
  /\ Contents \subseteq SUBSET Address
  /\ Faults \subseteq [Word -> Fault]

Xor(S, T) == (S \ T) \cup (T \ S)

IsOdd(S) == Cardinality(S) % 2 = 1

\* What the controller computes for the data D of a word: the parity, for each
\* address bit, of the ones of D where that bit is set, and where it is clear.
Odd(D) == {b \in Bits : IsOdd({a \in D : b \in a})}
Even(D) == {b \in Bits : IsOdd({a \in D : b \notin a})}
Ecc(D) == [odd |-> Odd(D), even |-> Even(D), top |-> 0]

\* 0xffffffff: the bits outside of 0x0fff0fff, four at a time, are set too.
Unformatted == [odd |-> Bits, even |-> Bits, top |-> 15]

VARIABLES
  written, fault, formatted,  \* the page as it was written, and what became of it
  data, ecc_save, ecc_calc,   \* the arguments of nand_ecc_correct
  eccPc, i, eccRes

page == <<written, fault, formatted>>
eccVars == <<page, data, ecc_save, ecc_calc, eccPc, i, eccRes>>

\* Before and after the call there are no arguments.
EccInit ==
  /\ written = <<>> /\ fault = <<>> /\ formatted = FALSE
  /\ data = <<>> /\ ecc_save = <<>> /\ ecc_calc = <<>>
  /\ eccPc = "idle" /\ i = 1 /\ eccRes = 0

\* nand_read_page has the page, its spare and the computed ECC in memory.
EccCall ==
  /\ eccPc = "idle"
  /\ written' \in [Word -> Contents] /\ fault' \in Faults /\ formatted' \in BOOLEAN
  /\ data' = [w \in Word |-> Xor(written'[w], fault'[w].data)]
  /\ ecc_save' = [w \in Word |->
       IF formatted'
       THEN [odd |-> Xor(Odd(written'[w]), fault'[w].odd),
             even |-> Xor(Even(written'[w]), fault'[w].even), top |-> 0]
       ELSE Unformatted]
  /\ ecc_calc' = [w \in Word |-> Ecc(data'[w])]
  /\ eccPc' = "compare" /\ UNCHANGED <<i, eccRes>>

\* memcmp(ecc_save, ecc_calc, size)
Compare ==
  /\ eccPc = "compare"
  /\ eccPc' = IF ecc_save = ecc_calc THEN "done" ELSE "loop"
  /\ UNCHANGED <<page, data, ecc_save, ecc_calc, i, eccRes>>

\* The halves of the syndrome of word w, and (syndrome & (syndrome - 1)) == 0.
odd(w) == Xor(ecc_save[w].odd, ecc_calc[w].odd)
even(w) == Xor(ecc_save[w].even, ecc_calc[w].even)
AtMostOneBit(o, e) == /\ o = {} \/ e = {}
                      /\ \A b, c \in o : b = c
                      /\ \A b, c \in e : b = c

\* The loop leaves a word alone when nothing is wrong with it, when the page was
\* never written, or when the bit that flipped is one of the ECC itself.
SkipNoEccBit(w) == ecc_save[w] = ecc_calc[w] \/ ecc_save[w] = Unformatted
Skip(w) == \/ ecc_save[w] = ecc_calc[w]
           \/ ecc_save[w] = Unformatted
           \/ AtMostOneBit(odd(w), even(w))

InLoop == eccPc = "loop" /\ i <= Words

Continue ==
  /\ InLoop /\ Skip(i)
  /\ i' = i + 1
  /\ UNCHANGED <<page, data, ecc_save, ecc_calc, eccPc, eccRes>>

Uncorrectable ==
  /\ InLoop /\ ~Skip(i)
  /\ Xor(odd(i), even(i)) # Bits
  /\ eccPc' = "done" /\ eccRes' = -1
  /\ UNCHANGED <<page, data, ecc_save, ecc_calc, i>>

Fix ==
  /\ InLoop /\ ~Skip(i)
  /\ Xor(odd(i), even(i)) = Bits
  /\ data' = [data EXCEPT ![i] = Xor(@, {odd(i)})]
  /\ i' = i + 1
  /\ UNCHANGED <<page, ecc_save, ecc_calc, eccPc, eccRes>>

Return ==
  /\ eccPc = "loop" /\ i > Words
  /\ eccPc' = "done" /\ eccRes' = 1
  /\ UNCHANGED <<page, data, ecc_save, ecc_calc, i>>

\* The caller has the result.
EccLeave ==
  /\ eccPc = "done"
  /\ written' = <<>> /\ fault' = <<>> /\ formatted' = FALSE
  /\ data' = <<>> /\ ecc_save' = <<>> /\ ecc_calc' = <<>>
  /\ eccPc' = "idle" /\ i' = 1 /\ eccRes' = 0

Correcting == Compare \/ Continue \/ Uncorrectable \/ Fix \/ Return
EccNext == EccCall \/ Correcting \/ EccLeave

EccSpec == EccInit /\ [][EccNext]_eccVars

---------------------------------------------------------------------------
Flips(f) == Cardinality(f.data) + Cardinality(f.odd) + Cardinality(f.even)

\* Types: the arguments stay pages, and the loop stays in them.
EccTypeOK ==
  /\ eccPc # "idle" => /\ written \in [Word -> SUBSET Address]
                       /\ fault \in [Word -> Fault]
                       /\ data \in [Word -> SUBSET Address]
  /\ formatted \in BOOLEAN
  /\ eccPc \in {"idle", "compare", "loop", "done"} /\ i \in 1 .. Words + 1
  /\ eccRes \in {-1, 0, 1}

\* A page that is passed on holds what was written to it, as long as no word
\* has more than two wrong bits, in its data or in its stored ECC: one wrong
\* bit is put right, two are never "corrected" into a third.
PassedIsRight ==
  eccPc = "done" /\ eccRes >= 0 /\ formatted /\ (\A w \in Word : Flips(fault[w]) <= 2)
    => data = written

\* No page is given up whose words have at most one wrong bit each, and none
\* that was never written.
GivenUpForReason ==
  eccPc = "done" /\ eccRes < 0 => formatted /\ \E w \in Word : Flips(fault[w]) > 1

\* The data of a page that was never written is not touched, whatever it is.
UnformattedKept ==
  eccPc = "done" /\ ~formatted =>
    eccRes >= 0 /\ \A w \in Word : data[w] = Xor(written[w], fault[w].data)
=============================================================================
