------------------------------- MODULE NandRead -------------------------------
(***************************************************************************)
(* nand_read_page as a whole: the wait of Nand and the correction of       *)
(* NandEcc, one after the other in the program.  The handler may interrupt *)
(* the correction as it may the rest.                                      *)
(***************************************************************************)
EXTENDS Nand, NandEcc

readVars == <<vars, eccVars>>

ReadInit == Init /\ EccInit

Alone(A) == A /\ UNCHANGED eccVars

\* The read command has ended: nand_ecc_correct is called for a page.
ReadStatus ==
  /\ Status
  /\ IF pc' = "ecc" THEN EccCall ELSE UNCHANGED eccVars

CorrectPage == At("ecc") /\ Correcting /\ UNCHANGED vars

\* if (res < 0) return nand_error(...)
ReadResultIgnored == Corrected(FALSE) /\ EccLeave
ReadResult == Corrected(eccRes < 0) /\ EccLeave

ReadProgram == Alone(Poll \/ Wait \/ Resetting) \/ ReadStatus \/ CorrectPage \/ ReadResult

ReadNext ==
  \/ Alone(ReadPage \/ ReadChipid \/ Refuse \/ Handler \/ HwDone \/ HwSd)
  \/ ReadProgram

ReadSpec == ReadInit /\ [][ReadNext]_readVars

\* As FairSpec of Nand, with the correction in the program.
ReadFairSpec ==
  /\ ReadSpec
  /\ WF_vars(Poll \/ Wait \/ Status \/ Resetting) /\ WF_readVars(CorrectPage \/ ReadResult)
  /\ SF_vars(Handler) /\ WF_vars(HwDone)

---------------------------------------------------------------------------
\* Types of both parts; the correction runs only where the program calls it.
ReadTypeOK == TypeOK /\ EccTypeOK /\ (eccPc # "idle" <=> pc = "ecc")

\* A page reported as read is the page: the controller did not fail the command,
\* and the caller's buffer holds what was written, bit errors put right, or the
\* page as it came if it was never written; unless a word of it has more than
\* two wrong bits.
PageIsRight ==
  [][pc = "ecc" /\ res' = "ok" =>
       /\ ~faulty
       /\ IF formatted
          THEN (\A w \in Word : Flips(fault[w]) <= 2) => data = written
          ELSE \A w \in Word : data[w] = Xor(written[w], fault[w].data)]_readVars

\* A page is refused only for a reason: the controller's error, or a word with
\* more than one wrong bit; whatever interrupts the read.
RefusedForReason ==
  [][pc = "ecc" /\ res' = "error" => formatted /\ \E w \in Word : Flips(fault[w]) > 1]_readVars
===============================================================================
