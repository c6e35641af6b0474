-------------------------------- MODULE Nand --------------------------------
(***************************************************************************)
(* Waiting for the NAND controller: nand_read_page, nand_wait_irq and      *)
(* nand_initialize of arm/storage/nand/nand.c, and irq_handler of          *)
(* arm/system/irq.c.  The program starts a command, sleeps until the       *)
(* handler has set irq_flag, and checks the outcome.  The SD controller    *)
(* interrupts at any time; what sdcard_irq does then is in SdHost, here it *)
(* takes the controller's interrupt line back.                             *)
(***************************************************************************)
EXTENDS Naturals

CONSTANTS
  LevelTriggered,  \* do the flags of LT_INTSR follow the lines, or their edges?
  AckClearsError,  \* does writing ones to NAND_CTRL clear its error bit?
  MaxSdEvents      \* bound: interrupts of the SD controller

ASSUME NandAssumption ==
  LevelTriggered \in BOOLEAN /\ AckClearsError \in BOOLEAN /\ MaxSdEvents \in Nat

Irq == {"NAND", "SD0"}

VARIABLES
  exec, wantIrq, err,    \* NAND_CTRL: CTRL_FL_EXEC, CTRL_FL_IRQ, CTRL_FL_ERR
  line,                  \* the interrupt lines the devices assert
  intsr, intmr,          \* LT_INTSR_AHBALL_ARM, LT_INTMR_AHBALL_ARM
  masked,                \* irq_kill is in effect
  irq_flag,
  pc, cmd,               \* the program, and what it reads: "page" or "chipid"
  resets,                \* the chip resets nand_initialize still has to do
  hpc, all_mask,         \* irq_handler and its `all_mask'
  res,                   \* what the last command returned: "none", "ok", "error"
  faulty,                \* history: did the controller fail the last command?
  sdEvents

nandctrl == <<exec, wantIrq, err>>
lattice == <<line, intsr, intmr>>
handler == <<hpc, all_mask>>
vars == <<nandctrl, lattice, masked, irq_flag, pc, cmd, resets, handler, res, faulty, sdEvents>>

\* After irq_initialize, nand_initialize and sdcard_init.
Init ==
  /\ exec = FALSE /\ wantIrq = FALSE /\ err = FALSE
  /\ line = {} /\ intsr = {} /\ intmr = {"SD0"}
  /\ masked = FALSE
  /\ irq_flag = FALSE
  /\ pc = "idle" /\ cmd = "page" /\ resets = 0
  /\ hpc = "none" /\ all_mask = {}
  /\ res = "none" /\ faulty = FALSE /\ sdEvents = 0

\* A line rises, or its flag is acknowledged.
Raise(x) == line' = line \cup {x} /\ intsr' = intsr \cup {x}
Ack(x) == intsr' = (intsr \ {x}) \cup (IF LevelTriggered THEN line \cap {x} ELSE {})

Pending == intsr \cap intmr

\* NAND_CTRL is written without CTRL_FL_EXEC: no command, no interrupt.
ClearCtrl == exec' = FALSE /\ wantIrq' = FALSE /\ err' = FALSE /\ line' = line \ {"NAND"}
\* NAND_CTRL starts a command.
Execute(irq) == exec' = TRUE /\ wantIrq' = irq /\ err' = FALSE

\* The program runs unless the handler does.
At(p) == hpc = "none" /\ pc = p

---------------------------------------------------------------------------
\* nand_read_page, up to the start of CMD_READ_SETUP, which it polls for.
\* nand_read_chipid has no such command and goes straight to the wait.
ReadPage ==
  /\ At("idle")
  /\ Execute(FALSE)
  /\ line' = line \ {"NAND"}
  /\ res' = "none"
  /\ pc' = "poll" /\ cmd' = "page"
  /\ UNCHANGED <<intsr, intmr, masked, irq_flag, resets, handler, faulty, sdEvents>>

ReadChipid ==
  /\ At("idle")
  /\ ClearCtrl
  /\ res' = "none"
  /\ pc' = "clear" /\ cmd' = "chipid"
  /\ UNCHANGED <<intsr, intmr, masked, irq_flag, resets, handler, faulty, sdEvents>>

\* nand_error: nothing is returned before the chip has been reset.
Error == res' = "error" /\ pc' = "reset" /\ resets' = 2
Success == res' = "ok" /\ pc' = "idle" /\ UNCHANGED resets

\* A page number or a buffer that is refused: nand_error.
Refuse ==
  /\ At("idle")
  /\ ClearCtrl
  /\ Error
  /\ UNCHANGED <<intsr, intmr, masked, irq_flag, handler, faulty, sdEvents, cmd>>

\* while(read32(NAND_CTRL) & CTRL_FL_EXEC); then NAND_CTRL = 0
Poll ==
  /\ At("poll")
  /\ ~exec
  /\ ClearCtrl
  /\ pc' = "clear"
  /\ UNCHANGED <<intsr, intmr, masked, irq_flag, resets, handler, res, faulty, sdEvents, cmd>>

\* nand_irq_clear_and_enable
ClearFlagNever ==
  /\ At("clear")
  /\ pc' = "enable"
  /\ UNCHANGED <<nandctrl, lattice, masked, irq_flag, resets, handler, res, faulty, sdEvents, cmd>>
ClearFlag ==
  /\ At("clear")
  /\ irq_flag' = FALSE
  /\ pc' = "enable"
  /\ UNCHANGED <<nandctrl, lattice, masked, resets, handler, res, faulty, sdEvents, cmd>>
EnableIrq ==
  /\ At("enable")
  /\ intmr' = intmr \cup {"NAND"}
  /\ pc' = "exec"
  /\ UNCHANGED <<nandctrl, line, intsr, masked, irq_flag, resets, handler, res, faulty, sdEvents, cmd>>

\* CMD_READ or CMD_CHIPID with CTRL_FL_IRQ
ExecRead ==
  /\ At("exec")
  /\ Execute(TRUE)
  /\ pc' = "check"
  /\ UNCHANGED <<lattice, masked, irq_flag, resets, handler, res, faulty, sdEvents, cmd>>

\* nand_wait_irq
Check ==
  /\ At("check")
  /\ pc' = IF irq_flag THEN "status" ELSE "kill"
  /\ UNCHANGED <<nandctrl, lattice, masked, irq_flag, resets, handler, res, faulty, sdEvents, cmd>>
Kill ==
  /\ At("kill")
  /\ masked' = TRUE
  /\ pc' = "recheck"
  /\ UNCHANGED <<nandctrl, lattice, irq_flag, resets, handler, res, faulty, sdEvents, cmd>>
RecheckNever ==
  /\ At("recheck")
  /\ pc' = "sleep"
  /\ UNCHANGED <<nandctrl, lattice, masked, irq_flag, resets, handler, res, faulty, sdEvents, cmd>>
Recheck ==
  /\ At("recheck")
  /\ pc' = IF irq_flag THEN "restore" ELSE "sleep"
  /\ UNCHANGED <<nandctrl, lattice, masked, irq_flag, resets, handler, res, faulty, sdEvents, cmd>>
\* irq_wait: an interrupt that is pending wakes the core even while masked.
Wake ==
  /\ At("sleep")
  /\ Pending # {}
  /\ pc' = "restore"
  /\ UNCHANGED <<nandctrl, lattice, masked, irq_flag, resets, handler, res, faulty, sdEvents, cmd>>
Restore ==
  /\ At("restore")
  /\ masked' = FALSE
  /\ pc' = "check"
  /\ UNCHANGED <<nandctrl, lattice, irq_flag, resets, handler, res, faulty, sdEvents, cmd>>

\* The error bit; a page that has come without one goes to nand_ecc_correct.
Status ==
  /\ At("status")
  /\ ClearCtrl
  /\ \/ err /\ Error
     \/ ~err /\ cmd = "chipid" /\ Success
     \/ ~err /\ cmd = "page" /\ pc' = "ecc" /\ UNCHANGED <<res, resets>>
  /\ UNCHANGED <<intsr, intmr, masked, irq_flag, handler, faulty, sdEvents, cmd>>

\* What it makes of the page: here any outcome, in NandRead the one it computes.
Corrected(bad) ==
  /\ At("ecc")
  /\ IF bad THEN Error ELSE Success
  /\ UNCHANGED <<nandctrl, lattice, masked, irq_flag, handler, faulty, sdEvents, cmd>>
Correct == \E bad \in BOOLEAN : Corrected(bad)

\* nand_initialize: the interface is shut down and CMD_RESET is polled for, twice.
ResetChip ==
  /\ At("reset")
  /\ IF resets > 0
     THEN Execute(FALSE) /\ pc' = "resetting" /\ resets' = resets - 1
     ELSE exec' = FALSE /\ wantIrq' = FALSE /\ err' = FALSE /\ pc' = "idle" /\ UNCHANGED resets
  /\ line' = line \ {"NAND"}
  /\ UNCHANGED <<intsr, intmr, masked, irq_flag, handler, res, faulty, sdEvents, cmd>>
ResetDone ==
  /\ At("resetting")
  /\ ~exec
  /\ ClearCtrl
  /\ pc' = "reset"
  /\ UNCHANGED <<intsr, intmr, masked, irq_flag, resets, handler, res, faulty, sdEvents, cmd>>

---------------------------------------------------------------------------
\* irq_handler: the interrupts it serves are read once, at its start.
TakeIrq ==
  /\ hpc = "none" /\ ~masked
  /\ Pending # {}
  /\ all_mask' = Pending
  /\ hpc' = "nand"
  /\ UNCHANGED <<nandctrl, lattice, masked, irq_flag, pc, resets, res, faulty, sdEvents, cmd>>

\* write32(NAND_CTRL, 0x7fffffff): shut it up
QuietNand ==
  /\ hpc = "nand"
  /\ IF "NAND" \in all_mask
     THEN /\ exec' = FALSE /\ wantIrq' = FALSE
          /\ err' = (err /\ ~AckClearsError)
          /\ line' = line \ {"NAND"}
          /\ hpc' = "ackNand"
     ELSE hpc' = "sd" /\ UNCHANGED <<nandctrl, line>>
  /\ UNCHANGED <<intsr, intmr, masked, irq_flag, pc, resets, all_mask, res, faulty, sdEvents, cmd>>

AckNandNot ==
  /\ hpc = "ackNand"
  /\ hpc' = "flag"
  /\ UNCHANGED <<nandctrl, lattice, masked, irq_flag, pc, resets, all_mask, res, faulty, sdEvents, cmd>>
AckNand ==
  /\ hpc = "ackNand"
  /\ Ack("NAND")
  /\ hpc' = "flag"
  /\ UNCHANGED <<nandctrl, line, intmr, masked, irq_flag, pc, resets, all_mask, res, faulty, sdEvents, cmd>>

\* nand_irq
NandIrq ==
  /\ hpc = "flag"
  /\ irq_flag' = TRUE
  /\ hpc' = "sd"
  /\ UNCHANGED <<nandctrl, lattice, masked, pc, resets, all_mask, res, faulty, sdEvents, cmd>>

SdcardIrqSkips ==
  /\ hpc = "sd"
  /\ hpc' = IF "SD0" \in all_mask THEN "ackSd" ELSE "none"
  /\ UNCHANGED <<nandctrl, lattice, masked, irq_flag, pc, resets, all_mask, res, faulty, sdEvents, cmd>>
SdcardIrq ==
  /\ hpc = "sd"
  /\ IF "SD0" \in all_mask
     THEN line' = line \ {"SD0"} /\ hpc' = "ackSd"
     ELSE hpc' = "none" /\ UNCHANGED line
  /\ UNCHANGED <<nandctrl, intsr, intmr, masked, irq_flag, pc, resets, all_mask, res, faulty, sdEvents, cmd>>

AckSd ==
  /\ hpc = "ackSd"
  /\ Ack("SD0")
  /\ hpc' = "none"
  /\ UNCHANGED <<nandctrl, line, intmr, masked, irq_flag, pc, resets, all_mask, res, faulty, sdEvents, cmd>>

---------------------------------------------------------------------------
\* The controller ends a command, with or without an error.
HwDone ==
  /\ exec
  /\ exec' = FALSE
  /\ err' \in BOOLEAN /\ faulty' = err'
  /\ IF wantIrq THEN Raise("NAND") ELSE UNCHANGED <<line, intsr>>
  /\ UNCHANGED <<wantIrq, intmr, masked, irq_flag, pc, resets, handler, res, sdEvents, cmd>>

\* The SD controller raises its line.
HwSd ==
  /\ "SD0" \notin line
  /\ sdEvents < MaxSdEvents
  /\ sdEvents' = sdEvents + 1
  /\ Raise("SD0")
  /\ UNCHANGED <<nandctrl, intmr, masked, irq_flag, pc, resets, handler, res, faulty, cmd>>

Wait == ClearFlag \/ EnableIrq \/ ExecRead \/ Check \/ Kill \/ Recheck \/ Wake \/ Restore
Resetting == ResetChip \/ ResetDone
Program == Poll \/ Wait \/ Status \/ Correct \/ Resetting
Handler == TakeIrq \/ QuietNand \/ AckNand \/ NandIrq \/ SdcardIrq \/ AckSd

Next == ReadPage \/ ReadChipid \/ Refuse \/ Program \/ Handler \/ HwDone \/ HwSd

Spec == Init /\ [][Next]_vars

\* The core executes and the controller ends what it started.  An unmasked
\* pending interrupt may be taken some instructions late, but not never: the
\* program cannot slip through irq_restore and irq_kill for ever without it,
\* hence strong fairness.  Nothing forces the program to start a command.
FairSpec == Spec /\ WF_vars(Program) /\ SF_vars(Handler) /\ WF_vars(HwDone)

---------------------------------------------------------------------------
Waiting == {"check", "kill", "recheck", "sleep", "restore"}

BitsOK ==
  /\ exec \in BOOLEAN /\ wantIrq \in BOOLEAN /\ err \in BOOLEAN
  /\ masked \in BOOLEAN /\ irq_flag \in BOOLEAN /\ faulty \in BOOLEAN
SetsOK ==
  /\ line \subseteq Irq /\ intsr \subseteq Irq /\ intmr \subseteq Irq
  /\ all_mask \subseteq Irq
ControlOK ==
  /\ pc \in Waiting \cup {"idle", "poll", "clear", "enable", "exec", "status", "ecc",
                          "reset", "resetting"}
  /\ cmd \in {"page", "chipid"}
  /\ hpc \in {"none", "nand", "ackNand", "flag", "sd", "ackSd"}
  /\ res \in {"none", "ok", "error"}
CountsOK == resets \in 0 .. 2 /\ sdEvents \in 0 .. MaxSdEvents

\* Types of the controller, the interrupt registers and both control points.
TypeOK == BitsOK /\ SetsOK /\ ControlOK /\ CountsOK

\* nand_wait_irq returns only when the command it waits for has ended: no flag
\* left over from an earlier command, and no other interrupt, ends the wait.
WaitMeansDone == pc = "status" => ~exec

\* The core never sleeps with nothing left to wake it: the completion has not
\* come yet, or it is pending and enabled (the second look at irq_flag, with
\* interrupts killed, in nand_wait_irq).
SleepIsWoken ==
  pc = "sleep" => \/ exec /\ wantIrq /\ "NAND" \in intmr
                  \/ "NAND" \in Pending

\* A command the controller failed is never reported as read: the error bit
\* survives the handler until nand_read_page looks at it.
FailureReported == res = "ok" => ~faulty

\* The handler is entered for NAND only while someone waits, so its write to
\* NAND_CTRL never stops a command.
NoStrayQuiet ==
  [][hpc = "nand" /\ "NAND" \in all_mask => ~exec /\ pc \in Waiting]_vars

\* Every command the program starts ends, and it returns.
CommandReturns == (pc # "idle") ~> (pc = "idle")

\* Every interrupt of the SD controller is served, though it is acknowledged
\* after sdcard_irq and not before.
SdServed == ("SD0" \in line) ~> ("SD0" \notin line)
=============================================================================
