------------------------------- MODULE PpcStart -------------------------------
(***************************************************************************)
(* Two processors: the ARM in ppc_prepare (arm/system/ppc.c), app_run and  *)
(* app_run_sram (arm/application.c), and the PowerPC from reset to the     *)
(* messages OpenBIOS sends.  They meet in the word at 0x14000000, the      *)
(* mailbox: the wait stub clears it and spins until it holds an entry      *)
(* point.  The ARM sees the mailbox through its data cache.                *)
(*                                                                         *)
(* The ARM's control point is PpcElf's `pc' while OpenBIOS is loaded; `at' *)
(* is where it is in ppc_prepare while pc = "prepare", and in app_run once *)
(* pc = "returned".                                                        *)
(***************************************************************************)
EXTENDS PpcElf, FiniteSets

CONSTANT MaxMessages   \* bound: messages OpenBIOS sends

ASSUME PpcStartAssumption == MaxMessages \in Nat

Word == {"zero", "ones", "entry", "junk"}
Command == {"poweroff", "reboot", "bias", "print", "unknown"}

VARIABLES
  at,
  ready,                  \* `ready' of ppc.c
  interrupts,             \* not yet shut down by app_run
  mail,                   \* the mailbox, in memory
  line, dirty,            \* the ARM's cache line for it, or "none"; is it dirty?
  caches,                 \* not yet turned off by mem_shutdown
  stubs,                  \* the stubs in memory
  rom, ppc,               \* the boot ROM's progress; where the PowerPC is
  target,                 \* where the PowerPC jumped to
  msg, x1, armmsg,        \* LT_IPC_PPCMSG, the X1 flag, LT_IPC_ARMMSG
  ctrl, taken,            \* app_run_sram's `ctrl' (its X1 bit) and `msg'
  bias,                   \* has rtc_bias been read (it is zero otherwise)?
  sent, printed, reply    \* history: messages sent, characters printed, last answer read

start == <<at, ready, interrupts>>
memory == <<mail, line, dirty, caches, stubs>>
power == <<rom, ppc, target>>
ipc == <<msg, x1, armmsg, ctrl, taken, bias, sent, printed, reply>>
vars == <<evars, start, memory, power, ipc>>

Init ==
  /\ ElfInit
  /\ at = "begin" /\ ready = FALSE /\ interrupts = TRUE
  /\ mail \in {"zero", "junk"} /\ line = "none" /\ dirty = FALSE /\ caches = TRUE
  /\ stubs = {}
  /\ rom = "idle" /\ ppc = "reset" /\ target = "junk"
  /\ msg = "unknown" /\ x1 = FALSE /\ armmsg = "junk"
  /\ ctrl = FALSE /\ taken = "unknown" /\ bias = FALSE
  /\ sent = <<>> /\ printed = 0 /\ reply = "none"

---------------------------------------------------------------------------
\* The ARM's cache.
WriteMail(w) ==
  IF caches THEN line' = w /\ dirty' = TRUE /\ UNCHANGED mail
  ELSE mail' = w /\ UNCHANGED <<line, dirty>>

\* dc_flushrange and _dc_flush clean, and keep, the line.
FlushMail ==
  /\ mail' = IF dirty THEN line ELSE mail
  /\ dirty' = FALSE
  /\ UNCHANGED line

\* The cache replaces a line whenever it likes.
Evict ==
  /\ line # "none"
  /\ mail' = IF dirty THEN line ELSE mail
  /\ line' = "none" /\ dirty' = FALSE
  /\ UNCHANGED <<evars, start, caches, stubs, power, ipc>>

---------------------------------------------------------------------------
\* ppc_prepare and ppc_race
Preparing(p) == pc = "prepare" /\ at = p
PrepareTo(p) == at' = p /\ UNCHANGED <<ready, interrupts>>

\* ppc_hang, ancast_ppc_load and, if there is an image, ppc_reset.
Race ==
  /\ Preparing("begin")
  /\ \/ PrepareTo("prepared") /\ ppc' = "reset" /\ UNCHANGED rom
     \/ PrepareTo("watch") /\ ppc' = "rom" /\ rom' = "running"
  /\ UNCHANGED <<evars, memory, target, ipc>>

\* The first word of the body changes, or the ROM leaves an exit code.
Watch ==
  /\ Preparing("watch")
  /\ rom # "running"
  /\ PrepareTo(IF rom = "failed" THEN "prepared" ELSE "ones")
  /\ UNCHANGED <<evars, memory, power, ipc>>

MailOnes ==
  /\ Preparing("ones")
  /\ WriteMail("ones")
  /\ PrepareTo("flush")
  /\ UNCHANGED <<evars, caches, stubs, power, ipc>>

MailUnflushed ==
  /\ Preparing("flush")
  /\ PrepareTo("wait_stub")
  /\ UNCHANGED <<evars, memory, power, ipc>>
MailFlush ==
  /\ Preparing("flush")
  /\ FlushMail
  /\ PrepareTo("wait_stub")
  /\ UNCHANGED <<evars, caches, stubs, power, ipc>>

WaitStub ==
  /\ Preparing("wait_stub")
  /\ stubs' = stubs \cup {"wait"}
  /\ PrepareTo("jump_stub")
  /\ UNCHANGED <<evars, mail, line, dirty, caches, power, ipc>>

JumpStub ==
  /\ Preparing("jump_stub")
  /\ stubs' = stubs \cup {"jump"}
  /\ PrepareTo("invalidate")
  /\ UNCHANGED <<evars, mail, line, dirty, caches, power, ipc>>

InvalidateNot ==
  /\ Preparing("invalidate")
  /\ PrepareTo("look")
  /\ UNCHANGED <<evars, memory, power, ipc>>
Invalidate ==
  /\ Preparing("invalidate")
  /\ line' = "none" /\ dirty' = FALSE
  /\ PrepareTo("look")
  /\ UNCHANGED <<evars, mail, caches, stubs, power, ipc>>

\* read32 fills the line; zero ends the loop.
Look ==
  /\ Preparing("look")
  /\ line' = IF line = "none" THEN mail ELSE line
  /\ IF line' = "zero"
     THEN at' = "prepared" /\ ready' = TRUE
     ELSE at' = "invalidate" /\ UNCHANGED ready
  /\ UNCHANGED <<evars, interrupts, mail, dirty, caches, stubs, power, ipc>>

\* The steps of ppc_load_file; it goes on when ppc_prepare has returned.
LoadFile ==
  /\ pc = "prepare" => at = "prepared"
  /\ ElfNext
  /\ UNCHANGED <<start, memory, power, ipc>>

---------------------------------------------------------------------------
\* app_run
Running(p) == pc = "returned" /\ at = p
RunTo(p) == at' = p /\ UNCHANGED ready

\* panic starts with ppc_hang.
AppPanic ==
  /\ pc = "returned" /\ at \in {"begin", "prepared"}
  /\ res < 0
  /\ RunTo("panic") /\ UNCHANGED interrupts
  /\ ppc' = "reset"
  /\ UNCHANGED <<evars, memory, rom, target, ipc>>

ReadRtcBias ==
  /\ pc = "returned" /\ at \in {"begin", "prepared"}
  /\ res >= 0
  /\ bias' \in BOOLEAN
  /\ RunTo("quiesce") /\ UNCHANGED interrupts
  /\ UNCHANGED <<evars, memory, power, msg, x1, armmsg, ctrl, taken, sent, printed, reply>>

\* ELM_Unmount ... irq_shutdown
Quiesce ==
  /\ Running("quiesce")
  /\ interrupts' = FALSE
  /\ RunTo("shutdown")
  /\ UNCHANGED <<evars, memory, power, ipc>>

MemShutdownCached ==
  /\ Running("shutdown")
  /\ FlushMail
  /\ RunTo("sram") /\ UNCHANGED interrupts
  /\ UNCHANGED <<evars, caches, stubs, power, ipc>>
\* mem_shutdown: what is dirty is written back, then the cache is off.
MemShutdown ==
  /\ Running("shutdown")
  /\ mail' = IF dirty THEN line ELSE mail
  /\ line' = "none" /\ dirty' = FALSE /\ caches' = FALSE
  /\ RunTo("sram") /\ UNCHANGED interrupts
  /\ UNCHANGED <<evars, stubs, power, ipc>>

\* app_run_sram: ppc_entry is zero unless ppc_load_file has set it.
StartPpc ==
  /\ Running("sram")
  /\ WriteMail(IF entry THEN "entry" ELSE "zero")
  /\ RunTo("poll") /\ UNCHANGED interrupts
  /\ UNCHANGED <<evars, caches, stubs, power, ipc>>

ReadCtrl ==
  /\ Running("poll")
  /\ ctrl' = x1
  /\ RunTo(IF x1 THEN "message" ELSE "poll") /\ UNCHANGED interrupts
  /\ UNCHANGED <<evars, memory, power, msg, x1, armmsg, taken, bias, sent, printed, reply>>

ReadMessage ==
  /\ Running("message")
  /\ taken' = msg
  /\ RunTo("command") /\ UNCHANGED interrupts
  /\ UNCHANGED <<evars, memory, power, msg, x1, armmsg, ctrl, bias, sent, printed, reply>>

\* smc_shutdown does not return.
CommandPrintsAll ==
  /\ Running("command")
  /\ RunTo(IF taken \in {"poweroff", "reboot"} THEN taken ELSE "writeback")
  /\ armmsg' = IF taken = "bias" THEN (IF bias THEN "bias" ELSE "zero") ELSE armmsg
  /\ printed' = printed + 1
  /\ UNCHANGED <<evars, interrupts, memory, power, msg, x1, ctrl, taken, bias, sent, reply>>
ProcessCommand ==
  /\ Running("command")
  /\ RunTo(IF taken \in {"poweroff", "reboot"} THEN taken ELSE "writeback")
  /\ armmsg' = IF taken = "bias" THEN (IF bias THEN "bias" ELSE "zero") ELSE armmsg
  /\ printed' = IF taken = "print" THEN printed + 1 ELSE printed
  /\ UNCHANGED <<evars, interrupts, memory, power, msg, x1, ctrl, taken, bias, sent, reply>>

WriteBackZeros ==
  /\ Running("writeback")
  /\ RunTo("poll") /\ UNCHANGED interrupts
  /\ UNCHANGED <<evars, memory, power, ipc>>
\* Writing a one clears X1; the zeros written leave the other flags alone.
WriteBack ==
  /\ Running("writeback")
  /\ x1' = (x1 /\ ~ctrl)
  /\ RunTo("poll") /\ UNCHANGED interrupts
  /\ UNCHANGED <<evars, memory, power, msg, armmsg, ctrl, taken, bias, sent, printed, reply>>

---------------------------------------------------------------------------
\* The PowerPC.  The boot ROM checks and decrypts the image, or gives up.
PpcRom ==
  /\ ppc = "rom" /\ rom = "running"
  /\ rom' \in {"decrypted", "failed"}
  /\ ppc' = IF rom' = "failed" THEN "stopped" ELSE "body"
  /\ UNCHANGED <<evars, start, memory, target, ipc>>

\* It starts the body: the jump stub if the ARM has won the race.
PpcBody ==
  /\ ppc = "body"
  /\ ppc' = IF "jump" \in stubs THEN "stub" ELSE "kernel"
  /\ UNCHANGED <<evars, start, memory, rom, target, ipc>>

\* The wait stub: stw, dcbf, sync; it is in memory if the jump stub is.
PpcClear ==
  /\ ppc = "stub"
  /\ IF "wait" \in stubs THEN mail' = "zero" /\ ppc' = "waiting"
     ELSE ppc' = "crashed" /\ UNCHANGED mail
  /\ UNCHANGED <<evars, start, line, dirty, caches, stubs, rom, target, ipc>>

\* dcbi, sync, lwz, cmpwi: what it sees is what memory holds.
PpcWait ==
  /\ ppc = "waiting"
  /\ mail # "zero"
  /\ ppc' = "started" /\ target' = mail
  /\ UNCHANGED <<evars, start, memory, rom, ipc>>

\* OpenBIOS sends a message when the ARM has taken the one before, and reads the
\* answer when X1 is clear again.
PpcSend ==
  /\ ppc = "started" /\ target = "entry"
  /\ ~x1 /\ Len(sent) < MaxMessages
  /\ \E m \in Command : msg' = m /\ sent' = Append(sent, m)
  /\ x1' = TRUE /\ ppc' = "sent"
  /\ UNCHANGED <<evars, start, memory, rom, target, armmsg, ctrl, taken, bias, printed, reply>>

PpcAnswer ==
  /\ ppc = "sent" /\ ~x1
  /\ reply' = IF msg = "bias" THEN armmsg ELSE reply
  /\ ppc' = "started"
  /\ UNCHANGED <<evars, start, memory, rom, target, msg, x1, armmsg, ctrl, taken, bias, sent, printed>>

Prepared == Race \/ Watch \/ MailOnes \/ MailFlush \/ WaitStub \/ JumpStub \/ Invalidate \/ Look
App == AppPanic \/ ReadRtcBias \/ Quiesce \/ MemShutdown \/ StartPpc
Serve == ReadCtrl \/ ReadMessage \/ ProcessCommand \/ WriteBack
Arm == LoadFile \/ Prepared \/ App \/ Serve
Ppc == PpcRom \/ PpcBody \/ PpcClear \/ PpcWait \/ PpcAnswer

Next == Arm \/ Ppc \/ PpcSend \/ Evict

\* Both processors execute; OpenBIOS need not send anything.
Spec == Init /\ [][Next]_vars
FairSpec == Spec /\ WF_vars(Arm) /\ WF_vars(Ppc)

---------------------------------------------------------------------------
\* Types of what the two processors share, and of where they are.
TypeOK ==
  /\ ElfTypeOK
  /\ at \in {"begin", "watch", "ones", "flush", "wait_stub", "jump_stub", "invalidate",
             "look", "prepared", "panic", "quiesce", "shutdown", "sram", "poll",
             "message", "command", "writeback", "poweroff", "reboot"}
  /\ ready \in BOOLEAN /\ interrupts \in BOOLEAN /\ caches \in BOOLEAN
  /\ mail \in Word /\ line \in Word \cup {"none"}
  /\ dirty \in BOOLEAN /\ (dirty => line # "none")
  /\ stubs \subseteq {"wait", "jump"}
  /\ rom \in {"idle", "running", "decrypted", "failed"}
  /\ ppc \in {"reset", "rom", "stopped", "body", "kernel", "stub", "crashed",
              "waiting", "started", "sent"}
  /\ target \in Word
  /\ msg \in Command /\ taken \in Command
  /\ x1 \in BOOLEAN /\ ctrl \in BOOLEAN /\ bias \in BOOLEAN
  /\ armmsg \in {"junk", "zero", "bias"} /\ reply \in {"none", "junk", "zero", "bias"}
  /\ sent \in Seq(Command) /\ printed \in 0 .. MaxMessages

Serving == {"poll", "message", "command", "writeback", "poweroff", "reboot"}

\* "PowerPC is waiting for entry!" is true: ready is set only when the wait stub
\* spins on a mailbox in memory that holds zero, and it does so until
\* app_run_sram writes the entry point.
ReadyMeansWaiting ==
  ready /\ at \notin Serving \cup {"panic"} => ppc = "waiting" /\ mail = "zero"

\* While segments are written to memory, the PowerPC runs nothing of it: it is held
\* in reset, the ROM has stopped it, or it spins in the wait stub; ppc_prepare
\* returns no result, but it does not return to anything else.
HeldWhileLoading ==
  pc = "loop" => ppc \in {"reset", "stopped"} \/ (ready /\ ppc = "waiting")

\* OpenBIOS, which overwrites the loader, is not started before the loader has
\* loaded it, shut interrupts and caches down and left for SRAM, and what the
\* PowerPC jumps to is its entry point and never what else the mailbox held; a
\* load that failed and was reported as a success starts nothing.
StartedLast ==
  ppc \in {"started", "sent"} =>
    target = "entry" /\ entry /\ at \in Serving /\ ~interrupts /\ ~caches

\* The characters OpenBIOS has sent are printed once each, and the ARM is never
\* behind by more than the message it has in hand.
PrintedOnce ==
  LET inHand == x1 /\ msg = "print" /\ at # "writeback"
  IN  printed + (IF inHand THEN 1 ELSE 0)
        = Cardinality({i \in DOMAIN sent : sent[i] = "print"})

\* The answer OpenBIOS reads is the clock bias app_run has read, or zero.
ReplyIsBias == reply \in {"none", IF bias THEN "bias" ELSE "zero"}

\* OpenBIOS is served: its messages have their effect once, its question the answer.
Served == PrintedOnce /\ ReplyIsBias

\* ppc_prepare returns, unless the PowerPC was faster than the ARM and runs the
\* signed kernel: the wait for the mailbox has no limit.
PrepareReturns == (pc = "prepare") ~> (pc # "prepare" \/ ppc = "kernel")

\* A PowerPC that is ready gets to run the OpenBIOS that was loaded.
PpcStarts == (ready /\ entry) ~> (ppc \in {"started", "sent"})

\* Every message is answered, or turns the machine off.
Answered == x1 ~> (~x1 \/ at \in {"poweroff", "reboot"})
===============================================================================
