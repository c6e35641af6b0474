------------------------------- MODULE SdHost -------------------------------
(***************************************************************************)
(* The command path of the SD host driver, arm/storage/sd/sdhc.c: the      *)
(* program issues commands with sdhc_exec_command, the controller raises   *)
(* interrupts, and sdhc_intr runs either as the interrupt handler or, in   *)
(* IRQ mode, polled by sdhc_wait_intr.  The handler issues commands of its *)
(* own: STOP_TRANSMISSION after a failed transfer (sdcard_abort) and the   *)
(* discovery of a card that was inserted or removed (sdcard_attach).       *)
(*                                                                         *)
(* One ARM9 core runs everything, so the activations of the code form a    *)
(* stack: level 0 is the program, every level above it one activation of   *)
(* sdhc_intr with the command it may have in progress.  Only the top level *)
(* executes; the controller runs beside it.                                *)
(***************************************************************************)
EXTENDS Naturals

CONSTANTS
  MaxLevel,       \* bound: nested activations of sdhc_intr
  MaxErrors,      \* bound: errors the controller reports
  MaxCardEvents,  \* bound: card insertions and removals
  MaxDiscover     \* bound: commands of one discovery

ASSUME SdHostAssumption ==
  /\ MaxLevel \in Nat \ {0}
  /\ MaxErrors \in Nat
  /\ MaxCardEvents \in Nat
  /\ MaxDiscover \in Nat

Level == 0 .. MaxLevel
Kind == {"plain", "busy", "data"}   \* no busy phase, SCF_RSP_R1B, c_datalen > 0
Result == {"none", "ok", "error"}   \* c_error of the program's last command

\* The bits of NINTR_STATUS and intr_status the driver acts on; ERR is
\* SDHC_ERROR_INTERRUPT and ETO the software bit SDHC_ERROR_TIMEOUT.
Bit == {"CC", "TC", "DMA", "CARD", "ERR", "ETO"}

\* EINTR_STATUS: the two errors sdhc_intr reports further, and all others.
TimeoutError == {"CTO", "DTO"}
Error == TimeoutError \cup {"OTHER"}

VARIABLES
  \* the controller
  nint,           \* NINTR_STATUS without the error summary bit
  eint,           \* EINTR_STATUS
  phase, own, sent, arg, crossed,
                  \* the command on the bus: how far it is, the level that sent it,
                  \* its kind, whose argument it carries, past a DMA boundary?
  busyRaisesTC,   \* does it raise TC when an R1B command's busy ends? (never changes)
  argument,       \* the level that wrote BLOCK_SIZE, BLOCK_COUNT and ARGUMENT last
  \* struct sdhc_host
  intr_status, data_command,
  \* the activations
  top, pc, kind,  \* executing level; control point and command of each level
  stat, err,      \* `status' and `error' of sdhc_intr
  job, todo,      \* what the level's sdhc_intr is doing; commands discovery may still send
  failed,         \* did sdhc_start_command fail (c_error set before the response)?
  old, got,       \* intr_status as loaded by `&= ~status', and `status' of sdhc_wait_intr
  \* history
  res,            \* outcome of the program's last command
  moved,          \* did the transfer of the program's last command complete?
  errors, cardEvents

bus == <<phase, own, sent, arg, crossed>>
vars == <<nint, eint, bus, argument, intr_status, data_command, top, pc, kind,
          stat, err, job, todo, failed, old, got, res, moved, errors, cardEvents,
          busyRaisesTC>>

BusPhase == {"idle", "cmd", "data", "boundary", "busy", "halt"}

Job == {"command", "intr", "abort", "discover"}
Pc == {"idle", "clear", "inhibit", "regs", "go",
       "waitCC", "ackCC", "waitData", "ackData", "read", "reset", "finish"}

Init ==
  /\ nint = {} /\ eint = {} /\ argument = 0
  /\ phase = "idle" /\ own = 0 /\ sent = "plain" /\ arg = 0 /\ crossed = FALSE
  /\ intr_status = {} /\ data_command = FALSE
  /\ top = 0
  /\ pc = [l \in Level |-> "idle"]
  /\ kind = [l \in Level |-> "plain"]
  /\ stat = [l \in Level |-> {}]
  /\ err = [l \in Level |-> {}]
  /\ job = [l \in Level |-> "command"]
  /\ todo = [l \in Level |-> 0]
  /\ failed = [l \in Level |-> FALSE]
  /\ old = [l \in Level |-> {}]
  /\ got = [l \in Level |-> {}]
  /\ res = "none" /\ moved = FALSE
  /\ errors = 0 /\ cardEvents = 0 /\ busyRaisesTC \in BOOLEAN

-----------------------------------------------------------------------------
(* Operators shared by the actions.                                        *)

\* NINTR_STATUS as the program reads it: bit 15 is a read-only summary of
\* EINTR_STATUS, set until that half of the word is cleared.
Pending == nint \cup (IF eint = {} THEN {} ELSE {"ERR"})

\* HWRITE2 to either: they are the halves of one word, whose bits are cleared by writing
\* a one, and HWRITE2 loads the word, replaces one half and stores it.  The bits written
\* are cleared, and all that are set in the other half.
WriteNintr(bits) == nint' = nint \ bits /\ eint' = {}
WriteEintr(bits) == nint' = {} /\ eint' = eint \ bits

\* The executing level is at a control point; the program only moves on when no
\* interrupt is pending, the handler runs with interrupts disabled.
At(from) == pc[top] = from /\ (top = 0 => Pending = {})
Goto(to) == pc' = [pc EXCEPT ![top] = to]

Phase(p) == phase' = p /\ UNCHANGED <<own, sent, arg, crossed>>

\* sdhc_soft_reset(DAT|CMD): the command on the bus is given up and the bits
\* of the command and data lines are dropped; EINTR_STATUS is not touched.
SoftReset == /\ Phase("idle")
             /\ nint' = nint \cap {"CARD"}

\* sdhc_host_reset: every register starts over.
HostReset == Phase("idle") /\ nint' = {} /\ eint' = {} /\ argument' = top

\* The head of sdhc_async_command.
Start(k) ==
  /\ kind' = [kind EXCEPT ![top] = k]
  /\ failed' = [failed EXCEPT ![top] = FALSE]
  /\ data_command' = (k = "data" \/ data_command)
  /\ Goto("clear")

\* Mutant: data_command survives its command.
DoneKeepsFlag(ok) ==
  /\ UNCHANGED data_command
  /\ res' = IF top = 0 THEN (IF ok THEN "ok" ELSE "error") ELSE res
  /\ Goto(IF job[top] = "abort" THEN "finish" ELSE "idle")

\* The end of sdhc_async_response: the command is done, in error or not.
Done(ok) ==
  /\ data_command' = FALSE
  /\ res' = IF top = 0 THEN (IF ok THEN "ok" ELSE "error") ELSE res
  /\ Goto(IF job[top] = "abort" THEN "finish" ELSE "idle")

\* sdhc_intr returns to what it interrupted or was polled by.
Return ==
  /\ top' = top - 1
  /\ pc' = [pc EXCEPT ![top] = "idle"]
  /\ kind' = [kind EXCEPT ![top] = "plain"]
  /\ stat' = [stat EXCEPT ![top] = {}]
  /\ err' = [err EXCEPT ![top] = {}]
  /\ job' = [job EXCEPT ![top] = "command"]
  /\ todo' = [todo EXCEPT ![top] = 0]
  /\ failed' = [failed EXCEPT ![top] = FALSE]

unchangedIntr == <<stat, err, job, todo>>
unchangedBounds == <<errors, cardEvents, busyRaisesTC>>
-----------------------------------------------------------------------------
(* One command, at the executing level.                                    *)

\* The program calls sdhc_exec_command.
Program(k) ==
  /\ top = 0 /\ At("idle")
  /\ Start(k)
  /\ res' = "none"
  /\ UNCHANGED <<nint, eint, bus, argument, intr_status, top, unchangedIntr,
                 old, got, moved, unchangedBounds>>

\* Mutant: the status of earlier commands is kept.
ClearStatusKeeps ==
  /\ At("clear")
  /\ Goto("inhibit")
  /\ UNCHANGED <<nint, eint, bus, argument, intr_status, data_command, top, kind,
                 unchangedIntr, failed, old, got, res, moved, unchangedBounds>>

\* sdhc_async_command forgets what earlier commands left behind.
ClearStatus ==
  /\ At("clear")
  /\ intr_status' = {}
  /\ Goto("inhibit")
  /\ UNCHANGED <<nint, eint, bus, argument, data_command, top, kind,
                 unchangedIntr, failed, old, got, res, moved, unchangedBounds>>

\* sdhc_wait_state: until the inhibit bits clear, or for 500 polls.  A failure
\* does not keep sdhc_exec_command from waiting for the response.
WaitState ==
  /\ At("inhibit")
  /\ \/ /\ phase = "idle"
        /\ Goto("regs")
        /\ UNCHANGED <<data_command, failed>>
     \/ /\ phase # "idle"
        /\ failed' = [failed EXCEPT ![top] = TRUE]
        /\ data_command' = FALSE
        /\ Goto("waitCC")
  /\ UNCHANGED <<nint, eint, bus, argument, intr_status, top, kind,
                 unchangedIntr, old, got, res, moved, unchangedBounds>>

\* BLOCK_SIZE, BLOCK_COUNT and ARGUMENT.
WriteArgument ==
  /\ At("regs")
  /\ argument' = top
  /\ Goto("go")
  /\ UNCHANGED <<nint, eint, bus, intr_status, data_command, top, kind,
                 unchangedIntr, failed, old, got, res, moved, unchangedBounds>>

\* The write to TRANSFER_MODE and COMMAND starts the command; the controller
\* ignores it while the inhibit bits are set.
Trigger ==
  /\ At("go")
  /\ IF phase # "idle" THEN UNCHANGED bus
     ELSE /\ phase' = "cmd" /\ own' = top /\ sent' = kind[top]
          /\ arg' = argument /\ crossed' = FALSE
  /\ moved' = (top # 0 /\ moved)
  /\ Goto("waitCC")
  /\ UNCHANGED <<nint, eint, argument, intr_status, data_command, top, kind,
                 unchangedIntr, failed, old, got, res, unchangedBounds>>

\* Mutant: the whole of intr_status is taken for this wait.
WaitIntrUnmasked(wait, mask, ack) ==
  /\ At(wait)
  /\ got' = [got EXCEPT ![top] = IF intr_status # {} THEN intr_status ELSE {"ETO"}]
  /\ old' = [old EXCEPT ![top] = intr_status]
  /\ Goto(ack)
  /\ UNCHANGED <<nint, eint, bus, argument, intr_status, data_command, top,
                 kind, unchangedIntr, failed, res, moved, unchangedBounds>>

\* sdhc_wait_intr leaves its loop on any bit of intr_status, those outside the
\* mask included, or after timo polls; `&= ~status' starts with a load.
WaitIntr(wait, mask, ack) ==
  /\ At(wait)
  /\ got' = [got EXCEPT ![top] = IF intr_status # {}
               THEN intr_status \cap (mask \cup {"ERR", "ETO"}) ELSE {"ETO"}]
  /\ old' = [old EXCEPT ![top] = intr_status]
  /\ Goto(ack)
  /\ UNCHANGED <<nint, eint, bus, argument, intr_status, data_command, top,
                 kind, unchangedIntr, failed, res, moved, unchangedBounds>>

WaitCommand == WaitIntr("waitCC", {"CC"}, "ackCC")
WaitData == WaitIntr("waitData", {"TC", "DMA"}, "ackData")

\* Mutant: a timeout does not reset the lines.
AcknowledgeNoReset ==
  /\ intr_status' = old[top] \ got[top]
  /\ old' = [old EXCEPT ![top] = {}]
  /\ got' = [got EXCEPT ![top] = {}]
  /\ IF "ERR" \in got[top] THEN SoftReset ELSE UNCHANGED <<bus, nint>>

\* ... and ends with a store; errors and timeouts reset the lines and are
\* reported as status 0.
Acknowledge ==
  /\ intr_status' = old[top] \ got[top]
  /\ old' = [old EXCEPT ![top] = {}]
  /\ got' = [got EXCEPT ![top] = {}]
  /\ IF got[top] \cap {"ERR", "ETO"} # {} THEN SoftReset ELSE UNCHANGED <<bus, nint>>

Status == IF got[top] \cap {"ERR", "ETO"} # {} THEN {} ELSE got[top]

AckCommand ==
  /\ At("ackCC")
  /\ Acknowledge
  /\ IF "CC" \in Status /\ kind[top] = "data" /\ ~failed[top]
     THEN Goto("waitData") /\ UNCHANGED <<data_command, res>>
     ELSE Done("CC" \in Status /\ ~failed[top])
  /\ UNCHANGED <<eint, argument, top, kind, unchangedIntr, failed, moved,
                 unchangedBounds>>

\* Mutant: any status ends the transfer.
AckDataAny ==
  /\ At("ackData")
  /\ Acknowledge
  /\ Done(Status # {})
  /\ UNCHANGED <<eint, argument, top, kind, unchangedIntr, failed, moved,
                 unchangedBounds>>

\* Mutant: the loop does not end when the status is zero.
AckDataGoesOn ==
  /\ At("ackData")
  /\ Acknowledge
  /\ IF "TC" \notin Status
     THEN Goto("waitData") /\ UNCHANGED <<data_command, res>>
     ELSE Done("TC" \in Status)
  /\ UNCHANGED <<eint, argument, top, kind, unchangedIntr, failed, moved,
                 unchangedBounds>>

\* sdhc_transfer_data goes on while it sees DMA interrupts only.
AckData ==
  /\ At("ackData")
  /\ Acknowledge
  /\ IF Status # {} /\ "TC" \notin Status
     THEN Goto("waitData") /\ UNCHANGED <<data_command, res>>
     ELSE Done("TC" \in Status)
  /\ UNCHANGED <<eint, argument, top, kind, unchangedIntr, failed, moved,
                 unchangedBounds>>
-----------------------------------------------------------------------------
(* sdhc_intr.                                                              *)

\* Taken as an interrupt while the program runs, or polled by sdhc_wait_intr in
\* IRQ mode: read NINTR_STATUS and EINTR_STATUS.
Intr ==
  /\ Pending # {}
  /\ top = 0 \/ pc[top] \in {"waitCC", "waitData"}
  /\ top < MaxLevel
  /\ top' = top + 1
  /\ stat' = [stat EXCEPT ![top + 1] = Pending]
  /\ err' = [err EXCEPT ![top + 1] = eint]
  /\ job' = [job EXCEPT ![top + 1] = "intr"]
  /\ pc' = [pc EXCEPT ![top + 1] = "read"]
  /\ UNCHANGED <<nint, eint, bus, argument, intr_status, data_command, kind, todo,
                 failed, old, got, res, moved, unchangedBounds>>

\* Acknowledge what was read; errors are acknowledged with it, those that came after
\* the read and are not in `error', too.
IntrAck ==
  /\ At("read")
  /\ WriteNintr(stat[top])
  /\ Goto(IF "ERR" \in stat[top] THEN "reset" ELSE "finish")
  /\ UNCHANGED <<bus, argument, intr_status, data_command, top, kind, unchangedIntr,
                 failed, old, got, res, moved, unchangedBounds>>

\* An error resets the lines; for a transfer STOP_TRANSMISSION is sent (sdcard_abort),
\* by the handler, which waits for its answer.
IntrError ==
  /\ At("reset")
  /\ SoftReset
  /\ IF data_command
     THEN /\ data_command' = FALSE
          /\ job' = [job EXCEPT ![top] = "abort"]
          /\ kind' = [kind EXCEPT ![top] = "busy"]
          /\ Goto("clear")
     ELSE /\ Goto("finish")
          /\ UNCHANGED <<data_command, job, kind>>
  /\ UNCHANGED <<eint, argument, intr_status, top, stat, err, todo, failed, old, got,
                 res, moved, unchangedBounds>>

\* The bits handed to the waiting command.
Handed == IF err[top] \cap TimeoutError # {} \/ stat[top] \cap {"CC", "TC"} # {}
          THEN stat[top] ELSE {}

\* After an error EINTR_STATUS is written, and with it every bit of NINTR_STATUS
\* that came during the reset and the abort is cleared.
AckError ==
  IF "ERR" \in stat[top] THEN WriteEintr(err[top]) ELSE UNCHANGED <<nint, eint>>

\* Mutant: the DMA address is not rewritten.
FinishNoRestart ==
  /\ At("finish") /\ "CARD" \notin stat[top]
  /\ AckError
  /\ intr_status' = intr_status \cup Handed
  /\ Return
  /\ UNCHANGED <<bus, argument, data_command, old, got, res, moved, unchangedBounds>>

\* The rest of sdhc_intr: wake the waiting command, restart DMA, return.
Finish ==
  /\ At("finish") /\ "CARD" \notin stat[top]
  /\ AckError
  /\ intr_status' = intr_status \cup Handed
  /\ IF "DMA" \in stat[top] /\ phase = "boundary"
     THEN Phase("data") ELSE UNCHANGED bus
  /\ Return
  /\ UNCHANGED <<argument, data_command, old, got, res, moved, unchangedBounds>>

\* The same when a card came or went: sdcard_attach resets the controller, which
\* clears what AckError would, and looks for a card.
FinishCard ==
  /\ At("finish") /\ "CARD" \in stat[top]
  /\ intr_status' = intr_status \cup Handed
  /\ HostReset
  /\ job' = [job EXCEPT ![top] = "discover"]
  /\ todo' = [todo EXCEPT ![top] = MaxDiscover]
  /\ Goto("idle")
  /\ UNCHANGED <<data_command, top, kind, stat, err, failed, old, got, res,
                 moved, unchangedBounds>>

\* sdcard_needs_discover sends commands, none of which moves data ...
DiscoverSend(k) ==
  /\ job[top] = "discover" /\ At("idle") /\ todo[top] > 0
  /\ todo' = [todo EXCEPT ![top] = @ - 1]
  /\ Start(k)
  /\ UNCHANGED <<nint, eint, bus, argument, intr_status, top, stat, err, job,
                 old, got, res, moved, unchangedBounds>>

\* ... and returns, on its error paths with the power off and the host reset.
DiscoverEnd ==
  /\ job[top] = "discover" /\ At("idle")
  /\ HostReset \/ UNCHANGED <<nint, eint, bus, argument>>
  /\ Return
  /\ UNCHANGED <<intr_status, data_command, old, got, res, moved, unchangedBounds>>
-----------------------------------------------------------------------------
(* The controller and the card.                                            *)

unchangedCpu == <<intr_status, data_command, top, pc, kind, unchangedIntr,
                  failed, old, got, res>>

\* The response arrived.
HwResponse ==
  /\ phase = "cmd"
  /\ nint' = nint \cup {"CC"}
  /\ Phase(IF sent = "plain" THEN "idle" ELSE sent)
  /\ UNCHANGED <<eint, argument, moved, unchangedCpu, unchangedBounds>>

\* An R1B command's busy signal ended.
HwBusyEnd ==
  /\ phase = "busy"
  /\ Phase("idle")
  /\ nint' = IF busyRaisesTC THEN nint \cup {"TC"} ELSE nint
  /\ UNCHANGED <<eint, argument, moved, unchangedCpu, unchangedBounds>>

\* The DMA address crossed a buffer boundary: the controller waits for a new one.
HwBoundary ==
  /\ phase = "data" /\ ~crossed
  /\ phase' = "boundary" /\ crossed' = TRUE /\ UNCHANGED <<own, sent, arg>>
  /\ nint' = nint \cup {"DMA"}
  /\ UNCHANGED <<eint, argument, moved, unchangedCpu, unchangedBounds>>

\* The last block was transferred, at the address the program asked for or not.
HwTransferred ==
  /\ phase = "data"
  /\ Phase("idle")
  /\ nint' = nint \cup {"TC"}
  /\ moved' = (moved \/ (own = 0 /\ arg = 0))
  /\ UNCHANGED <<eint, argument, unchangedCpu, unchangedBounds>>

\* A response or a block failed; a corrupt response still completes the command.
HwError(e) ==
  /\ errors < MaxErrors /\ errors' = errors + 1
  /\ \/ phase = "cmd" /\ e \in {"CTO", "OTHER"}
     \/ phase = "data" /\ e \in {"DTO", "OTHER"}
  /\ Phase("halt")
  /\ eint' = eint \cup {e}
  /\ nint' = IF phase = "cmd" /\ e = "OTHER" THEN nint \cup {"CC"} ELSE nint
  /\ UNCHANGED <<argument, moved, unchangedCpu, cardEvents, busyRaisesTC>>

\* A card was inserted or removed; a command on the bus gets no further answer
\* when the card is gone.
HwCard ==
  /\ cardEvents < MaxCardEvents /\ cardEvents' = cardEvents + 1
  /\ nint' = nint \cup {"CARD"}
  /\ \/ UNCHANGED bus
     \/ phase # "idle" /\ Phase("halt")
  /\ UNCHANGED <<eint, argument, moved, unchangedCpu, errors, busyRaisesTC>>
-----------------------------------------------------------------------------
Software ==
  \/ ClearStatus \/ WaitState \/ WriteArgument \/ Trigger
  \/ WaitCommand \/ AckCommand \/ WaitData \/ AckData
  \/ Intr \/ IntrAck \/ IntrError \/ Finish \/ FinishCard
  \/ \E k \in {"plain", "busy"} : DiscoverSend(k)
  \/ DiscoverEnd

Hardware ==
  \/ HwResponse \/ HwBusyEnd \/ HwBoundary \/ HwTransferred
  \/ \E e \in Error : HwError(e)
  \/ HwCard

Next == (\E k \in Kind : Program(k)) \/ Software \/ Hardware

Spec == Init /\ [][Next]_vars

\* The core always executes something, and every wait of the driver counts its
\* polls down; nothing is assumed of the controller, the card or the program.
FairSpec == Spec /\ WF_vars(Software)
-----------------------------------------------------------------------------
(* Properties.                                                             *)

ControllerTypeOK ==
  /\ nint \in SUBSET {"CC", "TC", "DMA", "CARD"}
  /\ eint \in SUBSET Error
  /\ phase \in BusPhase /\ own \in Level /\ sent \in Kind /\ arg \in Level
  /\ crossed \in BOOLEAN
  /\ argument \in Level

ActivationTypeOK ==
  /\ top \in Level
  /\ pc \in [Level -> Pc]
  /\ kind \in [Level -> Kind]
  /\ stat \in [Level -> SUBSET Bit]
  /\ err \in [Level -> SUBSET Error]
  /\ job \in [Level -> Job]
  /\ todo \in [Level -> 0 .. MaxDiscover]
  /\ failed \in [Level -> BOOLEAN]
  /\ old \in [Level -> SUBSET Bit]
  /\ got \in [Level -> SUBSET {"CC", "TC", "DMA", "ERR", "ETO"}]

HostTypeOK ==
  /\ intr_status \in SUBSET Bit
  /\ data_command \in BOOLEAN
  /\ res \in Result
  /\ moved \in BOOLEAN
  /\ errors \in 0 .. MaxErrors
  /\ cardEvents \in 0 .. MaxCardEvents
  /\ busyRaisesTC \in BOOLEAN

\* Types; `status' of sdhc_wait_intr only ever has bits of its mask.
TypeOK == ControllerTypeOK /\ ActivationTypeOK /\ HostTypeOK

\* Nothing but the command's own errors disturbs it.  With a card change (see
\* StartedCommandIsOwn), or with TRANSFER_COMPLETE at the end of a busy phase, which
\* may arrive after the next command has cleared intr_status and end its wait, the
\* properties that start with Undisturbed fail.
Undisturbed == cardEvents = 0 /\ ~busyRaisesTC

\* A read or write that sdhc_exec_command reports without error has had every
\* block transferred, at the address that was asked for.
SuccessMeansMoved == Undisturbed /\ res = "ok" /\ kind[0] = "data" => moved

\* When sdhc_exec_command reports an error the controller is free for the next
\* command: what failed was reset or is over.
FailureQuietsBus ==
  Undisturbed /\ res = "error" /\ pc[0] = "idle" /\ top = 0 /\ Pending = {} => phase = "idle"

\* What sdhc_exec_command returns is true of the bus: both of these.
ResultIsTrue == SuccessMeansMoved /\ FailureQuietsBus

\* When a command is triggered, intr_status holds nothing of an earlier one.
StatusIsOwn == Undisturbed /\ At("go") => intr_status = {}

\* The controller moves data (by DMA, into the caller's buffer) only while the
\* sdhc_exec_command that asked for it has not returned; unless the TRANSFER_COMPLETE
\* of an earlier busy phase ends that wait too early, or the bit of a second card
\* change does, which the discovery for the first one has left in intr_status.
DmaOnlyForWaitingCaller ==
  ~busyRaisesTC /\ cardEvents < 2 /\ sent = "data" /\ phase # "idle" =>
    pc[0] \in {"waitCC", "ackCC", "waitData", "ackData"}

\* sdhc_intr sends STOP_TRANSMISSION only while the program has a transfer in
\* progress, and never from within another STOP_TRANSMISSION.
AbortOnlyForTransfer ==
  \A l \in Level : job[l] = "abort" =>
    /\ kind[0] = "data" /\ pc[0] # "idle"
    /\ \A m \in Level : job[m] = "abort" => m = l

\* A controller waiting at a DMA boundary has its interrupt pending or being
\* served: no transfer is left stalled.
NoStalledDma ==
  phase = "boundary" =>
    "DMA" \in nint \/ \E l \in Level : "DMA" \in stat[l]

\* Every command of the program ends, whatever the controller does.
CommandEnds == pc[0] # "idle" ~> pc[0] = "idle"

\* "Wake up the blocking process to service command related interrupt(s)": when
\* the transfer is over and sdhc_intr has served the interrupt, the process that
\* waits for it finds TRANSFER_COMPLETE.
WaiterIsWoken ==
  top = 0 /\ pc[0] = "waitData" /\ moved /\ Pending = {} => "TC" \in intr_status

\* "Start the MMC command, or mark `cmd' as failed": the command that is started
\* is cmd, with its argument.
StartedCommandIsOwn == phase # "idle" => arg = own
=============================================================================
