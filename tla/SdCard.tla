-------------------------------- MODULE SdCard --------------------------------
(***************************************************************************)
(* The SD card driver, arm/storage/sd/sdcard.c, and FatFs' sector calls on *)
(* it, fatfs/diskio.c.  Cards come and go; each change raises an interrupt *)
(* whose handler runs sdcard_attach over the shared `card' structure, at   *)
(* any instruction of the program and, since sdhc_wait_intr polls in IRQ   *)
(* mode, during any command of another sdcard_attach.                      *)
(*                                                                         *)
(* What a command does on the bus is in SdHost; here it is carried out by  *)
(* the card, or fails, in one step.  A command the handler has interrupted *)
(* fails or finds what the handler's commands have left: an answer of any  *)
(* card so far.  Cards are numbered as they are inserted, zero is no card: *)
(* rca, blockmode and num_sectors are the number of the card they were     *)
(* read from.                                                              *)
(***************************************************************************)
EXTENDS Naturals, Sequences

CONSTANTS
  MaxSwaps,   \* bound: cards removed or inserted
  MaxNest,    \* bound: nested runs of sdcard_attach
  MaxBlocks,  \* SDHC_BLOCK_COUNT_MAX
  MaxCount    \* bound: sectors of one disk_read or disk_write

ASSUME SdCardAssumption ==
  /\ MaxSwaps \in Nat /\ MaxNest \in Nat
  /\ MaxBlocks \in Nat \ {0} /\ MaxCount \in Nat

VARIABLES
  \* the slot and the controller
  slot, swaps,      \* the card in the slot; changes so far
  cstate,           \* the state of that card
  event,            \* CARD_REMOVAL or CARD_INSERTION is pending
  \* struct sdcard_ctx
  inserted, selected, new_card, rca, blockmode, num_sectors,
  \* activations: level 0 is the program, the others run in the handler
  top, pc,
  hit,              \* has the handler interrupted the command of a level?
  \* disk_read and disk_write
  sector, count, moved,
  res,              \* "none", "ok", "error"
  \* history
  acked,            \* the card in the slot when FatFs last acknowledged one
  disturbed,        \* the exceptions of TransferIsRight, for the last transfer
  strays,           \* commands each card carried out without being acknowledged, up to
                    \* two, but for those of a card that `wiped' has hidden
  failed,           \* has a discovery failed?
  wiped             \* has one that interrupted another cleared an event, none having come since?

bus == <<slot, swaps, cstate, event>>
card == <<inserted, selected, new_card, rca, blockmode, num_sectors>>
disk == <<sector, count, moved, res, acked, strays>>
run == <<top, pc, hit>>
failures == <<failed, wiped>>
vars == <<bus, card, run, disk, disturbed, failures>>

Card == 0 .. MaxSwaps + 1
Sector == 0 .. MaxCount

\* sdcard_init, called with or without a card in the slot, runs sdcard_attach.
Init ==
  /\ slot \in {0, 1} /\ swaps = 0 /\ cstate = "off" /\ event = FALSE
  /\ inserted = FALSE /\ selected = FALSE /\ new_card = FALSE
  /\ rca = 0 /\ blockmode = 0 /\ num_sectors = 0
  /\ top = 0 /\ pc = [l \in 0 .. MaxNest |-> "attach"]
  /\ hit = [l \in 0 .. MaxNest |-> FALSE]
  /\ sector = 0 /\ count = 0 /\ moved = <<>> /\ res = "none" /\ acked = 0 /\ strays = [c \in Card |-> 0]
  /\ disturbed = FALSE /\ failed = FALSE /\ wiped = FALSE

\* Interrupts are taken at once: the program runs while none is pending, and a
\* command of the handler polls until none is.
InCommand == {"idle", "op_cond", "cid", "rca", "csd", "select", "status", "blocklen",
              "app_cmd", "width", "check_select", "exec"}
Transferring == {"ack", "check", "check_select", "check_new", "exec"}
At(p) ==
  /\ pc[top] = p
  /\ event => top > 0 /\ p \notin InCommand

Goto(p) ==
  /\ pc' = [pc EXCEPT ![top] = p] /\ hit' = [hit EXCEPT ![top] = FALSE]
  /\ UNCHANGED top
\* The end of sdcard_attach: back to what it interrupted.
Leave == IF top = 0 THEN Goto("free") ELSE top' = top - 1 /\ UNCHANGED <<pc, hit>>

\* The level below is in a discovery, too.
Nested == top > 0 /\ pc[top - 1] \notin Transferring \cup {"free"}

\* SDHC_RESET_ALL: the bus loses its power, the status register its bits.
HostReset == cstate' = "off" /\ event' = FALSE /\ UNCHANGED <<slot, swaps>>

Unchanged == UNCHANGED <<disk, disturbed, failures>>

---------------------------------------------------------------------------
\* sdcard_attach
Attach ==
  /\ At("attach")
  /\ inserted' = FALSE /\ selected' = FALSE /\ new_card' = FALSE
  /\ rca' = 0 /\ blockmode' = 0 /\ num_sectors' = 0
  /\ HostReset
  /\ Goto("attached")
  /\ Unchanged

AttachDetect ==
  /\ At("attached")
  /\ IF slot = 0 THEN Leave ELSE Goto("discover")
  /\ UNCHANGED <<bus, card>> /\ Unchanged

\* sdcard_needs_discover
DiscoverOld ==
  /\ At("discover")
  /\ HostReset
  /\ Goto("detect")
  /\ UNCHANGED card /\ Unchanged
Discover ==
  /\ At("discover")
  /\ HostReset
  /\ new_card' = TRUE
  /\ Goto("detect")
  /\ UNCHANGED <<inserted, selected, rca, blockmode, num_sectors>> /\ Unchanged

DiscoverDetect ==
  /\ At("detect")
  /\ IF slot = 0 THEN inserted' = FALSE /\ Leave ELSE Goto("power") /\ UNCHANGED inserted
  /\ UNCHANGED <<bus, selected, new_card, rca, blockmode, num_sectors>> /\ Unchanged

\* sdhc_bus_power, sdhc_bus_clock and sdhc_bus_width, before the first command.
Powered == cstate' = (IF slot # 0 THEN "idle" ELSE "off") /\ UNCHANGED <<slot, swaps, event>>
Power ==
  /\ At("power")
  /\ \/ /\ Leave /\ failed' = TRUE                  \* no power: out
        /\ cstate' = "off" /\ UNCHANGED <<slot, swaps, event>>
     \/ /\ Goto("out_power") /\ UNCHANGED failed    \* no clock
        /\ Powered
     \/ /\ Goto("idle") /\ UNCHANGED failed
        /\ Powered
  /\ UNCHANGED <<card, disk, disturbed, wiped>>

\* The card answers, and goes from one state to another.
Answers(c, from, to) ==
  \/ /\ ~hit[top]
     /\ c = slot /\ slot # 0
     /\ cstate \in from /\ cstate' = to
     /\ UNCHANGED <<slot, swaps, event>>
  \/ /\ hit[top]
     /\ c <= swaps + 1
     /\ UNCHANGED bus
\* A command that carries card.rca, which only the card of that name answers.
Named(c, from, to) == Answers(c, from, to) /\ (hit[top] \/ rca = slot)
Fails(p) == Goto(p) /\ UNCHANGED <<bus, card>>

\* MMC_GO_IDLE_STATE has no response: it succeeds without a card, too.
GoIdle ==
  /\ At("idle")
  /\ \/ Fails("out_clock")
     \/ /\ cstate' = IF cstate = "off" \/ hit[top] THEN cstate ELSE "idle"
        /\ Goto("op_cond")
        /\ UNCHANGED <<slot, swaps, event, card>>
  /\ Unchanged

\* SD_SEND_IF_COND, then MMC_APP_CMD and SD_APP_OP_COND up to a hundred times;
\* a card that is not ready by then ends at out_power.
OpCond ==
  /\ At("op_cond")
  /\ \/ Fails("out_clock") \/ Fails("out_power")
     \/ /\ \E c \in Card : Answers(c, {"idle"}, "ready") /\ blockmode' = c
        /\ Goto("cid")
        /\ UNCHANGED <<inserted, selected, new_card, rca, num_sectors>>
  /\ Unchanged

AllSendCid ==
  /\ At("cid")
  /\ \/ Fails("out_clock")
     \/ /\ \E c \in Card : Answers(c, {"ready"}, "ident")
        /\ Goto("rca")
        /\ UNCHANGED card
  /\ Unchanged

SendRca ==
  /\ At("rca")
  /\ \/ Fails("out_clock")
     \/ /\ \E c \in Card : Answers(c, {"ident", "stby"}, "stby") /\ rca' = c
        /\ selected' = FALSE /\ inserted' = TRUE
        /\ Goto("csd")
        /\ UNCHANGED <<new_card, blockmode, num_sectors>>
  /\ Unchanged

SendCsd ==
  /\ At("csd")
  /\ \/ Fails("out_power")
     \/ /\ \E c \in Card : Named(c, {"stby"}, "stby") /\ num_sectors' = c
        /\ Goto("select")
        /\ UNCHANGED <<inserted, selected, new_card, rca, blockmode>>
  /\ Unchanged

\* sdcard_select
Selects(p, q) ==
  \/ Fails(q)
  \/ /\ \E c \in Card : Named(c, {"stby"}, "tran")
     /\ selected' = TRUE
     /\ Goto(p)
     /\ UNCHANGED <<inserted, new_card, rca, blockmode, num_sectors>>

\* Discovery does not look at what it returns.
DiscoverSelect ==
  /\ At("select")
  /\ Selects("status", "status")
  /\ Unchanged

\* MMC_SEND_STATUS, MMC_SET_BLOCKLEN, MMC_APP_CMD and SD_APP_SET_BUS_WIDTH: a
\* failure of one takes the card back.
SetUp(p, q, states) ==
  /\ At(p)
  /\ \/ /\ inserted' = FALSE /\ selected' = FALSE
        /\ Goto("out_clock")
        /\ UNCHANGED <<bus, new_card, rca, blockmode, num_sectors>>
     \/ /\ \E c \in Card : Named(c, states \cap {cstate}, cstate)
        /\ Goto(q)
        /\ UNCHANGED card
  /\ Unchanged

Status == SetUp("status", "blocklen", {"stby", "tran"})
BlockLen == SetUp("blocklen", "app_cmd", {"tran"})
AppCmd == SetUp("app_cmd", "width", {"stby", "tran"})
BusWidth == SetUp("width", "clock", {"tran"})

\* The last sdhc_bus_clock.
Clock ==
  /\ At("clock")
  /\ Leave \/ Goto("out_power")
  /\ UNCHANGED <<bus, card>> /\ Unchanged

OutClock ==
  /\ At("out_clock")
  /\ Goto("out_power")
  /\ UNCHANGED <<bus, card>> /\ Unchanged

\* The history of a failure: what its reset clears may be news to another discovery.
DiscoveryFails ==
  /\ failed' = TRUE
  /\ wiped' = (wiped \/ (event /\ Nested))
  /\ disturbed' = (disturbed \/ (event /\ Nested))

\* sdhc_bus_power(hp, 0) resets the host.
OutPowered ==
  /\ At("out_power")
  /\ DiscoveryFails
  /\ Leave
  /\ UNCHANGED <<bus, card, disk>>
OutPowerRetry ==
  /\ At("out_power")
  /\ HostReset
  /\ DiscoveryFails
  /\ Goto("detect")
  /\ UNCHANGED <<card, disk>>
OutPower ==
  /\ At("out_power")
  /\ HostReset
  /\ DiscoveryFails
  /\ Leave
  /\ UNCHANGED <<card, disk>>

---------------------------------------------------------------------------
\* disk_initialize, which FatFs calls for a drive that is not ready.
Mount ==
  /\ At("free") /\ top = 0
  /\ res' = "none"
  /\ IF inserted THEN Goto("ack") ELSE UNCHANGED run
  /\ UNCHANGED <<bus, card, sector, count, moved, acked, strays, disturbed, failures>>
Ack ==
  /\ At("ack")
  /\ new_card' = FALSE
  /\ acked' = slot /\ strays' = [c \in Card |-> 0]
  /\ Goto("free")
  /\ UNCHANGED <<bus, inserted, selected, rca, blockmode, num_sectors, sector, count, moved,
                 res, disturbed, failures>>

\* disk_read or disk_write: sdcard_read and sdcard_write check the same.
Transfer ==
  /\ At("free") /\ top = 0
  /\ sector' = 0 /\ count' \in 1 .. MaxCount /\ moved' = <<>>
  /\ res' = "none" /\ disturbed' = wiped
  /\ Goto("check")
  /\ UNCHANGED <<bus, card, acked, strays, failures>>

Work == IF count < MaxBlocks THEN count ELSE MaxBlocks

TransferFails ==
  /\ res' = "error"
  /\ Goto("free")
  /\ UNCHANGED <<sector, count, moved, acked, strays>>

CheckInserted ==
  /\ At("check")
  /\ IF inserted
     THEN Goto(IF selected THEN "check_new" ELSE "check_select") /\ UNCHANGED disk
     ELSE TransferFails
  /\ UNCHANGED <<bus, card, disturbed, failures>>

CheckSelect ==
  /\ At("check_select")
  /\ \/ Selects("check_new", "check_select") /\ selected' /\ UNCHANGED disk
     \/ TransferFails /\ UNCHANGED <<bus, card>>
  /\ UNCHANGED <<disturbed, failures>>

CheckNewNever ==
  /\ At("check_new")
  /\ Goto("exec") /\ UNCHANGED disk
  /\ UNCHANGED <<bus, card, disturbed, failures>>
CheckNew ==
  /\ At("check_new")
  /\ IF new_card THEN TransferFails ELSE Goto("exec") /\ UNCHANGED disk
  /\ UNCHANGED <<bus, card, disturbed, failures>>

\* The command is carried out: the sectors the argument names, which the card
\* takes for sectors or for bytes as blockmode was read from it or not.
Moved == [i \in 1 .. Work |-> <<slot, blockmode = slot, sector + i - 1>>]
ExecAdvanceByMax ==
  /\ At("exec")
  /\ \/ TransferFails /\ UNCHANGED bus
     \/ /\ \E c \in Card : Answers(c, {"tran"}, "tran")
        /\ moved' = moved \o Moved
        /\ strays' = IF slot \in {0, acked} \/ wiped \/ strays[slot] = 2 THEN strays
                      ELSE [strays EXCEPT ![slot] = @ + 1]
        /\ sector' = sector + MaxBlocks + 1 /\ count' = count - Work
        /\ Goto(IF count' = 0 THEN "free" ELSE "check")
        /\ res' = IF count' = 0 THEN "ok" ELSE res
        /\ UNCHANGED acked
  /\ UNCHANGED <<card, disturbed, failures>>
Exec ==
  /\ At("exec")
  /\ \/ TransferFails /\ UNCHANGED bus
     \/ /\ \E c \in Card : Answers(c, {"tran"}, "tran")
        /\ moved' = moved \o Moved
        /\ strays' = IF slot \in {0, acked} \/ wiped \/ strays[slot] = 2 THEN strays
                      ELSE [strays EXCEPT ![slot] = @ + 1]
        /\ sector' = sector + Work /\ count' = count - Work
        /\ Goto(IF count' = 0 THEN "free" ELSE "check")
        /\ res' = IF count' = 0 THEN "ok" ELSE res
        /\ UNCHANGED acked
  /\ UNCHANGED <<card, disturbed, failures>>

---------------------------------------------------------------------------
\* sdhc_intr acknowledges the event and runs sdcard_attach.
Interrupt ==
  /\ event
  /\ top = 0 \/ pc[top] \in InCommand
  /\ top < MaxNest
  /\ \/ pc[top] \in InCommand /\ hit' = [hit EXCEPT ![top] = TRUE]
     \/ top = 0 /\ UNCHANGED hit
  /\ event' = FALSE
  /\ top' = top + 1 /\ pc' = [pc EXCEPT ![top + 1] = "attach"]
  /\ disturbed' = (disturbed \/ pc[0] = "exec")
  /\ wiped' = (wiped /\ pc[0] # "free")
  /\ UNCHANGED <<slot, swaps, cstate, card, disk, failed>>

\* A card leaves the slot, or one is put in, with no power on the bus.
Swap ==
  /\ swaps < MaxSwaps
  /\ swaps' = swaps + 1
  /\ slot' = IF slot = 0 THEN swaps + 2 ELSE 0
  /\ cstate' = "off"
  /\ event' = TRUE
  /\ UNCHANGED <<card, run, disk, disturbed, failures>>

Attaching == Attach \/ AttachDetect \/ Discover \/ DiscoverDetect \/ Power
Discovering == \/ GoIdle \/ OpCond \/ AllSendCid \/ SendRca \/ SendCsd \/ DiscoverSelect
               \/ Status \/ BlockLen \/ AppCmd \/ BusWidth \/ Clock \/ OutClock \/ OutPower
Disk == Ack \/ CheckInserted \/ CheckSelect \/ CheckNew \/ Exec
Driver == Attaching \/ Discovering \/ Disk \/ Interrupt

Next == Driver \/ Mount \/ Transfer \/ Swap

Spec == Init /\ [][Next]_vars

\* The processor executes the program or the handler; nothing makes FatFs call it.
FairSpec == Spec /\ WF_vars(Driver)

---------------------------------------------------------------------------
Quiet == top = 0 /\ pc[0] = "free" /\ ~event

Pc == InCommand \cup {"attach", "attached", "discover", "detect", "power", "clock",
                      "out_clock", "out_power", "free", "ack", "check", "check_new"}

SlotTypeOK ==
  /\ slot \in Card /\ swaps \in 0 .. MaxSwaps /\ event \in BOOLEAN
  /\ cstate \in {"off", "idle", "ready", "ident", "stby", "tran"}
StructTypeOK ==
  /\ inserted \in BOOLEAN /\ selected \in BOOLEAN /\ new_card \in BOOLEAN
  /\ rca \in Card /\ blockmode \in Card /\ num_sectors \in Card
RunTypeOK ==
  /\ top \in 0 .. MaxNest
  /\ pc \in [0 .. MaxNest -> Pc] /\ hit \in [0 .. MaxNest -> BOOLEAN]
DiskTypeOK ==
  /\ sector \in Sector /\ count \in 0 .. MaxCount
  /\ res \in {"none", "ok", "error"} /\ acked \in Card

\* Types of the slot, the card structure and the transfer.
TypeOK == SlotTypeOK /\ StructTypeOK /\ RunTypeOK /\ DiskTypeOK

\* A transfer that succeeds has moved the sectors asked for, in order, once each,
\* from or to the card FatFs has acknowledged, however often cards are swapped
\* before it and between its commands; unless the handler has run after the
\* check of new_card and before the end of the command, or a discovery that
\* failed within another has cleared the event of a card just put in, which the
\* other then discovers for its own.
TransferIsRight ==
  res = "ok" /\ ~disturbed =>
    \A i \in DOMAIN moved : moved[i] = <<acked, TRUE, i - 1>>

\* The first of these windows lets at most one command through to any card that
\* FatFs has not mounted: after it transfers to that card fail until it is
\* acknowledged, in the same transfer (the check is made for each chunk) and in
\* any other; unless a wiped event has hidden its insertion.
OneStray == \A c \in Card : strays[c] <= 1

\* When no discovery runs, a card that is powered and recorded is recorded with
\* its own address and mode, and selected: a discovery that another has
\* interrupted leaves no card that is half of one and half of the other, and no
\* variable a value it cannot have.
Coherent ==
  /\ TypeOK
  /\ top = 0 /\ pc[0] \notin InCommand \cup {"clock", "out_clock", "out_power"} /\ inserted
            /\ slot # 0 /\ cstate # "off" =>
       rca = slot /\ blockmode = slot /\ cstate = "tran"

\* A card in the slot is never overlooked: when all is quiet it is recorded, and it
\* is waiting to be acknowledged or has been.  After a discovery that failed it may
\* be out of use until the next change, but is not in use unnoticed; unless the
\* failure has cleared an event while another discovery went on.
InsertionNoticed ==
  Quiet /\ slot # 0 =>
    /\ ~failed => inserted /\ (new_card \/ acked = slot)
    /\ ~wiped /\ inserted /\ cstate = "tran" => new_card \/ acked = slot

\* Once cards are left alone every discovery, nested ones included, and every
\* transfer returns to the program, whatever fails.
Returns == (pc[0] # "free") ~> (top = 0 /\ pc[0] = "free")
===============================================================================
