----------------------------- MODULE SdCardProofs -----------------------------
(* Proofs about SdCard, for every number of cards, nested discoveries, blocks *)
(* and sectors.                                                             *)
EXTENDS SdCard, SequenceTheorems, TLAPS

\* The levels and numbers that steps go to.
LEMMA ConstantFacts ==
  /\ 0 \in Card /\ 0 \in Sector /\ 0 \in 0 .. MaxNest
  /\ \A l \in 0 .. MaxNest : l # 0 => l - 1 \in 0 .. MaxNest
  /\ \A l \in 0 .. MaxNest : l < MaxNest => l + 1 \in 0 .. MaxNest
BY SdCardAssumption DEF Card, Sector

-----------------------------------------------------------------------------
(* Types.                                                                  *)

\* The control points of disk_initialize, disk_read and disk_write.
Program == {"free", "ack", "check", "check_select", "check_new", "exec"}

\* A nested activation that was interrupted is in a command, which the interrupt has
\* hit; only the program is in Program.
NestInv ==
  /\ \A l \in 0 .. MaxNest : l # 0 /\ l < top => pc[l] \in InCommand /\ hit[l]
  /\ \A l \in 0 .. MaxNest : l # 0 => pc[l] \notin Program
  /\ \A l \in 0 .. MaxNest : hit[l] => l <= top /\ pc[l] \in InCommand

RunInv == RunTypeOK /\ NestInv

\* Each step of the driver ends in one of these.
LEMMA GotoRun ==
  ASSUME RunInv, NEW p \in Pc, Goto(p), p \in Program => top = 0
  PROVE  RunInv'
<1>1. RunTypeOK'
  BY DEF RunInv, RunTypeOK, Goto
<1>2. NestInv'
  <2>1. \A l \in 0 .. MaxNest : l # top => pc'[l] = pc[l] /\ hit'[l] = hit[l]
    BY DEF RunInv, RunTypeOK, Goto
  <2>2. pc'[top] = p /\ ~hit'[top] /\ top' = top
    BY DEF RunInv, RunTypeOK, Goto
  <2> QED
    BY <2>1, <2>2 DEF RunInv, RunTypeOK, NestInv
<1> QED
  BY <1>1, <1>2 DEF RunInv

LEMMA LeaveRun ==
  ASSUME RunInv, Leave, pc[top] \notin InCommand
  PROVE  RunInv'
<1>1. CASE top = 0
  BY <1>1, GotoRun DEF Leave, Pc, Program
<1>2. CASE top # 0
  BY <1>2, ConstantFacts DEF Leave, RunInv, RunTypeOK, NestInv
<1> QED
  BY <1>1, <1>2

\* Only the program executes disk_initialize, disk_read and disk_write.
LEMMA ProgramLevel == RunInv /\ pc[top] \in Program => top = 0
BY DEF RunInv, RunTypeOK, NestInv

\* RunInv holds in every state.
LEMMA RunInvariant == Spec => []RunInv
<1> USE SdCardAssumption, ConstantFacts
<1>1. Init => RunInv
  BY DEF Init, RunInv, RunTypeOK, NestInv, Program, InCommand, Pc
<1>2. RunInv /\ [Next]_vars => RunInv'
  <2> SUFFICES ASSUME RunInv, [Next]_vars
               PROVE  RunInv'
    OBVIOUS
  <2> USE DEF Unchanged
  <2>1. CASE Attach
    BY <2>1, GotoRun, LeaveRun, ProgramLevel DEF Attach, At, Pc, InCommand, Program
  <2>2. CASE AttachDetect
    BY <2>2, GotoRun, LeaveRun, ProgramLevel DEF AttachDetect, At, Pc, InCommand, Program
  <2>3. CASE Discover
    BY <2>3, GotoRun, LeaveRun, ProgramLevel DEF Discover, At, Pc, InCommand, Program
  <2>4. CASE DiscoverDetect
    BY <2>4, GotoRun, LeaveRun, ProgramLevel DEF DiscoverDetect, At, Pc, InCommand, Program
  <2>5. CASE Power
    BY <2>5, GotoRun, LeaveRun, ProgramLevel DEF Power, At, Pc, InCommand, Program
  <2>6. CASE GoIdle
    BY <2>6, GotoRun, LeaveRun, ProgramLevel DEF GoIdle, Fails, At, Pc, InCommand, Program
  <2>7. CASE OpCond
    BY <2>7, GotoRun, LeaveRun, ProgramLevel DEF OpCond, Fails, At, Pc, InCommand, Program
  <2>8. CASE AllSendCid
    BY <2>8, GotoRun, LeaveRun, ProgramLevel DEF AllSendCid, Fails, At, Pc, InCommand,
       Program
  <2>9. CASE SendRca
    BY <2>9, GotoRun, LeaveRun, ProgramLevel DEF SendRca, Fails, At, Pc, InCommand, Program
  <2>10. CASE SendCsd
    BY <2>10, GotoRun, LeaveRun, ProgramLevel DEF SendCsd, Fails, At, Pc, InCommand, Program
  <2>11. CASE DiscoverSelect
    BY <2>11, GotoRun, LeaveRun, ProgramLevel DEF DiscoverSelect, Selects, Fails, At, Pc,
       InCommand, Program
  <2>12. CASE Status
    BY <2>12, GotoRun, LeaveRun, ProgramLevel DEF Status, SetUp, At, Pc, InCommand, Program
  <2>13. CASE BlockLen
    BY <2>13, GotoRun, LeaveRun, ProgramLevel DEF BlockLen, SetUp, At, Pc, InCommand,
       Program
  <2>14. CASE AppCmd
    BY <2>14, GotoRun, LeaveRun, ProgramLevel DEF AppCmd, SetUp, At, Pc, InCommand, Program
  <2>15. CASE BusWidth
    BY <2>15, GotoRun, LeaveRun, ProgramLevel DEF BusWidth, SetUp, At, Pc, InCommand,
       Program
  <2>16. CASE Clock
    BY <2>16, GotoRun, LeaveRun, ProgramLevel DEF Clock, At, Pc, InCommand, Program
  <2>17. CASE OutClock
    BY <2>17, GotoRun, LeaveRun, ProgramLevel DEF OutClock, At, Pc, InCommand, Program
  <2>18. CASE OutPower
    BY <2>18, GotoRun, LeaveRun, ProgramLevel DEF OutPower, DiscoveryFails, At, Pc,
       InCommand, Program
  <2>19. CASE Ack
    BY <2>19, GotoRun, LeaveRun, ProgramLevel DEF Ack, At, Pc, InCommand, Program
  <2>20. CASE CheckInserted
    BY <2>20, GotoRun, LeaveRun, ProgramLevel DEF CheckInserted, TransferFails, At, Pc,
       InCommand, Program
  <2>21. CASE CheckSelect
    BY <2>21, GotoRun, LeaveRun, ProgramLevel DEF CheckSelect, Selects, Fails,
       TransferFails, At, Pc, InCommand, Program
  <2>22. CASE CheckNew
    BY <2>22, GotoRun, LeaveRun, ProgramLevel DEF CheckNew, TransferFails, At, Pc,
       InCommand, Program
  <2>23. CASE Exec
    BY <2>23, GotoRun, LeaveRun, ProgramLevel DEF Exec, TransferFails, At, Pc, InCommand,
       Program
  <2>24. CASE Interrupt
    <3>1. /\ top' = top + 1 /\ top + 1 \in 0 .. MaxNest
          /\ pc' = [pc EXCEPT ![top + 1] = "attach"]
          /\ hit' = hit \/ (pc[top] \in InCommand /\ hit' = [hit EXCEPT ![top] = TRUE])
          /\ top # 0 => pc[top] \in InCommand /\ hit'[top]
      BY <2>24 DEF Interrupt, RunInv, RunTypeOK
    <3>2. RunTypeOK'
      BY <3>1 DEF RunInv, RunTypeOK, Pc
    <3>3. NestInv'
      <4>1. \A l \in 0 .. MaxNest : l # top + 1 => pc'[l] = pc[l]
        BY <3>1 DEF RunInv, RunTypeOK
      <4>2. \A l \in 0 .. MaxNest : l # top => hit'[l] = hit[l]
        BY <3>1 DEF RunInv, RunTypeOK
      <4>3. pc'[top + 1] = "attach" /\ ~hit'[top + 1]
        BY <3>1, <4>2 DEF RunInv, RunTypeOK, NestInv
      <4>4. hit'[top] => pc[top] \in InCommand
        BY <3>1 DEF RunInv, RunTypeOK, NestInv
      <4> QED
        BY ONLY <3>1, <4>1, <4>2, <4>3, <4>4, RunInv, SdCardAssumption
        DEF RunInv, RunTypeOK, NestInv, Program, InCommand
    <3> QED
      BY <3>2, <3>3 DEF RunInv
  <2>25. CASE Mount
    BY <2>25, GotoRun DEF Mount, At, Pc, run, RunInv, RunTypeOK, NestInv
  <2>26. CASE Transfer
    BY <2>26, GotoRun DEF Transfer, Pc
  <2>27. CASE Swap
    BY <2>27 DEF Swap, run, RunInv, RunTypeOK, NestInv
  <2>28. CASE UNCHANGED vars
    BY <2>28 DEF vars, run, RunInv, RunTypeOK, NestInv
  <2> QED
    BY ONLY <2>1, <2>2, <2>3, <2>4, <2>5, <2>6, <2>7, <2>8, <2>9, <2>10, <2>11, <2>12,
       <2>13, <2>14,
       <2>15, <2>16, <2>17, <2>18, <2>19, <2>20, <2>21, <2>22, <2>23, <2>24, <2>25, <2>26,
          <2>27, <2>28, [Next]_vars
       DEF Next, Driver, Attaching, Discovering, Disk
<1> QED
  BY <1>1, <1>2, PTL DEF Spec

\* The history variables have their types, too.
HistoryTypeOK ==
  /\ strays \in [Card -> 0 .. 2]
  /\ disturbed \in BOOLEAN /\ failed \in BOOLEAN /\ wiped \in BOOLEAN

\* A transfer counts its sectors down; they are never more than asked for.
CountInv ==
  /\ pc[0] \in {"check", "check_select", "check_new", "exec"} =>
       sector + count <= MaxCount /\ count # 0 /\ res = "none"
  /\ pc[0] = "ack" => res = "none"

BasicInv == SlotTypeOK /\ StructTypeOK /\ DiskTypeOK /\ HistoryTypeOK /\ CountInv

\* A command of disk_read or disk_write changes neither slot nor card.
LEMMA ExecStep ==
  ASSUME RunInv, BasicInv, Exec
  PROVE  /\ top = 0 /\ pc[0] = "exec" /\ ~event /\ top' = 0
         /\ UNCHANGED <<bus, card, acked, disturbed, failures>>
         /\ hit' = [hit EXCEPT ![0] = FALSE]
         /\ \/ /\ res' = "error" /\ pc' = [pc EXCEPT ![0] = "free"]
               /\ UNCHANGED <<sector, count, moved, strays>>
            \/ /\ Work \in 1 .. count /\ (~hit[0] => cstate = "tran" /\ slot # 0)
               /\ moved' = moved \o Moved /\ sector' = sector + Work /\ count' = count - Work
               /\ \/ count' = 0 /\ pc' = [pc EXCEPT ![0] = "free"] /\ res' = "ok"
                  \/ count' # 0 /\ pc' = [pc EXCEPT ![0] = "check"] /\ res' = res
               /\ \/ UNCHANGED strays
                  \/ /\ slot \notin {0, acked} /\ ~wiped /\ strays[slot] # 2
                     /\ strays' = [strays EXCEPT ![slot] = @ + 1]
<1>1. top = 0 /\ pc[0] = "exec" /\ ~event
  BY ProgramLevel DEF Exec, At, Program, RunInv, RunTypeOK
<1>2. Work \in 1 .. count
  BY <1>1, SdCardAssumption DEF Work, BasicInv, CountInv, DiskTypeOK
<1>3. CASE TransferFails /\ UNCHANGED bus
  BY <1>1, <1>3 DEF Exec, TransferFails, Goto
<1>4. CASE ~(TransferFails /\ UNCHANGED bus)
  <2>1. UNCHANGED bus /\ (~hit[0] => cstate = "tran" /\ slot # 0)
    BY <1>1, <1>4 DEF Exec, Answers, bus
  <2>2. /\ moved' = moved \o Moved /\ sector' = sector + Work /\ count' = count - Work
        /\ strays' = IF slot \in {0, acked} \/ wiped \/ strays[slot] = 2 THEN strays
                     ELSE [strays EXCEPT ![slot] = @ + 1]
        /\ Goto(IF count' = 0 THEN "free" ELSE "check")
        /\ res' = (IF count' = 0 THEN "ok" ELSE res)
        /\ UNCHANGED <<acked, card, disturbed, failures>>
    BY <1>4 DEF Exec
  <2> QED
    BY <1>1, <1>2, <2>1, <2>2 DEF Goto
<1> QED
  BY <1>3, <1>4

LEMMA ExecCounts ==
  ASSUME RunInv, BasicInv, Exec
  PROVE  DiskTypeOK' /\ CountInv'
<1>1. pc[0] = "exec" /\ 0 \in DOMAIN pc /\ acked' = acked
  BY ExecStep, SdCardAssumption DEF RunInv, RunTypeOK
<1>2. /\ sector \in Nat /\ count \in Nat /\ sector + count <= MaxCount /\ acked \in Card
      /\ res = "none" /\ Work \in Nat
  BY <1>1, SdCardAssumption DEF Work, Sector, BasicInv, CountInv, DiskTypeOK
<1>3. \/ /\ res' = "error" /\ pc' = [pc EXCEPT ![0] = "free"] /\ UNCHANGED <<sector, count>>
      \/ /\ Work \in 1 .. count /\ sector' = sector + Work /\ count' = count - Work
         /\ \/ count' = 0 /\ pc' = [pc EXCEPT ![0] = "free"] /\ res' = "ok"
            \/ count' # 0 /\ pc' = [pc EXCEPT ![0] = "check"] /\ res' = res
  BY ExecStep
<1> QED
  BY ONLY <1>1, <1>2, <1>3, SdCardAssumption DEF DiskTypeOK, CountInv, Sector

\* BasicInv holds in every state.
LEMMA BasicInvariant == Spec => []BasicInv
<1> USE SdCardAssumption, ConstantFacts
<1>1. Init => BasicInv
  BY DEF Init, BasicInv, SlotTypeOK, StructTypeOK, DiskTypeOK, HistoryTypeOK, CountInv
<1>2. RunInv /\ BasicInv /\ [Next]_vars => BasicInv'
  <2> SUFFICES ASSUME RunInv, BasicInv, [Next]_vars
               PROVE  BasicInv'
    OBVIOUS
  <2> USE DEF RunInv, RunTypeOK, NestInv, Program, InCommand, BasicInv, SlotTypeOK,
              StructTypeOK, DiskTypeOK, HistoryTypeOK, CountInv, At, Goto, Unchanged, bus, card, disk, run, failures
  <2>1. CASE Attach
    <3>1. SlotTypeOK'
      BY <2>1 DEF Attach, HostReset
    <3>2. StructTypeOK'
      BY <2>1 DEF Attach, HostReset
    <3>3. DiskTypeOK'
      BY <2>1 DEF Attach, HostReset
    <3>4. HistoryTypeOK'
      BY <2>1 DEF Attach, HostReset
    <3>5. CountInv'
      BY <2>1 DEF Attach, HostReset
    <3> QED
      BY <3>1, <3>2, <3>3, <3>4, <3>5 DEF BasicInv
  <2>2. CASE AttachDetect
    <3>1. SlotTypeOK'
      BY <2>2 DEF AttachDetect, Leave
    <3>2. StructTypeOK'
      BY <2>2 DEF AttachDetect, Leave
    <3>3. DiskTypeOK'
      BY <2>2 DEF AttachDetect, Leave
    <3>4. HistoryTypeOK'
      BY <2>2 DEF AttachDetect, Leave
    <3>5. CountInv'
      BY <2>2 DEF AttachDetect, Leave
    <3> QED
      BY <3>1, <3>2, <3>3, <3>4, <3>5 DEF BasicInv
  <2>3. CASE Discover
    <3>1. SlotTypeOK'
      BY <2>3 DEF Discover, HostReset
    <3>2. StructTypeOK'
      BY <2>3 DEF Discover, HostReset
    <3>3. DiskTypeOK'
      BY <2>3 DEF Discover, HostReset
    <3>4. HistoryTypeOK'
      BY <2>3 DEF Discover, HostReset
    <3>5. CountInv'
      BY <2>3 DEF Discover, HostReset
    <3> QED
      BY <3>1, <3>2, <3>3, <3>4, <3>5 DEF BasicInv
  <2>4. CASE DiscoverDetect
    <3>1. SlotTypeOK'
      BY <2>4 DEF DiscoverDetect, Leave
    <3>2. StructTypeOK'
      BY <2>4 DEF DiscoverDetect, Leave
    <3>3. DiskTypeOK'
      BY <2>4 DEF DiscoverDetect, Leave
    <3>4. HistoryTypeOK'
      BY <2>4 DEF DiscoverDetect, Leave
    <3>5. CountInv'
      BY <2>4 DEF DiscoverDetect, Leave
    <3> QED
      BY <3>1, <3>2, <3>3, <3>4, <3>5 DEF BasicInv
  <2>5. CASE Power
    <3>1. SlotTypeOK'
      BY <2>5 DEF Power, Powered, Leave
    <3>2. StructTypeOK'
      BY <2>5 DEF Power, Powered, Leave
    <3>3. DiskTypeOK'
      BY <2>5 DEF Power, Powered, Leave
    <3>4. HistoryTypeOK'
      BY <2>5 DEF Power, Powered, Leave
    <3>5. CountInv'
      BY <2>5 DEF Power, Powered, Leave
    <3> QED
      BY <3>1, <3>2, <3>3, <3>4, <3>5 DEF BasicInv
  <2>6. CASE GoIdle
    <3>1. SlotTypeOK'
      BY <2>6 DEF GoIdle, Fails
    <3>2. StructTypeOK'
      BY <2>6 DEF GoIdle, Fails
    <3>3. DiskTypeOK'
      BY <2>6 DEF GoIdle, Fails
    <3>4. HistoryTypeOK'
      BY <2>6 DEF GoIdle, Fails
    <3>5. CountInv'
      BY <2>6 DEF GoIdle, Fails
    <3> QED
      BY <3>1, <3>2, <3>3, <3>4, <3>5 DEF BasicInv
  <2>7. CASE OpCond
    <3>1. SlotTypeOK'
      BY <2>7 DEF OpCond, Fails, Answers
    <3>2. StructTypeOK'
      BY <2>7 DEF OpCond, Fails, Answers
    <3>3. DiskTypeOK'
      BY <2>7 DEF OpCond, Fails, Answers
    <3>4. HistoryTypeOK'
      BY <2>7 DEF OpCond, Fails, Answers
    <3>5. CountInv'
      BY <2>7 DEF OpCond, Fails, Answers
    <3> QED
      BY <3>1, <3>2, <3>3, <3>4, <3>5 DEF BasicInv
  <2>8. CASE AllSendCid
    <3>1. SlotTypeOK'
      BY <2>8 DEF AllSendCid, Fails, Answers
    <3>2. StructTypeOK'
      BY <2>8 DEF AllSendCid, Fails, Answers
    <3>3. DiskTypeOK'
      BY <2>8 DEF AllSendCid, Fails, Answers
    <3>4. HistoryTypeOK'
      BY <2>8 DEF AllSendCid, Fails, Answers
    <3>5. CountInv'
      BY <2>8 DEF AllSendCid, Fails, Answers
    <3> QED
      BY <3>1, <3>2, <3>3, <3>4, <3>5 DEF BasicInv
  <2>9. CASE SendRca
    <3>1. SlotTypeOK'
      BY <2>9 DEF SendRca, Fails, Answers
    <3>2. StructTypeOK'
      BY <2>9 DEF SendRca, Fails, Answers
    <3>3. DiskTypeOK'
      BY <2>9 DEF SendRca, Fails, Answers
    <3>4. HistoryTypeOK'
      BY <2>9 DEF SendRca, Fails, Answers
    <3>5. CountInv'
      BY <2>9 DEF SendRca, Fails, Answers
    <3> QED
      BY <3>1, <3>2, <3>3, <3>4, <3>5 DEF BasicInv
  <2>10. CASE SendCsd
    <3>1. SlotTypeOK'
      BY <2>10 DEF SendCsd, Fails, Named, Answers
    <3>2. StructTypeOK'
      BY <2>10 DEF SendCsd, Fails, Named, Answers
    <3>3. DiskTypeOK'
      BY <2>10 DEF SendCsd, Fails, Named, Answers
    <3>4. HistoryTypeOK'
      BY <2>10 DEF SendCsd, Fails, Named, Answers
    <3>5. CountInv'
      BY <2>10 DEF SendCsd, Fails, Named, Answers
    <3> QED
      BY <3>1, <3>2, <3>3, <3>4, <3>5 DEF BasicInv
  <2>11. CASE DiscoverSelect
    <3>1. SlotTypeOK'
      BY <2>11 DEF DiscoverSelect, Selects, Fails, Named, Answers
    <3>2. StructTypeOK'
      BY <2>11 DEF DiscoverSelect, Selects, Fails, Named, Answers
    <3>3. DiskTypeOK'
      BY <2>11 DEF DiscoverSelect, Selects, Fails, Named, Answers
    <3>4. HistoryTypeOK'
      BY <2>11 DEF DiscoverSelect, Selects, Fails, Named, Answers
    <3>5. CountInv'
      BY <2>11 DEF DiscoverSelect, Selects, Fails, Named, Answers
    <3> QED
      BY <3>1, <3>2, <3>3, <3>4, <3>5 DEF BasicInv
  <2>12. CASE Status
    <3>1. SlotTypeOK'
      BY <2>12 DEF Status, SetUp, Named, Answers
    <3>2. StructTypeOK'
      BY <2>12 DEF Status, SetUp, Named, Answers
    <3>3. DiskTypeOK'
      BY <2>12 DEF Status, SetUp, Named, Answers
    <3>4. HistoryTypeOK'
      BY <2>12 DEF Status, SetUp, Named, Answers
    <3>5. CountInv'
      BY <2>12 DEF Status, SetUp, Named, Answers
    <3> QED
      BY <3>1, <3>2, <3>3, <3>4, <3>5 DEF BasicInv
  <2>13. CASE BlockLen
    <3>1. SlotTypeOK'
      BY <2>13 DEF BlockLen, SetUp, Named, Answers
    <3>2. StructTypeOK'
      BY <2>13 DEF BlockLen, SetUp, Named, Answers
    <3>3. DiskTypeOK'
      BY <2>13 DEF BlockLen, SetUp, Named, Answers
    <3>4. HistoryTypeOK'
      BY <2>13 DEF BlockLen, SetUp, Named, Answers
    <3>5. CountInv'
      BY <2>13 DEF BlockLen, SetUp, Named, Answers
    <3> QED
      BY <3>1, <3>2, <3>3, <3>4, <3>5 DEF BasicInv
  <2>14. CASE AppCmd
    <3>1. SlotTypeOK'
      BY <2>14 DEF AppCmd, SetUp, Named, Answers
    <3>2. StructTypeOK'
      BY <2>14 DEF AppCmd, SetUp, Named, Answers
    <3>3. DiskTypeOK'
      BY <2>14 DEF AppCmd, SetUp, Named, Answers
    <3>4. HistoryTypeOK'
      BY <2>14 DEF AppCmd, SetUp, Named, Answers
    <3>5. CountInv'
      BY <2>14 DEF AppCmd, SetUp, Named, Answers
    <3> QED
      BY <3>1, <3>2, <3>3, <3>4, <3>5 DEF BasicInv
  <2>15. CASE BusWidth
    <3>1. SlotTypeOK'
      BY <2>15 DEF BusWidth, SetUp, Named, Answers
    <3>2. StructTypeOK'
      BY <2>15 DEF BusWidth, SetUp, Named, Answers
    <3>3. DiskTypeOK'
      BY <2>15 DEF BusWidth, SetUp, Named, Answers
    <3>4. HistoryTypeOK'
      BY <2>15 DEF BusWidth, SetUp, Named, Answers
    <3>5. CountInv'
      BY <2>15 DEF BusWidth, SetUp, Named, Answers
    <3> QED
      BY <3>1, <3>2, <3>3, <3>4, <3>5 DEF BasicInv
  <2>16. CASE Clock
    <3>1. SlotTypeOK'
      BY <2>16 DEF Clock, Leave
    <3>2. StructTypeOK'
      BY <2>16 DEF Clock, Leave
    <3>3. DiskTypeOK'
      BY <2>16 DEF Clock, Leave
    <3>4. HistoryTypeOK'
      BY <2>16 DEF Clock, Leave
    <3>5. CountInv'
      BY <2>16 DEF Clock, Leave
    <3> QED
      BY <3>1, <3>2, <3>3, <3>4, <3>5 DEF BasicInv
  <2>17. CASE OutClock
    <3>1. SlotTypeOK'
      BY <2>17 DEF OutClock
    <3>2. StructTypeOK'
      BY <2>17 DEF OutClock
    <3>3. DiskTypeOK'
      BY <2>17 DEF OutClock
    <3>4. HistoryTypeOK'
      BY <2>17 DEF OutClock
    <3>5. CountInv'
      BY <2>17 DEF OutClock
    <3> QED
      BY <3>1, <3>2, <3>3, <3>4, <3>5 DEF BasicInv
  <2>18. CASE OutPower
    <3>1. SlotTypeOK'
      BY <2>18 DEF OutPower, HostReset, DiscoveryFails, Leave
    <3>2. StructTypeOK'
      BY <2>18 DEF OutPower, HostReset, DiscoveryFails, Leave
    <3>3. DiskTypeOK'
      BY <2>18 DEF OutPower, HostReset, DiscoveryFails, Leave
    <3>4. HistoryTypeOK'
      BY <2>18 DEF OutPower, HostReset, DiscoveryFails, Leave
    <3>5. CountInv'
      BY <2>18 DEF OutPower, HostReset, DiscoveryFails, Leave
    <3> QED
      BY <3>1, <3>2, <3>3, <3>4, <3>5 DEF BasicInv
  <2>19. CASE Ack
    <3>1. SlotTypeOK'
      BY <2>19 DEF Ack
    <3>2. StructTypeOK'
      BY <2>19 DEF Ack
    <3>3. DiskTypeOK'
      BY <2>19 DEF Ack
    <3>4. HistoryTypeOK'
      BY <2>19 DEF Ack
    <3>5. CountInv'
      BY <2>19 DEF Ack
    <3> QED
      BY <3>1, <3>2, <3>3, <3>4, <3>5 DEF BasicInv
  <2>20. CASE CheckInserted
    <3>1. SlotTypeOK'
      BY <2>20 DEF CheckInserted, TransferFails
    <3>2. StructTypeOK'
      BY <2>20 DEF CheckInserted, TransferFails
    <3>3. DiskTypeOK'
      BY <2>20 DEF CheckInserted, TransferFails
    <3>4. HistoryTypeOK'
      BY <2>20 DEF CheckInserted, TransferFails
    <3>5. CountInv'
      BY <2>20 DEF CheckInserted, TransferFails
    <3> QED
      BY <3>1, <3>2, <3>3, <3>4, <3>5 DEF BasicInv
  <2>21. CASE CheckSelect
    <3>1. SlotTypeOK'
      BY <2>21 DEF CheckSelect, Selects, Fails, Named, Answers, TransferFails
    <3>2. StructTypeOK'
      BY <2>21 DEF CheckSelect, Selects, Fails, Named, Answers, TransferFails
    <3>3. DiskTypeOK'
      BY <2>21 DEF CheckSelect, Selects, Fails, Named, Answers, TransferFails
    <3>4. HistoryTypeOK'
      BY <2>21 DEF CheckSelect, Selects, Fails, Named, Answers, TransferFails
    <3>5. CountInv'
      BY <2>21 DEF CheckSelect, Selects, Fails, Named, Answers, TransferFails
    <3> QED
      BY <3>1, <3>2, <3>3, <3>4, <3>5 DEF BasicInv
  <2>22. CASE CheckNew
    <3>1. SlotTypeOK'
      BY <2>22 DEF CheckNew, TransferFails
    <3>2. StructTypeOK'
      BY <2>22 DEF CheckNew, TransferFails
    <3>3. DiskTypeOK'
      BY <2>22 DEF CheckNew, TransferFails
    <3>4. HistoryTypeOK'
      BY <2>22 DEF CheckNew, TransferFails
    <3>5. CountInv'
      BY <2>22 DEF CheckNew, TransferFails
    <3> QED
      BY <3>1, <3>2, <3>3, <3>4, <3>5 DEF BasicInv
  <2>23. CASE Exec
    <3>1. SlotTypeOK' /\ StructTypeOK'
      BY <2>23, ExecStep
    <3>2. DiskTypeOK' /\ CountInv'
      BY <2>23, ExecCounts
    <3>3. HistoryTypeOK'
      BY <2>23, ExecStep
    <3> QED
      BY <3>1, <3>2, <3>3
  <2>24. CASE Interrupt
    <3>1. SlotTypeOK'
      BY <2>24 DEF Interrupt
    <3>2. StructTypeOK'
      BY <2>24 DEF Interrupt
    <3>3. DiskTypeOK'
      BY <2>24 DEF Interrupt
    <3>4. HistoryTypeOK'
      BY <2>24 DEF Interrupt
    <3>5. CountInv'
      BY <2>24 DEF Interrupt
    <3> QED
      BY <3>1, <3>2, <3>3, <3>4, <3>5 DEF BasicInv
  <2>25. CASE Mount
    <3>1. SlotTypeOK'
      BY <2>25 DEF Mount
    <3>2. StructTypeOK'
      BY <2>25 DEF Mount
    <3>3. DiskTypeOK'
      BY <2>25 DEF Mount
    <3>4. HistoryTypeOK'
      BY <2>25 DEF Mount
    <3>5. CountInv'
      BY <2>25 DEF Mount
    <3> QED
      BY <3>1, <3>2, <3>3, <3>4, <3>5 DEF BasicInv
  <2>26. CASE Transfer
    <3>1. SlotTypeOK'
      BY <2>26 DEF Transfer
    <3>2. StructTypeOK'
      BY <2>26 DEF Transfer
    <3>3. DiskTypeOK'
      BY <2>26 DEF Transfer
    <3>4. HistoryTypeOK'
      BY <2>26 DEF Transfer
    <3>5. CountInv'
      BY <2>26 DEF Transfer
    <3> QED
      BY <3>1, <3>2, <3>3, <3>4, <3>5 DEF BasicInv
  <2>27. CASE Swap
    <3>1. SlotTypeOK'
      <4>1. swaps + 2 \in Card /\ swaps + 1 \in 0 .. MaxSwaps
        BY <2>27 DEF Swap, Card
      <4> QED
        BY <2>27, <4>1 DEF Swap, Card
    <3>2. StructTypeOK'
      BY <2>27 DEF Swap
    <3>3. DiskTypeOK'
      BY <2>27 DEF Swap
    <3>4. HistoryTypeOK'
      BY <2>27 DEF Swap
    <3>5. CountInv'
      BY <2>27 DEF Swap
    <3> QED
      BY <3>1, <3>2, <3>3, <3>4, <3>5 DEF BasicInv
  <2>28. CASE UNCHANGED vars
    <3>1. SlotTypeOK'
      BY <2>28 DEF vars
    <3>2. StructTypeOK'
      BY <2>28 DEF vars
    <3>3. DiskTypeOK'
      BY <2>28 DEF vars
    <3>4. HistoryTypeOK'
      BY <2>28 DEF vars
    <3>5. CountInv'
      BY <2>28 DEF vars
    <3> QED
      BY <3>1, <3>2, <3>3, <3>4, <3>5 DEF BasicInv
  <2> QED
    BY ONLY <2>1, <2>2, <2>3, <2>4, <2>5, <2>6, <2>7, <2>8, <2>9, <2>10, <2>11, <2>12,
       <2>13, <2>14,
       <2>15, <2>16, <2>17, <2>18, <2>19, <2>20, <2>21, <2>22, <2>23, <2>24, <2>25, <2>26,
          <2>27, <2>28, [Next]_vars
       DEF Next, Driver, Attaching, Discovering, Disk
<1> QED
  BY <1>1, <1>2, RunInvariant, PTL DEF Spec

\* The recorded address and mode are those of the card in the slot.
Own == rca = slot /\ blockmode = slot

\* A discovery has ended: the card is selected, and recorded, or has no power.
Settled == cstate = "off" \/ (cstate = "tran" /\ Own)

\* What the card's state can be at each point of a discovery.
StateInv ==
  /\ ~event =>
       /\ hit[top] => Settled
       /\ pc[top] = "attach" /\ top = 0 => Settled
       /\ pc[top] \in {"attached", "discover", "detect", "power"} => Settled
       /\ pc[top] \in {"app_cmd", "width", "clock"} \cup Program => Settled
       /\ pc[top] \in {"idle", "op_cond"} => cstate \in {"off", "idle", "tran"}
       /\ pc[top] = "cid" => cstate \in {"off", "ready", "tran"} /\ (cstate = "ready" => blockmode = slot)
       /\ pc[top] = "rca" => cstate \in {"off", "ident", "tran"} /\ (cstate = "ident" => blockmode = slot)
       /\ pc[top] = "csd" => cstate \in {"off", "stby", "tran"} /\ (cstate = "stby" => Own)
       /\ pc[top] \in {"select", "status", "blocklen"} =>
            cstate = "off" \/ (cstate \in {"stby", "tran"} /\ Own)
  /\ event => cstate = "off" \/ (top # 0 /\ pc[top] \in {"idle", "out_power"})

\* A step that goes to one point, and one that ends in a card that is off or settled.
LEMMA GotoState ==
  ASSUME RunInv, NEW p, Goto(p)
  PROVE  top' = top /\ pc'[top'] = p /\ ~hit'[top']
BY DEF RunInv, RunTypeOK, Goto

LEMMA InterruptState ==
  ASSUME RunInv, Interrupt
  PROVE  /\ top' = top + 1 /\ top' # 0 /\ ~event'
         /\ pc'[top'] = "attach" /\ ~hit'[top']
<1>1. /\ top' = top + 1 /\ top' \in 0 .. MaxNest /\ top' # 0 /\ top' # top /\ ~event'
  BY SdCardAssumption DEF Interrupt, RunInv, RunTypeOK
<1>2. pc' = [pc EXCEPT ![top'] = "attach"] /\ ~hit[top']
  BY <1>1 DEF Interrupt, RunInv, RunTypeOK, NestInv
<1>3. hit' = hit \/ hit' = [hit EXCEPT ![top] = TRUE]
  BY DEF Interrupt
<1> QED
  BY <1>1, <1>2, <1>3 DEF RunInv, RunTypeOK

LEMMA SettledState == cstate' = "off" \/ (~event' /\ Settled') => StateInv'
BY DEF StateInv, Settled


\* StateInv holds in every state.
LEMMA StateInvariant == Spec => []StateInv
<1> USE SdCardAssumption, ConstantFacts
<1>1. Init => StateInv
  BY DEF Init, StateInv, Settled, Own, Program, InCommand
<1>2. RunInv /\ StateInv /\ [Next]_vars => StateInv'
  <2> SUFFICES ASSUME RunInv, StateInv, [Next]_vars
               PROVE  StateInv'
    OBVIOUS
  <2> USE DEF At
  <2>1. CASE Attach
    BY <2>1, SettledState DEF StateInv, Settled, Own, Program, InCommand, At, Attach,
       HostReset, Unchanged, bus, card
  <2>2. CASE AttachDetect
    BY <2>2, SettledState DEF StateInv, Settled, Own, Program, InCommand, At, AttachDetect,
       Unchanged, bus, card
  <2>3. CASE Discover
    BY <2>3, SettledState DEF StateInv, Settled, Own, Program, InCommand, At, Discover,
       HostReset, Unchanged, bus, card
  <2>4. CASE DiscoverDetect
    BY <2>4, GotoState DEF StateInv, Settled, Own, Program, InCommand, At, DiscoverDetect,
       Unchanged, bus, card
  <2>5. CASE Power
    BY <2>5, GotoState DEF StateInv, Settled, Own, Program, InCommand, At, Power, Powered,
       Unchanged, bus, card
  <2>6. CASE GoIdle
    BY <2>6, GotoState DEF StateInv, Settled, Own, Program, InCommand, At, GoIdle, Fails,
       Unchanged, bus, card
  <2>7. CASE OpCond
    BY <2>7, GotoState DEF StateInv, Settled, Own, Program, InCommand, At, OpCond, Fails,
       Answers, Unchanged, bus, card
  <2>8. CASE AllSendCid
    BY <2>8, GotoState DEF StateInv, Settled, Own, Program, InCommand, At, AllSendCid,
       Fails, Answers, Unchanged, bus, card
  <2>9. CASE SendRca
    BY <2>9, GotoState DEF StateInv, Settled, Own, Program, InCommand, At, SendRca, Fails,
       Answers, Unchanged, bus, card
  <2>10. CASE SendCsd
    BY <2>10, GotoState DEF StateInv, Settled, Own, Program, InCommand, At, SendCsd, Fails,
       Named, Answers, Unchanged, bus, card
  <2>11. CASE DiscoverSelect
    BY <2>11, GotoState DEF StateInv, Settled, Own, Program, InCommand, At, DiscoverSelect,
       Selects, Fails, Named, Answers, Unchanged, bus, card
  <2>12. CASE Status
    BY <2>12, GotoState DEF StateInv, Settled, Own, Program, InCommand, At, Status, SetUp,
       Named, Answers, Unchanged, bus, card
  <2>13. CASE BlockLen
    BY <2>13, GotoState DEF StateInv, Settled, Own, Program, InCommand, At, BlockLen, SetUp,
       Named, Answers, Unchanged, bus, card
  <2>14. CASE AppCmd
    BY <2>14, GotoState DEF StateInv, Settled, Own, Program, InCommand, At, AppCmd, SetUp,
       Named, Answers, Unchanged, bus, card
  <2>15. CASE BusWidth
    BY <2>15, GotoState DEF StateInv, Settled, Own, Program, InCommand, At, BusWidth, SetUp,
       Named, Answers, Unchanged, bus, card
  <2>16. CASE Clock
    BY <2>16, GotoState DEF StateInv, Settled, Own, Program, InCommand, At, Clock,
       Unchanged, bus, card
  <2>17. CASE OutClock
    BY <2>17, GotoState DEF StateInv, Settled, Own, Program, InCommand, At, OutClock,
       Unchanged, bus, card
  <2>18. CASE OutPower
    BY <2>18, SettledState DEF StateInv, Settled, Own, Program, InCommand, At, OutPower,
       HostReset, DiscoveryFails, Unchanged, bus, card
  <2>19. CASE Ack
    BY <2>19, GotoState DEF StateInv, Settled, Own, Program, InCommand, At, Ack, Unchanged,
       bus, card
  <2>20. CASE CheckInserted
    BY <2>20, SettledState DEF StateInv, Settled, Own, Program, InCommand, At,
       CheckInserted, TransferFails, Unchanged, bus, card
  <2>21. CASE CheckSelect
    BY <2>21, GotoState DEF StateInv, Settled, Own, Program, InCommand, At, CheckSelect,
       Selects, Fails, Named, Answers, TransferFails, Unchanged, bus, card
  <2>22. CASE CheckNew
    BY <2>22, SettledState DEF StateInv, Settled, Own, Program, InCommand, At, CheckNew,
       TransferFails, Unchanged, bus, card
  <2>23. CASE Exec
    BY <2>23, GotoState DEF StateInv, Settled, Own, Program, InCommand, At, Exec, Answers,
       TransferFails, Unchanged, bus, card
  <2>24. CASE Interrupt
    BY <2>24, InterruptState DEF StateInv, Program
  <2>25. CASE Mount
    BY <2>25, GotoState DEF StateInv, Settled, Own, Program, InCommand, At, Mount,
       Unchanged, bus, card
  <2>26. CASE Transfer
    BY <2>26, GotoState DEF StateInv, Settled, Own, Program, InCommand, At, Transfer,
       Unchanged, bus, card
  <2>27. CASE Swap
    BY <2>27, SettledState DEF StateInv, Settled, Own, Program, InCommand, At, Swap,
       Unchanged, bus, card
  <2>28. CASE UNCHANGED vars
    BY <2>28 DEF StateInv, Settled, Own, vars, bus, card, run
  <2> QED
    BY ONLY <2>1, <2>2, <2>3, <2>4, <2>5, <2>6, <2>7, <2>8, <2>9, <2>10, <2>11, <2>12,
       <2>13, <2>14,
       <2>15, <2>16, <2>17, <2>18, <2>19, <2>20, <2>21, <2>22, <2>23, <2>24, <2>25, <2>26,
          <2>27, <2>28, [Next]_vars
       DEF Next, Driver, Attaching, Discovering, Disk
<1> QED
  BY <1>1, <1>2, RunInvariant, PTL DEF Spec

\* A card in the slot is new, or acknowledged, or out of use.
NoticeInv ==
  /\ wiped => failed
  /\ ~event /\ slot # 0 /\ pc[top] \notin {"attach", "attached", "discover"} =>
       new_card \/ acked = slot \/ wiped \/ (failed /\ cstate = "off" /\ top = 0 /\ pc[0] \in Program)

RecordInv ==
  ~failed /\ ~event /\ slot # 0
    /\ pc[top] \in {"csd", "select", "status", "blocklen", "app_cmd", "width", "clock"} \cup Program
       => inserted

NoticedInv == NoticeInv /\ RecordInv

\* Where a discovery that ends goes on.
LEMMA LeaveState ==
  ASSUME RunInv, Leave
  PROVE  \/ top' = 0 /\ pc'[top'] = "free"
         \/ top # 0 /\ top' = top - 1 /\ pc'[top'] = pc[top - 1]
BY DEF Leave, Goto, RunInv, RunTypeOK

LEMMA NestedState == RunInv /\ top # 0 /\ ~Nested => top - 1 = 0 /\ pc[top - 1] \in Program
BY ConstantFacts DEF RunInv, RunTypeOK, NestInv, Nested, Transferring, Program

\* NoticedInv holds in every state.
LEMMA NoticedInvariant == Spec => []NoticedInv
<1> USE SdCardAssumption, ConstantFacts
<1>1. Init => NoticedInv
  BY DEF Init, NoticedInv, NoticeInv, RecordInv, Program
<1>2. RunInv /\ NoticedInv /\ [Next]_vars => NoticedInv'
  <2> SUFFICES ASSUME RunInv, NoticedInv, [Next]_vars
               PROVE  NoticedInv'
    OBVIOUS
  <2> USE DEF NoticedInv
  <2>1. CASE Attach
    BY <2>1, GotoState DEF NoticeInv, RecordInv, Program, InCommand, At,
       Attach, HostReset, Unchanged, bus, card, disk, failures
  <2>2. CASE AttachDetect
    BY <2>2, GotoState, LeaveState DEF NoticeInv, RecordInv, Program, InCommand, At,
       AttachDetect, Unchanged, bus, card, disk, failures
  <2>3. CASE Discover
    BY <2>3, GotoState DEF NoticeInv, RecordInv, Program, InCommand, At,
       Discover, HostReset, Unchanged, bus, card, disk, failures
  <2>4. CASE DiscoverDetect
    BY <2>4, GotoState, LeaveState DEF NoticeInv, RecordInv, Program, InCommand, At,
       DiscoverDetect, Unchanged, bus, card, disk, failures
  <2>5. CASE Power
    BY <2>5, GotoState, LeaveState DEF NoticeInv, RecordInv, Program, InCommand, At,
       Power, Powered, Unchanged, bus, card, disk, failures
  <2>6. CASE GoIdle
    BY <2>6, GotoState DEF NoticeInv, RecordInv, Program, InCommand, At,
       GoIdle, Fails, Unchanged, bus, card, disk, failures
  <2>7. CASE OpCond
    BY <2>7, GotoState DEF NoticeInv, RecordInv, Program, InCommand, At,
       OpCond, Fails, Answers, Unchanged, bus, card, disk, failures
  <2>8. CASE AllSendCid
    BY <2>8, GotoState DEF NoticeInv, RecordInv, Program, InCommand, At,
       AllSendCid, Fails, Answers, Unchanged, bus, card, disk, failures
  <2>9. CASE SendRca
    BY <2>9, GotoState DEF NoticeInv, RecordInv, Program, InCommand, At,
       SendRca, Fails, Answers, Unchanged, bus, card, disk, failures
  <2>10. CASE SendCsd
    BY <2>10, GotoState DEF NoticeInv, RecordInv, Program, InCommand, At,
       SendCsd, Fails, Named, Answers, Unchanged, bus, card, disk, failures
  <2>11. CASE DiscoverSelect
    BY <2>11, GotoState DEF NoticeInv, RecordInv, Program, InCommand, At,
       DiscoverSelect, Selects, Fails, Named, Answers, Unchanged, bus, card, disk, failures
  <2>12. CASE Status
    BY <2>12, GotoState DEF NoticeInv, RecordInv, Program, InCommand, At,
       Status, SetUp, Named, Answers, Unchanged, bus, card, disk, failures
  <2>13. CASE BlockLen
    BY <2>13, GotoState DEF NoticeInv, RecordInv, Program, InCommand, At,
       BlockLen, SetUp, Named, Answers, Unchanged, bus, card, disk, failures
  <2>14. CASE AppCmd
    BY <2>14, GotoState DEF NoticeInv, RecordInv, Program, InCommand, At,
       AppCmd, SetUp, Named, Answers, Unchanged, bus, card, disk, failures
  <2>15. CASE BusWidth
    BY <2>15, GotoState DEF NoticeInv, RecordInv, Program, InCommand, At,
       BusWidth, SetUp, Named, Answers, Unchanged, bus, card, disk, failures
  <2>16. CASE Clock
    BY <2>16, GotoState, LeaveState DEF NoticeInv, RecordInv, Program, InCommand, At,
       Clock, Unchanged, bus, card, disk, failures
  <2>17. CASE OutClock
    BY <2>17, GotoState DEF NoticeInv, RecordInv, Program, InCommand, At,
       OutClock, Unchanged, bus, card, disk, failures
  <2>18. CASE OutPower
    <3>1. CASE event
      BY <2>18, <3>1, NestedState, LeaveState DEF NoticeInv, RecordInv, Program, InCommand,
         At,
         OutPower, HostReset, DiscoveryFails, Unchanged, bus, card, disk, failures
    <3>2. CASE ~event
      BY <2>18, <3>2, LeaveState DEF NoticeInv, RecordInv, Program, InCommand, At,
         OutPower, HostReset, DiscoveryFails, Unchanged, bus, card, disk, failures
    <3> QED
      BY <3>1, <3>2
  <2>19. CASE Ack
    BY <2>19, GotoState DEF NoticeInv, RecordInv, Program, InCommand, At,
       Ack, Unchanged, bus, card, disk, failures
  <2>20. CASE CheckInserted
    BY <2>20, GotoState DEF NoticeInv, RecordInv, Program, InCommand, At,
       CheckInserted, TransferFails, Unchanged, bus, card, disk, failures
  <2>21. CASE CheckSelect
    BY <2>21, GotoState DEF NoticeInv, RecordInv, Program, InCommand, At,
       CheckSelect, Selects, Fails, Named, Answers, TransferFails, Unchanged, bus, card, disk, failures
  <2>22. CASE CheckNew
    BY <2>22, GotoState DEF NoticeInv, RecordInv, Program, InCommand, At,
       CheckNew, TransferFails, Unchanged, bus, card, disk, failures
  <2>23. CASE Exec
    BY <2>23, GotoState DEF NoticeInv, RecordInv, Program, InCommand, At,
       Exec, Answers, TransferFails, Unchanged, bus, card, disk, failures
  <2>24. CASE Interrupt
    BY <2>24, InterruptState DEF NoticeInv, RecordInv, InCommand, Interrupt, Program
  <2>25. CASE Mount
    BY <2>25, GotoState DEF NoticeInv, RecordInv, Program, InCommand, At,
       Mount, Unchanged, bus, card, disk, failures, run
  <2>26. CASE Transfer
    BY <2>26, GotoState DEF NoticeInv, RecordInv, Program, InCommand, At,
       Transfer, Unchanged, bus, card, disk, failures
  <2>27. CASE Swap
    BY <2>27, GotoState DEF NoticeInv, RecordInv, Program, InCommand, At,
       Swap, Unchanged, bus, card, disk, failures
  <2>28. CASE UNCHANGED vars
    BY <2>28 DEF NoticeInv, RecordInv, vars, bus, card, disk, failures, run
  <2> QED
    BY ONLY <2>1, <2>2, <2>3, <2>4, <2>5, <2>6, <2>7, <2>8, <2>9, <2>10, <2>11, <2>12,
       <2>13, <2>14,
       <2>15, <2>16, <2>17, <2>18, <2>19, <2>20, <2>21, <2>22, <2>23, <2>24, <2>25, <2>26,
          <2>27, <2>28, [Next]_vars
       DEF Next, Driver, Attaching, Discovering, Disk
<1> QED
  BY <1>1, <1>2, RunInvariant, PTL DEF Spec

\* The transfer.
Moving == {"check", "check_select", "check_new", "exec"}

\* What a transfer has to be excused for.
ExecInv ==
  /\ pc[0] \in Moving /\ wiped => disturbed
  /\ pc[0] = "exec" /\ (hit[0] \/ top # 0) => disturbed
  /\ pc[0] = "exec" /\ ~disturbed => ~new_card

\* What has been moved is right so far.
MovedInv ==
  /\ moved \in Seq(Card \X BOOLEAN \X Nat)
  /\ pc[0] \in Moving => sector = Len(moved)
  /\ (pc[0] \in Moving \/ res = "ok") /\ ~disturbed =>
       \A i \in DOMAIN moved : moved[i] = <<acked, TRUE, i - 1>>

\* Cards to come have no strays; a card that is about to be moved to has none.
StrayInv ==
  /\ slot <= swaps + 1
  /\ \A c \in Card : strays[c] # 0 => c <= swaps + 1
  /\ pc[0] = "exec" =>
       \/ slot = 0 \/ strays[slot] = 0
       \/ top = 0 /\ ~event /\ ~hit[0] /\ (acked = slot \/ wiped \/ cstate = "off")
  /\ OneStray

\* What a step does to the program.
LEMMA GotoZero ==
  ASSUME RunInv, NEW p, Goto(p)
  PROVE  /\ top' = top
         /\ top = 0 => pc'[0] = p /\ ~hit'[0]
         /\ top # 0 => pc'[0] = pc[0] /\ hit'[0] = hit[0]
BY ConstantFacts DEF Goto, RunInv, RunTypeOK

LEMMA LeaveZero ==
  ASSUME RunInv, Leave
  PROVE  /\ top = 0 => pc'[0] = "free" /\ ~hit'[0] /\ top' = 0
         /\ top # 0 => pc'[0] = pc[0] /\ hit'[0] = hit[0] /\ top' = top - 1
BY ConstantFacts DEF Leave, Goto, RunInv, RunTypeOK

LEMMA InterruptZero ==
  ASSUME RunInv, Interrupt
  PROVE  pc'[0] = pc[0] /\ top' # 0
BY InterruptState, SdCardAssumption DEF Interrupt, RunInv, RunTypeOK

\* A step that moves nothing.
LEMMA MovedStays ==
  ASSUME MovedInv, UNCHANGED <<moved, acked>>,
         pc'[0] \in Moving => pc[0] \in Moving /\ sector' = sector,
         res' = "ok" => pc[0] \in Moving \/ res = "ok",
         disturbed => disturbed'
  PROVE  MovedInv'
BY DEF MovedInv

\* A command adds what it moves at the end, and a transfer that nothing has disturbed
\* moves from or to the acknowledged card.
LEMMA ExecMoves ==
  ASSUME RunInv, BasicInv, StateInv, NoticedInv, ExecInv, MovedInv, Exec
  PROVE  MovedInv'
<1> USE SdCardAssumption, ConstantFacts, ExecStep
<1>1. /\ pc[0] = "exec" /\ ~event /\ top = 0 /\ sector = Len(moved) /\ sector \in Nat /\ slot \in Card
      /\ UNCHANGED <<acked, disturbed>>
  BY DEF MovedInv, Moving, BasicInv, SlotTypeOK, DiskTypeOK, Sector
<1>2. CASE res' = "error" /\ pc' = [pc EXCEPT ![0] = "free"] /\ UNCHANGED <<sector, count, moved, strays>>
  BY <1>1, <1>2, MovedStays DEF RunInv, RunTypeOK, Moving
<1>3. CASE /\ Work \in 1 .. count /\ (~hit[0] => cstate = "tran" /\ slot # 0)
           /\ moved' = moved \o Moved /\ sector' = sector + Work
  <2>1. /\ Work \in Nat /\ Len(Moved) = Work /\ Moved \in Seq(Card \X BOOLEAN \X Nat)
        /\ \A i \in 1 .. Work : Moved[i] = <<slot, blockmode = slot, sector + i - 1>>
    <3>1. Work \in Nat
      BY <1>3 DEF BasicInv, DiskTypeOK
    <3>2. \A i \in 1 .. Work : sector + i - 1 \in Nat
      BY ONLY <1>1, <3>1
    <3>3. (blockmode = slot) \in BOOLEAN /\ slot \in Card
      BY <1>1
    <3>4. Moved \in [1 .. Work -> Card \X BOOLEAN \X Nat]
      BY ONLY <3>2, <3>3, Zenon DEF Moved
    <3>5. Moved \in Seq(Card \X BOOLEAN \X Nat) /\ Len(Moved) = Work
      BY ONLY <3>1, <3>4
    <3>6. \A i \in 1 .. Work : Moved[i] = <<slot, blockmode = slot, sector + i - 1>>
      BY ONLY Zenon DEF Moved
    <3> QED
      BY ONLY <3>1, <3>5, <3>6
  <2>2. /\ moved' \in Seq(Card \X BOOLEAN \X Nat) /\ Len(moved') = sector + Work
        /\ \A i \in 1 .. Len(moved') :
             moved'[i] = IF i <= sector THEN moved[i] ELSE Moved[i - sector]
    <3>1. moved \in Seq(Card \X BOOLEAN \X Nat)
      BY DEF MovedInv
    <3>2. /\ moved \o Moved \in Seq(Card \X BOOLEAN \X Nat)
          /\ Len(moved \o Moved) = Len(moved) + Len(Moved)
          /\ \A i \in 1 .. Len(moved) + Len(Moved) :
               (moved \o Moved)[i] = IF i <= Len(moved) THEN moved[i] ELSE Moved[i - Len(moved)]
      BY ONLY <2>1, <3>1, ConcatProperties, Zenon
    <3>3. moved' = moved \o Moved /\ sector = Len(moved) /\ Len(Moved) = Work
      BY ONLY <1>1, <1>3, <2>1
    <3> QED
      BY ONLY <3>2, <3>3, Zenon
  <2>3. sector' = Len(moved')
    BY <1>3, <2>2
  <2>4. ASSUME ~disturbed
        PROVE  slot = acked /\ blockmode = slot
    BY <1>1, <1>3, <2>4 DEF ExecInv, StateInv, NoticedInv, NoticeInv, Settled, Own, Program,
       Moving
  <2>5. ASSUME ~disturbed, NEW i \in DOMAIN moved'
        PROVE  moved'[i] = <<acked, TRUE, i - 1>>
    <3>1. i \in 1 .. Len(moved') /\ i \in Nat
      BY ONLY <2>2, <2>5
    <3>2. CASE i <= sector
      <4>1. moved'[i] = moved[i] /\ i \in DOMAIN moved
        BY ONLY <1>1, <2>2, <3>1, <3>2, MovedInv DEF MovedInv
      <4>2. moved[i] = <<acked, TRUE, i - 1>>
        BY ONLY <1>1, <2>5, <4>1, MovedInv DEF MovedInv, Moving
      <4> QED
        BY ONLY <4>1, <4>2
    <3>3. CASE i > sector
      <4>1. sector \in Nat /\ Work \in Nat /\ i \in 1 .. sector + Work
        BY ONLY <1>1, <2>1, <2>2, <3>1
      <4>2. i - sector \in 1 .. Work /\ sector + (i - sector) - 1 = i - 1
        BY ONLY <3>3, <4>1
      <4>3. moved'[i] = Moved[i - sector]
        BY ONLY <1>1, <2>2, <3>1, <3>3
      <4>4. Moved[i - sector] = <<slot, blockmode = slot, i - 1>>
        BY ONLY <2>1, <4>2, Zenon
      <4>5. blockmode = slot /\ slot = acked
        BY ONLY <2>4, <2>5
      <4>6. (blockmode = slot) = TRUE
        BY ONLY <4>5
      <4> QED
        BY ONLY <4>3, <4>4, <4>5, <4>6, Zenon
    <3>4. i <= sector \/ i > sector
      BY ONLY <1>1, <3>1
    <3> QED
      BY ONLY <3>2, <3>3, <3>4
  <2> QED
    BY ONLY <1>1, <2>2, <2>3, <2>5 DEF MovedInv
<1> QED
  BY <1>2, <1>3

\* A step that lets nothing through, with the card it finds, and one that changes it.
LEMMA StraysStay ==
  ASSUME StrayInv, UNCHANGED <<slot, swaps, strays>>,
         pc'[0] = "exec" => pc[0] = "exec" /\ top # 0
  PROVE  StrayInv'
BY DEF StrayInv, OneStray

LEMMA ExecStrays ==
  ASSUME RunInv, BasicInv, StrayInv, Exec
  PROVE  StrayInv'
<1>1. /\ pc[0] = "exec" /\ UNCHANGED <<slot, swaps>> /\ pc'[0] # "exec" /\ slot \in Card
      /\ strays \in [Card -> 0 .. 2]
  BY ExecStep, ConstantFacts DEF bus, RunInv, RunTypeOK, BasicInv, SlotTypeOK, HistoryTypeOK
<1>2. CASE UNCHANGED strays
  BY <1>1, <1>2 DEF StrayInv, OneStray
<1>3. CASE /\ ~hit[0] => cstate = "tran" /\ slot # 0
           /\ slot \notin {0, acked} /\ ~wiped
           /\ strays' = [strays EXCEPT ![slot] = @ + 1]
  <2>1. strays[slot] = 0
    BY <1>1, <1>3 DEF StrayInv
  <2>2. strays'[slot] = 1 /\ \A c \in Card : c # slot => strays'[c] = strays[c]
    BY <1>1, <1>3, <2>1
  <2> QED
    BY ONLY <1>1, <2>2, StrayInv DEF StrayInv, OneStray
<1> QED
  BY <1>2, <1>3, ExecStep

\* ExecInv holds in every state.
LEMMA ExecInvariant == Spec => []ExecInv
<1> USE SdCardAssumption, ConstantFacts
<1>1. Init => ExecInv
  BY DEF Init, ExecInv, Moving
<1>2. RunInv /\ BasicInv /\ ExecInv /\ [Next]_vars => ExecInv'
  <2> SUFFICES ASSUME RunInv, BasicInv, ExecInv, [Next]_vars
               PROVE  ExecInv'
    OBVIOUS
  <2> USE DEF ExecInv
  <2>1. CASE Attach
    BY <2>1, GotoZero DEF ExecInv, Moving, Program, InCommand, At,
       Attach, HostReset, Unchanged, card, disk, failures, bus
  <2>2. CASE AttachDetect
    BY <2>2, GotoZero, LeaveZero DEF ExecInv, Moving, Program, InCommand, At,
       AttachDetect, Unchanged, card, disk, failures, bus
  <2>3. CASE Discover
    BY <2>3, GotoZero DEF ExecInv, Moving, Program, InCommand, At,
       Discover, HostReset, Unchanged, card, disk, failures, bus
  <2>4. CASE DiscoverDetect
    BY <2>4, GotoZero, LeaveZero DEF ExecInv, Moving, Program, InCommand, At,
       DiscoverDetect, Unchanged, card, disk, failures, bus
  <2>5. CASE Power
    BY <2>5, GotoZero, LeaveZero DEF ExecInv, Moving, Program, InCommand, At,
       Power, Powered, Unchanged, card, disk, failures, bus
  <2>6. CASE GoIdle
    BY <2>6, GotoZero DEF ExecInv, Moving, Program, InCommand, At,
       GoIdle, Fails, Unchanged, card, disk, failures, bus
  <2>7. CASE OpCond
    BY <2>7, GotoZero DEF ExecInv, Moving, Program, InCommand, At,
       OpCond, Fails, Answers, Unchanged, card, disk, failures, bus
  <2>8. CASE AllSendCid
    BY <2>8, GotoZero DEF ExecInv, Moving, Program, InCommand, At,
       AllSendCid, Fails, Answers, Unchanged, card, disk, failures, bus
  <2>9. CASE SendRca
    BY <2>9, GotoZero DEF ExecInv, Moving, Program, InCommand, At,
       SendRca, Fails, Answers, Unchanged, card, disk, failures, bus
  <2>10. CASE SendCsd
    BY <2>10, GotoZero DEF ExecInv, Moving, Program, InCommand, At,
       SendCsd, Fails, Named, Answers, Unchanged, card, disk, failures, bus
  <2>11. CASE DiscoverSelect
    BY <2>11, GotoZero DEF ExecInv, Moving, Program, InCommand, At,
       DiscoverSelect, Selects, Fails, Named, Answers, Unchanged, card, disk, failures, bus
  <2>12. CASE Status
    BY <2>12, GotoZero DEF ExecInv, Moving, Program, InCommand, At,
       Status, SetUp, Named, Answers, Unchanged, card, disk, failures, bus
  <2>13. CASE BlockLen
    BY <2>13, GotoZero DEF ExecInv, Moving, Program, InCommand, At,
       BlockLen, SetUp, Named, Answers, Unchanged, card, disk, failures, bus
  <2>14. CASE AppCmd
    BY <2>14, GotoZero DEF ExecInv, Moving, Program, InCommand, At,
       AppCmd, SetUp, Named, Answers, Unchanged, card, disk, failures, bus
  <2>15. CASE BusWidth
    BY <2>15, GotoZero DEF ExecInv, Moving, Program, InCommand, At,
       BusWidth, SetUp, Named, Answers, Unchanged, card, disk, failures, bus
  <2>16. CASE Clock
    BY <2>16, GotoZero, LeaveZero DEF ExecInv, Moving, Program, InCommand, At,
       Clock, Unchanged, card, disk, failures, bus
  <2>17. CASE OutClock
    BY <2>17, GotoZero DEF ExecInv, Moving, Program, InCommand, At,
       OutClock, Unchanged, card, disk, failures, bus
  <2>18. CASE OutPower
    BY <2>18, GotoZero, LeaveZero DEF ExecInv, Moving, Program, InCommand, At,
       OutPower, HostReset, DiscoveryFails, Unchanged, card, disk, failures, bus
  <2>19. CASE Ack
    BY <2>19, GotoZero, ProgramLevel DEF ExecInv, Moving, Program, InCommand, At,
       Ack, Unchanged, card, disk, failures, bus
  <2>20. CASE CheckInserted
    BY <2>20, GotoZero, ProgramLevel DEF ExecInv, Moving, Program, InCommand, At,
       CheckInserted, TransferFails, Unchanged, card, disk, failures, bus
  <2>21. CASE CheckSelect
    BY <2>21, GotoZero, ProgramLevel DEF ExecInv, Moving, Program, InCommand, At,
       CheckSelect, Selects, Fails, Named, Answers, TransferFails, Unchanged, card, disk, failures, bus
  <2>22. CASE CheckNew
    BY <2>22, GotoZero, ProgramLevel DEF ExecInv, Moving, Program, InCommand, At,
       CheckNew, TransferFails, Unchanged, card, disk, failures, bus
  <2>23. CASE Exec
    BY <2>23, ExecStep DEF ExecInv, Moving, RunInv, RunTypeOK, card, failures
  <2>24. CASE Interrupt
    BY <2>24, InterruptZero DEF ExecInv, Interrupt, card
  <2>25. CASE Mount
    BY <2>25, GotoZero DEF ExecInv, Moving, Program, InCommand, At,
       Mount, Unchanged, card, disk, failures, bus, run
  <2>26. CASE Transfer
    BY <2>26, GotoZero, ProgramLevel DEF ExecInv, Moving, Program, InCommand, At,
       Transfer, Unchanged, card, disk, failures, bus
  <2>27. CASE Swap
    BY <2>27, GotoZero DEF ExecInv, Moving, Program, InCommand, At,
       Swap, Unchanged, card, disk, failures, bus, run
  <2>28. CASE UNCHANGED vars
    BY <2>28 DEF ExecInv, vars, card, disk, failures, run
  <2> QED
    BY ONLY <2>1, <2>2, <2>3, <2>4, <2>5, <2>6, <2>7, <2>8, <2>9, <2>10, <2>11, <2>12,
       <2>13, <2>14,
       <2>15, <2>16, <2>17, <2>18, <2>19, <2>20, <2>21, <2>22, <2>23, <2>24, <2>25, <2>26,
          <2>27, <2>28, [Next]_vars
       DEF Next, Driver, Attaching, Discovering, Disk
<1> QED
  BY <1>1, <1>2, RunInvariant, BasicInvariant, PTL DEF Spec

\* MovedInv holds in every state.
LEMMA MovedInvariant == Spec => []MovedInv
<1> USE SdCardAssumption, ConstantFacts
<1>1. Init => MovedInv
  BY DEF Init, MovedInv, Moving
<1>2. RunInv /\ BasicInv /\ StateInv /\ NoticedInv /\ ExecInv /\ MovedInv
      /\ [Next]_vars => MovedInv'
  <2> SUFFICES ASSUME RunInv, BasicInv, StateInv, NoticedInv, ExecInv, MovedInv, [Next]_vars
               PROVE  MovedInv'
    OBVIOUS
  <2> USE DEF At
  <2>1. CASE Attach
    BY <2>1, MovedStays, GotoZero DEF Moving, Program, InCommand, At,
       Attach, HostReset, Unchanged, disk
  <2>2. CASE AttachDetect
    BY <2>2, MovedStays, GotoZero, LeaveZero DEF Moving, Program, InCommand, At,
       AttachDetect, Unchanged, disk
  <2>3. CASE Discover
    BY <2>3, MovedStays, GotoZero DEF Moving, Program, InCommand, At,
       Discover, HostReset, Unchanged, disk
  <2>4. CASE DiscoverDetect
    BY <2>4, MovedStays, GotoZero, LeaveZero DEF Moving, Program, InCommand, At,
       DiscoverDetect, Unchanged, disk
  <2>5. CASE Power
    BY <2>5, MovedStays, GotoZero, LeaveZero DEF Moving, Program, InCommand, At,
       Power, Powered, Unchanged, disk
  <2>6. CASE GoIdle
    BY <2>6, MovedStays, GotoZero DEF Moving, Program, InCommand, At,
       GoIdle, Fails, Unchanged, disk
  <2>7. CASE OpCond
    BY <2>7, MovedStays, GotoZero DEF Moving, Program, InCommand, At,
       OpCond, Fails, Answers, Unchanged, disk
  <2>8. CASE AllSendCid
    BY <2>8, MovedStays, GotoZero DEF Moving, Program, InCommand, At,
       AllSendCid, Fails, Answers, Unchanged, disk
  <2>9. CASE SendRca
    BY <2>9, MovedStays, GotoZero DEF Moving, Program, InCommand, At,
       SendRca, Fails, Answers, Unchanged, disk
  <2>10. CASE SendCsd
    BY <2>10, MovedStays, GotoZero DEF Moving, Program, InCommand, At,
       SendCsd, Fails, Named, Answers, Unchanged, disk
  <2>11. CASE DiscoverSelect
    BY <2>11, MovedStays, GotoZero DEF Moving, Program, InCommand, At,
       DiscoverSelect, Selects, Fails, Named, Answers, Unchanged, disk
  <2>12. CASE Status
    BY <2>12, MovedStays, GotoZero DEF Moving, Program, InCommand, At,
       Status, SetUp, Named, Answers, Unchanged, disk
  <2>13. CASE BlockLen
    BY <2>13, MovedStays, GotoZero DEF Moving, Program, InCommand, At,
       BlockLen, SetUp, Named, Answers, Unchanged, disk
  <2>14. CASE AppCmd
    BY <2>14, MovedStays, GotoZero DEF Moving, Program, InCommand, At,
       AppCmd, SetUp, Named, Answers, Unchanged, disk
  <2>15. CASE BusWidth
    BY <2>15, MovedStays, GotoZero DEF Moving, Program, InCommand, At,
       BusWidth, SetUp, Named, Answers, Unchanged, disk
  <2>16. CASE Clock
    BY <2>16, MovedStays, GotoZero, LeaveZero DEF Moving, Program, InCommand, At,
       Clock, Unchanged, disk
  <2>17. CASE OutClock
    BY <2>17, MovedStays, GotoZero DEF Moving, Program, InCommand, At,
       OutClock, Unchanged, disk
  <2>18. CASE OutPower
    BY <2>18, MovedStays, GotoZero, LeaveZero DEF Moving, Program, InCommand, At,
       OutPower, HostReset, DiscoveryFails, Unchanged, disk
  <2>19. CASE Ack
    <3>1. top = 0 /\ pc[0] = "ack" /\ res = "none" /\ res' = res /\ moved' = moved
      BY <2>19, ProgramLevel DEF BasicInv, CountInv, At, Ack, Program
    <3>2. pc'[0] = "free"
      BY <2>19, <3>1, GotoZero DEF Ack
    <3> QED
      BY ONLY <3>1, <3>2, MovedInv DEF MovedInv, Moving
  <2>20. CASE CheckInserted
    BY <2>20, MovedStays, GotoZero, ProgramLevel DEF Moving, Program, InCommand, At,
       CheckInserted, TransferFails, Unchanged, disk
  <2>21. CASE CheckSelect
    BY <2>21, MovedStays, GotoZero, ProgramLevel DEF Moving, Program, InCommand, At,
       CheckSelect, Selects, Fails, Named, Answers, TransferFails, Unchanged, disk
  <2>22. CASE CheckNew
    BY <2>22, MovedStays, GotoZero, ProgramLevel DEF Moving, Program, InCommand, At,
       CheckNew, TransferFails, Unchanged, disk
  <2>23. CASE Exec
    BY <2>23, ExecMoves
  <2>24. CASE Interrupt
    BY <2>24, MovedStays, InterruptZero DEF Interrupt, disk
  <2>25. CASE Mount
    BY <2>25, MovedStays, GotoZero, ProgramLevel DEF Moving, Program, InCommand, At,
       Mount, Unchanged, disk, run
  <2>26. CASE Transfer
    BY <2>26, GotoZero, ProgramLevel DEF MovedInv, Moving, BasicInv, CountInv, At, Transfer
  <2>27. CASE Swap
    BY <2>27, MovedStays, GotoZero DEF Moving, Program, InCommand, At,
       Swap, Unchanged, disk, run
  <2>28. CASE UNCHANGED vars
    BY <2>28, MovedStays DEF vars, disk, run
  <2> QED
    BY ONLY <2>1, <2>2, <2>3, <2>4, <2>5, <2>6, <2>7, <2>8, <2>9, <2>10, <2>11, <2>12,
       <2>13, <2>14,
       <2>15, <2>16, <2>17, <2>18, <2>19, <2>20, <2>21, <2>22, <2>23, <2>24, <2>25, <2>26,
          <2>27, <2>28, [Next]_vars
       DEF Next, Driver, Attaching, Discovering, Disk
<1> QED
  BY <1>1, <1>2, RunInvariant, BasicInvariant, StateInvariant, NoticedInvariant,
     ExecInvariant, PTL DEF Spec

\* StrayInv holds in every state.
LEMMA StrayInvariant == Spec => []StrayInv
<1> USE SdCardAssumption, ConstantFacts
<1>1. Init => StrayInv
  BY DEF Init, StrayInv, OneStray, Card
<1>2. RunInv /\ BasicInv /\ NoticedInv /\ StrayInv /\ [Next]_vars => StrayInv'
  <2> SUFFICES ASSUME RunInv, BasicInv, NoticedInv, StrayInv, [Next]_vars
               PROVE  StrayInv'
    OBVIOUS
  <2> USE DEF At
  <2>1. CASE Attach
    BY <2>1, StraysStay, GotoZero DEF Program, InCommand, At,
       Attach, HostReset, Unchanged, bus, disk
  <2>2. CASE AttachDetect
    BY <2>2, StraysStay, GotoZero, LeaveZero DEF Program, InCommand, At,
       AttachDetect, Unchanged, bus, disk
  <2>3. CASE Discover
    BY <2>3, StraysStay, GotoZero DEF Program, InCommand, At,
       Discover, HostReset, Unchanged, bus, disk
  <2>4. CASE DiscoverDetect
    BY <2>4, StraysStay, GotoZero, LeaveZero DEF Program, InCommand, At,
       DiscoverDetect, Unchanged, bus, disk
  <2>5. CASE Power
    BY <2>5, StraysStay, GotoZero, LeaveZero DEF Program, InCommand, At,
       Power, Powered, Unchanged, bus, disk
  <2>6. CASE GoIdle
    BY <2>6, StraysStay, GotoZero DEF Program, InCommand, At,
       GoIdle, Fails, Unchanged, bus, disk
  <2>7. CASE OpCond
    BY <2>7, StraysStay, GotoZero DEF Program, InCommand, At,
       OpCond, Fails, Answers, Unchanged, bus, disk
  <2>8. CASE AllSendCid
    BY <2>8, StraysStay, GotoZero DEF Program, InCommand, At,
       AllSendCid, Fails, Answers, Unchanged, bus, disk
  <2>9. CASE SendRca
    BY <2>9, StraysStay, GotoZero DEF Program, InCommand, At,
       SendRca, Fails, Answers, Unchanged, bus, disk
  <2>10. CASE SendCsd
    BY <2>10, StraysStay, GotoZero DEF Program, InCommand, At,
       SendCsd, Fails, Named, Answers, Unchanged, bus, disk
  <2>11. CASE DiscoverSelect
    BY <2>11, StraysStay, GotoZero DEF Program, InCommand, At,
       DiscoverSelect, Selects, Fails, Named, Answers, Unchanged, bus, disk
  <2>12. CASE Status
    BY <2>12, StraysStay, GotoZero DEF Program, InCommand, At,
       Status, SetUp, Named, Answers, Unchanged, bus, disk
  <2>13. CASE BlockLen
    BY <2>13, StraysStay, GotoZero DEF Program, InCommand, At,
       BlockLen, SetUp, Named, Answers, Unchanged, bus, disk
  <2>14. CASE AppCmd
    BY <2>14, StraysStay, GotoZero DEF Program, InCommand, At,
       AppCmd, SetUp, Named, Answers, Unchanged, bus, disk
  <2>15. CASE BusWidth
    BY <2>15, StraysStay, GotoZero DEF Program, InCommand, At,
       BusWidth, SetUp, Named, Answers, Unchanged, bus, disk
  <2>16. CASE Clock
    BY <2>16, StraysStay, GotoZero, LeaveZero DEF Program, InCommand, At,
       Clock, Unchanged, bus, disk
  <2>17. CASE OutClock
    BY <2>17, StraysStay, GotoZero DEF Program, InCommand, At,
       OutClock, Unchanged, bus, disk
  <2>18. CASE OutPower
    BY <2>18, StraysStay, GotoZero, LeaveZero DEF Program, InCommand, At,
       OutPower, HostReset, DiscoveryFails, Unchanged, bus, disk
  <2>19. CASE Ack
    <3>1. UNCHANGED <<slot, swaps>> /\ pc'[0] # "exec" /\ strays' = [c \in Card |-> 0]
      BY <2>19, ProgramLevel, GotoZero DEF Ack, At, Program, bus
    <3> QED
      BY ONLY <3>1, StrayInv DEF StrayInv, OneStray
  <2>20. CASE CheckInserted
    BY <2>20, StraysStay, GotoZero, ProgramLevel DEF Program, InCommand, At,
       CheckInserted, TransferFails, Unchanged, bus, disk, run
  <2>21. CASE CheckSelect
    BY <2>21, StraysStay, GotoZero, ProgramLevel DEF Program, InCommand, At,
       CheckSelect, Selects, Fails, Named, Answers, TransferFails, Unchanged, bus, disk, run
  <2>22. CASE CheckNew
    <3>1. /\ top = 0 /\ top' = 0 /\ pc[0] = "check_new" /\ ~event
          /\ UNCHANGED <<slot, swaps, event, cstate, strays, acked, wiped>>
          /\ pc'[0] = "exec" => ~new_card /\ ~hit'[0]
      BY <2>22, ProgramLevel, GotoZero DEF CheckNew, TransferFails, At, Program, bus, disk,
         failures
    <3>2. slot = 0 \/ new_card \/ acked = slot \/ wiped \/ cstate = "off"
      BY <3>1 DEF NoticedInv, NoticeInv
    <3> QED
      BY ONLY <3>1, <3>2, StrayInv DEF StrayInv, OneStray
  <2>23. CASE Exec
    BY <2>23, ExecStrays
  <2>24. CASE Interrupt
    BY <2>24, InterruptZero DEF Interrupt, disk, StrayInv, OneStray
  <2>25. CASE Mount
    BY <2>25, StraysStay, GotoZero, ProgramLevel DEF Program, InCommand, At,
       Mount, Unchanged, bus, disk, run
  <2>26. CASE Transfer
    BY <2>26, StraysStay, GotoZero, ProgramLevel DEF Program, InCommand, At,
       Transfer, Unchanged, bus, disk, run
  <2>27. CASE Swap
    <3>1. /\ swaps' = swaps + 1 /\ swaps + 2 \in Card /\ slot' \in {0, swaps + 2}
          /\ swaps \in Nat /\ UNCHANGED <<strays, pc, top>> /\ slot \in Nat
      BY <2>27 DEF Swap, BasicInv, SlotTypeOK, Card, disk, run
    <3>2. slot' <= swaps' + 1
      BY ONLY <3>1
    <3>3. \A c \in Card : strays'[c] # 0 => c <= swaps' + 1
      BY ONLY <3>1, StrayInv DEF StrayInv, Card
    <3>4. slot' = 0 \/ strays'[slot'] = 0
      BY ONLY <3>1, StrayInv DEF StrayInv
    <3> QED
      BY ONLY <3>1, <3>2, <3>3, <3>4, StrayInv DEF StrayInv, OneStray
  <2>28. CASE UNCHANGED vars
    BY <2>28 DEF StrayInv, OneStray, vars, bus, disk, run, failures
  <2> QED
    BY ONLY <2>1, <2>2, <2>3, <2>4, <2>5, <2>6, <2>7, <2>8, <2>9, <2>10, <2>11, <2>12,
       <2>13, <2>14,
       <2>15, <2>16, <2>17, <2>18, <2>19, <2>20, <2>21, <2>22, <2>23, <2>24, <2>25, <2>26,
          <2>27, <2>28, [Next]_vars
       DEF Next, Driver, Attaching, Discovering, Disk
<1> QED
  BY <1>1, <1>2, RunInvariant, BasicInvariant, NoticedInvariant, PTL DEF Spec

-----------------------------------------------------------------------------
\* Every variable keeps its type, whatever the handler interrupts.
THEOREM TypeCorrect == Spec => []TypeOK
<1>1. RunInv /\ BasicInv => TypeOK
  BY DEF RunInv, BasicInv, TypeOK
<1> QED
  BY <1>1, RunInvariant, BasicInvariant, PTL

\* The program goes on with a card that is recorded as itself, after any nest of
\* discoveries: rca and blockmode are the card's own, and it is selected.
THEOREM CoherentCorrect == Spec => []Coherent
<1>1. RunInv /\ BasicInv /\ StateInv => Coherent
  <2> SUFFICES ASSUME RunInv, BasicInv, StateInv
               PROVE  Coherent
    OBVIOUS
  <2>1. TypeOK
    BY DEF RunInv, BasicInv, TypeOK
  <2>2. ASSUME top = 0, pc[0] \notin InCommand \cup {"clock", "out_clock", "out_power"},
               cstate # "off"
        PROVE  Own /\ cstate = "tran"
    <3>1. pc[0] \in {"attach", "attached", "discover", "detect", "power"} \cup Program
      BY <2>2, ConstantFacts DEF RunInv, RunTypeOK, Pc, InCommand, Program
    <3> QED
      BY <2>2, <3>1 DEF StateInv, Settled, InCommand, Program
  <2> QED
    BY <2>1, <2>2 DEF Coherent, Own
<1> QED
  BY <1>1, RunInvariant, BasicInvariant, StateInvariant, PTL

\* When all is quiet the card in the slot is waiting to be acknowledged or has been.
THEOREM NoticedCorrect == Spec => []InsertionNoticed
<1>1. NoticedInv => InsertionNoticed
  BY DEF NoticedInv, NoticeInv, RecordInv, InsertionNoticed, Quiet, Program
<1> QED
  BY <1>1, NoticedInvariant, PTL

\* A transfer that succeeds has moved the sectors asked for from or to the card that
\* FatFs has acknowledged, but for the two exceptions TransferIsRight names.
THEOREM TransferCorrect == Spec => []TransferIsRight
<1>1. MovedInv => TransferIsRight
  BY DEF MovedInv, TransferIsRight
<1> QED
  BY <1>1, MovedInvariant, PTL

\* At most one command gets through to a card that FatFs has not acknowledged.
THEOREM StrayCorrect == Spec => []OneStray
<1>1. StrayInv => OneStray
  BY DEF StrayInv
<1> QED
  BY <1>1, StrayInvariant, PTL
==============================================================================
