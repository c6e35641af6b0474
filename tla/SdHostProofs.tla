---------------------------- MODULE SdHostProofs ----------------------------
(* Proofs about SdHost, for every value of its constants: types and the    *)
(* stack of activations, when a command is aborted and DMA stands; then    *)
(* that what sdhc_exec_command returns is true, the status it reads is its *)
(* own, and DMA ends before it returns.                                    *)
EXTENDS SdHost, TLAPS

\* The levels a step moves to: the next one when there is one, the one below
\* when the executing level is not the program's.
LEMMA LevelFacts ==
  /\ 0 \in Level /\ Level \subseteq Nat
  /\ \A l \in Level : l < MaxLevel => l + 1 \in Level
  /\ \A l \in Level : l # 0 => l - 1 \in Level
BY SdHostAssumption DEF Level

\* The program itself is not an activation of sdhc_intr.
ProgramLevel == pc[0] \notin {"read", "reset", "finish"} /\ job[0] = "command"

\* Every variable keeps its type: the bits sdhc_intr and sdhc_wait_intr pass
\* around are only those the driver knows, and the stack of activations stays
\* in its bounds, because the program never runs the end of sdhc_intr.
LEMMA TypeInvariant == Spec => [](TypeOK /\ ProgramLevel)
<1> USE SdHostAssumption, LevelFacts
        DEF Kind, Result, Bit, TimeoutError, Error, BusPhase, Job, Pc
<1>1. Init => TypeOK /\ ProgramLevel
  <2> SUFFICES ASSUME Init PROVE TypeOK /\ ProgramLevel
    OBVIOUS
  <2>1. ControllerTypeOK
    BY DEF Init, ControllerTypeOK
  <2>2. ActivationTypeOK
    BY DEF Init, ActivationTypeOK
  <2>3. HostTypeOK
    <3>1. errors \in 0 .. MaxErrors /\ cardEvents \in 0 .. MaxCardEvents
      BY DEF Init
    <3> QED
      BY <3>1 DEF Init, HostTypeOK
  <2>4. ProgramLevel
    BY DEF Init, ProgramLevel
  <2> QED
    BY <2>1, <2>2, <2>3, <2>4 DEF TypeOK
<1>2. TypeOK /\ ProgramLevel /\ [Next]_vars => TypeOK' /\ ProgramLevel'
  <2> SUFFICES ASSUME TypeOK, ProgramLevel, [Next]_vars
               PROVE  TypeOK' /\ ProgramLevel'
    OBVIOUS
  <2> USE DEF TypeOK, ControllerTypeOK, ActivationTypeOK, HostTypeOK, ProgramLevel, bus,
              Phase, Goto, At, Pending, unchangedIntr, unchangedBounds, unchangedCpu
  <2>1. ASSUME NEW k \in Kind, Program(k)
        PROVE  TypeOK' /\ ProgramLevel'
    BY <2>1 DEF Program, Start
  <2>2. CASE ClearStatus
    BY <2>2 DEF ClearStatus
  <2>3. CASE WaitState
    <3>1. ControllerTypeOK'
      BY <2>3 DEF WaitState
    <3>2. ActivationTypeOK'
      <4>1. (failed \in [Level -> BOOLEAN])'
        BY <2>3 DEF WaitState
      <4>2. (pc \in [Level -> Pc])'
        BY <2>3 DEF WaitState
      <4> QED
        BY <2>3, <4>1, <4>2 DEF WaitState
    <3>3. HostTypeOK'
      BY <2>3 DEF WaitState
    <3>4. ProgramLevel'
      BY <2>3 DEF WaitState
    <3> QED
      BY <3>1, <3>2, <3>3, <3>4
  <2>4. CASE WriteArgument
    BY <2>4 DEF WriteArgument
  <2>5. CASE Trigger
    BY <2>5 DEF Trigger
  <2>6. CASE WaitCommand
    BY <2>6 DEF WaitCommand, WaitIntr
  <2>7. CASE AckCommand
    <3>1. ControllerTypeOK'
      BY <2>7 DEF AckCommand, Acknowledge, SoftReset, Done
    <3>2. ActivationTypeOK'
      BY <2>7 DEF AckCommand, Acknowledge, SoftReset, Done
    <3>3. HostTypeOK'
      BY <2>7 DEF AckCommand, Acknowledge, SoftReset, Done
    <3>4. ProgramLevel'
      BY <2>7 DEF AckCommand, Acknowledge, SoftReset, Done
    <3> QED
      BY <3>1, <3>2, <3>3, <3>4
  <2>8. CASE WaitData
    BY <2>8 DEF WaitData, WaitIntr
  <2>9. CASE AckData
    <3>1. ControllerTypeOK'
      BY <2>9 DEF AckData, Acknowledge, SoftReset, Done
    <3>2. ActivationTypeOK'
      BY <2>9 DEF AckData, Acknowledge, SoftReset, Done
    <3>3. HostTypeOK'
      BY <2>9 DEF AckData, Acknowledge, SoftReset, Done
    <3>4. ProgramLevel'
      BY <2>9 DEF AckData, Acknowledge, SoftReset, Done
    <3> QED
      BY <3>1, <3>2, <3>3, <3>4
  <2>10. CASE Intr
    <3>1. ControllerTypeOK'
      BY <2>10 DEF Intr
    <3>2. ActivationTypeOK'
      BY <2>10 DEF Intr
    <3>3. HostTypeOK'
      BY <2>10 DEF Intr
    <3>4. ProgramLevel'
      BY <2>10 DEF Intr
    <3> QED
      BY <3>1, <3>2, <3>3, <3>4
  <2>11. CASE IntrAck
    <3>1. ControllerTypeOK'
      BY <2>11 DEF IntrAck, WriteNintr
    <3>2. ActivationTypeOK'
      BY <2>11 DEF IntrAck, WriteNintr
    <3>3. HostTypeOK'
      BY <2>11 DEF IntrAck, WriteNintr
    <3>4. ProgramLevel'
      BY <2>11 DEF IntrAck, WriteNintr
    <3> QED
      BY <3>1, <3>2, <3>3, <3>4
  <2>12. CASE IntrError
    <3>1. ControllerTypeOK'
      BY <2>12 DEF IntrError, SoftReset
    <3>2. ActivationTypeOK'
      BY <2>12 DEF IntrError, SoftReset
    <3>3. HostTypeOK'
      BY <2>12 DEF IntrError, SoftReset
    <3>4. ProgramLevel'
      BY <2>12 DEF IntrError, SoftReset
    <3> QED
      BY <3>1, <3>2, <3>3, <3>4
  <2>13. CASE Finish
    <3>1. ControllerTypeOK'
      BY <2>13 DEF Finish, AckError, WriteEintr, Return, Handed
    <3>2. ActivationTypeOK'
      BY <2>13 DEF Finish, AckError, WriteEintr, Return, Handed
    <3>3. HostTypeOK'
      BY <2>13 DEF Finish, AckError, WriteEintr, Return, Handed
    <3>4. ProgramLevel'
      BY <2>13 DEF Finish, AckError, WriteEintr, Return, Handed
    <3> QED
      BY <3>1, <3>2, <3>3, <3>4
  <2>14. CASE FinishCard
    <3>1. ControllerTypeOK'
      BY <2>14 DEF FinishCard, HostReset, Handed
    <3>2. ActivationTypeOK'
      BY <2>14 DEF FinishCard, HostReset, Handed
    <3>3. HostTypeOK'
      BY <2>14 DEF FinishCard, HostReset, Handed
    <3>4. ProgramLevel'
      BY <2>14 DEF FinishCard, HostReset, Handed
    <3> QED
      BY <3>1, <3>2, <3>3, <3>4
  <2>15. ASSUME NEW k \in {"plain", "busy"}, DiscoverSend(k)
         PROVE  TypeOK' /\ ProgramLevel'
    BY <2>15 DEF DiscoverSend, Start
  <2>16. CASE DiscoverEnd
    <3>1. ControllerTypeOK'
      BY <2>16 DEF DiscoverEnd, HostReset, Return
    <3>2. ActivationTypeOK'
      BY <2>16 DEF DiscoverEnd, HostReset, Return
    <3>3. HostTypeOK'
      BY <2>16 DEF DiscoverEnd, HostReset, Return
    <3>4. ProgramLevel'
      BY <2>16 DEF DiscoverEnd, HostReset, Return
    <3> QED
      BY <3>1, <3>2, <3>3, <3>4
  <2>17. CASE HwResponse
    BY <2>17 DEF HwResponse
  <2>18. CASE HwBusyEnd
    BY <2>18 DEF HwBusyEnd
  <2>19. CASE HwBoundary
    BY <2>19 DEF HwBoundary
  <2>20. CASE HwTransferred
    BY <2>20 DEF HwTransferred
  <2>21. ASSUME NEW e \in Error, HwError(e)
         PROVE  TypeOK' /\ ProgramLevel'
    BY <2>21 DEF HwError
  <2>22. CASE HwCard
    BY <2>22 DEF HwCard
  <2>23. CASE UNCHANGED vars
    BY <2>23 DEF vars
  <2> QED
    BY <2>1, <2>2, <2>3, <2>4, <2>5, <2>6, <2>7, <2>8, <2>9, <2>10, <2>11, <2>12, <2>13, <2>14,
       <2>15, <2>16, <2>17, <2>18, <2>19, <2>20, <2>21, <2>22, <2>23
       DEF Next, Software, Hardware
<1> QED
  BY <1>1, <1>2, PTL DEF Spec

\* TypeOK of the run sdhost, for every value of the constants.
THEOREM TypeCorrect == Spec => []TypeOK
BY TypeInvariant, PTL

-----------------------------------------------------------------------------
\* The levels above the executing one are unused, and only the program
\* transfers data.
StackInv ==
  /\ \A l \in Level : l > top => job[l] = "command" /\ stat[l] = {}
  /\ \A l \in Level : l # 0 => kind[l] # "data"

LEMMA StackInvariant == Spec => []StackInv
<1> USE SdHostAssumption, LevelFacts DEF StackInv
<1>1. Init => StackInv
  BY DEF Init
<1>2. TypeOK /\ ProgramLevel /\ StackInv /\ [Next]_vars => StackInv'
  <2> SUFFICES ASSUME TypeOK, ProgramLevel, StackInv, [Next]_vars
               PROVE  StackInv'
    OBVIOUS
  <2> USE DEF TypeOK, ActivationTypeOK, ProgramLevel, Goto, At, unchangedIntr,
              unchangedCpu
  <2>1. ASSUME NEW k \in Kind, Program(k)
        PROVE  StackInv'
    BY <2>1 DEF Program, Start
  <2>2. CASE ClearStatus
    BY <2>2 DEF ClearStatus
  <2>3. CASE WaitState
    BY <2>3 DEF WaitState
  <2>4. CASE WriteArgument
    BY <2>4 DEF WriteArgument
  <2>5. CASE Trigger
    BY <2>5 DEF Trigger
  <2>6. CASE WaitCommand
    BY <2>6 DEF WaitCommand, WaitIntr
  <2>7. CASE AckCommand
    BY <2>7 DEF AckCommand, Acknowledge, SoftReset, Done
  <2>8. CASE WaitData
    BY <2>8 DEF WaitData, WaitIntr
  <2>9. CASE AckData
    BY <2>9 DEF AckData, Acknowledge, SoftReset, Done
  <2>10. CASE Intr
    BY <2>10 DEF Intr
  <2>11. CASE IntrAck
    BY <2>11 DEF IntrAck, WriteNintr
  <2>12. CASE IntrError
    BY <2>12 DEF IntrError, SoftReset
  <2>13. CASE Finish
    BY <2>13 DEF Finish, AckError, WriteEintr, Return
  <2>14. CASE FinishCard
    BY <2>14 DEF FinishCard, HostReset
  <2>15. ASSUME NEW k \in {"plain", "busy"}, DiscoverSend(k)
         PROVE  StackInv'
    BY <2>15 DEF DiscoverSend, Start
  <2>16. CASE DiscoverEnd
    BY <2>16 DEF DiscoverEnd, HostReset, Return
  <2>17. CASE HwResponse
    BY <2>17 DEF HwResponse
  <2>18. CASE HwBusyEnd
    BY <2>18 DEF HwBusyEnd
  <2>19. CASE HwBoundary
    BY <2>19 DEF HwBoundary
  <2>20. CASE HwTransferred
    BY <2>20 DEF HwTransferred
  <2>21. ASSUME NEW e \in Error, HwError(e)
         PROVE  StackInv'
    BY <2>21 DEF HwError
  <2>22. CASE HwCard
    BY <2>22 DEF HwCard
  <2>23. CASE UNCHANGED vars
    BY <2>23 DEF vars
  <2> QED
    BY <2>1, <2>2, <2>3, <2>4, <2>5, <2>6, <2>7, <2>8, <2>9, <2>10, <2>11, <2>12, <2>13, <2>14,
       <2>15, <2>16, <2>17, <2>18, <2>19, <2>20, <2>21, <2>22, <2>23
       DEF Next, Software, Hardware
<1> QED
  BY <1>1, <1>2, TypeInvariant, PTL DEF Spec

\* data_command is set only while the program executes a transfer, and is
\* clear while an activation sends STOP_TRANSMISSION for it.
AbortInv ==
  /\ data_command => kind[0] = "data" /\ pc[0] # "idle"
  /\ \A l \in Level : job[l] = "abort" => ~data_command

\* AbortOnlyForTransfer of the run sdhost, for every value of the
\* constants: STOP_TRANSMISSION answers a transfer of the program and is never
\* nested, whatever errors and card changes arrive at whatever moment.
THEOREM AbortCorrect == Spec => []AbortOnlyForTransfer
<1> USE SdHostAssumption, LevelFacts DEF AbortInv, AbortOnlyForTransfer
<1>1. Init => AbortInv /\ AbortOnlyForTransfer
  BY DEF Init
<1>2. TypeOK /\ ProgramLevel /\ StackInv /\ AbortInv /\ AbortOnlyForTransfer /\ [Next]_vars
        => AbortInv' /\ AbortOnlyForTransfer'
  <2> SUFFICES ASSUME TypeOK, ProgramLevel, StackInv, AbortInv, AbortOnlyForTransfer,
                      [Next]_vars
               PROVE  AbortInv' /\ AbortOnlyForTransfer'
    OBVIOUS
  <2> USE DEF TypeOK, ActivationTypeOK, HostTypeOK, ProgramLevel, StackInv, Goto, At,
              unchangedIntr, unchangedCpu
  <2>1. ASSUME NEW k \in Kind, Program(k)
        PROVE  AbortInv' /\ AbortOnlyForTransfer'
    BY <2>1 DEF Program, Start
  <2>2. CASE ClearStatus
    BY <2>2 DEF ClearStatus
  <2>3. CASE WaitState
    BY <2>3 DEF WaitState
  <2>4. CASE WriteArgument
    BY <2>4 DEF WriteArgument
  <2>5. CASE Trigger
    BY <2>5 DEF Trigger
  <2>6. CASE WaitCommand
    BY <2>6 DEF WaitCommand, WaitIntr
  <2>7. CASE AckCommand
    BY <2>7 DEF AckCommand, Acknowledge, SoftReset, Done
  <2>8. CASE WaitData
    BY <2>8 DEF WaitData, WaitIntr
  <2>9. CASE AckData
    BY <2>9 DEF AckData, Acknowledge, SoftReset, Done
  <2>10. CASE Intr
    BY <2>10 DEF Intr
  <2>11. CASE IntrAck
    BY <2>11 DEF IntrAck, WriteNintr
  <2>12. CASE IntrError
    BY <2>12 DEF IntrError, SoftReset
  <2>13. CASE Finish
    BY <2>13 DEF Finish, AckError, WriteEintr, Return
  <2>14. CASE FinishCard
    BY <2>14 DEF FinishCard, HostReset
  <2>15. ASSUME NEW k \in {"plain", "busy"}, DiscoverSend(k)
         PROVE  AbortInv' /\ AbortOnlyForTransfer'
    BY <2>15 DEF DiscoverSend, Start
  <2>16. CASE DiscoverEnd
    BY <2>16 DEF DiscoverEnd, HostReset, Return
  <2>17. CASE HwResponse
    BY <2>17 DEF HwResponse
  <2>18. CASE HwBusyEnd
    BY <2>18 DEF HwBusyEnd
  <2>19. CASE HwBoundary
    BY <2>19 DEF HwBoundary
  <2>20. CASE HwTransferred
    BY <2>20 DEF HwTransferred
  <2>21. ASSUME NEW e \in Error, HwError(e)
         PROVE  AbortInv' /\ AbortOnlyForTransfer'
    BY <2>21 DEF HwError
  <2>22. CASE HwCard
    BY <2>22 DEF HwCard
  <2>23. CASE UNCHANGED vars
    BY <2>23 DEF vars
  <2> QED
    BY <2>1, <2>2, <2>3, <2>4, <2>5, <2>6, <2>7, <2>8, <2>9, <2>10, <2>11, <2>12, <2>13, <2>14,
       <2>15, <2>16, <2>17, <2>18, <2>19, <2>20, <2>21, <2>22, <2>23
       DEF Next, Software, Hardware
<1> QED
  BY <1>1, <1>2, TypeInvariant, StackInvariant, PTL DEF Spec

\* While a discovery runs, or an error is served, no data command is on the bus:
\* the host, or its lines, were reset first.
QuietInv ==
  \A l \in Level :
    l # 0 /\ (job[l] = "discover" \/ ("ERR" \in stat[l] /\ pc[l] \notin {"read", "reset"})) =>
      phase = "idle" \/ sent # "data"

\* Only a data command moves data.
DataInv == phase \in {"data", "boundary"} => sent = "data"

\* All three hold in every state.
LEMMA DmaInvariant == Spec => [](QuietInv /\ DataInv /\ NoStalledDma)
<1> USE SdHostAssumption, LevelFacts DEF QuietInv, DataInv, NoStalledDma, Pending
<1>1. Init => QuietInv /\ DataInv /\ NoStalledDma
  BY DEF Init
<1>2. TypeOK /\ ProgramLevel /\ StackInv /\ QuietInv /\ DataInv /\ NoStalledDma
        /\ [Next]_vars => QuietInv' /\ DataInv' /\ NoStalledDma'
  <2> SUFFICES ASSUME TypeOK, ProgramLevel, StackInv, QuietInv, DataInv,
                      NoStalledDma, [Next]_vars
               PROVE  QuietInv' /\ DataInv' /\ NoStalledDma'
    OBVIOUS
  <2> USE DEF TypeOK, ControllerTypeOK, ActivationTypeOK, ProgramLevel, StackInv, bus,
              Phase, Goto, At, unchangedIntr, unchangedCpu
  <2>1. ASSUME NEW k \in Kind, Program(k)
        PROVE  QuietInv' /\ DataInv' /\ NoStalledDma'
    BY <2>1 DEF Program, Start
  <2>2. CASE ClearStatus
    BY <2>2 DEF ClearStatus
  <2>3. CASE WaitState
    BY <2>3 DEF WaitState
  <2>4. CASE WriteArgument
    BY <2>4 DEF WriteArgument
  <2>5. CASE Trigger
    BY <2>5 DEF Trigger
  <2>6. CASE WaitCommand
    BY <2>6 DEF WaitCommand, WaitIntr
  <2>7. CASE AckCommand
    BY <2>7 DEF AckCommand, Acknowledge, SoftReset, Done
  <2>8. CASE WaitData
    BY <2>8 DEF WaitData, WaitIntr
  <2>9. CASE AckData
    BY <2>9 DEF AckData, Acknowledge, SoftReset, Done
  <2>10. CASE Intr
    BY <2>10 DEF Intr
  <2>11. CASE IntrAck
    BY <2>11 DEF IntrAck, WriteNintr
  <2>12. CASE IntrError
    BY <2>12 DEF IntrError, SoftReset
  <2>13. CASE Finish
    BY <2>13 DEF Finish, AckError, WriteEintr, Return
  <2>14. CASE FinishCard
    BY <2>14 DEF FinishCard, HostReset
  <2>15. ASSUME NEW k \in {"plain", "busy"}, DiscoverSend(k)
         PROVE  QuietInv' /\ DataInv' /\ NoStalledDma'
    BY <2>15 DEF DiscoverSend, Start
  <2>16. CASE DiscoverEnd
    BY <2>16 DEF DiscoverEnd, HostReset, Return
  <2>17. CASE HwResponse
    BY <2>17 DEF HwResponse, Kind
  <2>18. CASE HwBusyEnd
    BY <2>18 DEF HwBusyEnd
  <2>19. CASE HwBoundary
    BY <2>19 DEF HwBoundary
  <2>20. CASE HwTransferred
    BY <2>20 DEF HwTransferred
  <2>21. ASSUME NEW e \in Error, HwError(e)
         PROVE  QuietInv' /\ DataInv' /\ NoStalledDma'
    BY <2>21 DEF HwError
  <2>22. CASE HwCard
    BY <2>22 DEF HwCard
  <2>23. CASE UNCHANGED vars
    BY <2>23 DEF vars
  <2> QED
    BY <2>1, <2>2, <2>3, <2>4, <2>5, <2>6, <2>7, <2>8, <2>9, <2>10, <2>11, <2>12, <2>13, <2>14,
       <2>15, <2>16, <2>17, <2>18, <2>19, <2>20, <2>21, <2>22, <2>23
       DEF Next, Software, Hardware
<1> QED
  BY <1>1, <1>2, TypeInvariant, StackInvariant, PTL DEF Spec

\* NoStalledDma of the run sdhost, for every value of the constants: from
\* the moment the controller stops at a DMA boundary until it is restarted or
\* reset, its interrupt is pending or in the hands of an activation that has yet
\* to rewrite DMA_ADDR.
THEOREM DmaCorrect == Spec => []NoStalledDma
BY DmaInvariant, PTL

-----------------------------------------------------------------------------
(* The activations of sdhc_intr.                                           *)

\* An activation that issues no command of its own is on top; one that waits for
\* another activation has a command in progress.
StackShape ==
  /\ \A l \in Level : l # 0 /\ l < top => pc[l] = "waitCC" /\ job[l] \in {"abort", "discover"}
  /\ \A l \in Level : job[l] = "intr" => l = top /\ pc[l] \in {"read", "reset", "finish"}
  /\ top # 0 => job[top] # "command"
  /\ stat[0] = {}
  /\ \A l \in Level : l > top => ~failed[l]

\* Where an activation can be.
JobInv ==
  /\ \A l \in Level : job[l] = "abort" =>
       /\ pc[l] \in {"clear", "inhibit", "regs", "go", "waitCC", "ackCC", "finish"}
       /\ "ERR" \in stat[l]
  /\ \A l \in Level : job[l] = "discover" =>
       /\ pc[l] \in {"idle", "clear", "inhibit", "regs", "go", "waitCC", "ackCC"}
       /\ "CARD" \in stat[l]
  /\ \A l \in Level : pc[l] \in {"read", "reset"} => job[l] = "intr"
  /\ \A l \in Level : pc[l] = "reset" => "ERR" \in stat[l]
  /\ \A l \in Level : pc[l] \in {"read", "reset", "clear", "inhibit", "regs", "go"} => ~failed[l]
  /\ pc[0] \in {"waitData", "ackData"} => kind[0] = "data"

\* Bit ERR stands for the errors that were read with it; ETO is never handed on.
BitInv ==
  /\ \A l \in Level : err[l] = {} <=> "ERR" \notin stat[l]
  /\ "ETO" \notin intr_status
  /\ \A l \in Level : "ETO" \notin stat[l] /\ "ETO" \notin old[l]

\* The phases of a command after its response.
BusInv ==
  /\ phase \in {"data", "boundary"} => sent = "data"
  /\ phase = "busy" => sent = "busy"

\* `status' of sdhc_wait_intr is what its mask leaves of intr_status.
GotInv ==
  \A l \in Level :
    /\ pc[l] = "ackCC" =>
         got[l] = IF old[l] # {} THEN old[l] \cap {"CC", "ERR", "ETO"} ELSE {"ETO"}
    /\ pc[l] = "ackData" =>
         got[l] = IF old[l] # {} THEN old[l] \cap {"TC", "DMA", "ERR", "ETO"} ELSE {"ETO"}

\* Card bits come from card changes.
CardInv ==
  cardEvents = 0 =>
    /\ "CARD" \notin nint /\ "CARD" \notin intr_status
    /\ \A l \in Level : "CARD" \notin stat[l] /\ "CARD" \notin old[l]

\* What an activation has read is pending until it acknowledges it.
ReadInv ==
  \A l \in Level : pc[l] = "read" => stat[l] \subseteq Pending /\ err[l] \subseteq eint

FrameInv == StackShape /\ JobInv /\ BitInv /\ BusInv /\ GotInv /\ CardInv /\ ReadInv

\* FrameInv holds in every state.
LEMMA FrameInvariant == Spec => []FrameInv
<1> USE SdHostAssumption, LevelFacts
<1>1. Init => FrameInv
  BY DEF Init, FrameInv, StackShape, JobInv, BitInv, BusInv, GotInv, CardInv, ReadInv
<1>2. TypeOK /\ ProgramLevel /\ StackInv /\ FrameInv /\ [Next]_vars => FrameInv'
  <2> SUFFICES ASSUME TypeOK, ProgramLevel, StackInv, FrameInv, [Next]_vars
               PROVE  FrameInv'
    OBVIOUS
  <2> USE DEF TypeOK, ActivationTypeOK, HostTypeOK, ControllerTypeOK, ProgramLevel, StackInv,
              FrameInv, StackShape, JobInv, BitInv, BusInv, GotInv, CardInv, ReadInv, Goto, At,
              Pending, Phase, Kind, unchangedIntr, unchangedCpu, unchangedBounds, bus
  <2>1. ASSUME NEW k \in Kind, Program(k)
        PROVE  FrameInv'
    <3>1. StackShape'
      BY <2>1 DEF Program, Start
    <3>2. JobInv'
      BY <2>1 DEF Program, Start
    <3>3. BitInv'
      BY <2>1 DEF Program, Start
    <3>4. BusInv'
      BY <2>1 DEF Program, Start
    <3>5. GotInv'
      BY <2>1 DEF Program, Start
    <3>6. CardInv'
      BY <2>1 DEF Program, Start
    <3>7. ReadInv'
      BY <2>1 DEF Program, Start
    <3> QED
      BY <3>1, <3>2, <3>3, <3>4, <3>5, <3>6, <3>7 DEF FrameInv
  <2>2. CASE ClearStatus
    BY <2>2 DEF ClearStatus
  <2>3. CASE WaitState
    <3>1. StackShape'
      BY <2>3 DEF WaitState
    <3>2. JobInv'
      BY <2>3 DEF WaitState
    <3>3. BitInv'
      BY <2>3 DEF WaitState
    <3>4. BusInv'
      BY <2>3 DEF WaitState
    <3>5. GotInv'
      BY <2>3 DEF WaitState
    <3>6. CardInv'
      BY <2>3 DEF WaitState
    <3>7. ReadInv'
      BY <2>3 DEF WaitState
    <3> QED
      BY <3>1, <3>2, <3>3, <3>4, <3>5, <3>6, <3>7 DEF FrameInv
  <2>4. CASE WriteArgument
    BY <2>4 DEF WriteArgument
  <2>5. CASE Trigger
    BY <2>5 DEF Trigger
  <2>6. CASE WaitCommand
    BY <2>6 DEF WaitCommand, WaitIntr
  <2>7. CASE AckCommand
    <3>1. StackShape'
      BY <2>7 DEF AckCommand, Acknowledge, SoftReset, Done, Status
    <3>2. JobInv'
      BY <2>7 DEF AckCommand, Acknowledge, SoftReset, Done, Status
    <3>3. BitInv'
      BY <2>7 DEF AckCommand, Acknowledge, SoftReset, Done, Status
    <3>4. BusInv'
      BY <2>7 DEF AckCommand, Acknowledge, SoftReset, Done, Status
    <3>5. GotInv'
      <4>1. pc'[top] \notin {"ackCC", "ackData"}
        BY <2>7 DEF AckCommand, Acknowledge, SoftReset, Done, Status
      <4>2. \A l \in Level : l # top =>
              pc'[l] = pc[l] /\ old'[l] = old[l] /\ got'[l] = got[l]
        BY <2>7 DEF AckCommand, Acknowledge, SoftReset, Done, Status
      <4>3. GotInv
        OBVIOUS
      <4> QED
        BY ONLY <4>1, <4>2, <4>3 DEF GotInv
    <3>6. CardInv'
      BY <2>7 DEF AckCommand, Acknowledge, SoftReset, Done, Status
    <3>7. ReadInv'
      BY <2>7 DEF AckCommand, Acknowledge, SoftReset, Done, Status
    <3> QED
      BY <3>1, <3>2, <3>3, <3>4, <3>5, <3>6, <3>7 DEF FrameInv
  <2>8. CASE WaitData
    BY <2>8 DEF WaitData, WaitIntr
  <2>9. CASE AckData
    <3>1. StackShape'
      BY <2>9 DEF AckData, Acknowledge, SoftReset, Done, Status
    <3>2. JobInv'
      BY <2>9 DEF AckData, Acknowledge, SoftReset, Done, Status
    <3>3. BitInv'
      BY <2>9 DEF AckData, Acknowledge, SoftReset, Done, Status
    <3>4. BusInv'
      BY <2>9 DEF AckData, Acknowledge, SoftReset, Done, Status
    <3>5. GotInv'
      <4>1. pc'[top] \notin {"ackCC", "ackData"}
        BY <2>9 DEF AckData, Acknowledge, SoftReset, Done, Status
      <4>2. \A l \in Level : l # top =>
              pc'[l] = pc[l] /\ old'[l] = old[l] /\ got'[l] = got[l]
        BY <2>9 DEF AckData, Acknowledge, SoftReset, Done, Status
      <4>3. GotInv
        OBVIOUS
      <4> QED
        BY ONLY <4>1, <4>2, <4>3 DEF GotInv
    <3>6. CardInv'
      BY <2>9 DEF AckData, Acknowledge, SoftReset, Done, Status
    <3>7. ReadInv'
      BY <2>9 DEF AckData, Acknowledge, SoftReset, Done, Status
    <3> QED
      BY <3>1, <3>2, <3>3, <3>4, <3>5, <3>6, <3>7 DEF FrameInv
  <2>10. CASE Intr
    <3>1. StackShape'
      <4>1. /\ top' = top + 1
            /\ \A l \in Level : l # top + 1 => pc'[l] = pc[l] /\ job'[l] = job[l]
            /\ failed' = failed /\ stat'[0] = stat[0]
            /\ job'[top + 1] = "intr" /\ pc'[top + 1] = "read"
        BY <2>10 DEF Intr
      <4>2. top # 0 => pc[top] = "waitCC" /\ job[top] \in {"abort", "discover"}
        BY <2>10 DEF Intr, Job
      <4>3. \A l \in Level : l < top + 1 => l < top \/ l = top
        OBVIOUS
      <4>4. job[top] # "intr"
        BY <2>10 DEF Intr
      <4>5. StackShape
        OBVIOUS
      <4>6. \A l \in Level : l # 0 /\ l < top' =>
              pc'[l] = "waitCC" /\ job'[l] \in {"abort", "discover"}
        <5>1. SUFFICES ASSUME NEW l \in Level, l # 0, l < top + 1
                       PROVE  pc'[l] = "waitCC" /\ job'[l] \in {"abort", "discover"}
          BY <4>1
        <5>2. l # top + 1 /\ (l < top \/ l = top)
          BY <5>1, <4>3
        <5>3. pc[l] = "waitCC" /\ job[l] \in {"abort", "discover"}
          BY ONLY <4>2, <4>5, <5>1, <5>2 DEF StackShape
        <5> QED
          BY ONLY <4>1, <5>2, <5>3
      <4>7. \A l \in Level : job'[l] = "intr" =>
              l = top' /\ pc'[l] \in {"read", "reset", "finish"}
        BY ONLY <4>1, <4>4, <4>5 DEF StackShape
      <4>8. \A l \in Level : l > top' => ~failed'[l]
        BY ONLY <4>1, <4>5, LevelFacts, top \in Level DEF StackShape
      <4>9. (top' # 0 => job'[top'] # "command") /\ stat'[0] = {}
        BY ONLY <4>1, <4>5 DEF StackShape
      <4> QED
        BY ONLY <4>6, <4>7, <4>8, <4>9 DEF StackShape
    <3>2. JobInv'
      <4>1. ~failed[top + 1]
        BY <2>10 DEF Intr
      <4>2. job'[top + 1] = "abort" => "ERR" \in stat'[top + 1]
        BY <2>10 DEF Intr
      <4> QED
        BY <2>10, <4>1, <4>2 DEF Intr
    <3>3. BitInv'
      BY <2>10 DEF Intr
    <3>4. BusInv'
      BY <2>10 DEF Intr
    <3>5. GotInv'
      BY <2>10 DEF Intr
    <3>6. CardInv'
      BY <2>10 DEF Intr
    <3>7. ReadInv'
      BY <2>10 DEF Intr
    <3> QED
      BY <3>1, <3>2, <3>3, <3>4, <3>5, <3>6, <3>7 DEF FrameInv
  <2>11. CASE IntrAck
    <3>1. StackShape'
      BY <2>11 DEF IntrAck, WriteNintr
    <3>2. JobInv'
      BY <2>11 DEF IntrAck, WriteNintr
    <3>3. BitInv'
      BY <2>11 DEF IntrAck, WriteNintr
    <3>4. BusInv'
      BY <2>11 DEF IntrAck, WriteNintr
    <3>5. GotInv'
      BY <2>11 DEF IntrAck, WriteNintr
    <3>6. CardInv'
      BY <2>11 DEF IntrAck, WriteNintr
    <3>7. ReadInv'
      BY <2>11 DEF IntrAck, WriteNintr
    <3> QED
      BY <3>1, <3>2, <3>3, <3>4, <3>5, <3>6, <3>7 DEF FrameInv
  <2>12. CASE IntrError
    <3>1. StackShape'
      BY <2>12 DEF IntrError, SoftReset
    <3>2. JobInv'
      <4>1. pc[top] = "reset" /\ "ERR" \in stat[top] /\ job[top] = "intr" /\ stat' = stat
        BY <2>12 DEF IntrError, SoftReset
      <4>2. \A l \in Level : l # top => pc'[l] = pc[l] /\ job'[l] = job[l] /\ kind'[l] = kind[l]
        BY <2>12 DEF IntrError, SoftReset
      <4>3. \/ job'[top] = "abort" /\ pc'[top] = "clear"
            \/ job'[top] = "intr" /\ pc'[top] = "finish"
        BY <2>12, <4>1 DEF IntrError, SoftReset
      <4>4. ~failed[top] /\ failed' = failed /\ top # 0
        BY <2>12 DEF IntrError, SoftReset
      <4>5. JobInv
        OBVIOUS
      <4> QED
        BY ONLY <4>1, <4>2, <4>3, <4>4, <4>5, LevelFacts DEF JobInv
    <3>3. BitInv'
      BY <2>12 DEF IntrError, SoftReset
    <3>4. BusInv'
      BY <2>12 DEF IntrError, SoftReset
    <3>5. GotInv'
      BY <2>12 DEF IntrError, SoftReset
    <3>6. CardInv'
      BY <2>12 DEF IntrError, SoftReset
    <3>7. ReadInv'
      BY <2>12 DEF IntrError, SoftReset
    <3> QED
      BY <3>1, <3>2, <3>3, <3>4, <3>5, <3>6, <3>7 DEF FrameInv
  <2>13. CASE Finish
    <3>1. StackShape'
      BY <2>13 DEF Finish, AckError, WriteEintr, Return, Handed
    <3>2. JobInv'
      BY <2>13 DEF Finish, AckError, WriteEintr, Return, Handed
    <3>3. BitInv'
      BY <2>13 DEF Finish, AckError, WriteEintr, Return, Handed
    <3>4. BusInv'
      BY <2>13 DEF Finish, AckError, WriteEintr, Return, Handed
    <3>5. GotInv'
      BY <2>13 DEF Finish, AckError, WriteEintr, Return, Handed
    <3>6. CardInv'
      BY <2>13 DEF Finish, AckError, WriteEintr, Return, Handed
    <3>7. ReadInv'
      BY <2>13 DEF Finish, AckError, WriteEintr, Return, Handed
    <3> QED
      BY <3>1, <3>2, <3>3, <3>4, <3>5, <3>6, <3>7 DEF FrameInv
  <2>14. CASE FinishCard
    <3>1. StackShape'
      BY <2>14 DEF FinishCard, HostReset, Handed
    <3>2. JobInv'
      BY <2>14 DEF FinishCard, HostReset, Handed
    <3>3. BitInv'
      BY <2>14 DEF FinishCard, HostReset, Handed
    <3>4. BusInv'
      BY <2>14 DEF FinishCard, HostReset, Handed
    <3>5. GotInv'
      BY <2>14 DEF FinishCard, HostReset, Handed
    <3>6. CardInv'
      BY <2>14 DEF FinishCard, HostReset, Handed
    <3>7. ReadInv'
      BY <2>14 DEF FinishCard, HostReset, Handed
    <3> QED
      BY <3>1, <3>2, <3>3, <3>4, <3>5, <3>6, <3>7 DEF FrameInv
  <2>15. ASSUME NEW k \in {"plain", "busy"}, DiscoverSend(k)
         PROVE  FrameInv'
    <3>1. StackShape'
      BY <2>15 DEF DiscoverSend, Start
    <3>2. JobInv'
      BY <2>15 DEF DiscoverSend, Start
    <3>3. BitInv'
      BY <2>15 DEF DiscoverSend, Start
    <3>4. BusInv'
      BY <2>15 DEF DiscoverSend, Start
    <3>5. GotInv'
      BY <2>15 DEF DiscoverSend, Start
    <3>6. CardInv'
      BY <2>15 DEF DiscoverSend, Start
    <3>7. ReadInv'
      BY <2>15 DEF DiscoverSend, Start
    <3> QED
      BY <3>1, <3>2, <3>3, <3>4, <3>5, <3>6, <3>7 DEF FrameInv
  <2>16. CASE DiscoverEnd
    <3>1. StackShape'
      BY <2>16 DEF DiscoverEnd, HostReset, Return
    <3>2. JobInv'
      BY <2>16 DEF DiscoverEnd, HostReset, Return
    <3>3. BitInv'
      BY <2>16 DEF DiscoverEnd, HostReset, Return
    <3>4. BusInv'
      BY <2>16 DEF DiscoverEnd, HostReset, Return
    <3>5. GotInv'
      BY <2>16 DEF DiscoverEnd, HostReset, Return
    <3>6. CardInv'
      BY <2>16 DEF DiscoverEnd, HostReset, Return
    <3>7. ReadInv'
      BY <2>16 DEF DiscoverEnd, HostReset, Return
    <3> QED
      BY <3>1, <3>2, <3>3, <3>4, <3>5, <3>6, <3>7 DEF FrameInv
  <2>17. CASE HwResponse
    BY <2>17 DEF HwResponse
  <2>18. CASE HwBusyEnd
    BY <2>18 DEF HwBusyEnd
  <2>19. CASE HwBoundary
    BY <2>19 DEF HwBoundary
  <2>20. CASE HwTransferred
    BY <2>20 DEF HwTransferred
  <2>21. ASSUME NEW e \in Error, HwError(e)
         PROVE  FrameInv'
    BY <2>21 DEF HwError
  <2>22. CASE HwCard
    BY <2>22 DEF HwCard
  <2>23. CASE UNCHANGED vars
    BY <2>23 DEF vars
  <2> QED
    BY ONLY <2>1, <2>2, <2>3, <2>4, <2>5, <2>6, <2>7, <2>8, <2>9, <2>10, <2>11, <2>12, <2>13, <2>14, <2>15,
       <2>16, <2>17, <2>18, <2>19, <2>20, <2>21, <2>22, <2>23, [Next]_vars
       DEF Next, Software, Hardware
<1> QED
  BY <1>1, <1>2, TypeInvariant, StackInvariant, PTL DEF Spec

-----------------------------------------------------------------------------
(* Without a TRANSFER_COMPLETE of busy phases, up to the first card change. *)

Calm == ~busyRaisesTC /\ cardEvents < 2

\* An activation of sdhc_intr without a command of its own was polled by the level
\* below it, the one that waits for the controller, and, once it has acknowledged what
\* it read, has bits in hand for it.
Polled == top # 0 /\ job[top] = "intr"
Waiting == IF Polled THEN top - 1 ELSE top
Served == IF Polled /\ pc[top] # "read" THEN stat[top] ELSE {}

\* The status s holds bit b only together with an error; it holds b or an error
\* if it holds anything.
OnlyWithError(b, s) == b \in s => "ERR" \in s
TellsOrError(b, s) == s # {} => b \in s \/ "ERR" \in s

\* A command without a response is that of the waiting level, and nothing but an
\* error can end the wait; COMMAND_COMPLETE comes once.
CommandInv ==
  /\ phase = "cmd" =>
       /\ own = Waiting /\ sent = kind[Waiting] /\ pc[Waiting] \in {"waitCC", "ackCC"}
       /\ ~failed[Waiting] /\ "CC" \notin nint \cup Served /\ "TC" \notin nint \cup Served
       /\ TellsOrError("ERR", intr_status)
       /\ pc[Waiting] = "ackCC" => TellsOrError("ERR", old[Waiting])
  /\ "CC" \in nint \cup Served =>
       /\ pc[Waiting] \in {"waitCC", "ackCC"}
       /\ OnlyWithError("CC", intr_status)
       /\ pc[Waiting] = "ackCC" => OnlyWithError("CC", old[Waiting])
  /\ "CC" \in Served => "CC" \notin nint

\* The commands of sdhc_intr transfer no data.
NestedInv ==
  /\ \A l \in Level : l # 0 /\ l # 1 => stat[l] \subseteq {"CC", "ERR", "CARD"}
  /\ Waiting # 0 =>
       /\ nint \subseteq {"CC", "CARD"}
       /\ pc[Waiting] \in {"inhibit", "regs", "go"} => intr_status = {}
       /\ pc[Waiting] = "waitCC" =>
            intr_status \subseteq {"CC", "ERR", "CARD"} /\ TellsOrError("CC", intr_status)
       /\ pc[Waiting] = "ackCC" =>
            old[Waiting] \subseteq {"CC", "ERR", "CARD"} /\ TellsOrError("CC", old[Waiting])
       /\ pc[Waiting] = "finish" => intr_status \subseteq {"CARD"}
       /\ pc[Waiting] = "idle" /\ Waiting # 1 =>
            intr_status \subseteq {"CC", "ERR", "CARD"} /\ TellsOrError("CC", intr_status)

\* There is one card change, and after it the commands of its discovery forget its bit.
DiscoveryInv ==
  /\ \A l, m \in Level : "CARD" \in stat[l] /\ "CARD" \in stat[m] => l = m
  /\ "CARD" \in nint => \A l \in Level : "CARD" \in stat[l] => pc[l] = "read"
  /\ (\E l \in Level : job[l] = "discover") /\ Waiting # 0 =>
       /\ pc[Waiting] \in {"waitCC", "finish"} => "CARD" \notin intr_status
       /\ pc[Waiting] = "ackCC" => "CARD" \notin old[Waiting]

\* A transfer on the bus is that of the program, which waits for it: no bit that
\* could end the wait is on its way without an error, which resets the lines.
Seen == IF pc[0] \in {"waitCC", "waitData"} THEN intr_status ELSE old[0]
TransferInv ==
  sent = "data" /\ phase # "idle" =>
    /\ own = 0 /\ Waiting = 0 /\ kind[0] = "data" /\ ~failed[0]
    /\ pc[0] \in {"waitCC", "ackCC", "waitData", "ackData"}
    /\ "TC" \notin nint \cup Served
    /\ OnlyWithError("TC", Seen) /\ OnlyWithError("CARD", Seen)
    /\ pc[0] \in {"waitCC", "ackCC"} => TellsOrError("CC", Seen)
    /\ pc[0] \in {"waitData", "ackData"} =>
         TellsOrError("DMA", Seen) /\ OnlyWithError("CC", Seen)

\* While the program prepares a command the controller is quiet, up to what a card
\* change leaves behind.
BetweenInv ==
  pc[0] \in {"idle", "clear", "inhibit", "regs", "go"} =>
    /\ nint \cap {"TC", "DMA"} = {}
    /\ top = 0 => (eint # {} => cardEvents # 0 /\ "CARD" \notin nint)
    /\ top # 0 => /\ cardEvents # 0
                  /\ "CARD" \in nint => pc[1] = "read" /\ "CARD" \in stat[1]
                  /\ stat[1] \subseteq {"ERR"} \/ stat[1] = {"CARD"}
                  /\ \A l \in Level : l # 0 /\ l # 1 => "CARD" \notin stat[l]

\* Once the program's command has cleared intr_status only errors come in.
ArmedInv ==
  pc[0] \in {"inhibit", "regs", "go"} =>
    /\ cardEvents = 0 => intr_status = {}
    /\ Waiting = 0 \/ pc[Waiting] = "idle" => TellsOrError("ERR", intr_status)
    /\ Waiting # 0 /\ pc[Waiting] \in {"waitCC", "finish"} => "CARD" \notin intr_status
    /\ Waiting # 0 /\ pc[Waiting] = "ackCC" => "CARD" \notin old[Waiting]

CalmParts ==
  CommandInv /\ NestedInv /\ DiscoveryInv /\ TransferInv /\ BetweenInv /\ ArmedInv
CalmInv == Calm => CalmParts

\* No step takes a card change back or changes what the end of a busy phase raises.
LEMMA HistoryStays == TypeOK /\ [Next]_vars => (Calm' => Calm) /\ (Undisturbed' => Undisturbed)
BY DEF TypeOK, HostTypeOK, Calm, Undisturbed, Next, Software, Hardware, vars, unchangedBounds,
   Program, ClearStatus,
       WaitState, WriteArgument, Trigger, WaitCommand, WaitIntr, AckCommand, WaitData,
       AckData, Intr, IntrAck, IntrError, Finish, FinishCard, DiscoverSend, DiscoverEnd, HwResponse,
       HwBusyEnd, HwBoundary, HwTransferred, HwError, HwCard

\* CalmInv holds in every state.
LEMMA CalmInvariant == Spec => []CalmInv
<1> USE SdHostAssumption, LevelFacts
<1>1. Init => CalmInv
  BY DEF Init, CalmInv, CalmParts, CommandInv, NestedInv, DiscoveryInv, TransferInv,
     BetweenInv, ArmedInv,
         Waiting, Polled, Served
<1>2. TypeOK /\ ProgramLevel /\ StackInv /\ AbortOnlyForTransfer /\ FrameInv /\ CalmInv
        /\ [Next]_vars => CalmInv'
  <2> SUFFICES ASSUME TypeOK, ProgramLevel, StackInv, AbortOnlyForTransfer,
                       FrameInv, CalmInv, [Next]_vars, Calm'
               PROVE  CalmParts'
    BY DEF CalmInv
  <2>0. Calm /\ CalmParts
    BY HistoryStays DEF CalmInv
  <2> USE <2>0 DEF TypeOK, ActivationTypeOK, HostTypeOK, ControllerTypeOK, ProgramLevel, StackInv,
              FrameInv, StackShape, JobInv, GotInv, CardInv, CalmParts,
              CommandInv, NestedInv, DiscoveryInv, TransferInv, BetweenInv, ArmedInv, Calm, 
              Seen, OnlyWithError, TellsOrError, Goto, At, Pending,
              Phase, Kind, Bit, BitInv, BusInv, AbortOnlyForTransfer,
              unchangedIntr, unchangedCpu, unchangedBounds, bus
  <2>1. ASSUME NEW k \in Kind, Program(k)
        PROVE  CalmParts'
    <3>0. Waiting = top /\ Waiting' = top /\ Served = {} /\ Served' = {}
      BY <2>1 DEF Program, Start, Waiting, Served, Polled
    <3>1. CommandInv'
      BY <2>1, <3>0 DEF Program, Start
    <3>2. NestedInv'
      BY <2>1, <3>0 DEF Program, Start
    <3>3. DiscoveryInv'
      BY <2>1, <3>0 DEF Program, Start
    <3>4. TransferInv'
      BY <2>1, <3>0 DEF Program, Start
    <3>5. BetweenInv'
      BY <2>1, <3>0 DEF Program, Start
    <3>6. ArmedInv'
      BY <2>1, <3>0 DEF Program, Start
    <3> QED
      BY <3>1, <3>2, <3>3, <3>4, <3>5, <3>6 DEF CalmParts
  <2>2. CASE ClearStatus
    <3>0. Waiting = top /\ Waiting' = top /\ Served = {} /\ Served' = {}
      BY <2>2 DEF ClearStatus, Waiting, Served, Polled
    <3>1. CommandInv'
      BY <2>2, <3>0 DEF ClearStatus
    <3>2. NestedInv'
      BY <2>2, <3>0 DEF ClearStatus
    <3>3. DiscoveryInv'
      BY <2>2, <3>0 DEF ClearStatus
    <3>4. TransferInv'
      BY <2>2, <3>0 DEF ClearStatus
    <3>5. BetweenInv'
      BY <2>2, <3>0 DEF ClearStatus
    <3>6. ArmedInv'
      BY <2>2, <3>0 DEF ClearStatus
    <3> QED
      BY <3>1, <3>2, <3>3, <3>4, <3>5, <3>6 DEF CalmParts
  <2>3. CASE WaitState
    <3>0. Waiting = top /\ Waiting' = top /\ Served = {} /\ Served' = {}
      BY <2>3 DEF WaitState, Waiting, Served, Polled
    <3>1. CommandInv'
      BY <2>3, <3>0 DEF WaitState
    <3>2. NestedInv'
      <4>1. nint' = nint /\ stat' = stat /\ intr_status' = intr_status /\ old' = old
        BY <2>3, <3>0 DEF WaitState
      <4>2. pc[top] = "inhibit" /\ pc'[top] \in {"regs", "waitCC"}
        BY <2>3, <3>0 DEF WaitState
      <4>3. NestedInv
        BY DEF CalmParts
      <4> QED
        BY ONLY <3>0, LevelFacts, top \in Level, <4>1, <4>2, <4>3 DEF NestedInv, TellsOrError
    <3>3. DiscoveryInv'
      BY <2>3, <3>0 DEF WaitState
    <3>4. TransferInv'
      BY <2>3, <3>0 DEF WaitState
    <3>5. BetweenInv'
      BY <2>3, <3>0 DEF WaitState
    <3>6. ArmedInv'
      BY <2>3, <3>0 DEF WaitState
    <3> QED
      BY <3>1, <3>2, <3>3, <3>4, <3>5, <3>6 DEF CalmParts
  <2>4. CASE WriteArgument
    <3>0. Waiting = top /\ Waiting' = top /\ Served = {} /\ Served' = {}
      BY <2>4 DEF WriteArgument, Waiting, Served, Polled
    <3>1. CommandInv'
      BY <2>4, <3>0 DEF WriteArgument
    <3>2. NestedInv'
      BY <2>4, <3>0 DEF WriteArgument
    <3>3. DiscoveryInv'
      BY <2>4, <3>0 DEF WriteArgument
    <3>4. TransferInv'
      BY <2>4, <3>0 DEF WriteArgument
    <3>5. BetweenInv'
      BY <2>4, <3>0 DEF WriteArgument
    <3>6. ArmedInv'
      BY <2>4, <3>0 DEF WriteArgument
    <3> QED
      BY <3>1, <3>2, <3>3, <3>4, <3>5, <3>6 DEF CalmParts
  <2>5. CASE Trigger
    <3>0. Waiting = top /\ Waiting' = top /\ Served = {} /\ Served' = {}
      BY <2>5 DEF Trigger, Waiting, Served, Polled
    <3>1. CommandInv'
      <4>1. "CC" \notin nint /\ phase # "cmd"
        BY <2>5, <3>0 DEF Trigger
      <4>2. "TC" \notin nint
        BY <2>5, <3>0 DEF Trigger
      <4>3. TellsOrError("ERR", intr_status)
        BY <2>5, <3>0 DEF Trigger
      <4>4. ~failed[top]
        BY <2>5, <3>0 DEF Trigger
      <4>5. nint' = nint /\ intr_status' = intr_status /\ failed' = failed /\ kind' = kind /\ pc'[top] = "waitCC"
        BY <2>5, <3>0 DEF Trigger
      <4>6. phase' = "cmd" => own' = top /\ sent' = kind[top]
        BY <2>5, <3>0, <4>1 DEF Trigger
      <4>7. CommandInv
        BY DEF CalmParts
      <4> QED
        BY ONLY <3>0, LevelFacts, top \in Level, <4>1, <4>2, <4>3, <4>4, <4>5, <4>6, <4>7 DEF CommandInv
    <3>2. NestedInv'
      <4>1. nint' = nint /\ stat' = stat /\ intr_status' = intr_status /\ old' = old
        BY <2>5, <3>0 DEF Trigger
      <4>2. pc[top] = "go" /\ pc'[top] = "waitCC"
        BY <2>5, <3>0 DEF Trigger
      <4>3. NestedInv
        BY DEF CalmParts
      <4> QED
        BY ONLY <3>0, LevelFacts, top \in Level, <4>1, <4>2, <4>3 DEF NestedInv, TellsOrError
    <3>3. DiscoveryInv'
      BY <2>5, <3>0 DEF Trigger
    <3>4. TransferInv'
      BY <2>5, <3>0 DEF Trigger
    <3>5. BetweenInv'
      BY <2>5, <3>0 DEF Trigger
    <3>6. ArmedInv'
      BY <2>5, <3>0 DEF Trigger
    <3> QED
      BY <3>1, <3>2, <3>3, <3>4, <3>5, <3>6 DEF CalmParts
  <2>6. CASE WaitCommand
    <3>0. Waiting = top /\ Waiting' = top /\ Served = {} /\ Served' = {}
      BY <2>6 DEF WaitCommand, WaitIntr, Waiting, Served, Polled
    <3>1. CommandInv'
      BY <2>6, <3>0 DEF WaitCommand, WaitIntr
    <3>2. NestedInv'
      <4>1. nint' = nint /\ stat' = stat /\ intr_status' = intr_status /\ old'[top] = intr_status
        BY <2>6, <3>0 DEF WaitCommand, WaitIntr
      <4>2. pc[top] = "waitCC" /\ pc'[top] = "ackCC"
        BY <2>6, <3>0 DEF WaitCommand, WaitIntr
      <4>3. NestedInv
        BY DEF CalmParts
      <4> QED
        BY ONLY <3>0, LevelFacts, top \in Level, <4>1, <4>2, <4>3 DEF NestedInv, TellsOrError
    <3>3. DiscoveryInv'
      BY <2>6, <3>0 DEF WaitCommand, WaitIntr
    <3>4. TransferInv'
      BY <2>6, <3>0 DEF WaitCommand, WaitIntr
    <3>5. BetweenInv'
      BY <2>6, <3>0 DEF WaitCommand, WaitIntr
    <3>6. ArmedInv'
      BY <2>6, <3>0 DEF WaitCommand, WaitIntr
    <3> QED
      BY <3>1, <3>2, <3>3, <3>4, <3>5, <3>6 DEF CalmParts
  <2>7. CASE AckCommand
    <3>0. Waiting = top /\ Waiting' = top /\ Served = {} /\ Served' = {}
      BY <2>7 DEF AckCommand, Acknowledge, SoftReset, Done, Status, Waiting, Served, Polled
    <3>1. CommandInv'
      BY <2>7, <3>0 DEF AckCommand, Acknowledge, SoftReset, Done, Status
    <3>2. NestedInv'
      <4>1. nint' \subseteq nint /\ stat' = stat
        BY <2>7, <3>0 DEF AckCommand, Acknowledge, SoftReset, Done, Status
      <4>2. top # 0 =>
              old[top] \subseteq {"CC", "ERR", "CARD"} /\ intr_status' \subseteq {"CARD"}
        BY <2>7, <3>0 DEF AckCommand, Acknowledge, SoftReset, Done, Status
      <4>3. top # 0 => job[top] \in {"abort", "discover"}
        BY <2>7 DEF AckCommand, Acknowledge, SoftReset, Done, Status, Job
      <4>4. top # 0 => pc'[top] = IF job[top] = "abort" THEN "finish" ELSE "idle"
        BY <2>7, <3>0 DEF AckCommand, Acknowledge, SoftReset, Done, Status
      <4>5. top # 0 /\ job[top] = "discover" => intr_status' = {}
        BY <2>7, <3>0, <4>2 DEF AckCommand, Acknowledge, SoftReset, Done, Status
      <4>6. NestedInv
        BY DEF CalmParts
      <4> QED
        BY ONLY <3>0, LevelFacts, top \in Level, <4>1, <4>2, <4>3, <4>4, <4>5, <4>6 DEF NestedInv,
           TellsOrError
    <3>3. DiscoveryInv'
      BY <2>7, <3>0 DEF AckCommand, Acknowledge, SoftReset, Done, Status
    <3>4. TransferInv'
      BY <2>7, <3>0 DEF AckCommand, Acknowledge, SoftReset, Done, Status
    <3>5. BetweenInv'
      BY <2>7, <3>0 DEF AckCommand, Acknowledge, SoftReset, Done, Status
    <3>6. ArmedInv'
      BY <2>7, <3>0 DEF AckCommand, Acknowledge, SoftReset, Done, Status
    <3> QED
      BY <3>1, <3>2, <3>3, <3>4, <3>5, <3>6 DEF CalmParts
  <2>8. CASE WaitData
    <3>0. Waiting = top /\ Waiting' = top /\ Served = {} /\ Served' = {}
      BY <2>8 DEF WaitData, WaitIntr, Waiting, Served, Polled
    <3>1. CommandInv'
      BY <2>8, <3>0 DEF WaitData, WaitIntr
    <3>2. NestedInv'
      BY <2>8, <3>0 DEF WaitData, WaitIntr
    <3>3. DiscoveryInv'
      BY <2>8, <3>0 DEF WaitData, WaitIntr
    <3>4. TransferInv'
      BY <2>8, <3>0 DEF WaitData, WaitIntr
    <3>5. BetweenInv'
      BY <2>8, <3>0 DEF WaitData, WaitIntr
    <3>6. ArmedInv'
      BY <2>8, <3>0 DEF WaitData, WaitIntr
    <3> QED
      BY <3>1, <3>2, <3>3, <3>4, <3>5, <3>6 DEF CalmParts
  <2>9. CASE AckData
    <3>0. Waiting = top /\ Waiting' = top /\ Served = {} /\ Served' = {}
      BY <2>9 DEF AckData, Acknowledge, SoftReset, Done, Status, Waiting, Served, Polled
    <3>1. CommandInv'
      BY <2>9, <3>0 DEF AckData, Acknowledge, SoftReset, Done, Status
    <3>2. NestedInv'
      <4>1. top = 0
        BY <2>9 DEF AckData, Acknowledge, SoftReset, Done, Status, Job
      <4>2. stat' = stat
        BY <2>9, <3>0 DEF AckData, Acknowledge, SoftReset, Done, Status
      <4>3. NestedInv
        BY DEF CalmParts
      <4> QED
        BY ONLY <3>0, LevelFacts, top \in Level, <4>1, <4>2, <4>3 DEF NestedInv, TellsOrError
    <3>3. DiscoveryInv'
      BY <2>9, <3>0 DEF AckData, Acknowledge, SoftReset, Done, Status
    <3>4. TransferInv'
      BY <2>9, <3>0 DEF AckData, Acknowledge, SoftReset, Done, Status
    <3>5. BetweenInv'
      BY <2>9, <3>0 DEF AckData, Acknowledge, SoftReset, Done, Status
    <3>6. ArmedInv'
      <4>1. top = 0
        BY <2>9 DEF AckData, Acknowledge, SoftReset, Done, Status, Job
      <4>2. pc'[0] \in {"waitData", "idle", "finish"}
        BY <2>9, <4>1 DEF AckData, Acknowledge, SoftReset, Done, Status
      <4>3. ArmedInv
        BY DEF CalmParts
      <4> QED
        BY ONLY <3>0, LevelFacts, top \in Level, <4>1, <4>2, <4>3 DEF ArmedInv
    <3> QED
      BY <3>1, <3>2, <3>3, <3>4, <3>5, <3>6 DEF CalmParts
  <2>10. CASE Intr
    <3>0. Waiting = top /\ Waiting' = top /\ Served = {} /\ Served' = {}
      BY <2>10 DEF Intr, Waiting, Served, Polled
    <3>1. CommandInv'
      BY <2>10, <3>0 DEF Intr
    <3>2. NestedInv'
      <4>1. \A l \in Level : l # top + 1 => stat'[l] = stat[l] /\ pc'[l] = pc[l]
        BY <2>10, <3>0 DEF Intr
      <4>2. nint' = nint /\ intr_status' = intr_status /\ old' = old
        BY <2>10, <3>0 DEF Intr
      <4>3. stat'[top + 1] = Pending
        BY <2>10, <3>0 DEF Intr
      <4>4. top # 0 => pc[top] = "waitCC"
        BY <2>10 DEF Intr, Job
      <4>5. top # 0 => Pending \subseteq {"CC", "ERR", "CARD"}
        BY <3>0, <4>4
      <4>6. NestedInv
        BY DEF CalmParts
      <4>7. top # top + 1
        OBVIOUS
      <4>8. \A l \in Level : l # 0 /\ l # 1 => stat'[l] \subseteq {"CC", "ERR", "CARD"}
        <5>1. top + 1 # 1 => top # 0
          OBVIOUS
        <5> QED
          BY ONLY <4>1, <4>3, <4>5, <4>6, <5>1 DEF NestedInv
      <4> QED
        BY ONLY <3>0, top \in Level, <4>1, <4>2, <4>6, <4>7, <4>8 DEF NestedInv, TellsOrError
    <3>3. DiscoveryInv'
      BY <2>10, <3>0 DEF Intr
    <3>4. TransferInv'
      BY <2>10, <3>0 DEF Intr
    <3>5. BetweenInv'
      <4>1. \A l \in Level : l # top + 1 => stat'[l] = stat[l] /\ pc'[l] = pc[l]
        BY <2>10, <3>0 DEF Intr
      <4>2. /\ nint' = nint /\ cardEvents' = cardEvents /\ top' = top + 1
            /\ stat'[top + 1] = Pending /\ pc'[top + 1] = "read"
        BY <2>10, <3>0 DEF Intr
      <4>3. pc[0] \in {"idle", "clear", "inhibit", "regs", "go"} /\ top = 0 =>
              nint \subseteq {"CARD"}
        BY <3>0
      <4>4. Pending # {}
        BY <2>10 DEF Intr
      <4>5. 1 \in Level
        BY DEF Level
      <4>6. pc[0] \in {"idle", "clear", "inhibit", "regs", "go"} /\ top = 0 /\ eint # {} =>
              cardEvents # 0 /\ nint = {}
        BY <4>3
      <4>7. pc[0] \in {"idle", "clear", "inhibit", "regs", "go"} /\ top = 0 /\ eint = {} =>
              nint = {"CARD"}
        BY ONLY <4>3, <4>4 DEF Pending
      <4>8. "CARD" \in nint => cardEvents # 0
        OBVIOUS
      <4>9. pc[0] \in {"idle", "clear", "inhibit", "regs", "go"} /\ top = 0 =>
              cardEvents # 0 /\ (Pending \subseteq {"ERR"} \/ Pending = {"CARD"})
        BY ONLY <4>3, <4>6, <4>7, <4>8 DEF Pending
      <4>10. pc[0] \in {"idle", "clear", "inhibit", "regs", "go"} /\ top # 0 =>
              "CARD" \notin Pending
        BY <2>10, <3>0 DEF Intr
      <4>11. \A l \in Level : l > top => stat[l] = {}
        OBVIOUS
      <4>12. BetweenInv
        BY DEF CalmParts
      <4>13. "CARD" \in nint => "CARD" \in Pending
        BY DEF Pending
      <4>14. SUFFICES ASSUME pc[0] \in {"idle", "clear", "inhibit", "regs", "go"}
                      PROVE  /\ nint \cap {"TC", "DMA"} = {} /\ cardEvents # 0
                             /\ "CARD" \in nint => pc'[1] = "read" /\ "CARD" \in stat'[1]
                             /\ stat'[1] \subseteq {"ERR"} \/ stat'[1] = {"CARD"}
                             /\ \A l \in Level : l # 0 /\ l # 1 => "CARD" \notin stat'[l]
        <5>1. pc'[0] = pc[0] /\ top' # 0
          <6>1. 0 \in Level /\ 0 # top + 1 /\ top + 1 # 0
            OBVIOUS
          <6> QED
            BY ONLY <4>1, <4>2, <6>1
        <5>2. nint' = nint /\ cardEvents' = cardEvents
          BY ONLY <4>2
        <5> QED
          BY <5>1, <5>2, Zenon DEF BetweenInv
      <4>15. CASE top = 0
        <5>1. \A l \in Level : l # 0 /\ l # 1 => stat'[l] = {}
          BY ONLY <4>1, <4>11, <4>15, LevelFacts
        <5> QED
          BY ONLY <4>2, <4>3, <4>9, <4>13, <4>14, <4>15, <5>1
      <4>16. CASE top # 0
        <5>1. top + 1 # 1
          BY <4>16
        <5>2. \A l \in Level : l # 0 /\ l # 1 => "CARD" \notin stat'[l]
          BY ONLY <4>1, <4>2, <4>10, <4>12, <4>14, <4>16, <5>1 DEF BetweenInv
        <5>3. stat'[1] = stat[1] /\ pc'[1] = pc[1]
          BY ONLY <4>1, <4>5, <5>1
        <5> QED
          BY ONLY <4>10, <4>12, <4>13, <4>14, <4>16, <5>2, <5>3 DEF BetweenInv
      <4> QED
        BY <4>15, <4>16
    <3>6. ArmedInv'
      BY <2>10, <3>0 DEF Intr
    <3> QED
      BY <3>1, <3>2, <3>3, <3>4, <3>5, <3>6 DEF CalmParts
  <2>11. CASE IntrAck
    <3>0. /\ Waiting = top - 1 /\ Waiting' = top - 1 /\ top # 0 /\ job[top] = "intr"
          /\ Served = {} /\ Served' = stat[top] /\ stat[top] \subseteq Pending
      BY <2>11 DEF IntrAck, Waiting, Served, Polled, ReadInv
    <3>1. CommandInv'
      BY <2>11, <3>0 DEF IntrAck, WriteNintr
    <3>2. NestedInv'
      <4>1. /\ nint' \subseteq nint /\ stat' = stat /\ intr_status' = intr_status /\ old' = old
            /\ \A l \in Level : l # top => pc'[l] = pc[l]
        BY <2>11 DEF IntrAck, WriteNintr
      <4>2. top - 1 \in Level /\ top - 1 # top
        BY <3>0
      <4>3. NestedInv
        BY DEF CalmParts
      <4> QED
        BY ONLY <3>0, <4>1, <4>2, <4>3 DEF NestedInv, TellsOrError
    <3>3. DiscoveryInv'
      BY <2>11, <3>0 DEF IntrAck, WriteNintr
    <3>4. TransferInv'
      BY <2>11, <3>0 DEF IntrAck, WriteNintr
    <3>5. BetweenInv'
      BY <2>11, <3>0 DEF IntrAck, WriteNintr
    <3>6. ArmedInv'
      BY <2>11, <3>0 DEF IntrAck, WriteNintr
    <3> QED
      BY <3>1, <3>2, <3>3, <3>4, <3>5, <3>6 DEF CalmParts
  <2>12. CASE IntrError
    <3>0. /\ Waiting = top - 1 /\ Served = stat[top] /\ "ERR" \in stat[top] /\ top # 0
          /\ \/ Waiting' = top /\ Served' = {} /\ job'[top] = "abort" /\ pc'[top] = "clear"
             \/ Waiting' = top - 1 /\ Served' = stat[top] /\ job'[top] = "intr"
      BY <2>12 DEF IntrError, SoftReset, Waiting, Served, Polled
    <3>1. CommandInv'
      BY <2>12, <3>0 DEF IntrError, SoftReset
    <3>2. NestedInv'
      BY <2>12, <3>0 DEF IntrError, SoftReset
    <3>3. DiscoveryInv'
      BY <2>12, <3>0 DEF IntrError, SoftReset
    <3>4. TransferInv'
      BY <2>12, <3>0 DEF IntrError, SoftReset
    <3>5. BetweenInv'
      BY <2>12, <3>0 DEF IntrError, SoftReset
    <3>6. ArmedInv'
      BY <2>12, <3>0 DEF IntrError, SoftReset
    <3> QED
      BY <3>1, <3>2, <3>3, <3>4, <3>5, <3>6 DEF CalmParts
  <2>13. CASE Finish
    <3>0. /\ Waiting' = top - 1 /\ Served' = {}
          /\ \/ Waiting = top - 1 /\ Served = stat[top] /\ job[top] = "intr"
             \/ Waiting = top /\ Served = {} /\ job[top] = "abort"
      BY <2>13 DEF Finish, AckError, WriteEintr, Return, Handed, Waiting, Served, Polled, Job
    <3>1. CommandInv'
      BY <2>13, <3>0 DEF Finish, AckError, WriteEintr, Return, Handed
    <3>2. NestedInv'
      <4>1. \A l \in Level : l # top =>
              stat'[l] = stat[l] /\ pc'[l] = pc[l] /\ stat'[top] = {}
        BY <2>13, <3>0 DEF Finish, AckError, WriteEintr, Return, Handed
      <4>2. nint' \subseteq nint /\ intr_status' = intr_status \cup Handed
        BY <2>13 DEF Finish, AckError, WriteEintr
      <4>3. Handed \subseteq stat[top] /\ (Handed # {} => Handed = stat[top])
        BY DEF Handed
      <4>4. top - 1 # 0 => stat[top] \subseteq {"CC", "ERR", "CARD"}
        BY <2>13 DEF Finish, AckError, WriteEintr, Return, Handed
      <4>5. top - 1 # 0 => TellsOrError("CC", Handed)
        BY <4>4 DEF Handed
      <4>6. top - 1 # 0 => pc[top - 1] = "waitCC"
        BY <2>13 DEF Finish, AckError, WriteEintr, Return, Handed
      <4>7. top - 1 # 0 /\ job[top] = "abort" => intr_status = {}
        BY <2>13, <3>0 DEF Finish, AckError, WriteEintr, Return, Handed, Job
      <4>8. top # 0
        BY <2>13 DEF Finish, AckError, WriteEintr, Return, Handed
      <4>9. NestedInv
        BY DEF CalmParts
      <4>10. top - 1 \in Level /\ top - 1 # top
        BY <4>8
      <4>11. \A l \in Level : l # 0 /\ l # 1 => stat'[l] \subseteq {"CC", "ERR", "CARD"}
        <5>1. stat'[top] = {}
          BY <2>13, <4>8 DEF Finish, Return
        <5> QED
          BY ONLY <4>1, <4>9, <5>1 DEF NestedInv
      <4>12. CASE top - 1 = 0
        BY ONLY <3>0, <4>11, <4>12 DEF NestedInv
      <4>13. CASE top - 1 # 0
        <5>1. Waiting # 0 /\ pc'[top - 1] = "waitCC" /\ nint \subseteq {"CC", "CARD"}
          BY ONLY <3>0, <4>1, <4>6, <4>8, <4>9, <4>10, <4>13 DEF NestedInv
        <5>2. intr_status \subseteq {"CC", "ERR", "CARD"} /\ TellsOrError("CC", intr_status)
          BY ONLY <3>0, <4>6, <4>7, <4>9, <4>13, <5>1 DEF NestedInv, TellsOrError
        <5>3. /\ intr_status' \subseteq {"CC", "ERR", "CARD"}
              /\ TellsOrError("CC", intr_status')
          BY ONLY <4>2, <4>3, <4>4, <4>5, <4>13, <5>2 DEF TellsOrError
        <5> QED
          BY ONLY <3>0, <4>2, <4>11, <4>13, <5>1, <5>3 DEF NestedInv, TellsOrError
      <4> QED
        BY <4>12, <4>13
    <3>3. DiscoveryInv'
      BY <2>13, <3>0 DEF Finish, AckError, WriteEintr, Return, Handed
    <3>4. TransferInv'
      BY <2>13, <3>0 DEF Finish, AckError, WriteEintr, Return, Handed
    <3>5. BetweenInv'
      BY <2>13, <3>0 DEF Finish, AckError, WriteEintr, Return, Handed
    <3>6. ArmedInv'
      <4>1. \A l \in Level : l # top => stat'[l] = stat[l] /\ pc'[l] = pc[l]
        BY <2>13, <3>0 DEF Finish, AckError, WriteEintr, Return, Handed
      <4>2. cardEvents' = cardEvents /\ intr_status' = intr_status \cup Handed
        BY <2>13 DEF Finish, AckError, WriteEintr, Return, Handed
      <4>3. Handed \subseteq stat[top]
        BY DEF Handed
      <4>4. "CARD" \notin stat[top]
        BY <2>13 DEF Finish, AckError, WriteEintr, Return, Handed
      <4>5. top - 1 # 0 => pc[top - 1] = "waitCC"
        BY <2>13 DEF Finish, AckError, WriteEintr, Return, Handed
      <4>6. top # 0
        BY <2>13 DEF Finish, AckError, WriteEintr, Return, Handed
      <4>7. pc[0] \in {"inhibit", "regs", "go"} =>
              cardEvents # 0 /\ (top = 1 => stat[top] \subseteq {"ERR"})
        BY <4>4, <4>6
      <4>8. job[top] = "abort" => pc[top] = "finish"
        BY <2>13 DEF Finish, AckError, WriteEintr, Return, Handed
      <4>9. job[top] = "abort" => intr_status \subseteq {"CARD"}
        BY <3>0, <4>6, <4>8
      <4>10. pc[0] \in {"inhibit", "regs", "go"} /\ job[top] = "abort" =>
              "CARD" \notin intr_status
        BY <3>0, <4>6, <4>8
      <4>11. pc[0] \in {"inhibit", "regs", "go"} /\ job[top] = "abort" =>
              TellsOrError("ERR", intr_status)
        BY ONLY <4>9, <4>10 DEF TellsOrError
      <4>12. top \in Nat /\ top - 1 \in Level /\ (top - 1 = 0 <=> top = 1)
        BY <4>6
      <4>13. pc'[0] = pc[0] /\ pc'[top - 1] = pc[top - 1]
        BY ONLY <4>1, <4>6, <4>12, LevelFacts
      <4>14. ArmedInv
        BY DEF CalmParts
      <4> QED
        BY ONLY <3>0, LevelFacts, top \in Level, <4>1, <4>2, <4>3, <4>4, <4>5, <4>6, <4>7,
           <4>8, <4>9, <4>10, <4>11, <4>12, <4>13, <4>14 DEF ArmedInv, TellsOrError
    <3> QED
      BY <3>1, <3>2, <3>3, <3>4, <3>5, <3>6 DEF CalmParts
  <2>14. CASE FinishCard
    <3>0. /\ Waiting' = top /\ Served' = {}
          /\ \/ Waiting = top - 1 /\ Served = stat[top] /\ job[top] = "intr"
             \/ Waiting = top /\ Served = {} /\ job[top] = "abort"
      BY <2>14 DEF FinishCard, HostReset, Handed, Waiting, Served, Polled, Job
    <3>1. CommandInv'
      BY <2>14, <3>0 DEF FinishCard, HostReset, Handed
    <3>2. NestedInv'
      <4>1. stat' = stat /\ pc'[top] = "idle"
        BY <2>14, <3>0 DEF FinishCard, HostReset, Handed
      <4>2. nint' = {} /\ intr_status' = intr_status \cup Handed
        BY <2>14 DEF FinishCard, HostReset
      <4>3. Handed \subseteq stat[top]
        BY DEF Handed
      <4>4. top - 1 # 0 => stat[top] \subseteq {"CC", "ERR", "CARD"}
        BY <2>14 DEF FinishCard, HostReset, Handed
      <4>5. top - 1 # 0 => TellsOrError("CC", Handed)
        BY <4>4 DEF Handed
      <4>6. top - 1 # 0 => pc[top - 1] = "waitCC"
        BY <2>14 DEF FinishCard, HostReset, Handed
      <4>7. top - 1 # 0 => job[top] = "intr"
        BY <2>14, <3>0 DEF FinishCard, HostReset, Handed, Job
      <4>8. top # 0
        BY <2>14 DEF FinishCard, HostReset, Handed
      <4>9. top \in Nat /\ top - 1 \in Level /\ (top - 1 = 0 <=> top = 1)
        BY <4>8
      <4>10. NestedInv
        BY DEF CalmParts
      <4> QED
        BY ONLY <3>0, LevelFacts, top \in Level, <4>1, <4>2, <4>3, <4>4, <4>5, <4>6, <4>7,
           <4>8, <4>9, <4>10 DEF NestedInv, TellsOrError
    <3>3. DiscoveryInv'
      BY <2>14, <3>0 DEF FinishCard, HostReset, Handed
    <3>4. TransferInv'
      BY <2>14, <3>0 DEF FinishCard, HostReset, Handed
    <3>5. BetweenInv'
      BY <2>14, <3>0 DEF FinishCard, HostReset, Handed
    <3>6. ArmedInv'
      BY <2>14, <3>0 DEF FinishCard, HostReset, Handed
    <3> QED
      BY <3>1, <3>2, <3>3, <3>4, <3>5, <3>6 DEF CalmParts
  <2>15. ASSUME NEW k \in {"plain", "busy"}, DiscoverSend(k)
         PROVE  CalmParts'
    <3>0. Waiting = top /\ Waiting' = top /\ Served = {} /\ Served' = {}
      BY <2>15 DEF DiscoverSend, Start, Waiting, Served, Polled
    <3>1. CommandInv'
      BY <2>15, <3>0 DEF DiscoverSend, Start
    <3>2. NestedInv'
      BY <2>15, <3>0 DEF DiscoverSend, Start
    <3>3. DiscoveryInv'
      BY <2>15, <3>0 DEF DiscoverSend, Start
    <3>4. TransferInv'
      BY <2>15, <3>0 DEF DiscoverSend, Start
    <3>5. BetweenInv'
      BY <2>15, <3>0 DEF DiscoverSend, Start
    <3>6. ArmedInv'
      BY <2>15, <3>0 DEF DiscoverSend, Start
    <3> QED
      BY <3>1, <3>2, <3>3, <3>4, <3>5, <3>6 DEF CalmParts
  <2>16. CASE DiscoverEnd
    <3>0. Waiting = top /\ Served = {} /\ Waiting' = top - 1 /\ Served' = {}
      BY <2>16 DEF DiscoverEnd, HostReset, Return, Waiting, Served, Polled
    <3>1. CommandInv'
      BY <2>16, <3>0 DEF DiscoverEnd, HostReset, Return
    <3>2. NestedInv'
      <4>1. \A l \in Level : l # top =>
              stat'[l] = stat[l] /\ pc'[l] = pc[l] /\ stat'[top] = {}
        BY <2>16, <3>0 DEF DiscoverEnd, HostReset, Return
      <4>2. nint' \subseteq nint /\ intr_status' = intr_status
        BY <2>16 DEF DiscoverEnd, HostReset, Return
      <4>3. pc[top] = "idle"
        BY <2>16 DEF DiscoverEnd, HostReset, Return
      <4>4. top - 1 # 0 => pc[top - 1] = "waitCC"
        BY <2>16 DEF DiscoverEnd, HostReset, Return
      <4>5. top # 0
        BY <2>16 DEF DiscoverEnd, HostReset, Return
      <4>6. top \in Nat /\ top - 1 \in Level /\ (top - 1 = 0 <=> top = 1)
        BY <4>5
      <4>7. NestedInv
        BY DEF CalmParts
      <4> QED
        BY ONLY <3>0, LevelFacts, top \in Level, <4>1, <4>2, <4>3, <4>4, <4>5, <4>6, <4>7 DEF NestedInv,
           TellsOrError
    <3>3. DiscoveryInv'
      BY <2>16, <3>0 DEF DiscoverEnd, HostReset, Return
    <3>4. TransferInv'
      BY <2>16, <3>0 DEF DiscoverEnd, HostReset, Return
    <3>5. BetweenInv'
      BY <2>16, <3>0 DEF DiscoverEnd, HostReset, Return
    <3>6. ArmedInv'
      BY <2>16, <3>0 DEF DiscoverEnd, HostReset, Return
    <3> QED
      BY <3>1, <3>2, <3>3, <3>4, <3>5, <3>6 DEF CalmParts
  <2>17. CASE HwResponse
    <3>0. /\ Waiting' = Waiting /\ Served' = Served
          /\ Waiting \in Level /\ (top = 0 => Waiting = 0)
      BY <2>17 DEF HwResponse, Waiting, Served, Polled
    <3>1. CommandInv'
      BY <2>17, <3>0 DEF HwResponse
    <3>2. NestedInv'
      BY <2>17, <3>0 DEF HwResponse
    <3>3. DiscoveryInv'
      BY <2>17, <3>0 DEF HwResponse
    <3>4. TransferInv'
      BY <2>17, <3>0 DEF HwResponse
    <3>5. BetweenInv'
      BY <2>17, <3>0 DEF HwResponse
    <3>6. ArmedInv'
      BY <2>17, <3>0 DEF HwResponse
    <3> QED
      BY <3>1, <3>2, <3>3, <3>4, <3>5, <3>6 DEF CalmParts
  <2>18. CASE HwBusyEnd
    <3>0. /\ Waiting' = Waiting /\ Served' = Served
          /\ Waiting \in Level /\ (top = 0 => Waiting = 0)
      BY <2>18 DEF HwBusyEnd, Waiting, Served, Polled
    <3>1. CommandInv'
      BY <2>18, <3>0 DEF HwBusyEnd
    <3>2. NestedInv'
      BY <2>18, <3>0 DEF HwBusyEnd
    <3>3. DiscoveryInv'
      BY <2>18, <3>0 DEF HwBusyEnd
    <3>4. TransferInv'
      BY <2>18, <3>0 DEF HwBusyEnd
    <3>5. BetweenInv'
      BY <2>18, <3>0 DEF HwBusyEnd
    <3>6. ArmedInv'
      BY <2>18, <3>0 DEF HwBusyEnd
    <3> QED
      BY <3>1, <3>2, <3>3, <3>4, <3>5, <3>6 DEF CalmParts
  <2>19. CASE HwBoundary
    <3>0. /\ Waiting' = Waiting /\ Served' = Served
          /\ Waiting \in Level /\ (top = 0 => Waiting = 0)
      BY <2>19 DEF HwBoundary, Waiting, Served, Polled
    <3>1. CommandInv'
      BY <2>19, <3>0 DEF HwBoundary
    <3>2. NestedInv'
      BY <2>19, <3>0 DEF HwBoundary
    <3>3. DiscoveryInv'
      BY <2>19, <3>0 DEF HwBoundary
    <3>4. TransferInv'
      BY <2>19, <3>0 DEF HwBoundary
    <3>5. BetweenInv'
      BY <2>19, <3>0 DEF HwBoundary
    <3>6. ArmedInv'
      BY <2>19, <3>0 DEF HwBoundary
    <3> QED
      BY <3>1, <3>2, <3>3, <3>4, <3>5, <3>6 DEF CalmParts
  <2>20. CASE HwTransferred
    <3>0. /\ Waiting' = Waiting /\ Served' = Served
          /\ Waiting \in Level /\ (top = 0 => Waiting = 0)
      BY <2>20 DEF HwTransferred, Waiting, Served, Polled
    <3>1. CommandInv'
      BY <2>20, <3>0 DEF HwTransferred
    <3>2. NestedInv'
      BY <2>20, <3>0 DEF HwTransferred
    <3>3. DiscoveryInv'
      BY <2>20, <3>0 DEF HwTransferred
    <3>4. TransferInv'
      BY <2>20, <3>0 DEF HwTransferred
    <3>5. BetweenInv'
      BY <2>20, <3>0 DEF HwTransferred
    <3>6. ArmedInv'
      BY <2>20, <3>0 DEF HwTransferred
    <3> QED
      BY <3>1, <3>2, <3>3, <3>4, <3>5, <3>6 DEF CalmParts
  <2>21. ASSUME NEW e \in Error, HwError(e)
         PROVE  CalmParts'
    <3>0. /\ Waiting' = Waiting /\ Served' = Served
          /\ Waiting \in Level /\ (top = 0 => Waiting = 0)
      BY <2>21 DEF HwError, Waiting, Served, Polled
    <3>1. CommandInv'
      BY <2>21, <3>0 DEF HwError
    <3>2. NestedInv'
      BY <2>21, <3>0 DEF HwError
    <3>3. DiscoveryInv'
      BY <2>21, <3>0 DEF HwError
    <3>4. TransferInv'
      BY <2>21, <3>0 DEF HwError
    <3>5. BetweenInv'
      BY <2>21, <3>0 DEF HwError
    <3>6. ArmedInv'
      BY <2>21, <3>0 DEF HwError
    <3> QED
      BY <3>1, <3>2, <3>3, <3>4, <3>5, <3>6 DEF CalmParts
  <2>22. CASE HwCard
    <3>0. /\ Waiting' = Waiting /\ Served' = Served
          /\ Waiting \in Level /\ (top = 0 => Waiting = 0)
      BY <2>22 DEF HwCard, Waiting, Served, Polled
    <3>1. CommandInv'
      BY <2>22, <3>0 DEF HwCard
    <3>2. NestedInv'
      BY <2>22, <3>0 DEF HwCard
    <3>3. DiscoveryInv'
      BY <2>22, <3>0 DEF HwCard
    <3>4. TransferInv'
      BY <2>22, <3>0 DEF HwCard
    <3>5. BetweenInv'
      BY <2>22, <3>0 DEF HwCard
    <3>6. ArmedInv'
      BY <2>22, <3>0 DEF HwCard
    <3> QED
      BY <3>1, <3>2, <3>3, <3>4, <3>5, <3>6 DEF CalmParts
  <2>23. CASE UNCHANGED vars
    <3>0. /\ Waiting' = Waiting /\ Served' = Served
          /\ Waiting \in Level /\ (top = 0 => Waiting = 0)
      BY <2>23 DEF vars, Waiting, Served, Polled
    <3>1. CommandInv'
      BY <2>23, <3>0 DEF vars
    <3>2. NestedInv'
      BY <2>23, <3>0 DEF vars
    <3>3. DiscoveryInv'
      BY <2>23, <3>0 DEF vars
    <3>4. TransferInv'
      BY <2>23, <3>0 DEF vars
    <3>5. BetweenInv'
      BY <2>23, <3>0 DEF vars
    <3>6. ArmedInv'
      BY <2>23, <3>0 DEF vars
    <3> QED
      BY <3>1, <3>2, <3>3, <3>4, <3>5, <3>6 DEF CalmParts
  <2> QED
    BY ONLY <2>1, <2>2, <2>3, <2>4, <2>5, <2>6, <2>7, <2>8, <2>9, <2>10, <2>11, <2>12, <2>13, <2>14, <2>15,
       <2>16, <2>17, <2>18, <2>19, <2>20, <2>21, <2>22, <2>23, [Next]_vars
       DEF Next, Software, Hardware
<1> QED
  BY <1>1, <1>2, TypeInvariant, StackInvariant, FrameInvariant, AbortCorrect, PTL DEF Spec

\* The status that sdhc_exec_command waits for is that of its own command: StatusIsOwn of
\* the run sdhost, for every value of the constants.
THEOREM StatusCorrect == Spec => []StatusIsOwn
<1>1. TypeOK /\ FrameInv /\ CalmInv => StatusIsOwn
  <2> SUFFICES ASSUME TypeOK, FrameInv, CalmInv, Undisturbed, At("go")
               PROVE  intr_status = {}
    BY DEF StatusIsOwn
  <2>1. Waiting = top /\ top \in Level
    BY DEF FrameInv, StackShape, Waiting, Polled, At, TypeOK, ActivationTypeOK
  <2>2. NestedInv /\ ArmedInv
    BY DEF CalmInv, Calm, Undisturbed, CalmParts
  <2>3. CASE top = 0
    BY <2>2, <2>3 DEF ArmedInv, At, Undisturbed
  <2>4. CASE top # 0
    BY <2>1, <2>2, <2>4 DEF NestedInv, At
  <2> QED
    BY <2>3, <2>4
<1> QED
  BY <1>1, TypeInvariant, FrameInvariant, CalmInvariant, PTL

\* DMA ends before the sdhc_exec_command that asked for it returns, errors and
\* the first card change included: DmaOnlyForWaitingCaller of the run sdhost.
THEOREM DmaCallerCorrect == Spec => []DmaOnlyForWaitingCaller
<1>1. CalmInv => DmaOnlyForWaitingCaller
  BY DEF CalmInv, CalmParts, Calm, TransferInv, DmaOnlyForWaitingCaller
<1> QED
  BY <1>1, CalmInvariant, PTL

-----------------------------------------------------------------------------
(* Undisturbed commands.                                                   *)

\* A command that found the inhibit bits set waits for nothing: no status can come.
FailedInv ==
  failed[0] /\ pc[0] # "idle" =>
    /\ top = 0 /\ nint = {} /\ eint = {} /\ phase \in {"busy", "idle", "halt"}
    /\ pc[0] \in {"waitCC", "ackCC"} /\ Seen = {}

\* TRANSFER_COMPLETE means that the program's transfer is done.
MovedInv ==
  /\ pc[0] = "go" => argument = 0
  /\ sent = "data" /\ phase # "idle" => arg = 0
  /\ pc[0] \in {"waitCC", "ackCC", "waitData", "ackData"} /\ kind[0] = "data" =>
       ("TC" \in nint \cup Seen \/ (\E l \in Level : "TC" \in stat[l]) => moved)

\* COMMAND_COMPLETE is seen before TRANSFER_COMPLETE, and only once.
WokenInv ==
  /\ pc[0] = "ackCC" => TellsOrError("CC", old[0])
  /\ pc[0] = "ackData" => OnlyWithError("CC", old[0])
  /\ Waiting = 0 /\ pc[0] = "waitData" => OnlyWithError("CC", intr_status)
  /\ Waiting = 0 /\ pc[0] = "waitCC" =>
       /\ TellsOrError("CC", intr_status)
       /\ phase \in {"data", "boundary"} \/ "TC" \in nint =>
            "CC" \in nint \cup Served \cup intr_status
       /\ Polled /\ "TC" \in stat[top] => "CC" \in stat[top] \cup intr_status

\* The result stands from the end of one command to the start of the next.
OutcomeInv ==
  /\ pc[0] # "idle" => res = "none"
  /\ res = "ok" /\ kind[0] = "data" => moved
  /\ res = "error" => phase = "idle"

ResultParts == FailedInv /\ MovedInv /\ WokenInv /\ OutcomeInv
ResultInv == Undisturbed => ResultParts

\* ResultInv holds in every state.
LEMMA ResultInvariant == Spec => []ResultInv
<1> USE SdHostAssumption, LevelFacts
<1>1. Init => ResultInv
  BY DEF Init, ResultInv, ResultParts, FailedInv, MovedInv, WokenInv, OutcomeInv, Seen,
         Waiting, Polled, Served, OnlyWithError, TellsOrError
<1>2. TypeOK /\ ProgramLevel /\ StackInv /\ QuietInv /\ FrameInv /\ CalmInv /\ ResultInv
        /\ [Next]_vars => ResultInv'
  <2> SUFFICES ASSUME TypeOK, ProgramLevel, StackInv, QuietInv, FrameInv,
                       CalmInv, ResultInv, [Next]_vars, Undisturbed'
               PROVE  ResultParts'
    BY DEF ResultInv
  <2>0. Undisturbed /\ CalmParts /\ ResultParts
    BY HistoryStays DEF ResultInv, CalmInv, Undisturbed, Calm
  <2> USE <2>0 DEF TypeOK, ActivationTypeOK, HostTypeOK, ControllerTypeOK, ProgramLevel, StackInv,
              FrameInv, StackShape, JobInv, GotInv, CardInv, CalmParts,
              CommandInv, NestedInv, DiscoveryInv, TransferInv, BetweenInv, ArmedInv, Calm, Undisturbed, ResultParts,
              FailedInv, MovedInv, WokenInv, OutcomeInv, 
              Seen, OnlyWithError, TellsOrError, Goto, At, Pending,
              Phase, Kind, Bit, BitInv, BusInv, AbortOnlyForTransfer,
              unchangedIntr, unchangedCpu, unchangedBounds, bus
  <2>1. ASSUME NEW k \in Kind, Program(k)
        PROVE  ResultParts'
    <3>0. Waiting = top /\ Waiting' = top /\ Served = {} /\ Served' = {}
      BY <2>1 DEF Program, Start, Waiting, Served, Polled
    <3>1. FailedInv'
      BY <2>1, <3>0 DEF Program, Start
    <3>2. MovedInv'
      BY <2>1, <3>0 DEF Program, Start
    <3>3. WokenInv'
      BY <2>1, <3>0 DEF Program, Start, Polled
    <3>4. OutcomeInv'
      BY <2>1, <3>0 DEF Program, Start
    <3> QED
      BY <3>1, <3>2, <3>3, <3>4 DEF ResultParts
  <2>2. CASE ClearStatus
    <3>0. Waiting = top /\ Waiting' = top /\ Served = {} /\ Served' = {}
      BY <2>2 DEF ClearStatus, Waiting, Served, Polled
    <3>1. FailedInv'
      BY <2>2, <3>0 DEF ClearStatus
    <3>2. MovedInv'
      BY <2>2, <3>0 DEF ClearStatus
    <3>3. WokenInv'
      BY <2>2, <3>0 DEF ClearStatus, Polled
    <3>4. OutcomeInv'
      BY <2>2, <3>0 DEF ClearStatus
    <3> QED
      BY <3>1, <3>2, <3>3, <3>4 DEF ResultParts
  <2>3. CASE WaitState
    <3>0. Waiting = top /\ Waiting' = top /\ Served = {} /\ Served' = {}
      BY <2>3 DEF WaitState, Waiting, Served, Polled
    <3>1. FailedInv'
      <4>1. top' = top /\ nint' = nint /\ eint' = eint /\ phase' = phase /\ intr_status' = intr_status
        BY <2>3, <3>0 DEF WaitState
      <4>2. top = 0 => nint = {} /\ eint = {}
        BY <2>3 DEF WaitState
      <4>3. top = 0 => phase \in {"busy", "idle", "halt"}
        BY <2>3, <3>0 DEF WaitState, BusPhase
      <4>4. top = 0 => intr_status = {}
        BY <2>3, <3>0 DEF WaitState
      <4>5. top = 0 => pc'[0] = "waitCC" \/ ~failed'[0]
        BY <2>3, <3>0 DEF WaitState
      <4>6. top # 0 => failed'[0] = failed[0] /\ pc'[0] = pc[0]
        BY <2>3, <3>0 DEF WaitState
      <4>7. FailedInv
        BY DEF ResultParts
      <4> QED
        BY ONLY <3>0, LevelFacts, top \in Level, <4>1, <4>2, <4>3, <4>4, <4>5, <4>6, <4>7 DEF FailedInv,
           Seen
    <3>2. MovedInv'
      <4>1. top = 0 => intr_status = {} /\ "TC" \notin nint
        BY <2>3, <3>0 DEF WaitState
      <4>2. top = 0 => \A l \in Level : stat[l] = {}
        BY <2>3 DEF WaitState
      <4>3. pc[top] = "inhibit" /\ (top = 0 =>
              pc'[0] # "ackCC" /\ pc'[0] # "ackData" /\ pc'[0] # "go")
        BY <2>3, <3>0 DEF WaitState
      <4>4. top # 0 => pc'[0] = pc[0]
        BY <2>3, <3>0 DEF WaitState
      <4>5. /\ stat' = stat /\ nint' = nint /\ intr_status' = intr_status
           /\ old' = old /\ kind' = kind /\ argument' = argument
        BY <2>3, <3>0 DEF WaitState
      <4>6. moved' = moved /\ sent' = sent /\ phase' = phase /\ arg' = arg
        BY <2>3, <3>0 DEF WaitState
      <4>7. MovedInv
        BY DEF ResultParts
      <4> QED
        BY ONLY <3>0, LevelFacts, top \in Level, <4>1, <4>2, <4>3, <4>4, <4>5, <4>6, <4>7 DEF MovedInv,
           Seen
    <3>3. WokenInv'
      BY <2>3, <3>0 DEF WaitState, Polled
    <3>4. OutcomeInv'
      BY <2>3, <3>0 DEF WaitState
    <3> QED
      BY <3>1, <3>2, <3>3, <3>4 DEF ResultParts
  <2>4. CASE WriteArgument
    <3>0. Waiting = top /\ Waiting' = top /\ Served = {} /\ Served' = {}
      BY <2>4 DEF WriteArgument, Waiting, Served, Polled
    <3>1. FailedInv'
      BY <2>4, <3>0 DEF WriteArgument
    <3>2. MovedInv'
      BY <2>4, <3>0 DEF WriteArgument
    <3>3. WokenInv'
      BY <2>4, <3>0 DEF WriteArgument, Polled
    <3>4. OutcomeInv'
      BY <2>4, <3>0 DEF WriteArgument
    <3> QED
      BY <3>1, <3>2, <3>3, <3>4 DEF ResultParts
  <2>5. CASE Trigger
    <3>0. Waiting = top /\ Waiting' = top /\ Served = {} /\ Served' = {}
      BY <2>5 DEF Trigger, Waiting, Served, Polled
    <3>1. FailedInv'
      BY <2>5, <3>0 DEF Trigger
    <3>2. MovedInv'
      <4>1. top = 0 => intr_status = {} /\ "TC" \notin nint
        BY <2>5, <3>0 DEF Trigger
      <4>2. top = 0 => \A l \in Level : stat[l] = {}
        BY <2>5 DEF Trigger
      <4>3. pc[top] = "go" /\ (top = 0 =>
              pc'[0] # "ackCC" /\ pc'[0] # "ackData" /\ pc'[0] # "go")
        BY <2>5, <3>0 DEF Trigger
      <4>4. top # 0 => pc'[0] = pc[0]
        BY <2>5, <3>0 DEF Trigger
      <4>5. /\ stat' = stat /\ nint' = nint /\ intr_status' = intr_status
           /\ old' = old /\ kind' = kind /\ argument' = argument
        BY <2>5, <3>0 DEF Trigger
      <4>6. top # 0 => moved' = moved
        BY <2>5, <3>0 DEF Trigger
      <4>7. sent' = "data" /\ phase' # "idle" => arg' = 0
        BY <2>5, <3>0 DEF Trigger
      <4>8. MovedInv
        BY DEF ResultParts
      <4> QED
        BY ONLY <3>0, LevelFacts, top \in Level, <4>1, <4>2, <4>3, <4>4, <4>5, <4>6, <4>7,
           <4>8 DEF MovedInv, Seen
    <3>3. WokenInv'
      BY <2>5, <3>0 DEF Trigger, Polled
    <3>4. OutcomeInv'
      BY <2>5, <3>0 DEF Trigger
    <3> QED
      BY <3>1, <3>2, <3>3, <3>4 DEF ResultParts
  <2>6. CASE WaitCommand
    <3>0. Waiting = top /\ Waiting' = top /\ Served = {} /\ Served' = {}
      BY <2>6 DEF WaitCommand, WaitIntr, Waiting, Served, Polled
    <3>1. FailedInv'
      BY <2>6, <3>0 DEF WaitCommand, WaitIntr
    <3>2. MovedInv'
      BY <2>6, <3>0 DEF WaitCommand, WaitIntr
    <3>3. WokenInv'
      BY <2>6, <3>0 DEF WaitCommand, WaitIntr, Polled
    <3>4. OutcomeInv'
      BY <2>6, <3>0 DEF WaitCommand, WaitIntr
    <3> QED
      BY <3>1, <3>2, <3>3, <3>4 DEF ResultParts
  <2>7. CASE AckCommand
    <3>0. Waiting = top /\ Waiting' = top /\ Served = {} /\ Served' = {}
      BY <2>7 DEF AckCommand, Acknowledge, SoftReset, Done, Status, Waiting, Served, Polled
    <3>1. FailedInv'
      BY <2>7, <3>0 DEF AckCommand, Acknowledge, SoftReset, Done, Status
    <3>2. MovedInv'
      BY <2>7, <3>0 DEF AckCommand, Acknowledge, SoftReset, Done, Status
    <3>3. WokenInv'
      BY <2>7, <3>0 DEF AckCommand, Acknowledge, SoftReset, Done, Status, Polled
    <3>4. OutcomeInv'
      BY <2>7, <3>0 DEF AckCommand, Acknowledge, SoftReset, Done, Status
    <3> QED
      BY <3>1, <3>2, <3>3, <3>4 DEF ResultParts
  <2>8. CASE WaitData
    <3>0. Waiting = top /\ Waiting' = top /\ Served = {} /\ Served' = {}
      BY <2>8 DEF WaitData, WaitIntr, Waiting, Served, Polled
    <3>1. FailedInv'
      BY <2>8, <3>0 DEF WaitData, WaitIntr
    <3>2. MovedInv'
      BY <2>8, <3>0 DEF WaitData, WaitIntr
    <3>3. WokenInv'
      BY <2>8, <3>0 DEF WaitData, WaitIntr, Polled
    <3>4. OutcomeInv'
      BY <2>8, <3>0 DEF WaitData, WaitIntr
    <3> QED
      BY <3>1, <3>2, <3>3, <3>4 DEF ResultParts
  <2>9. CASE AckData
    <3>0. Waiting = top /\ Waiting' = top /\ Served = {} /\ Served' = {}
      BY <2>9 DEF AckData, Acknowledge, SoftReset, Done, Status, Waiting, Served, Polled
    <3>1. FailedInv'
      BY <2>9, <3>0 DEF AckData, Acknowledge, SoftReset, Done, Status
    <3>2. MovedInv'
      BY <2>9, <3>0 DEF AckData, Acknowledge, SoftReset, Done, Status
    <3>3. WokenInv'
      BY <2>9, <3>0 DEF AckData, Acknowledge, SoftReset, Done, Status, Polled
    <3>4. OutcomeInv'
      BY <2>9, <3>0 DEF AckData, Acknowledge, SoftReset, Done, Status
    <3> QED
      BY <3>1, <3>2, <3>3, <3>4 DEF ResultParts
  <2>10. CASE Intr
    <3>0. Waiting = top /\ Waiting' = top /\ Served = {} /\ Served' = {}
      BY <2>10 DEF Intr, Waiting, Served, Polled
    <3>1. FailedInv'
      <4>1. pc'[0] = pc[0] /\ failed' = failed
        BY <2>10, <3>0 DEF Intr
      <4>2. Pending # {}
        BY <2>10 DEF Intr
      <4>3. ~(nint = {} /\ eint = {})
        BY <4>2
      <4>4. FailedInv
        BY DEF ResultParts
      <4> QED
        BY ONLY <3>0, LevelFacts, top \in Level, <4>1, <4>2, <4>3, <4>4 DEF FailedInv
    <3>2. MovedInv'
      BY <2>10, <3>0 DEF Intr
    <3>3. WokenInv'
      BY <2>10, <3>0 DEF Intr, Polled
    <3>4. OutcomeInv'
      BY <2>10, <3>0 DEF Intr
    <3> QED
      BY <3>1, <3>2, <3>3, <3>4 DEF ResultParts
  <2>11. CASE IntrAck
    <3>0. /\ Waiting = top - 1 /\ Waiting' = top - 1 /\ top # 0 /\ job[top] = "intr"
          /\ Served = {} /\ Served' = stat[top] /\ stat[top] \subseteq Pending
      BY <2>11 DEF IntrAck, Waiting, Served, Polled, ReadInv
    <3>1. FailedInv'
      BY <2>11, <3>0 DEF IntrAck, WriteNintr
    <3>2. MovedInv'
      BY <2>11, <3>0 DEF IntrAck, WriteNintr
    <3>3. WokenInv'
      BY <2>11, <3>0 DEF IntrAck, WriteNintr, Polled
    <3>4. OutcomeInv'
      BY <2>11, <3>0 DEF IntrAck, WriteNintr
    <3> QED
      BY <3>1, <3>2, <3>3, <3>4 DEF ResultParts
  <2>12. CASE IntrError
    <3>0. /\ Waiting = top - 1 /\ Served = stat[top] /\ "ERR" \in stat[top] /\ top # 0
          /\ \/ Waiting' = top /\ Served' = {} /\ job'[top] = "abort" /\ pc'[top] = "clear"
             \/ Waiting' = top - 1 /\ Served' = stat[top] /\ job'[top] = "intr"
      BY <2>12 DEF IntrError, SoftReset, Waiting, Served, Polled
    <3>1. FailedInv'
      BY <2>12, <3>0 DEF IntrError, SoftReset
    <3>2. MovedInv'
      BY <2>12, <3>0 DEF IntrError, SoftReset
    <3>3. WokenInv'
      BY <2>12, <3>0 DEF IntrError, SoftReset, Polled
    <3>4. OutcomeInv'
      BY <2>12, <3>0 DEF IntrError, SoftReset
    <3> QED
      BY <3>1, <3>2, <3>3, <3>4 DEF ResultParts
  <2>13. CASE Finish
    <3>0. /\ Waiting' = top - 1 /\ Served' = {}
          /\ \/ Waiting = top - 1 /\ Served = stat[top] /\ job[top] = "intr"
             \/ Waiting = top /\ Served = {} /\ job[top] = "abort"
      BY <2>13 DEF Finish, AckError, WriteEintr, Return, Handed, Waiting, Served, Polled, Job
    <3>1. FailedInv'
      BY <2>13, <3>0 DEF Finish, AckError, WriteEintr, Return, Handed
    <3>2. MovedInv'
      BY <2>13, <3>0 DEF Finish, AckError, WriteEintr, Return, Handed
    <3>3. WokenInv'
      <4>1. /\ pc'[0] = pc[0] /\ old' = old /\ nint' \subseteq nint
            /\ "ERR" \notin stat[top] => nint' = nint
            /\ intr_status' = intr_status \cup Handed
        BY <2>13 DEF Finish, AckError, WriteEintr, Return, Handed
      <4>2. phase' \in {"data", "boundary"} => phase \in {"data", "boundary"}
        BY <2>13, <3>0 DEF Finish, AckError, WriteEintr, Return, Handed
      <4>3. Handed = {} \/ Handed = stat[top]
        BY DEF Handed
      <4>4. Waiting = 0 /\ Served = stat[top] /\ "CC" \in Served => pc[0] # "waitData"
        BY <2>13, <3>0 DEF Finish, AckError, WriteEintr, Return, Handed
      <4>5. stat[top] \cap {"CC", "TC"} # {} => Handed = stat[top]
        BY DEF Handed
      <4>6. Handed # {} => stat[top] \cap {"CC", "TC", "ERR"} # {}
        BY DEF Handed
      <4>7. job[top] = "abort" => "ERR" \in stat[top]
        BY <2>13 DEF Finish, AckError, WriteEintr, Return, Handed
      <4>8. top \in Nat /\ top # 0
        BY <2>13 DEF Finish, AckError, WriteEintr, Return, Handed
      <4>9. job[top] = "abort" => /\ phase \notin {"data", "boundary"} /\ "TC" \notin nint
                                   /\ intr_status = {}
        BY <2>13, <3>0 DEF Finish, AckError, WriteEintr, Return, Handed
      <4>10. WokenInv
        BY DEF ResultParts
      <4>11. pc[top] = "finish" /\ ~Polled'
        BY <2>13, <3>0 DEF Finish, Return, Polled
      <4>12. "ERR" \in stat[top] => phase \notin {"data", "boundary"} /\ nint' = {}
        BY <2>13, <4>8, <4>11 DEF Finish, AckError, WriteEintr, QuietInv
      <4>13. Waiting' = 0 => top - 1 = 0
        BY ONLY <3>0
      <4>14. CASE Waiting' # 0
        BY ONLY <4>1, <4>10, <4>14 DEF WokenInv
      <4>15. CASE Waiting' = 0 /\ job[top] = "abort"
        <5>1. /\ intr_status' = Handed /\ "TC" \notin nint'
              /\ phase' \notin {"data", "boundary"}
          BY ONLY <4>1, <4>2, <4>9, <4>15
        <5>2. Handed # {} => "ERR" \in Handed
          BY ONLY <4>3, <4>7, <4>15
        <5> QED
          BY ONLY <4>1, <4>10, <4>11, <5>1, <5>2 DEF WokenInv, OnlyWithError, TellsOrError
      <4>16. CASE Waiting' = 0 /\ job[top] # "abort"
        <5>1. /\ Waiting = 0 /\ Served = stat[top] /\ top - 1 = 0
              /\ Polled /\ Waiting' = 0
          BY ONLY <3>0, <4>8, <4>16 DEF Polled
        <5>2. pc[0] = "waitData" => OnlyWithError("CC", intr_status')
          BY ONLY <4>1, <4>3, <4>4, <4>10, <5>1 DEF WokenInv, OnlyWithError
        <5>3. pc[0] = "waitCC" => TellsOrError("CC", intr_status')
          BY ONLY <4>1, <4>3, <4>6, <4>10, <5>1 DEF WokenInv, TellsOrError
        <5>4. pc[0] = "waitCC" /\ (phase' \in {"data", "boundary"} \/ "TC" \in nint') =>
                "CC" \in nint' \cup intr_status'
          BY ONLY <4>1, <4>2, <4>3, <4>5, <4>10, <4>12, <5>1 DEF WokenInv
        <5> QED
          BY ONLY <3>0, <4>1, <4>10, <4>11, <5>2, <5>3, <5>4 DEF WokenInv
      <4> QED
        BY <4>14, <4>15, <4>16
    <3>4. OutcomeInv'
      BY <2>13, <3>0 DEF Finish, AckError, WriteEintr, Return, Handed
    <3> QED
      BY <3>1, <3>2, <3>3, <3>4 DEF ResultParts
  <2>14. CASE FinishCard
    <3>0. /\ Waiting' = top /\ Served' = {}
          /\ \/ Waiting = top - 1 /\ Served = stat[top] /\ job[top] = "intr"
             \/ Waiting = top /\ Served = {} /\ job[top] = "abort"
      BY <2>14 DEF FinishCard, HostReset, Handed, Waiting, Served, Polled, Job
    <3>1. FailedInv'
      BY <2>14, <3>0 DEF FinishCard, HostReset, Handed
    <3>2. MovedInv'
      BY <2>14, <3>0 DEF FinishCard, HostReset, Handed
    <3>3. WokenInv'
      BY <2>14, <3>0 DEF FinishCard, HostReset, Handed, Polled
    <3>4. OutcomeInv'
      BY <2>14, <3>0 DEF FinishCard, HostReset, Handed
    <3> QED
      BY <3>1, <3>2, <3>3, <3>4 DEF ResultParts
  <2>15. ASSUME NEW k \in {"plain", "busy"}, DiscoverSend(k)
         PROVE  ResultParts'
    <3>0. Waiting = top /\ Waiting' = top /\ Served = {} /\ Served' = {}
      BY <2>15 DEF DiscoverSend, Start, Waiting, Served, Polled
    <3>1. FailedInv'
      BY <2>15, <3>0 DEF DiscoverSend, Start
    <3>2. MovedInv'
      BY <2>15, <3>0 DEF DiscoverSend, Start
    <3>3. WokenInv'
      BY <2>15, <3>0 DEF DiscoverSend, Start, Polled
    <3>4. OutcomeInv'
      BY <2>15, <3>0 DEF DiscoverSend, Start
    <3> QED
      BY <3>1, <3>2, <3>3, <3>4 DEF ResultParts
  <2>16. CASE DiscoverEnd
    <3>0. Waiting = top /\ Served = {} /\ Waiting' = top - 1 /\ Served' = {}
      BY <2>16 DEF DiscoverEnd, HostReset, Return, Waiting, Served, Polled
    <3>1. FailedInv'
      BY <2>16, <3>0 DEF DiscoverEnd, HostReset, Return
    <3>2. MovedInv'
      BY <2>16, <3>0 DEF DiscoverEnd, HostReset, Return
    <3>3. WokenInv'
      BY <2>16, <3>0 DEF DiscoverEnd, HostReset, Return, Polled
    <3>4. OutcomeInv'
      BY <2>16, <3>0 DEF DiscoverEnd, HostReset, Return
    <3> QED
      BY <3>1, <3>2, <3>3, <3>4 DEF ResultParts
  <2>17. CASE HwResponse
    <3>0. /\ Waiting' = Waiting /\ Served' = Served
          /\ Waiting \in Level /\ (top = 0 => Waiting = 0)
      BY <2>17 DEF HwResponse, Waiting, Served, Polled
    <3>1. FailedInv'
      BY <2>17, <3>0 DEF HwResponse
    <3>2. MovedInv'
      BY <2>17, <3>0 DEF HwResponse
    <3>3. WokenInv'
      BY <2>17, <3>0 DEF HwResponse, Polled
    <3>4. OutcomeInv'
      BY <2>17, <3>0 DEF HwResponse
    <3> QED
      BY <3>1, <3>2, <3>3, <3>4 DEF ResultParts
  <2>18. CASE HwBusyEnd
    <3>0. /\ Waiting' = Waiting /\ Served' = Served
          /\ Waiting \in Level /\ (top = 0 => Waiting = 0)
      BY <2>18 DEF HwBusyEnd, Waiting, Served, Polled
    <3>1. FailedInv'
      BY <2>18, <3>0 DEF HwBusyEnd
    <3>2. MovedInv'
      BY <2>18, <3>0 DEF HwBusyEnd
    <3>3. WokenInv'
      BY <2>18, <3>0 DEF HwBusyEnd, Polled
    <3>4. OutcomeInv'
      BY <2>18, <3>0 DEF HwBusyEnd
    <3> QED
      BY <3>1, <3>2, <3>3, <3>4 DEF ResultParts
  <2>19. CASE HwBoundary
    <3>0. /\ Waiting' = Waiting /\ Served' = Served
          /\ Waiting \in Level /\ (top = 0 => Waiting = 0)
      BY <2>19 DEF HwBoundary, Waiting, Served, Polled
    <3>1. FailedInv'
      BY <2>19, <3>0 DEF HwBoundary
    <3>2. MovedInv'
      BY <2>19, <3>0 DEF HwBoundary
    <3>3. WokenInv'
      BY <2>19, <3>0 DEF HwBoundary, Polled
    <3>4. OutcomeInv'
      BY <2>19, <3>0 DEF HwBoundary
    <3> QED
      BY <3>1, <3>2, <3>3, <3>4 DEF ResultParts
  <2>20. CASE HwTransferred
    <3>0. /\ Waiting' = Waiting /\ Served' = Served
          /\ Waiting \in Level /\ (top = 0 => Waiting = 0)
      BY <2>20 DEF HwTransferred, Waiting, Served, Polled
    <3>1. FailedInv'
      BY <2>20, <3>0 DEF HwTransferred
    <3>2. MovedInv'
      BY <2>20, <3>0 DEF HwTransferred
    <3>3. WokenInv'
      BY <2>20, <3>0 DEF HwTransferred, Polled
    <3>4. OutcomeInv'
      BY <2>20, <3>0 DEF HwTransferred
    <3> QED
      BY <3>1, <3>2, <3>3, <3>4 DEF ResultParts
  <2>21. ASSUME NEW e \in Error, HwError(e)
         PROVE  ResultParts'
    <3>0. /\ Waiting' = Waiting /\ Served' = Served
          /\ Waiting \in Level /\ (top = 0 => Waiting = 0)
      BY <2>21 DEF HwError, Waiting, Served, Polled
    <3>1. FailedInv'
      BY <2>21, <3>0 DEF HwError
    <3>2. MovedInv'
      BY <2>21, <3>0 DEF HwError
    <3>3. WokenInv'
      BY <2>21, <3>0 DEF HwError, Polled
    <3>4. OutcomeInv'
      BY <2>21, <3>0 DEF HwError
    <3> QED
      BY <3>1, <3>2, <3>3, <3>4 DEF ResultParts
  <2>22. CASE HwCard
    <3>0. /\ Waiting' = Waiting /\ Served' = Served
          /\ Waiting \in Level /\ (top = 0 => Waiting = 0)
      BY <2>22 DEF HwCard, Waiting, Served, Polled
    <3>1. FailedInv'
      BY <2>22, <3>0 DEF HwCard
    <3>2. MovedInv'
      BY <2>22, <3>0 DEF HwCard
    <3>3. WokenInv'
      BY <2>22, <3>0 DEF HwCard, Polled
    <3>4. OutcomeInv'
      BY <2>22, <3>0 DEF HwCard
    <3> QED
      BY <3>1, <3>2, <3>3, <3>4 DEF ResultParts
  <2>23. CASE UNCHANGED vars
    <3>0. /\ Waiting' = Waiting /\ Served' = Served
          /\ Waiting \in Level /\ (top = 0 => Waiting = 0)
      BY <2>23 DEF vars, Waiting, Served, Polled
    <3>1. FailedInv'
      BY <2>23, <3>0 DEF vars
    <3>2. MovedInv'
      BY <2>23, <3>0 DEF vars
    <3>3. WokenInv'
      BY <2>23, <3>0 DEF vars, Polled
    <3>4. OutcomeInv'
      BY <2>23, <3>0 DEF vars
    <3> QED
      BY <3>1, <3>2, <3>3, <3>4 DEF ResultParts
  <2> QED
    BY ONLY <2>1, <2>2, <2>3, <2>4, <2>5, <2>6, <2>7, <2>8, <2>9, <2>10, <2>11, <2>12, <2>13, <2>14, <2>15,
       <2>16, <2>17, <2>18, <2>19, <2>20, <2>21, <2>22, <2>23, [Next]_vars
       DEF Next, Software, Hardware
<1> QED
  BY <1>1, <1>2, TypeInvariant, StackInvariant, DmaInvariant, FrameInvariant, CalmInvariant, PTL DEF Spec

\* A success of sdhc_exec_command means that every block was transferred, an error
\* that the controller is free again: ResultIsTrue of the run sdhost.
THEOREM ResultCorrect == Spec => []ResultIsTrue
<1>1. ResultInv => ResultIsTrue
  BY DEF ResultInv, ResultParts, OutcomeInv, ResultIsTrue, SuccessMeansMoved, FailureQuietsBus
<1> QED
  BY <1>1, ResultInvariant, PTL
=============================================================================
