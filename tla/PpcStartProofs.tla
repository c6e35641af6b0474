---------------------------- MODULE PpcStartProofs ----------------------------
(* What PpcElf and PpcStart promise, for every file and table size.         *)
EXTENDS PpcStart, FiniteSetTheorems, TLAPS

N == Len(elf.phdrs)

LoadTypes ==
  /\ elf \in Files
  /\ pc \in {"open", "table", "prepare", "loop", "returned"}
  /\ count \in Nat /\ k \in Nat \ {0}
  /\ placed \subseteq Nat
  /\ entry \in BOOLEAN

(* Before the loop. *)
BeforeLoop ==
  /\ pc \in {"open", "table", "prepare"} => k = 1
  /\ pc = "prepare" => count = N
  /\ pc \in {"table", "prepare", "loop"} => N \in 1 .. PhdrMax
  /\ entry => pc = "returned"

(* In the loop the counter is the number of headers left until data is met, *)
(* one right after it, and else all data headers are behind.                *)
Counted ==
  pc = "loop" =>
    \/ count = N - k + 1 /\ k <= N + 1 /\ (\A d \in DataHeaders : d >= k)
    \/ count = 1 /\ k - 1 \in DataHeaders
    \/ \A d \in DataHeaders : d < k

Behind == pc = "loop" => \A d \in DataHeaders : d < k => d \in placed

LoadInv ==
  /\ LoadTypes
  /\ BeforeLoop
  /\ Consecutive => Counted
  /\ Behind
  /\ ConsecutiveLoaded

-------------------------------------------------------------------------------
(* The file's table is a sequence of headers. *)
LEMMA TableType ==
  ASSUME elf \in Files
  PROVE  /\ elf.phdrs \in Seq(Header)
         /\ N \in Nat
         /\ DOMAIN elf.phdrs = 1 .. N
         /\ DataHeaders \subseteq 1 .. N
  <1>1. elf \in [usable : BOOLEAN, phdrs : Seq(Header)]
    BY PpcElfAssumption
  <1>2. elf.phdrs \in Seq(Header)
    BY <1>1
  <1> QED
    BY <1>2 DEF N, DataHeaders

(* A data header met in the loop is one of the file's, or lies beyond phdrs. *)
LEMMA DataMet ==
  ASSUME elf \in Files, N \in 1 .. PhdrMax, k \in Nat \ {0}
  PROVE  /\ AtHeader("data") => k \in DataHeaders \/ k > PhdrMax
         /\ AtHeader("skip") \/ AtHeader("empty") => k \notin DataHeaders
  <1>1. N \in Nat /\ DOMAIN elf.phdrs = 1 .. N /\ PhdrMax \in Nat
    BY TableType, PpcElfAssumption
  <1>2. AtHeader("data") => k \in DataHeaders \/ k > PhdrMax
    <2>1. SUFFICES ASSUME AtHeader("data"), k <= PhdrMax PROVE k \in DataHeaders
      BY <1>1
    <2>2. k <= N /\ elf.phdrs[k] = "data"
      BY <2>1, <1>1 DEF AtHeader, HeaderAt, N
    <2> QED
      BY <2>2, <1>1 DEF DataHeaders
  <1>3. ASSUME AtHeader("skip") \/ AtHeader("empty"), k \in DataHeaders PROVE FALSE
    <2>1. k \in 1 .. N /\ elf.phdrs[k] = "data"
      BY <1>3, <1>1 DEF DataHeaders
    <2>2. HeaderAt(k) = {"data"}
      BY <2>1, <1>1 DEF HeaderAt, N
    <2> QED
      BY <1>3, <2>2 DEF AtHeader
  <1> QED
    BY <1>2, <1>3

LEMMA LoadInit == ElfInit => LoadInv
  <1> SUFFICES ASSUME ElfInit PROVE LoadInv
    OBVIOUS
  <1>1. pc = "open" /\ count = 0 /\ k = 1 /\ placed = {} /\ entry = FALSE /\ elf \in Files
    BY DEF ElfInit
  <1>2. LoadTypes
    <2>1. count \in Nat /\ k \in Nat \ {0} /\ placed \subseteq Nat
      BY <1>1
    <2>2. entry \in BOOLEAN
      BY <1>1
    <2> QED
      BY <1>1, <2>1, <2>2 DEF LoadTypes
  <1>4. BeforeLoop
    BY <1>1 DEF BeforeLoop
  <1>3. Counted /\ Behind /\ ConsecutiveLoaded
    BY <1>1 DEF Counted, Behind, ConsecutiveLoaded
  <1> QED
    BY <1>2, <1>3, <1>4 DEF LoadInv

LEMMA TypesStep == LoadInv /\ ElfNext => LoadTypes'
  <1> SUFFICES ASSUME LoadInv, ElfNext PROVE LoadTypes'
    OBVIOUS
  <1> USE DEF LoadInv, LoadTypes
  <1>0. N \in Nat
    BY TableType
  <1>1. CASE ReadHeader
    BY <1>1 DEF ReadHeader, Return
  <1>2. CASE ReadTable
    BY <1>2, <1>0 DEF ReadTable, Return, ReturnErrno, SeekFails, N
  <1>3. CASE Prepare
    BY <1>3 DEF Prepare
  <1>4. CASE Skip
    BY <1>4 DEF Skip, NextHeader, AtHeader
  <1>5. CASE OutOfBounds
    BY <1>5 DEF OutOfBounds, Return
  <1>6. CASE Load
    BY <1>6 DEF Load, NextHeader
  <1>7. CASE LoadFails
    <2>1. pc' = "returned" /\ count' \in {count, 0}
      BY <1>7 DEF LoadFails, Return, ReturnErrno, SeekFails
    <2>2. UNCHANGED <<elf, k, placed, entry>>
      BY <1>7 DEF LoadFails
    <2> QED
      BY <2>1, <2>2
  <1>8. CASE LoadDone
    BY <1>8 DEF LoadDone, Return
  <1> QED
    BY <1>1, <1>2, <1>3, <1>4, <1>5, <1>6, <1>7, <1>8 DEF ElfNext, Loop

LEMMA FileKept == ElfNext => elf' = elf /\ N' = N /\ DataHeaders' = DataHeaders /\ Consecutive' = Consecutive
  <1> SUFFICES ASSUME ElfNext PROVE elf' = elf
    BY DEF N, DataHeaders, Consecutive
  <1> QED
    BY DEF ElfNext, Loop, ReadHeader, ReadTable, Prepare, Skip, OutOfBounds, Load, LoadFails, LoadDone

LEMMA BeforeStep == LoadInv /\ ElfNext => BeforeLoop'
  <1> SUFFICES ASSUME LoadInv, ElfNext PROVE BeforeLoop'
    OBVIOUS
  <1> USE DEF LoadInv, LoadTypes, BeforeLoop
  <1>0. N' = N
    BY FileKept
  <1>1. CASE ReadHeader
    BY <1>1, <1>0 DEF ReadHeader, Return, N
  <1>2. CASE ReadTable
    BY <1>2, <1>0 DEF ReadTable, Return, ReturnErrno, SeekFails, N
  <1>3. CASE Prepare
    BY <1>3, <1>0 DEF Prepare
  <1>4. CASE Skip
    BY <1>4, <1>0 DEF Skip, NextHeader, AtHeader
  <1>5. CASE OutOfBounds
    BY <1>5, <1>0 DEF OutOfBounds, Return
  <1>6. CASE Load
    BY <1>6, <1>0 DEF Load, NextHeader, AtHeader
  <1>7. CASE LoadFails
    BY <1>7, <1>0 DEF LoadFails, Return, ReturnErrno, SeekFails, AtHeader
  <1>8. CASE LoadDone
    BY <1>8, <1>0 DEF LoadDone, Return
  <1> QED
    BY <1>1, <1>2, <1>3, <1>4, <1>5, <1>6, <1>7, <1>8 DEF ElfNext, Loop

(* The argument of the loop: what is behind is placed ... *)
LEMMA BehindStep == LoadInv /\ ElfNext => Behind'
  <1> SUFFICES ASSUME LoadInv, ElfNext, pc' = "loop", NEW d \in DataHeaders, d < k'
               PROVE  d \in placed'
    BY FileKept DEF Behind
  <1> USE DEF LoadInv, LoadTypes
  <1>0. d \in Nat \ {0} /\ d <= N /\ N \in Nat
    BY TableType
  <1>1. CASE Prepare
    BY <1>1, <1>0 DEF Prepare, BeforeLoop
  <1>2. CASE Skip
    <2>1. k \notin DataHeaders /\ k' = k + 1 /\ placed' = placed /\ pc = "loop"
      BY <1>2, DataMet DEF Skip, BeforeLoop, NextHeader, AtHeader
    <2> QED
      BY <2>1, <1>0 DEF Behind
  <1>3. CASE Load
    <2>1. k' = k + 1 /\ placed' = placed \cup {k} /\ pc = "loop"
      BY <1>3 DEF Load, NextHeader, AtHeader
    <2> QED
      BY <2>1, <1>0 DEF Behind
  <1>4. CASE ReadHeader \/ ReadTable \/ OutOfBounds \/ LoadFails \/ LoadDone
    BY <1>4 DEF ReadHeader, ReadTable, OutOfBounds, LoadFails, LoadDone, AtHeader,
                Return, ReturnErrno, SeekFails
  <1> QED
    BY <1>1, <1>2, <1>3, <1>4 DEF ElfNext, Loop

(* ... and the counter reaches zero only when all data headers are behind. *)
LEMMA CountedStep == LoadInv /\ ElfNext /\ Consecutive => Counted'
  <1> SUFFICES ASSUME LoadInv, ElfNext, Consecutive, pc' = "loop" PROVE Counted'
    BY DEF Counted
  <1> USE DEF LoadInv, LoadTypes
  <1>0. /\ DataHeaders \subseteq 1 .. N /\ N \in Nat /\ DOMAIN elf.phdrs = 1 .. N
        /\ DataHeaders' = DataHeaders /\ N' = N
    BY TableType, FileKept
  <1>1. CASE Prepare
    BY <1>1, <1>0 DEF Prepare, BeforeLoop, Counted
  <1>2. CASE Skip
    <2>1. /\ k \notin DataHeaders /\ k' = k + 1 /\ pc = "loop"
          /\ count > 0 /\ count' = count - 1
      BY <1>2, DataMet DEF Skip, BeforeLoop, NextHeader, AtHeader
    <2>2. CASE count = N - k + 1 /\ k <= N + 1 /\ (\A d \in DataHeaders : d >= k)
      BY <2>1, <2>2, <1>0 DEF Counted
    <2>3. CASE k - 1 \in DataHeaders
      <3>1. ASSUME NEW d \in DataHeaders, d > k PROVE FALSE
        <4>1. k \in 1 .. N
          BY <3>1, <1>0
        <4> QED
          BY <4>1, <3>1, <2>3, <2>1, <1>0 DEF Consecutive
      <3>2. \A d \in DataHeaders : d < k + 1
        BY <3>1, <2>1, <1>0
      <3> QED
        BY <3>2, <2>1, <1>0 DEF Counted
    <2>4. CASE \A d \in DataHeaders : d < k
      BY <2>1, <2>4, <1>0 DEF Counted
    <2> QED
      BY <2>1, <2>2, <2>3, <2>4 DEF Counted
  <1>3. CASE Load
    <2>1. k' = k + 1 /\ count' = 1 /\ pc = "loop" /\ (k \in DataHeaders \/ k > PhdrMax)
      BY <1>3, DataMet DEF Load, BeforeLoop, NextHeader, AtHeader
    <2>2. CASE k \in DataHeaders
      BY <2>1, <2>2, <1>0 DEF Counted
    <2>3. CASE k > PhdrMax
      <3>1. N <= PhdrMax /\ PhdrMax \in Nat
        BY <2>1, <1>0, PpcElfAssumption DEF BeforeLoop
      <3>2. \A d \in DataHeaders : d < k + 1
        BY <3>1, <2>3, <1>0
      <3> QED
        BY <3>2, <2>1, <1>0 DEF Counted
    <2> QED
      BY <2>1, <2>2, <2>3
  <1>4. CASE ReadHeader \/ ReadTable \/ OutOfBounds \/ LoadFails \/ LoadDone
    BY <1>4 DEF ReadHeader, ReadTable, OutOfBounds, LoadFails, LoadDone, AtHeader,
                Return, ReturnErrno, SeekFails
  <1> QED
    BY <1>1, <1>2, <1>3, <1>4 DEF ElfNext, Loop

LEMMA LoadedStep == LoadInv /\ ElfNext => ConsecutiveLoaded'
  <1> SUFFICES ASSUME LoadInv, ElfNext, entry', Consecutive PROVE DataHeaders \subseteq placed'
    BY FileKept DEF ConsecutiveLoaded
  <1> USE DEF LoadInv, LoadTypes
  <1>0. DataHeaders \subseteq 1 .. N /\ N \in Nat
    BY TableType
  <1>1. CASE LoadDone
    <2>1. pc = "loop" /\ count = 0 /\ placed' = placed
      BY <1>1 DEF LoadDone
    <2>2. \A d \in DataHeaders : d < k
      BY <2>1, <1>0 DEF Counted
    <2> QED
      BY <2>1, <2>2 DEF Behind
  <1>2. CASE ~LoadDone
    BY <1>2 DEF ElfNext, Loop, ReadHeader, ReadTable, Prepare, Skip, OutOfBounds, Load,
       LoadFails, NextHeader, AtHeader, BeforeLoop
  <1> QED
    BY <1>1, <1>2

-------------------------------------------------------------------------------
(* The hand-shake.                                                          *)

Later == {"quiesce", "shutdown", "sram"} \cup Serving

HandTypes ==
  /\ at \in {"begin", "watch", "ones", "flush", "wait_stub", "jump_stub", "invalidate",
             "look", "prepared", "panic"} \cup Later
  /\ ready \in BOOLEAN /\ dirty \in BOOLEAN
  /\ stubs \subseteq {"wait", "jump"}

(* How far the ARM is. *)
Where ==
  /\ at \in {"watch", "ones", "flush", "wait_stub", "jump_stub", "invalidate", "look"}
       => pc = "prepare"
  /\ at \in Later \cup {"panic"} => pc = "returned"
  /\ at \in Serving \cup {"shutdown", "sram"} => ~interrupts
  /\ at \in Serving \cup {"sram"} => ~caches
  /\ caches \/ at \in Serving \cup {"sram"}
  /\ ready => at \in Later \cup {"prepared", "panic"}
  /\ pc = "loop" => at = "prepared"

(* The stubs are installed in order, and run only once they are. *)
StubsIn ==
  /\ at \in {"begin", "watch", "ones", "flush", "wait_stub"} => stubs = {}
  /\ at = "jump_stub" => stubs = {"wait"}
  /\ at \in {"invalidate", "look"} => "wait" \in stubs
  /\ "jump" \in stubs => "wait" \in stubs
  /\ ppc \in {"stub", "waiting", "started", "sent"} => "jump" \in stubs

(* A PowerPC the ARM has given up, or not tried, does nothing. *)
Idle ==
  /\ at = "begin" => ppc = "reset"
  /\ at = "watch" /\ rom = "failed" => ppc = "stopped"
  /\ at \in Later \cup {"prepared"} /\ ~ready => ppc \in {"reset", "stopped"}
  /\ at = "panic" => ppc = "reset"

(* The mailbox: ones, then the PowerPC's zero, then the entry point. *)
Clean == at \notin {"flush"} => ~dirty
Mailbox ==
  /\ at \in {"begin", "watch", "ones"} => line = "none"
  /\ at = "flush" => IF dirty THEN line = "ones" ELSE mail = "ones" /\ line \in {"none", "ones"}
  /\ at \in {"wait_stub", "jump_stub", "invalidate", "look"} =>
       /\ mail = IF ppc = "waiting" THEN "zero" ELSE "ones"
       /\ line \in {"none", "ones", mail}
  /\ ready /\ at \in {"prepared", "quiesce", "shutdown", "sram"} =>
       ppc = "waiting" /\ mail = "zero"
  /\ ready /\ at \in Serving =>
       /\ ppc \in {"waiting", "started", "sent"}
       /\ mail = IF entry THEN "entry" ELSE "zero"
  /\ ppc \in {"started", "sent"} => at \in Serving /\ target = "entry" /\ entry

HandInv == HandTypes /\ Where /\ StubsIn /\ Idle /\ Clean /\ Mailbox

LEMMA HandInit == Init => HandInv
  BY DEF Init, ElfInit, HandInv, HandTypes, Where, StubsIn, Idle, Clean, Mailbox, Later, Serving

(* Only ppc_load_file itself moves while the loader's variables change. *)
LEMMA LoadFileKeeps == HandInv /\ LoadInv /\ LoadFile => HandInv'
  <1> SUFFICES ASSUME HandInv, LoadInv, LoadFile PROVE HandInv'
    OBVIOUS
  <1>1. pc # "returned" /\ (pc = "prepare" => at = "prepared")
    BY DEF LoadFile, ElfNext, Loop, ReadHeader, ReadTable, Prepare, Skip, OutOfBounds, Load,
           LoadFails, LoadDone, AtHeader
  <1>2. at \in {"begin", "prepared"}
    BY <1>1 DEF HandInv, HandTypes, Where
  <1>3. UNCHANGED <<start, memory, power, ipc>>
    BY DEF LoadFile
  <1>4. pc' = "loop" => at = "prepared"
    <2>1. pc' = "loop" => pc \in {"prepare", "loop"}
      BY DEF LoadFile, ElfNext, Loop, ReadHeader, ReadTable, Prepare, Skip, OutOfBounds, Load,
             LoadFails, LoadDone, AtHeader, Return, ReturnErrno, SeekFails
    <2> QED
      BY <1>1, <2>1 DEF HandInv, Where
  <1> QED
    BY <1>2, <1>3, <1>4 DEF start, memory, power, HandInv, HandTypes, Where, StubsIn, Idle, Clean,
       Mailbox, Later, Serving

LEMMA HandStep == HandInv /\ LoadInv /\ [Next]_vars => HandInv'
  <1> SUFFICES ASSUME HandInv, LoadInv, [Next]_vars PROVE HandInv'
    OBVIOUS
  <1> USE DEF HandInv, HandTypes, Where, StubsIn, Idle, Clean, Mailbox, Later, Serving,
              evars, start, memory, power, ipc, Preparing, PrepareTo, Running, RunTo
  <1>1. CASE LoadFile
    BY <1>1, LoadFileKeeps
  <1>2. CASE Race
    BY <1>2 DEF Race
  <1>3. CASE Watch
    BY <1>3 DEF Watch
  <1>4. CASE MailOnes
    BY <1>4 DEF MailOnes, WriteMail
  <1>5. CASE MailFlush
    BY <1>5 DEF MailFlush, FlushMail
  <1>6. CASE WaitStub
    BY <1>6 DEF WaitStub
  <1>7. CASE JumpStub
    BY <1>7 DEF JumpStub
  <1>8. CASE Invalidate
    BY <1>8 DEF Invalidate
  <1>9. CASE Look
    BY <1>9 DEF Look
  <1>10. CASE AppPanic
    BY <1>10 DEF AppPanic
  <1>11. CASE ReadRtcBias
    BY <1>11 DEF ReadRtcBias
  <1>12. CASE Quiesce
    BY <1>12 DEF Quiesce
  <1>13. CASE MemShutdown
    BY <1>13 DEF MemShutdown
  <1>14. CASE StartPpc
    BY <1>14 DEF StartPpc, WriteMail
  <1>15. CASE ReadCtrl
    BY <1>15 DEF ReadCtrl
  <1>16. CASE ReadMessage
    BY <1>16 DEF ReadMessage
  <1>17. CASE ProcessCommand
    BY <1>17 DEF ProcessCommand
  <1>18. CASE WriteBack
    BY <1>18 DEF WriteBack
  <1>19. CASE PpcRom
    BY <1>19 DEF PpcRom
  <1>20. CASE PpcBody
    BY <1>20 DEF PpcBody
  <1>21. CASE PpcClear
    BY <1>21 DEF PpcClear
  <1>22. CASE PpcWait
    BY <1>22 DEF PpcWait
  <1>23. CASE PpcAnswer
    BY <1>23 DEF PpcAnswer
  <1>24. CASE PpcSend
    BY <1>24 DEF PpcSend
  <1>25. CASE Evict
    BY <1>25 DEF Evict
  <1>26. CASE UNCHANGED vars
    BY <1>26 DEF vars
  <1> QED
    BY <1>1, <1>2, <1>3, <1>4, <1>5, <1>6, <1>7, <1>8, <1>9, <1>10, <1>11, <1>12, <1>13, <1>14, <1>15, <1>16, <1>17, <1>18, <1>19, <1>20, <1>21, <1>22, <1>23, <1>24, <1>25, <1>26
       DEF Next, Arm, Ppc, Prepared, App, Serve

-------------------------------------------------------------------------------
(* The messages.                                                            *)

Prints(s) == Cardinality({i \in DOMAIN s : s[i] = "print"})

(* What a message more adds to the characters sent. *)
LEMMA PrintsAppend ==
  ASSUME NEW s \in Seq(Command), NEW m \in Command
  PROVE  Prints(Append(s, m)) = Prints(s) + (IF m = "print" THEN 1 ELSE 0)
  <1> DEFINE S == {i \in DOMAIN s : s[i] = "print"}
             t == Append(s, m)
             T == {i \in DOMAIN t : t[i] = "print"}
  <1>1. Len(s) \in Nat /\ DOMAIN s = 1 .. Len(s) /\ DOMAIN t = 1 .. Len(s) + 1
    OBVIOUS
  <1>2. t[Len(s) + 1] = m /\ \A i \in 1 .. Len(s) : t[i] = s[i]
    OBVIOUS
  <1>3. IsFiniteSet(S)
    <2>1. IsFiniteSet(1 .. Len(s)) /\ S \subseteq 1 .. Len(s)
      BY <1>1, FS_Interval
    <2> HIDE DEF S
    <2> QED
      BY <2>1, FS_Subset
  <1>4. Len(s) + 1 \notin S
    BY <1>1
  <1>5. T = IF m = "print" THEN S \cup {Len(s) + 1} ELSE S
    BY <1>1, <1>2
  <1>6. Cardinality(S) \in Nat
    BY <1>3, FS_CardinalityType
  <1> HIDE DEF S, T
  <1>7. Cardinality(T) = Cardinality(S) + (IF m = "print" THEN 1 ELSE 0)
    <2>1. Cardinality(S \cup {Len(s) + 1}) = Cardinality(S) + 1
      BY <1>3, <1>4, FS_AddElement
    <2> QED
      BY <2>1, <1>5, <1>6
  <1> QED
    BY <1>7 DEF S, T, Prints

LEMMA PrintsBound ==
  ASSUME NEW s \in Seq(Command)
  PROVE  Prints(s) \in Nat /\ Prints(s) <= Len(s)
  <1> DEFINE S == {i \in DOMAIN s : s[i] = "print"}
  <1>1. Len(s) \in Nat /\ S \subseteq 1 .. Len(s)
    OBVIOUS
  <1>2. IsFiniteSet(1 .. Len(s)) /\ Cardinality(1 .. Len(s)) = Len(s)
    BY <1>1, FS_Interval
  <1>3. IsFiniteSet(S) /\ Cardinality(S) <= Len(s)
    BY <1>1, <1>2, FS_Subset
  <1> QED
    BY <1>3, FS_CardinalityType DEF Prints

(* The types HandTypes and LoadTypes leave open. *)
SharedTypes ==
  /\ placed \subseteq 1 .. PhdrMax + MaxBeyond
  /\ errno \in BOOLEAN /\ res \in {-1, 0, 1}
  /\ interrupts \in BOOLEAN /\ caches \in BOOLEAN
  /\ mail \in Word /\ line \in Word \cup {"none"} /\ (dirty => line # "none")
  /\ rom \in {"idle", "running", "decrypted", "failed"}
  /\ ppc \in {"reset", "rom", "stopped", "body", "kernel", "stub", "crashed",
              "waiting", "started", "sent"}
  /\ target \in Word
MessageTypes ==
  /\ msg \in Command /\ taken \in Command
  /\ x1 \in BOOLEAN /\ ctrl \in BOOLEAN /\ bias \in BOOLEAN
  /\ armmsg \in {"junk", "zero", "bias"} /\ reply \in {"none", "junk", "zero", "bias"}
  /\ sent \in Seq(Command) /\ Len(sent) <= MaxMessages

(* X1 stands for the message OpenBIOS waits to be answered, and what the ARM *)
(* has in hand is that message.                                              *)
InHand ==
  /\ x1 => ppc = "sent"
  /\ at \in Serving \ {"poll"} => x1
  /\ at \in {"message", "command", "writeback"} => ctrl
  /\ at \in {"command", "writeback", "poweroff", "reboot"} => taken = msg

Bias == IF bias THEN "bias" ELSE "zero"
(* The answer is in ARMMSG before X1 is cleared. *)
AnswerReady ==
  ppc = "sent" /\ msg = "bias" /\ (~x1 \/ at = "writeback") => armmsg = Bias
Replies ==
  /\ at \notin Serving => reply = "none"
  /\ ReplyIsBias

(* Every character sent is printed, or in the ARM's hand. *)
Printed ==
  printed + (IF x1 /\ msg = "print" /\ at # "writeback" THEN 1 ELSE 0) = Prints(sent)

MessageInv ==
  SharedTypes /\ MessageTypes /\ InHand /\ AnswerReady /\ Replies /\ printed \in Nat /\ Printed

LEMMA MessageInit == Init => MessageInv
  <1> SUFFICES ASSUME Init PROVE MessageInv
    OBVIOUS
  <1> USE DEF Init, ElfInit
  <1>1. SharedTypes
    BY DEF SharedTypes, Word
  <1>2. MessageTypes
    <2>1. sent \in Seq(Command) /\ Len(sent) <= MaxMessages
      BY PpcStartAssumption
    <2> QED
      BY <2>1 DEF MessageTypes, Command
  <1>3. InHand /\ AnswerReady /\ Replies
    BY DEF InHand, AnswerReady, Replies, ReplyIsBias, Serving
  <1>4. Printed
    <2>1. {i \in DOMAIN sent : sent[i] = "print"} = {}
      OBVIOUS
    <2>2. Prints(sent) = 0
      BY <2>1, FS_EmptySet DEF Prints
    <2> QED
      BY <2>2 DEF Printed
  <1> QED
    BY <1>1, <1>2, <1>3, <1>4 DEF MessageInv

(* Nothing but the messages' own steps touches them. *)
LEMMA SharedStep == LoadInv /\ HandInv /\ SharedTypes /\ [Next]_vars => SharedTypes'
  <1> SUFFICES ASSUME LoadInv, HandInv, SharedTypes, [Next]_vars PROVE SharedTypes'
    OBVIOUS
  <1> USE DEF SharedTypes, Word, evars, start, memory, power, ipc, Preparing, PrepareTo, Running, RunTo
  <1>1. CASE LoadFile
    <2>1. UNCHANGED <<interrupts, caches, mail, line, dirty, rom, ppc, target>>
      BY <1>1 DEF LoadFile
    <2>2. placed' \subseteq 1 .. PhdrMax + MaxBeyond
      <3>1. placed' = placed \/ (k <= PhdrMax + MaxBeyond /\ placed' = placed \cup {k})
        BY <1>1 DEF LoadFile, ElfNext, Loop, ReadHeader, ReadTable, Prepare, Skip, OutOfBounds, Load,
           LoadFails, LoadDone, AtHeader
      <3>2. k \in Nat \ {0} /\ PhdrMax + MaxBeyond \in Nat
        BY PpcElfAssumption DEF LoadInv, LoadTypes
      <3>3. k <= PhdrMax + MaxBeyond => k \in 1 .. PhdrMax + MaxBeyond
        BY <3>2
      <3>4. placed \subseteq 1 .. PhdrMax + MaxBeyond
        OBVIOUS
      <3> HIDE DEF SharedTypes
      <3> QED
        BY <3>1, <3>3, <3>4
    <2>3. errno' \in BOOLEAN /\ res' \in {-1, 0, 1}
      BY <1>1 DEF LoadFile, ElfNext, Loop, ReadHeader, ReadTable, Prepare, Skip, OutOfBounds, Load,
         LoadFails, LoadDone, Return, ReturnErrno, SeekFails
    <2> QED
      BY <2>1, <2>2, <2>3
  <1>2. CASE Race
    BY <1>2 DEF Race
  <1>3. CASE Watch
    BY <1>3 DEF Watch
  <1>4. CASE MailOnes
    BY <1>4 DEF MailOnes, WriteMail
  <1>5. CASE MailFlush
    BY <1>5 DEF MailFlush, FlushMail
  <1>6. CASE WaitStub
    BY <1>6 DEF WaitStub
  <1>7. CASE JumpStub
    BY <1>7 DEF JumpStub
  <1>8. CASE Invalidate
    BY <1>8 DEF Invalidate
  <1>9. CASE Look
    BY <1>9 DEF Look
  <1>10. CASE AppPanic
    BY <1>10 DEF AppPanic
  <1>11. CASE ReadRtcBias
    BY <1>11 DEF ReadRtcBias
  <1>12. CASE Quiesce
    <2>1. interrupts' \in BOOLEAN
      BY <1>12 DEF Quiesce
    <2> QED
      BY <1>12, <2>1 DEF Quiesce
  <1>13. CASE MemShutdown
    BY <1>13 DEF MemShutdown, FlushMail
  <1>14. CASE StartPpc
    BY <1>14 DEF StartPpc, WriteMail
  <1>15. CASE ReadCtrl
    BY <1>15 DEF ReadCtrl
  <1>16. CASE ReadMessage
    BY <1>16 DEF ReadMessage
  <1>17. CASE ProcessCommand
    BY <1>17 DEF ProcessCommand
  <1>18. CASE WriteBack
    BY <1>18 DEF WriteBack
  <1>19. CASE PpcRom
    BY <1>19 DEF PpcRom
  <1>20. CASE PpcBody
    BY <1>20 DEF PpcBody
  <1>21. CASE PpcClear
    BY <1>21 DEF PpcClear
  <1>22. CASE PpcWait
    BY <1>22 DEF PpcWait
  <1>23. CASE PpcAnswer
    BY <1>23 DEF PpcAnswer
  <1>24. CASE PpcSend
    BY <1>24 DEF PpcSend
  <1>25. CASE Evict
    BY <1>25 DEF Evict
  <1>26. CASE UNCHANGED vars
    BY <1>26 DEF vars
  <1> QED
    BY <1>1, <1>2, <1>3, <1>4, <1>5, <1>6, <1>7, <1>8, <1>9, <1>10, <1>11, <1>12, <1>13, <1>14, <1>15, <1>16, <1>17, <1>18, <1>19, <1>20, <1>21, <1>22, <1>23, <1>24, <1>25, <1>26
       DEF Next, Arm, Ppc, Prepared, App, Serve

LEMMA MessageStep ==
  LoadInv /\ HandInv /\ MessageInv /\ [Next]_vars => MessageTypes' /\ InHand' /\ AnswerReady' /\ Replies'
  <1> SUFFICES ASSUME LoadInv, HandInv, MessageInv, [Next]_vars
               PROVE  MessageTypes' /\ InHand' /\ AnswerReady' /\ Replies'
    OBVIOUS
  <1> USE DEF MessageInv, MessageTypes, InHand, AnswerReady, Replies, ReplyIsBias, Bias, Serving,
              Command, HandInv, Where, Mailbox, Later,
              evars, start, memory, power, ipc, Preparing, PrepareTo, Running, RunTo
  <1>1. CASE LoadFile
    BY <1>1 DEF LoadFile
  <1>2. CASE Race
    BY <1>2 DEF Race
  <1>3. CASE Watch
    BY <1>3 DEF Watch
  <1>4. CASE MailOnes
    BY <1>4 DEF MailOnes, WriteMail
  <1>5. CASE MailFlush
    BY <1>5 DEF MailFlush, FlushMail
  <1>6. CASE WaitStub
    BY <1>6 DEF WaitStub
  <1>7. CASE JumpStub
    BY <1>7 DEF JumpStub
  <1>8. CASE Invalidate
    BY <1>8 DEF Invalidate
  <1>9. CASE Look
    BY <1>9 DEF Look
  <1>10. CASE AppPanic
    BY <1>10 DEF AppPanic
  <1>11. CASE ReadRtcBias
    BY <1>11 DEF ReadRtcBias
  <1>12. CASE Quiesce
    BY <1>12 DEF Quiesce
  <1>13. CASE MemShutdown
    BY <1>13 DEF MemShutdown, FlushMail
  <1>14. CASE StartPpc
    BY <1>14 DEF StartPpc, WriteMail
  <1>15. CASE ReadCtrl
    BY <1>15 DEF ReadCtrl
  <1>16. CASE ReadMessage
    BY <1>16 DEF ReadMessage
  <1>17. CASE ProcessCommand
    BY <1>17 DEF ProcessCommand
  <1>18. CASE WriteBack
    BY <1>18 DEF WriteBack
  <1>19. CASE PpcRom
    BY <1>19 DEF PpcRom
  <1>20. CASE PpcBody
    BY <1>20 DEF PpcBody
  <1>21. CASE PpcClear
    BY <1>21 DEF PpcClear
  <1>22. CASE PpcWait
    BY <1>22 DEF PpcWait
  <1>23. CASE PpcAnswer
    BY <1>23 DEF PpcAnswer
  <1>24. CASE PpcSend
    <2>1. PICK m \in Command : msg' = m /\ sent' = Append(sent, m)
      BY <1>24 DEF PpcSend
    <2>2. sent' \in Seq(Command) /\ Len(sent') <= MaxMessages
      <3>1. Len(sent') = Len(sent) + 1 /\ sent' \in Seq(Command) /\ Len(sent) \in Nat
        BY <2>1
      <3> QED
        BY <1>24, <3>1, PpcStartAssumption DEF PpcSend
    <2>3. ppc = "started" /\ ~x1 /\ x1' = TRUE /\ ppc' = "sent"
      BY <1>24 DEF PpcSend
    <2>4. UNCHANGED <<at, armmsg, ctrl, taken, bias, reply>>
      BY <1>24 DEF PpcSend
    <2> QED
      BY <2>1, <2>2, <2>3, <2>4
  <1>25. CASE Evict
    BY <1>25 DEF Evict
  <1>26. CASE UNCHANGED vars
    BY <1>26 DEF vars
  <1> QED
    BY <1>1, <1>2, <1>3, <1>4, <1>5, <1>6, <1>7, <1>8, <1>9, <1>10, <1>11, <1>12, <1>13, <1>14, <1>15, <1>16, <1>17, <1>18, <1>19, <1>20, <1>21, <1>22, <1>23, <1>24, <1>25, <1>26
       DEF Next, Arm, Ppc, Prepared, App, Serve

(* The characters printed keep up with the characters sent. *)
LEMMA PrintedStep ==
  LoadInv /\ HandInv /\ MessageInv /\ [Next]_vars => printed' \in Nat /\ Printed'
  <1> SUFFICES ASSUME LoadInv, HandInv, MessageInv, [Next]_vars PROVE printed' \in Nat /\ Printed'
    OBVIOUS
  <1>0. Prints(sent) \in Nat
    BY PrintsBound DEF MessageInv, MessageTypes
  <1> USE DEF MessageInv, MessageTypes, InHand, Printed, Serving, HandInv, Where, Mailbox, Later,
              evars, start, memory, power, ipc, Preparing, PrepareTo, Running, RunTo
  <1>1. CASE LoadFile
    BY <1>1 DEF LoadFile
  <1>2. CASE Race
    BY <1>2, <1>0 DEF Race
  <1>3. CASE Watch
    BY <1>3, <1>0 DEF Watch
  <1>4. CASE MailOnes
    BY <1>4, <1>0 DEF MailOnes
  <1>5. CASE MailFlush
    BY <1>5, <1>0 DEF MailFlush
  <1>6. CASE WaitStub
    BY <1>6, <1>0 DEF WaitStub
  <1>7. CASE JumpStub
    BY <1>7, <1>0 DEF JumpStub
  <1>8. CASE Invalidate
    BY <1>8, <1>0 DEF Invalidate
  <1>9. CASE Look
    BY <1>9, <1>0 DEF Look
  <1>10. CASE AppPanic
    BY <1>10, <1>0 DEF AppPanic
  <1>11. CASE ReadRtcBias
    BY <1>11, <1>0 DEF ReadRtcBias
  <1>12. CASE Quiesce
    BY <1>12, <1>0 DEF Quiesce
  <1>13. CASE MemShutdown
    BY <1>13, <1>0 DEF MemShutdown
  <1>14. CASE StartPpc
    BY <1>14, <1>0 DEF StartPpc
  <1>15. CASE ReadCtrl
    BY <1>15, <1>0 DEF ReadCtrl
  <1>16. CASE ReadMessage
    BY <1>16, <1>0 DEF ReadMessage
  <1>17. CASE ProcessCommand
    BY <1>17, <1>0 DEF ProcessCommand
  <1>18. CASE WriteBack
    BY <1>18, <1>0 DEF WriteBack
  <1>19. CASE PpcRom
    BY <1>19, <1>0 DEF PpcRom
  <1>20. CASE PpcBody
    BY <1>20, <1>0 DEF PpcBody
  <1>21. CASE PpcClear
    BY <1>21, <1>0 DEF PpcClear
  <1>22. CASE PpcWait
    BY <1>22, <1>0 DEF PpcWait
  <1>23. CASE PpcAnswer
    BY <1>23, <1>0 DEF PpcAnswer
  <1>24. CASE PpcSend
    <2>1. PICK m \in Command : msg' = m /\ sent' = Append(sent, m)
      BY <1>24 DEF PpcSend
    <2>2. Prints(sent') = Prints(sent) + (IF m = "print" THEN 1 ELSE 0)
      BY <2>1, PrintsAppend
    <2>3. ~x1 /\ x1' = TRUE /\ printed' = printed /\ at' = at
      BY <1>24 DEF PpcSend
    <2>4. at # "writeback"
      BY <2>3
    <2> QED
      BY <2>1, <2>2, <2>3, <2>4, <1>0
  <1>25. CASE Evict
    BY <1>25, <1>0 DEF Evict
  <1>26. CASE UNCHANGED vars
    BY <1>26 DEF vars
  <1> QED
    BY <1>1, <1>2, <1>3, <1>4, <1>5, <1>6, <1>7, <1>8, <1>9, <1>10, <1>11, <1>12, <1>13, <1>14, <1>15, <1>16, <1>17, <1>18, <1>19, <1>20, <1>21, <1>22, <1>23, <1>24, <1>25, <1>26
       DEF Next, Arm, Ppc, Prepared, App, Serve

-------------------------------------------------------------------------------
(* A table that leaves phdrs a zero at its end. *)
InTable ==
  Len(elf.phdrs) < PhdrMax /\ pc = "loop" =>
    \/ count = 0
    \/ count = N - k + 1 /\ k <= N + 1
    \/ count = 1 /\ k <= N + 1

LEMMA InTableStep == LoadInv /\ InTable /\ ElfNext => InTable'
  <1> SUFFICES ASSUME LoadInv, InTable, ElfNext, N < PhdrMax, pc' = "loop"
               PROVE  count' = 0 \/ (count' = N - k' + 1 /\ k' <= N + 1) \/ (count' = 1 /\ k' <= N + 1)
    BY FileKept DEF InTable, N
  <1> USE DEF LoadInv, LoadTypes
  <1>0. N \in Nat /\ PhdrMax \in Nat /\ DataHeaders \subseteq 1 .. N
    BY TableType, PpcElfAssumption
  <1>1. CASE Prepare
    BY <1>1, <1>0 DEF Prepare, BeforeLoop
  <1>2. CASE Skip
    BY <1>2, <1>0 DEF Skip, NextHeader, AtHeader, InTable, N
  <1>3. CASE Load
    <2>1. count > 0 /\ count' = 1 /\ k' = k + 1 /\ pc = "loop"
      BY <1>3 DEF Load, NextHeader, AtHeader
    <2>2. k <= N + 1
      BY <2>1, <1>0 DEF InTable, N
    <2>3. k \in DataHeaders
      BY <1>3, <2>1, <2>2, <1>0, DataMet DEF Load, BeforeLoop
    <2> QED
      BY <2>1, <2>3, <1>0
  <1>4. CASE ReadHeader \/ ReadTable \/ OutOfBounds \/ LoadFails \/ LoadDone
    BY <1>4 DEF ReadHeader, ReadTable, OutOfBounds, LoadFails, LoadDone, AtHeader,
                Return, ReturnErrno, SeekFails
  <1> QED
    BY <1>1, <1>2, <1>3, <1>4 DEF ElfNext, Loop

-------------------------------------------------------------------------------
LEMMA LoadStep == LoadInv /\ InTable /\ [Next]_vars => LoadInv' /\ InTable'
  <1> SUFFICES ASSUME LoadInv, InTable, [Next]_vars PROVE LoadInv' /\ InTable'
    OBVIOUS
  <1>1. CASE ElfNext
    BY <1>1, TypesStep, BeforeStep, BehindStep, CountedStep, LoadedStep, InTableStep, FileKept
       DEF LoadInv
  <1>2. CASE UNCHANGED evars
    <2>1. UNCHANGED <<elf, pc, count, k, placed, entry>>
      BY <1>2 DEF evars
    <2> QED
      BY <2>1 DEF LoadInv, LoadTypes, BeforeLoop, Counted, Behind, ConsecutiveLoaded, InTable,
                  Consecutive, DataHeaders, N
  <1>3. ElfNext \/ UNCHANGED evars
    BY DEF Next, Arm, Ppc, Prepared, App, Serve, LoadFile, Race, Watch, MailOnes, MailFlush,
           WaitStub, JumpStub, Invalidate, Look, AppPanic, ReadRtcBias, Quiesce, MemShutdown,
           StartPpc, ReadCtrl, ReadMessage, ProcessCommand, WriteBack, PpcRom, PpcBody,
           PpcClear, PpcWait, PpcAnswer, PpcSend, Evict, vars
  <1> QED
    BY <1>1, <1>2, <1>3

(* The inductive invariant of the two processors and the loader. *)
THEOREM Invariant == Spec => [](LoadInv /\ InTable /\ HandInv)
  <1>1. Init => LoadInv /\ InTable /\ HandInv
    BY LoadInit, HandInit DEF Init, ElfInit, InTable
  <1>2. LoadInv /\ InTable /\ HandInv /\ [Next]_vars => (LoadInv /\ InTable /\ HandInv)'
    BY LoadStep, HandStep
  <1> QED
    BY <1>1, <1>2, PTL DEF Spec

(* ppc_load_file loads every segment with data of a file in which they follow *)
(* each other, whatever the size of the table and of phdrs.                   *)
THEOREM ConsecutiveCorrect == Spec => []ConsecutiveLoaded
  <1>1. LoadInv => ConsecutiveLoaded
    BY DEF LoadInv
  <1> QED
    BY <1>1, Invariant, PTL

(* The overwritten counter never carries the loop out of a phdrs with room.   *)
THEOREM TableCorrect == Spec => []TableNotOverrun
  <1>1. LoadInv /\ InTable => TableNotOverrun
    <2> SUFFICES ASSUME LoadInv, InTable, N < PhdrMax, pc = "loop", count > 0
                 PROVE  k <= PhdrMax
      BY DEF TableNotOverrun, N
    <2>1. N \in Nat /\ PhdrMax \in Nat /\ count \in Nat /\ k \in Nat
      BY TableType, PpcElfAssumption DEF LoadInv, LoadTypes
    <2> QED
      BY <2>1 DEF InTable, N
  <1> QED
    BY <1>1, Invariant, PTL

(* Both: what the overwritten counter cannot break.                           *)
THEOREM CounterCorrect == Spec => []CounterHarmless
  <1>1. ConsecutiveLoaded /\ TableNotOverrun => CounterHarmless
    BY DEF CounterHarmless
  <1> QED
    BY <1>1, ConsecutiveCorrect, TableCorrect, PTL

(* ready is set only for a PowerPC that spins in the wait stub, and stays true *)
(* of it until app_run_sram writes the entry point.                            *)
THEOREM ReadyCorrect == Spec => []ReadyMeansWaiting
  <1>1. HandInv => ReadyMeansWaiting
    BY DEF HandInv, HandTypes, Where, Mailbox, ReadyMeansWaiting, Later
  <1> QED
    BY <1>1, Invariant, PTL

(* No segment is written to memory while the PowerPC runs something in it.     *)
THEOREM HeldCorrect == Spec => []HeldWhileLoading
  <1>1. HandInv => HeldWhileLoading
    BY DEF HandInv, Where, Idle, Mailbox, HeldWhileLoading, Later
  <1> QED
    BY <1>1, Invariant, PTL

(* OpenBIOS starts at its entry point, after the loader has left MEM2.         *)
THEOREM StartedCorrect == Spec => []StartedLast
  <1>1. HandInv => StartedLast
    BY DEF HandInv, Where, Mailbox, StartedLast
  <1> QED
    BY <1>1, Invariant, PTL

THEOREM MessageInvariant == Spec => []MessageInv
  <1>1. LoadInv /\ HandInv /\ MessageInv /\ [Next]_vars => MessageInv'
    BY SharedStep, MessageStep, PrintedStep DEF MessageInv
  <1> QED
    BY MessageInit, <1>1, Invariant, PTL DEF Spec

(* Types of both processors, and that no more is printed than can be sent.     *)
THEOREM TypeCorrect == Spec => []TypeOK
  <1>1. LoadInv /\ HandInv /\ MessageInv => TypeOK
    <2> SUFFICES ASSUME LoadInv, HandInv, MessageInv PROVE TypeOK
      OBVIOUS
    <2>1. ElfTypeOK
      BY DEF LoadInv, LoadTypes, MessageInv, SharedTypes, ElfTypeOK
    <2>2. printed \in 0 .. MaxMessages
      <3>1. Prints(sent) \in Nat /\ Prints(sent) <= Len(sent) /\ Len(sent) \in Nat
        BY PrintsBound DEF MessageInv, MessageTypes
      <3>2. printed \in Nat /\ printed <= Prints(sent)
        BY <3>1 DEF MessageInv, Printed
      <3> QED
        BY <3>1, <3>2, PpcStartAssumption DEF MessageInv, MessageTypes
    <2> QED
      BY <2>1, <2>2 DEF TypeOK, HandInv, HandTypes, Later, Serving, MessageInv, SharedTypes,
                        MessageTypes
  <1> QED
    BY <1>1, Invariant, MessageInvariant, PTL

(* Every character OpenBIOS sends is printed exactly once.                     *)
THEOREM PrintedCorrect == Spec => []PrintedOnce
  <1>1. MessageInv => PrintedOnce
    BY DEF MessageInv, Printed, Prints, PrintedOnce
  <1> QED
    BY <1>1, MessageInvariant, PTL

(* OpenBIOS reads the clock bias, and no answer to an earlier message.         *)
THEOREM ReplyCorrect == Spec => []ReplyIsBias
  <1>1. MessageInv => ReplyIsBias
    BY DEF MessageInv, Replies
  <1> QED
    BY <1>1, MessageInvariant, PTL

(* OpenBIOS is served: each message has its effect once, and its question is  *)
(* answered truly.                                                            *)
THEOREM ServedCorrect == Spec => []Served
  <1>1. PrintedOnce /\ ReplyIsBias => Served
    BY DEF Served
  <1> QED
    BY <1>1, PrintedCorrect, ReplyCorrect, PTL
===============================================================================
