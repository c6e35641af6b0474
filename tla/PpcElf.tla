-------------------------------- MODULE PpcElf --------------------------------
(***************************************************************************)
(* ppc_load_file of arm/system/ppc_elf.c: OpenBIOS is read from the SD     *)
(* card, program header by program header, into memory.  The PowerPC is    *)
(* started in the middle of it (ppc_prepare); here that is one step, what  *)
(* it does is in PpcStart.                                                 *)
(*                                                                         *)
(* A program header is what the loop does with it: "skip" is not PT_LOAD,  *)
(* "outside" fails _check_physrange, "empty" has p_filesz = 0, "data" has  *)
(* data to be loaded.  A return value is its sign.                         *)
(***************************************************************************)
EXTENDS Integers, Sequences

CONSTANTS
  PhdrMax,    \* PHDR_MAX
  Files,      \* what may be in the file
  MaxBeyond   \* bound: headers read beyond the end of phdrs

Header == {"skip", "outside", "empty", "data"}

\* usable: the ELF header has the right magic and an entry point in memory.
ASSUME PpcElfAssumption ==
  /\ PhdrMax \in Nat \ {0} /\ MaxBeyond \in Nat
  /\ Files \subseteq [usable : BOOLEAN, phdrs : Seq(Header)]

VARIABLES
  elf,        \* the file
  pc,
  count, k,   \* `count', and the index of *phdr, from one
  placed,     \* the headers whose data is in memory
  errno,      \* is errno other than zero?
  entry,      \* has *entry been set?
  res         \* sign of what was returned

evars == <<elf, pc, count, k, placed, errno, entry, res>>

\* Nothing resets errno, so it may hold the error of any earlier call.
ElfInit ==
  /\ elf \in Files
  /\ pc = "open"
  /\ count = 0 /\ k = 1
  /\ placed = {}
  /\ errno \in BOOLEAN
  /\ entry = FALSE
  /\ res = 0

Return(r) == pc' = "returned" /\ res' = r

\* -errno after a short read: the end of the file does not touch errno.
ReturnErrno ==
  /\ errno' \in {TRUE, errno}
  /\ Return(IF errno' THEN -1 ELSE 0)

\* `return -res' where fseek has failed with -1.
SeekFails == errno' = TRUE /\ Return(1)

---------------------------------------------------------------------------
\* fopen, the ELF header and the checks on it.
ReadHeader ==
  /\ pc = "open"
  /\ \/ /\ errno' = TRUE /\ Return(-1)                    \* fopen
     \/ /\ errno' \in {TRUE, errno} /\ Return(-1)         \* short header
     \/ /\ ~elf.usable \/ Len(elf.phdrs) \notin 1 .. PhdrMax
        /\ Return(-1) /\ UNCHANGED errno
     \/ /\ elf.usable /\ Len(elf.phdrs) \in 1 .. PhdrMax
        /\ pc' = "table"
        /\ UNCHANGED <<errno, res>>
  /\ UNCHANGED <<elf, count, k, placed, entry>>

ReadTable ==
  /\ pc = "table"
  /\ \/ SeekFails /\ UNCHANGED count
     \/ ReturnErrno /\ UNCHANGED count
     \/ count' = Len(elf.phdrs) /\ pc' = "prepare" /\ UNCHANGED <<errno, res>>
  /\ UNCHANGED <<elf, k, placed, entry>>

\* ppc_prepare: returns nothing, and is not asked whether it worked.
Prepare ==
  /\ pc = "prepare"
  /\ pc' = "loop"
  /\ UNCHANGED <<elf, count, k, placed, errno, entry, res>>

\* What phdrs[k] may hold: the file's headers, zeros up to the end of the array
\* (it is static and filled once), and whatever follows it in memory.
HeaderAt(n) ==
  IF n <= Len(elf.phdrs) THEN {elf.phdrs[n]}
  ELSE IF n <= PhdrMax THEN {"skip"}
  ELSE Header

\* while (count--) with phdr = &phdrs[k]
AtHeader(h) ==
  /\ pc = "loop" /\ count > 0
  /\ k <= PhdrMax + MaxBeyond
  /\ h \in HeaderAt(k)

NextHeader(c) == count' = c /\ k' = k + 1

Skip ==
  /\ AtHeader("skip") \/ AtHeader("empty")
  /\ NextHeader(count - 1)
  /\ UNCHANGED <<elf, pc, placed, errno, entry, res>>

OutOfBounds ==
  /\ AtHeader("outside")
  /\ Return(-1)
  /\ UNCHANGED <<elf, count, k, placed, errno, entry>>

\* count = fread(...): the loop's counter becomes the number of items read.
LoadUncounted ==
  /\ AtHeader("data")
  /\ placed' = placed \cup {k}
  /\ NextHeader(0)
  /\ UNCHANGED <<elf, pc, errno, entry, res>>
Load ==
  /\ AtHeader("data")
  /\ placed' = placed \cup {k}
  /\ NextHeader(1)
  /\ UNCHANGED <<elf, pc, errno, entry, res>>

LoadFails ==
  /\ AtHeader("data")
  /\ \/ SeekFails /\ UNCHANGED count
     \/ ReturnErrno /\ count' = 0
  /\ UNCHANGED <<elf, k, placed, entry>>

\* "ELF: load done."
LoadDone ==
  /\ pc = "loop" /\ count = 0
  /\ entry' = TRUE
  /\ Return(0)
  /\ UNCHANGED <<elf, count, k, placed, errno>>

Loop == Skip \/ OutOfBounds \/ Load \/ LoadFails \/ LoadDone
ElfNext == ReadHeader \/ ReadTable \/ Prepare \/ Loop

---------------------------------------------------------------------------
\* Types of the loader's state.
ElfTypeOK ==
  /\ elf \in Files
  /\ pc \in {"open", "table", "prepare", "loop", "returned"}
  /\ count \in Nat /\ k \in Nat \ {0}
  /\ placed \subseteq 1 .. PhdrMax + MaxBeyond
  /\ errno \in BOOLEAN /\ entry \in BOOLEAN
  /\ res \in {-1, 0, 1}

DataHeaders == {n \in DOMAIN elf.phdrs : elf.phdrs[n] = "data"}

\* No other header stands between two of those with data.
Consecutive ==
  \A a, b \in DataHeaders, n \in DOMAIN elf.phdrs : a <= n /\ n <= b => n \in DataHeaders

\* "ELF: load done." is true of a file whose segments with data follow each
\* other in its table: fread's overwriting of the counter costs it nothing.
\* (entry is set exactly when the message is printed.)
ConsecutiveLoaded == entry /\ Consecutive => DataHeaders \subseteq placed

\* The overwritten counter never carries the loop beyond phdrs when the array is
\* not full: it then ends on one of its zeros.
TableNotOverrun ==
  Len(elf.phdrs) < PhdrMax /\ pc = "loop" /\ count > 0 => k <= PhdrMax

\* So the counter costs nothing where the headers are laid out as linkers do.
CounterHarmless == ConsecutiveLoaded /\ TableNotOverrun

\* "ELF: load done.": every segment of the file that has data is in memory.
LoadDoneIsTrue == entry => DataHeaders \subseteq placed
===============================================================================
