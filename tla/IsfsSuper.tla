------------------------------ MODULE IsfsSuper ------------------------------
(***************************************************************************)
(* Mounting the ISFS volumes: isfs_init of arm/storage/nand/isfs/isfs.c,   *)
(* isfs_load_super and isfs_find_super of super.c, isfs_read_volume of     *)
(* volume.c.  A volume keeps its superblock in a ring of slots; each       *)
(* commit writes the next slot with the next generation.  Loading looks    *)
(* for the newest generation below a limit by its header, reads that slot  *)
(* whole, and retries below it when the slot turns out to be damaged.      *)
(*                                                                         *)
(* The flash does not change while the loader runs (NAND_WRITE_ENABLED is  *)
(* 0).  A page is read as 0 (clean), 1 (ECC corrected it) or -1 (not       *)
(* correctable); the HMAC of a slot matches none, one or both of the       *)
(* copies that its spare pages keep.                                       *)
(***************************************************************************)
EXTENDS Integers, FiniteSets

CONSTANTS
  Volumes,      \* isfs_num_volumes()
  Slots,        \* super_count of every volume
  HeadPages,    \* pages of a slot's first cluster
  Pages,        \* pages of a slot
  Limit,        \* max_generation of each volume
  SlotImages    \* the slots the flash may hold

PageResult == {-1, 0, 1}

\* What a slot of the flash holds: version is -1 without the magic SFFS or SFS!.
SlotImage == [page : [1 .. Pages -> PageResult], version : {-1, 0, 1},
              generation : Nat, matched : 0 .. 2]

ASSUME IsfsAssumption ==
  /\ Volumes \in Nat \ {0}
  /\ Slots \in Nat \ {0}
  /\ HeadPages \in Nat \ {0} /\ Pages \in Nat /\ HeadPages <= Pages
  /\ Limit \in [0 .. Volumes - 1 -> Nat]
  /\ SlotImages \subseteq SlotImage

Volume == 0 .. Volumes - 1
Slot == 0 .. Slots - 1

Ok == 0
EccCorrected == 16       \* 0x10
HmacPartial == 32        \* 0x20
ErrorRead == -32         \* -0x20
ErrorHmac == -64         \* -0x40

VARIABLES
  flash,                 \* the slots of each volume
  index, generation, mounted,  \* of each isfs_ctx
  pc,                    \* "down", "find", "read", "up" (`initialized')
  vol,                   \* the volume isfs_init is at
  i, newest              \* isfs_find_super's `i' and `newest'

ctx == <<index, generation, mounted>>
vars == <<flash, ctx, pc, vol, i, newest>>

None == [index |-> -1, generation |-> 0]

\* Assumed of the flash: the superblocks of volume v below its limit have
\* different generations, since isfs_commit_super uses a new one per slot it
\* writes.  Above the limit, copies of the boot exploit may share one.
DistinctGenerations(v) ==
  \A s, t \in Slot :
    /\ flash[v][s].version >= 0 /\ flash[v][t].version >= 0
    /\ flash[v][s].generation = flash[v][t].generation
    /\ flash[v][s].generation < Limit[v]
    => s = t

Init ==
  /\ flash \in [Volume -> [Slot -> SlotImages]]
  /\ \A v \in Volume : DistinctGenerations(v)
  /\ index = [v \in Volume |-> 0]
  /\ generation = [v \in Volume |-> 0]
  /\ mounted = [v \in Volume |-> FALSE]
  /\ pc = "down" /\ vol = 0 /\ i = 0 /\ newest = None

\* isfs_read_volume without HMAC: the status of the last page read wins.
ReadHead(s) ==
  IF \E p \in 1 .. HeadPages : s.page[p] < 0 THEN ErrorRead
  ELSE IF s.page[HeadPages] > 0 THEN EccCorrected ELSE Ok

\* isfs_read_volume with HMAC: the verdict on the HMAC replaces the pages' status.
ReadSuperRc(s) ==
  IF \E p \in 1 .. Pages : s.page[p] < 0 THEN ErrorRead
  ELSE IF s.matched = 2 THEN Ok
  ELSE IF s.matched = 1 THEN HmacPartial
  ELSE ErrorHmac

\* isfs_find_super's conditions on slot `s', with max_generation `limit'.
Candidate(s, limit) ==
  /\ ReadHead(s) = Ok
  /\ s.version >= 0
  /\ s.generation < limit

---------------------------------------------------------------------------
\* isfs_find_super is called for volume v with max_generation = generation[v].
BeginFind == pc' = "find" /\ i' = 0 /\ newest' = None

\* isfs_load_super starts with the volume's max_generation.
BeginLoad(v) ==
  /\ vol' = v
  /\ generation' = [generation EXCEPT ![v] = Limit[v]]
  /\ BeginFind

\* isfs_init: nothing to do when initialized.
InitVolumes ==
  /\ pc = "down"
  /\ BeginLoad(0)
  /\ UNCHANGED <<flash, index, mounted>>

\* One iteration of isfs_find_super's loop.
ExamineNoNewest ==
  /\ pc = "find" /\ i < Slots
  /\ i' = i + 1
  /\ LET s == flash[vol][i]
     IN newest' = IF Candidate(s, generation[vol])
                  THEN [index |-> i, generation |-> s.generation]
                  ELSE newest
  /\ UNCHANGED <<flash, ctx, pc, vol>>
Examine ==
  /\ pc = "find" /\ i < Slots
  /\ i' = i + 1
  /\ LET s == flash[vol][i]
     IN newest' = IF /\ Candidate(s, generation[vol])
                     /\ s.generation >= newest.generation
                  THEN [index |-> i, generation |-> s.generation]
                  ELSE newest
  /\ UNCHANGED <<flash, ctx, pc, vol>>

\* isfs_find_super returns a slot: isfs_load_super will read it whole.
FoundSameLimit ==
  /\ pc = "find" /\ i = Slots
  /\ newest.index # -1
  /\ index' = [index EXCEPT ![vol] = newest.index]
  /\ pc' = "read"
  /\ UNCHANGED <<flash, generation, mounted, vol, i, newest>>
Found ==
  /\ pc = "find" /\ i = Slots
  /\ newest.index # -1
  /\ index' = [index EXCEPT ![vol] = newest.index]
  /\ generation' = [generation EXCEPT ![vol] = newest.generation]
  /\ pc' = "read"
  /\ UNCHANGED <<flash, mounted, vol, i, newest>>

\* isfs_load_super returns; isfs_init goes on to the next volume.
NextVolume ==
  IF vol + 1 < Volumes
  THEN BeginLoad(vol + 1)
  ELSE pc' = "up" /\ UNCHANGED <<generation, vol, i, newest>>

\* No superblock is left below the limit: isfs_find_super returns -3.
NotFound ==
  /\ pc = "find" /\ i = Slots
  /\ newest.index = -1
  /\ index' = [index EXCEPT ![vol] = -3]
  /\ NextVolume
  /\ UNCHANGED <<flash, mounted>>

\* isfs_find_super cannot allocate its buffer and returns -1.
NoMemory ==
  /\ pc = "find" /\ i = 0
  /\ index' = [index EXCEPT ![vol] = -1]
  /\ NextVolume
  /\ UNCHANGED <<flash, mounted>>

\* isfs_read_super succeeds, HMAC_PARTIAL included: isfs_init mounts the volume.
Accept ==
  /\ pc = "read"
  /\ ReadSuperRc(flash[vol][index[vol]]) >= 0
  /\ mounted' = [mounted EXCEPT ![vol] = TRUE]
  /\ NextVolume
  /\ UNCHANGED <<flash, index>>

\* isfs_read_super fails: look again below the generation just rejected.
RejectGivesUp ==
  /\ pc = "read"
  /\ ReadSuperRc(flash[vol][index[vol]]) < 0
  /\ index' = [index EXCEPT ![vol] = -3]
  /\ NextVolume
  /\ UNCHANGED <<flash, mounted>>
Reject ==
  /\ pc = "read"
  /\ ReadSuperRc(flash[vol][index[vol]]) < 0
  /\ BeginFind
  /\ UNCHANGED <<flash, ctx, vol>>

\* isfs_fini
Fini ==
  /\ pc = "up"
  /\ mounted' = [v \in Volume |-> FALSE]
  /\ pc' = "down"
  /\ UNCHANGED <<flash, index, generation, vol, i, newest>>

Mount == Examine \/ Found \/ NotFound \/ NoMemory \/ Accept \/ Reject
Next == InitVolumes \/ Mount \/ Fini

Spec == Init /\ [][Next]_vars

\* The processor runs isfs_init to its end; nothing forces it to be called.
FairSpec == Spec /\ WF_vars(Mount)

---------------------------------------------------------------------------
\* Types: `newest' and `index' are slots or the codes of isfs_find_super.
TypeOK ==
  /\ flash \in [Volume -> [Slot -> SlotImages]]
  /\ index \in [Volume -> Slot \cup {-1, -3}]
  /\ generation \in [Volume -> Nat]
  /\ mounted \in [Volume -> BOOLEAN]
  /\ pc \in {"down", "find", "read", "up"}
  /\ vol \in Volume
  /\ i \in 0 .. Slots
  /\ newest \in [index : Slot \cup {-1}, generation : Nat]

\* A superblock the loader can use: found by its header, read with a valid HMAC.
Usable(s, limit) == Candidate(s, limit) /\ ReadSuperRc(s) >= 0

\* A mounted volume runs on the newest usable superblock below its limit: a
\* damaged slot costs one generation, never an older one, and nothing at or
\* above max_generation is taken (isfs_load_super, isfs_find_super).
NewestUsable ==
  \A v \in Volume : mounted[v] =>
    /\ index[v] \in Slot
    /\ Usable(flash[v][index[v]], Limit[v])
    /\ generation[v] = flash[v][index[v]].generation
    /\ \A s \in Slot : Usable(flash[v][s], Limit[v])
                         => flash[v][s].generation <= generation[v]

\* A volume is given up for want of a superblock only when none is usable,
\* whatever became of the volumes before it (isfs_init goes on after a failure).
GivenUpOnlyIfNone ==
  \A v \in Volume : pc = "up" /\ ~mounted[v] /\ index[v] = -3
                      => \A s \in Slot : ~Usable(flash[v][s], Limit[v])

\* A retry of isfs_load_super looks strictly below the generation it rejected,
\* so no slot is read twice and the loop ends.
RetriesDescend ==
  [][pc = "find" /\ pc' = "read" => generation'[vol] < generation[vol]]_vars

\* isfs_init always returns, whatever the flash holds.
MountEnds == (pc = "find") ~> (pc = "up")

\* "attempt to read the page (and correct ecc errors)" (volume.c:113): a
\* superblock all of whose pages were read, some after correction, is not
\* passed over for an older one.
CorrectedIsRead(s) ==
  /\ \A p \in 1 .. Pages : s.page[p] >= 0
  /\ s.version >= 0
  /\ s.matched > 0
CorrectedNotSkipped ==
  \A v \in Volume : mounted[v] =>
    \A s \in Slot : CorrectedIsRead(flash[v][s]) /\ flash[v][s].generation < Limit[v]
                      => flash[v][s].generation <= generation[v]
=============================================================================
