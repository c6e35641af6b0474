--------------------------- MODULE IsfsSuperProofs ---------------------------
(* Proofs about IsfsSuper, for every number of volumes and slots, every    *)
(* limit and every content of the flash.                                   *)
EXTENDS IsfsSuper, TLAPS

\* The fields of a slot that the flash may hold have their types.
LEMMA SlotTypes ==
  ASSUME TypeOK, NEW v \in Volume, NEW s \in Slot
  PROVE  /\ flash[v][s] \in SlotImage
         /\ flash[v][s].generation \in Nat
         /\ flash[v][s].version \in {-1, 0, 1}
BY IsfsAssumption DEF TypeOK, SlotImage

\* isfs_init's step to the next volume keeps the types of what it sets.
LEMMA NextVolumeTypes ==
  ASSUME TypeOK, NextVolume
  PROVE  /\ generation' \in [Volume -> Nat] /\ vol' \in Volume
         /\ pc' \in {"find", "up"} /\ i' \in 0 .. Slots
         /\ newest' \in [index : Slot \cup {-1}, generation : Nat]
<1> USE IsfsAssumption DEF TypeOK
<1>1. CASE vol + 1 < Volumes
  <2>1. vol + 1 \in Volume
    BY <1>1 DEF Volume
  <2>2. vol' = vol + 1 /\ generation' = [generation EXCEPT ![vol + 1] = Limit[vol + 1]]
        /\ pc' = "find" /\ i' = 0 /\ newest' = None
    BY <1>1 DEF NextVolume, BeginLoad, BeginFind
  <2>3. Limit[vol + 1] \in Nat
    BY <2>1 DEF Volume
  <2>4. newest' \in [index : Slot \cup {-1}, generation : Nat]
    BY <2>2 DEF None
  <2>5. i' \in 0 .. Slots
    BY <2>2
  <2> QED
    BY <2>1, <2>2, <2>3, <2>4, <2>5
<1>2. CASE ~(vol + 1 < Volumes)
  BY <1>2 DEF NextVolume
<1> QED
  BY <1>1, <1>2

\* The reader's variables keep their types: isfs_find_super returns a slot or
\* one of its error codes, and isfs_init stays within its volumes.
THEOREM TypeCorrect == Spec => []TypeOK
<1> USE IsfsAssumption DEF Volume, Slot, ctx
<1>1. Init => TypeOK
  BY DEF Init, TypeOK, None
<1>2. TypeOK /\ [Next]_vars => TypeOK'
  <2> SUFFICES ASSUME TypeOK, [Next]_vars PROVE TypeOK'
    OBVIOUS
  <2> USE DEF TypeOK
  <2>1. CASE InitVolumes
    BY <2>1 DEF InitVolumes, BeginLoad, BeginFind, None
  <2>2. CASE Examine
    <3> DEFINE s == flash[vol][i]
    <3>1. i \in Slot /\ s.generation \in Nat
      BY <2>2, SlotTypes DEF Examine
    <3>2. newest' \in [index : Slot \cup {-1}, generation : Nat]
      <4>1. newest' = newest \/ newest' = [index |-> i, generation |-> s.generation]
        BY <2>2 DEF Examine
      <4>2. newest \in [index : Slot \cup {-1}, generation : Nat]
        OBVIOUS
      <4> HIDE DEF TypeOK, s, Slot
      <4> QED
        BY <3>1, <4>1, <4>2
    <3>3. i' \in 0 .. Slots
      BY <2>2 DEF Examine
    <3> QED
      BY <2>2, <3>2, <3>3 DEF Examine
  <2>3. CASE Found
    BY <2>3 DEF Found
  <2>4. CASE NotFound
    BY <2>4, NextVolumeTypes DEF NotFound
  <2>5. CASE NoMemory
    BY <2>5, NextVolumeTypes DEF NoMemory
  <2>6. CASE Accept
    BY <2>6, NextVolumeTypes DEF Accept
  <2>7. CASE Reject
    BY <2>7 DEF Reject, BeginFind, None
  <2>8. CASE Fini
    BY <2>8 DEF Fini
  <2>9. CASE UNCHANGED vars
    BY <2>9 DEF vars
  <2> QED
    BY <2>1, <2>2, <2>3, <2>4, <2>5, <2>6, <2>7, <2>8, <2>9 DEF Next, Mount
<1> QED
  BY <1>1, <1>2, PTL DEF Spec

---------------------------------------------------------------------------
\* Nothing usable of volume v lies at or above the generation to look below.
AllBelow(v) ==
  \A s \in Slot : Usable(flash[v][s], Limit[v]) => flash[v][s].generation < generation[v]

\* `newest' is the newest candidate among the slots already examined.
NewestSoFar ==
  /\ newest.index = -1 =>
       /\ newest.generation = 0
       /\ \A s \in Slot : s < i => ~Candidate(flash[vol][s], generation[vol])
  /\ newest.index # -1 =>
       /\ newest.index \in Slot
       /\ Candidate(flash[vol][newest.index], generation[vol])
       /\ newest.generation = flash[vol][newest.index].generation
       /\ \A s \in Slot : s < i /\ Candidate(flash[vol][s], generation[vol])
                            => flash[vol][s].generation <= newest.generation

\* The slot about to be read is as new as any usable one.
Chosen(v) ==
  /\ index[v] \in Slot
  /\ Candidate(flash[v][index[v]], Limit[v])
  /\ generation[v] = flash[v][index[v]].generation
  /\ \A s \in Slot : Usable(flash[v][s], Limit[v])
                       => flash[v][s].generation <= generation[v]

\* Volumes isfs_init is done with.
Done(v) == pc = "up" \/ (pc \in {"find", "read"} /\ v < vol)

GivenUp(v) ==
  ~mounted[v] /\ index[v] = -3 => \A s \in Slot : ~Usable(flash[v][s], Limit[v])

LoadInv ==
  /\ \A v \in Volume : DistinctGenerations(v)
  /\ pc = "find" => /\ generation[vol] <= Limit[vol]
                    /\ AllBelow(vol)
                    /\ NewestSoFar
  /\ pc = "read" => Chosen(vol)
  /\ pc \in {"find", "read"} => \A v \in Volume : v >= vol => ~mounted[v]
  /\ pc = "down" => \A v \in Volume : ~mounted[v]
  /\ \A v \in Volume : Done(v) => GivenUp(v)

\* The invariant that isfs_load_super maintains, and what it says of the
\* volumes already mounted.
IInv == LoadInv /\ NewestUsable

\* Leaving a volume for the next one keeps the invariant when the volume left
\* is mounted on its newest usable superblock or rightly given up.
LEMMA LeaveVolume ==
  ASSUME TypeOK, TypeOK', IInv, pc \in {"find", "read"}, NextVolume, flash' = flash,
         \A v \in Volume : v # vol => index'[v] = index[v] /\ mounted'[v] = mounted[v],
         \A s \in Slot : Usable(flash[vol][s], Limit[vol]) =>
            (mounted'[vol] => flash[vol][s].generation <= generation[vol]),
         mounted'[vol] => /\ index'[vol] \in Slot
                          /\ Usable(flash[vol][index'[vol]], Limit[vol])
                          /\ generation[vol] = flash[vol][index'[vol]].generation,
         ~mounted'[vol] /\ index'[vol] = -3
            => \A s \in Slot : ~Usable(flash[vol][s], Limit[vol])
  PROVE  IInv'
<1> USE IsfsAssumption
<1>1. vol \in Volume /\ \A v \in Volume : v \in Nat /\ v < Volumes
  BY DEF TypeOK, Volume
<1>2. \A v \in Volume : v <= vol => generation'[v] = generation[v]
  <2>1. CASE vol + 1 < Volumes
    BY <2>1, <1>1 DEF NextVolume, BeginLoad, TypeOK
  <2>2. CASE ~(vol + 1 < Volumes)
    BY <2>2 DEF NextVolume
  <2> QED
    BY <2>1, <2>2
<1>3. \A v \in Volume : v > vol => ~mounted'[v]
  BY <1>1 DEF IInv, LoadInv
<1>4. NewestUsable'
  <2> SUFFICES ASSUME NEW v \in Volume, mounted'[v]
               PROVE  /\ index'[v] \in Slot
                      /\ Usable(flash'[v][index'[v]], Limit[v])
                      /\ generation'[v] = flash'[v][index'[v]].generation
                      /\ \A s \in Slot : Usable(flash'[v][s], Limit[v])
                                           => flash'[v][s].generation <= generation'[v]
    BY DEF NewestUsable
  <2>1. v <= vol
    BY <1>1, <1>3
  <2>2. generation'[v] = generation[v]
    BY <1>2, <2>1
  <2>3. CASE v = vol
    BY <2>2, <2>3
  <2>4. CASE v # vol
    BY <2>2, <2>4 DEF IInv, NewestUsable
  <2> QED
    BY <2>3, <2>4
<1>5. \A v \in Volume : v <= vol => GivenUp(v)'
  <2> SUFFICES ASSUME NEW v \in Volume, v <= vol PROVE GivenUp(v)'
    OBVIOUS
  <2>1. CASE v = vol
    BY <2>1 DEF GivenUp
  <2>2. CASE v # vol
    <3>1. v < vol
      BY <2>2, <1>1
    <3>2. GivenUp(v)
      BY <3>1 DEF IInv, LoadInv, Done
    <3> QED
      BY <3>2, <2>2 DEF GivenUp
  <2> QED
    BY <2>1, <2>2
<1>6. CASE vol + 1 < Volumes
  <2>1. /\ pc' = "find" /\ vol' = vol + 1 /\ i' = 0 /\ newest' = None
        /\ vol + 1 \in Volume /\ generation'[vol + 1] = Limit[vol + 1]
    BY <1>6, <1>1 DEF NextVolume, BeginLoad, BeginFind, Volume, TypeOK
  <2>2. AllBelow(vol)'
    BY <2>1 DEF AllBelow, Usable, Candidate
  <2>3. NewestSoFar'
    BY <2>1 DEF NewestSoFar, None, Slot
  <2>4. (generation[vol] <= Limit[vol])'
    BY <2>1 DEF Volume
  <2>5. \A v \in Volume : v >= vol' => ~mounted'[v]
    BY <2>1, <1>1, <1>3
  <2>6. \A v \in Volume : Done(v)' => GivenUp(v)'
    BY <2>1, <1>1, <1>5 DEF Done
  <2>7. \A v \in Volume : DistinctGenerations(v)'
    BY DEF IInv, LoadInv, DistinctGenerations
  <2> QED
    BY <1>4, <2>1, <2>2, <2>3, <2>4, <2>5, <2>6, <2>7 DEF IInv, LoadInv
<1>7. CASE ~(vol + 1 < Volumes)
  <2>1. pc' = "up"
    BY <1>7 DEF NextVolume
  <2>2. \A v \in Volume : v <= vol
    BY <1>1, <1>7
  <2>3. \A v \in Volume : DistinctGenerations(v)'
    BY DEF IInv, LoadInv, DistinctGenerations
  <2> QED
    BY <1>4, <1>5, <2>1, <2>2, <2>3 DEF IInv, LoadInv
<1> QED
  BY <1>6, <1>7

LEMMA Inductive == TypeOK /\ TypeOK' /\ IInv /\ [Next]_vars => IInv'
<1> SUFFICES ASSUME TypeOK, TypeOK', IInv, [Next]_vars PROVE IInv'
  OBVIOUS
<1> USE IsfsAssumption
<1>0. vol \in Volume /\ i \in Int /\ generation[vol] \in Nat /\ Limit[vol] \in Nat
  BY DEF TypeOK, Volume
<1>1. CASE InitVolumes
  <2>1. /\ pc' = "find" /\ vol' = 0 /\ i' = 0 /\ newest' = None /\ 0 \in Volume
        /\ generation'[0] = Limit[0] /\ flash' = flash /\ mounted' = mounted
        /\ \A v \in Volume : ~mounted[v]
    BY <1>1 DEF InitVolumes, BeginLoad, BeginFind, TypeOK, Volume, IInv, LoadInv
  <2>2. AllBelow(vol)'
    BY <2>1 DEF AllBelow, Usable, Candidate
  <2>3. NewestSoFar'
    BY <2>1 DEF NewestSoFar, None, Slot
  <2>4. \A v \in Volume : ~Done(v)'
    BY <2>1 DEF Done, Volume
  <2>5. (generation[vol] <= Limit[vol])'
    BY <2>1 DEF Volume
  <2> QED
    BY <2>1, <2>2, <2>3, <2>4, <2>5 DEF IInv, LoadInv, DistinctGenerations, NewestUsable
<1>2. CASE Examine
  <2> DEFINE s == flash[vol][i]
  <2>1. /\ pc = "find" /\ pc' = "find" /\ i' = i + 1 /\ i \in Slot
        /\ flash' = flash /\ index' = index /\ generation' = generation
        /\ mounted' = mounted /\ vol' = vol
    BY <1>2 DEF Examine, ctx, TypeOK, Slot
  <2>2. \A t \in Slot : t < i' <=> t < i \/ t = i
    BY <2>1 DEF Slot
  <2>3. NewestSoFar'
    <3>1. NewestSoFar /\ s.generation \in Nat /\ newest.generation \in Nat /\ i # -1
          /\ \A t \in Slot : flash[vol][t].generation \in Nat
      BY <2>1, <1>0, SlotTypes DEF IInv, LoadInv, TypeOK, Slot
    <3>2. CASE Candidate(s, generation[vol]) /\ s.generation >= newest.generation
      <4>1. newest' = [index |-> i, generation |-> s.generation]
        BY <1>2, <3>2 DEF Examine
      <4>2. \A t \in Slot : t < i /\ Candidate(flash[vol][t], generation[vol])
                             => flash[vol][t].generation <= s.generation
        BY <3>1, <3>2 DEF NewestSoFar
      <4> QED
        BY <2>1, <2>2, <3>1, <3>2, <4>1, <4>2 DEF NewestSoFar
    <3>3. CASE ~(Candidate(s, generation[vol]) /\ s.generation >= newest.generation)
      <4>1. newest' = newest
        BY <1>2, <3>3 DEF Examine
      <4> QED
        BY <2>1, <2>2, <3>1, <3>3, <4>1 DEF NewestSoFar
    <3> QED
      BY <3>2, <3>3
  <2> QED
    BY <2>1, <2>3 DEF IInv, LoadInv, DistinctGenerations, NewestUsable, AllBelow, Done, GivenUp
<1>3. CASE Found
  <2>1. /\ pc = "find" /\ pc' = "read" /\ i = Slots /\ newest.index # -1
        /\ flash' = flash /\ mounted' = mounted /\ vol' = vol
        /\ index'[vol] = newest.index /\ generation'[vol] = newest.generation
        /\ \A v \in Volume : v # vol => index'[v] = index[v] /\ generation'[v] = generation[v]
    BY <1>3, <1>0 DEF Found, TypeOK
  <2>2. \A t \in Slot : t < i
    BY <2>1 DEF Slot
  <2>3. /\ newest.index \in Slot
        /\ Candidate(flash[vol][newest.index], Limit[vol])
        /\ newest.generation = flash[vol][newest.index].generation
    BY <2>1, <1>0, SlotTypes DEF IInv, LoadInv, NewestSoFar, Candidate
  <2>4. \A t \in Slot : Usable(flash[vol][t], Limit[vol])
                         => flash[vol][t].generation <= newest.generation
    <3> SUFFICES ASSUME NEW t \in Slot, Usable(flash[vol][t], Limit[vol])
                 PROVE  flash[vol][t].generation <= newest.generation
      OBVIOUS
    <3>1. flash[vol][t].generation < generation[vol]
      BY <2>1 DEF IInv, LoadInv, AllBelow
    <3>2. Candidate(flash[vol][t], generation[vol])
      BY <3>1 DEF Usable, Candidate
    <3> QED
      BY <2>1, <2>2, <3>2 DEF IInv, LoadInv, NewestSoFar
  <2>5. Chosen(vol)'
    BY <2>1, <2>3, <2>4 DEF Chosen
  <2>6. ~mounted[vol]
    BY <2>1, <1>0 DEF IInv, LoadInv, Volume
  <2>7. NewestUsable'
    BY <2>1, <2>6 DEF IInv, NewestUsable
  <2>8. \A v \in Volume : Done(v)' => GivenUp(v)'
    BY <2>1, <1>0 DEF IInv, LoadInv, Done, GivenUp, Volume
  <2> QED
    BY <2>1, <2>5, <2>7, <2>8 DEF IInv, LoadInv, DistinctGenerations
<1>4. CASE NotFound
  <2>1. /\ pc = "find" /\ i = Slots /\ newest.index = -1
        /\ flash' = flash /\ mounted' = mounted /\ NextVolume
        /\ \A v \in Volume : v # vol => index'[v] = index[v]
    BY <1>4 DEF NotFound, TypeOK
  <2>2. \A t \in Slot : ~Usable(flash[vol][t], Limit[vol])
    <3> SUFFICES ASSUME NEW t \in Slot, Usable(flash[vol][t], Limit[vol]) PROVE FALSE
      OBVIOUS
    <3>1. Candidate(flash[vol][t], generation[vol])
      BY <2>1 DEF IInv, LoadInv, AllBelow, Usable, Candidate
    <3>2. t < i
      BY <2>1 DEF Slot
    <3> QED
      BY <2>1, <3>1, <3>2 DEF IInv, LoadInv, NewestSoFar
  <2>3. ~mounted[vol]
    BY <2>1, <1>0 DEF IInv, LoadInv, Volume
  <2> QED
    BY <2>1, <2>2, <2>3, LeaveVolume
<1>5. CASE NoMemory
  <2>1. /\ pc = "find" /\ index'[vol] = -1
        /\ flash' = flash /\ mounted' = mounted /\ NextVolume
        /\ \A v \in Volume : v # vol => index'[v] = index[v]
    BY <1>5, <1>0 DEF NoMemory, TypeOK
  <2>2. ~mounted[vol]
    BY <2>1, <1>0 DEF IInv, LoadInv, Volume
  <2> QED
    BY <2>1, <2>2, LeaveVolume
<1>6. CASE Accept
  <2>1. /\ pc = "read" /\ flash' = flash /\ index' = index /\ NextVolume
        /\ mounted'[vol] = TRUE /\ Chosen(vol)
        /\ \A v \in Volume : v # vol => mounted'[v] = mounted[v]
        /\ ReadSuperRc(flash[vol][index[vol]]) >= 0
    BY <1>6, <1>0 DEF Accept, IInv, LoadInv, TypeOK
  <2>2. Usable(flash[vol][index[vol]], Limit[vol])
    BY <2>1 DEF Chosen, Usable
  <2> QED
    BY <2>1, <2>2, LeaveVolume DEF Chosen
<1>7. CASE Reject
  <2>1. /\ pc = "read" /\ pc' = "find" /\ i' = 0 /\ newest' = None
        /\ flash' = flash /\ index' = index /\ generation' = generation
        /\ mounted' = mounted /\ vol' = vol /\ Chosen(vol)
        /\ ReadSuperRc(flash[vol][index[vol]]) < 0
    BY <1>7 DEF Reject, BeginFind, ctx, IInv, LoadInv
  <2>2. AllBelow(vol)'
    <3> SUFFICES ASSUME NEW t \in Slot, Usable(flash[vol][t], Limit[vol])
                 PROVE  flash[vol][t].generation < generation[vol]
      BY <2>1 DEF AllBelow
    <3>1. flash[vol][t].generation <= generation[vol] /\ index[vol] \in Slot
      BY <2>1 DEF Chosen
    <3>2. t # index[vol]
      <4>1. ReadSuperRc(flash[vol][t]) >= 0
        BY DEF Usable
      <4>2. ReadSuperRc(flash[vol][index[vol]]) \in Int
        BY DEF ReadSuperRc, ErrorRead, Ok, HmacPartial, ErrorHmac
      <4> QED
        BY <2>1, <4>1, <4>2
    <3>3. flash[vol][t].version >= 0 /\ flash[vol][index[vol]].version >= 0
      BY <2>1 DEF Chosen, Usable, Candidate
    <3>4. flash[vol][t].generation # flash[vol][index[vol]].generation
      BY <1>0, <2>1, <3>1, <3>2, <3>3 DEF IInv, LoadInv, DistinctGenerations, Usable, Candidate
    <3>5. flash[vol][t].generation \in Nat
      BY <1>0, SlotTypes
    <3> QED
      BY <2>1, <1>0, <3>1, <3>4, <3>5 DEF Chosen
  <2>3. NewestSoFar'
    BY <2>1 DEF NewestSoFar, None, Slot
  <2>4. generation[vol] <= Limit[vol]
    BY <2>1, <1>0 DEF Chosen, Candidate
  <2> QED
    BY <2>1, <2>2, <2>3, <2>4 DEF IInv, LoadInv, DistinctGenerations, NewestUsable, Done, GivenUp
<1>8. CASE Fini
  <2>1. pc' = "down" /\ flash' = flash /\ \A v \in Volume : ~mounted'[v]
    BY <1>8 DEF Fini
  <2> QED
    BY <2>1 DEF IInv, LoadInv, NewestUsable, Done, DistinctGenerations
<1>9. CASE UNCHANGED vars
  BY <1>9 DEF vars, ctx, IInv, LoadInv, DistinctGenerations, NewestUsable, AllBelow, NewestSoFar, Chosen, Done, GivenUp
<1> QED
  BY <1>1, <1>2, <1>3, <1>4, <1>5, <1>6, <1>7, <1>8, <1>9 DEF Next, Mount

\* The invariant holds of every behaviour.
THEOREM Invariant == Spec => []IInv
<1>1. Init => IInv
  BY DEF Init, IInv, LoadInv, NewestUsable, Done
<1> QED
  BY <1>1, Inductive, TypeCorrect, PTL DEF Spec

\* A mounted volume runs on its newest usable superblock: isfs_find_super and
\* the retries of isfs_load_super together lose no generation they need not.
THEOREM NewestCorrect == Spec => []NewestUsable
BY Invariant, PTL DEF IInv

\* A volume that isfs_init leaves unmounted for want of a superblock has none.
THEOREM GivenUpCorrect == Spec => []GivenUpOnlyIfNone
<1>1. IInv => GivenUpOnlyIfNone
  BY DEF IInv, LoadInv, GivenUpOnlyIfNone, GivenUp, Done
<1> QED
  BY <1>1, Invariant, PTL

\* Every retry of isfs_load_super looks below the generation just rejected.
THEOREM RetriesCorrect == Spec => RetriesDescend
<1>1. TypeOK /\ IInv /\ [Next]_vars
        => [pc = "find" /\ pc' = "read" => generation'[vol] < generation[vol]]_vars
  <2> SUFFICES ASSUME TypeOK, IInv, Next, pc = "find", pc' = "read"
               PROVE  generation'[vol] < generation[vol]
    OBVIOUS
  <2>1. Found
    BY DEF Next, Mount, InitVolumes, Examine, NotFound, NoMemory, Accept, Reject, Fini,
           NextVolume, BeginLoad, BeginFind
  <2>2. newest.generation < generation[vol]
    BY <2>1 DEF Found, IInv, LoadInv, NewestSoFar, Candidate
  <2> QED
    BY <2>1, <2>2 DEF Found, TypeOK
<1> QED
  BY <1>1, TypeCorrect, Invariant, PTL DEF Spec, RetriesDescend
=============================================================================
