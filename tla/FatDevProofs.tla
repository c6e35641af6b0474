---------------------------- MODULE FatDevProofs ----------------------------
(***************************************************************************)
(* Proofs about FatDev, for every size of the volume, every contents of    *)
(* the cards, any number of calls, disk errors and cards that are pulled:  *)
(* the variables have their types; a write or a seek that falls short      *)
(* found no free cluster; the chains on the cards are sound; and an open   *)
(* file's current cluster is the one of its position.                      *)
(*                                                                         *)
(* Every call begins with a context made of the variables (Begins), ends   *)
(* with one the function of ff.c may leave (Finishes), and gives it back   *)
(* to the variables (Return).  The chains are right by a chart of the FAT  *)
(* (FatFsProofs): SoundInv says that there is one by which the entries on  *)
(* the card are right, and one by which those seen through the window are  *)
(* right and the open files are at their places.                           *)
(***************************************************************************)
EXTENDS FatDev, FatFsProofs

---------------------------------------------------------------------------
(* Types.                                                                  *)

\* The fields of the FATFS structure.
Fields == {"fs_type", "id", "winsect", "win", "wflag", "last_clust", "free_clust", "fsi"}

\* A FATFS structure and sectors between two calls.
Resting(g, o, s) ==
  [fs_type |-> g.fs_type, id |-> g.id, winsect |-> g.winsect, win |-> g.win,
   wflag |-> g.wflag, last_clust |-> g.last_clust, free_clust |-> g.free_clust,
   fsi |-> g.fsi, sec |-> o, stat |-> s, fp |-> Closed, made |-> 0, bad |-> 0, gone |-> FALSE,
   hit |-> FALSE, res |-> "FR_OK", val |-> 0, out |-> <<>>]

\* The volume that is mounted, with its card.
AtRest == Resting(fs, sec[volume], stat)

\* The handles: a file that may be used at a position has clusters and an entry, and a
\* handle in use has a name.
Filled(fils, owners) ==
  /\ fils \in [Handle -> FIL] /\ owners \in [Handle -> Name \cup {NoName}]
  /\ \A h \in Handle : /\ Headed(fils[h]) /\ Listed(fils[h])
                       /\ fils[h].fs <=> owners[h] # NoName

\* The inductive invariant: the variables have their types; the window holds what a sector
\* of its kind holds, is dirty only for one that may change, and else agrees with the card
\* of the volume; and a file that may be used at a position has clusters.
TypeInv ==
  /\ DOMAIN fs = Fields /\ AtRest \in Good
  /\ sec \in [Card -> Sectors] /\ card \in Card /\ volume \in Card
  /\ stat # "STA_NOINIT" => volume = card
  /\ Filled(fil, owner)
  /\ stray \subseteq Handle
  /\ unsure \in [Card -> SUBSET Name] /\ cut \in [Card -> SUBSET Name]
  /\ ops \in 0 .. MaxOps /\ faults \in 0 .. MaxFaults /\ swaps \in 0 .. MaxSwaps

\* ... and those of the context at rest.
LEMMA AtRestFields ==
  /\ AtRest.fs_type = fs.fs_type /\ AtRest.id = fs.id /\ AtRest.winsect = fs.winsect
  /\ AtRest.win = fs.win /\ AtRest.wflag = fs.wflag /\ AtRest.last_clust = fs.last_clust
  /\ AtRest.free_clust = fs.free_clust /\ AtRest.fsi = fs.fsi /\ AtRest.sec = sec[volume]
  /\ AtRest.stat = stat
BY DEF AtRest, Resting

\* The types of the FATFS structure.
LEMMA FsType ==
  ASSUME TypeInv
  PROVE  /\ fs.fs_type \in {0, 1} /\ fs.id \in Nat /\ fs.winsect \in Sector \cup {NoSector}
         /\ fs.win \in Anything /\ fs.wflag \in BOOLEAN /\ fs.last_clust \in Nat
         /\ fs.free_clust \in Nat /\ fs.fsi \in Fsi /\ stat \in Stat
<1>1. AtRest \in Ctx
  BY DEF TypeInv, Good
<1> QED
  BY <1>1, AtRestFields DEF Ctx

\* A call begins with a context of the right types.
LEMMA ContextType ==
  ASSUME TypeInv, NEW f \in FIL, NEW bad \in Nat, NEW gone \in BOOLEAN
  PROVE  Context(f, bad, gone) \in Fair
<1> DEFINE x == Context(f, bad, gone)
<1>1. sec[card] \in Sectors
  BY DEF TypeInv
<1>2. "FR_OK" \in Res /\ 0 \in Nat /\ 1 \in Nat /\ 0 \in Int /\ << >> \in Seq(Int)
  BY DEF Res
<1>3. x \in Ctx
  BY <1>1, <1>2, FsType DEF Context, Ctx
<1>4. ASSUME stat # "STA_NOINIT" PROVE Coherent(x)
  <2>1. Coherent(AtRest) /\ volume = card
    BY <1>4 DEF TypeInv, Good
  <2>2. /\ x.winsect = AtRest.winsect /\ x.win = AtRest.win /\ x.wflag = AtRest.wflag
        /\ x.sec = AtRest.sec
    BY <2>1 DEF AtRest, Resting, Context
  <2> HIDE DEF x
  <2> QED
    BY <2>1, <2>2 DEF Coherent
<1>5. x.stat = stat
  BY DEF Context
<1> HIDE DEF x
<1> QED
  BY <1>3, <1>4, <1>5 DEF Fair, x

\* The context a call begins with: one that meets a disk error only while there is a card
\* and the bound on such calls is not reached.
Begins(f, x) ==
  \E bad \in Nat, gone \in BOOLEAN :
    x = Context(f, bad, gone) /\ (stat # "STA_NODISK" /\ bad # 0 => faults < MaxFaults)

\* What a call's function of ff.c finds.
LEMMA BeginsType ==
  ASSUME TypeInv, NEW f \in FIL, NEW x, Begins(f, x)
  PROVE  /\ x \in Fair /\ x.fp = f /\ x.stat = stat /\ ~x.hit /\ x.sec = sec[card]
         /\ x.winsect = fs.winsect /\ x.win = fs.win /\ x.wflag = fs.wflag
         /\ x.fs_type = fs.fs_type /\ x.id = fs.id /\ x.last_clust = fs.last_clust
         /\ x.free_clust = fs.free_clust /\ x.fsi = fs.fsi
         /\ stat # "STA_NODISK" /\ x.bad # 0 => faults < MaxFaults
<1>1. PICK bad \in Nat, gone \in BOOLEAN :
        x = Context(f, bad, gone) /\ (stat # "STA_NODISK" /\ bad # 0 => faults < MaxFaults)
  BY DEF Begins
<1>2. x \in Fair
  BY <1>1, ContextType
<1>3. /\ x.fs_type = fs.fs_type /\ x.id = fs.id /\ x.winsect = fs.winsect /\ x.win = fs.win
      /\ x.wflag = fs.wflag /\ x.last_clust = fs.last_clust
      /\ x.free_clust = fs.free_clust /\ x.fsi = fs.fsi /\ x.sec = sec[card]
      /\ x.stat = stat /\ x.fp = f /\ x.hit = FALSE /\ x.res = "FR_OK"
      /\ stat # "STA_NODISK" => x.bad = bad
  BY <1>1 DEF Context
<1> QED
  BY <1>1, <1>2, <1>3

\* What a call that begins with x may end with.
Finishes(x, c) ==
  /\ c \in Fair /\ Met(x, c)
  /\ c.stat = "STA_NOINIT" => /\ c.fs_type = x.fs_type /\ c.id = x.id /\ c.winsect = x.winsect
                              /\ c.win = x.win /\ c.wflag = x.wflag /\ c.sec = x.sec
                              /\ c.last_clust = x.last_clust /\ c.free_clust = x.free_clust
                              /\ c.fsi = x.fsi /\ c.stat = x.stat /\ c.hit = x.hit

\* A call by name finishes so.
LEMMA SettledFinishes ==
  ASSUME NEW x, NEW c \in Settled(x)
  PROVE  Finishes(x, c)
BY DEF Settled, Finishes, Goes, Fair, Good

\* Without a card that is initialized nothing happens to an open file.
LEMMA Untouched ==
  ASSUME NEW x \in Ctx, x.stat = "STA_NOINIT"
  PROVE  LET e == Failed(x, "FR_INVALID_OBJECT")
         IN /\ \A n : f_read(x, n) = e /\ f_write(x, n) = e /\ f_lseek(x, n) = e
            /\ f_sync(x) = e /\ f_close(x) = e /\ f_truncate(x) = e
<1> DEFINE e == Failed(x, "FR_INVALID_OBJECT")
<1>1. validate(x) = e
  BY DEF validate
<1>2. ~IsOk(e)
  BY DEF Failed, IsOk, Ctx
<1> HIDE DEF e
<1>3. Reject(x) = e
  BY <1>1, <1>2 DEF Reject, Then
<1>4. f_sync(x) = e /\ f_close(x) = e
  BY <1>1, <1>2, SMTT(60) DEF f_sync, f_close, Then
<1>5. /\ \A n : f_read(x, n) = e /\ f_write(x, n) = e /\ f_lseek(x, n) = e
      /\ f_truncate(x) = e
  BY <1>2, <1>3 DEF f_read, f_write, f_lseek, f_truncate, Then
<1> QED
  BY <1>4, <1>5 DEF e

\* So does a call that fails at once.
LEMMA FailedFinishes ==
  ASSUME NEW x \in Fair, NEW r \in Res
  PROVE  Finishes(x, Failed(x, r))
<1> DEFINE c == Failed(x, r)
<1>1. /\ c \in Ctx /\ Kept(x, c) /\ c.hit = x.hit /\ c.sec = x.sec /\ c.winsect = x.winsect
      /\ c.win = x.win /\ c.wflag = x.wflag
  BY FailedType DEF Fair
<1> HIDE DEF c
<1>2. Met(x, c)
  BY <1>1, SteadyStays DEF Kept
<1>3. c.stat # "STA_NOINIT" => Coherent(c)
  BY <1>1 DEF Fair, Coherent, Kept, Steady
<1>4. Finishes(x, c)
  BY <1>1, <1>2, <1>3 DEF Finishes, Fair, Kept, Steady
<1> QED
  BY <1>4 DEF c
---------------------------------------------------------------------------
(* The end of a call.                                                      *)

\* The structure that a call leaves is a context at rest.
LEMMA RestingType ==
  ASSUME NEW c \in Good, NEW g, NEW s \in Stat,
         g.fs_type = c.fs_type, g.id = c.id, g.winsect = c.winsect, g.win = c.win,
         g.wflag = c.wflag, g.last_clust = c.last_clust, g.free_clust = c.free_clust,
         g.fsi = c.fsi
  PROVE  Resting(g, c.sec, s) \in Good
<1> DEFINE r == Resting(g, c.sec, s)
<1>1. Closed \in FIL /\ "FR_OK" \in Res /\ 0 \in Nat /\ 0 \in Int /\ << >> \in Seq(Int)
      /\ c \in Ctx
  BY ClosedType DEF Res, Good
<1>2. r \in Ctx
  BY <1>1 DEF Resting, Ctx
<1>3. r.winsect = c.winsect /\ r.win = c.win /\ r.wflag = c.wflag /\ r.sec = c.sec
  BY DEF Resting
<1> HIDE DEF r
<1>4. Coherent(r)
  BY <1>3 DEF Good, Coherent
<1>5. r \in Good
  BY <1>2, <1>4 DEF Good
<1> QED
  BY <1>5 DEF r

\* What Return does to the variables of the volume.
Returned(c) ==
  /\ fs' = [x \in DOMAIN fs |-> c[x]]
  /\ sec' = [sec EXCEPT ![card] = c.sec]
  /\ stat' = IF c.hit /\ c.gone THEN "STA_NODISK" ELSE c.stat
  /\ volume' = IF c.stat = "STA_NOINIT" THEN volume ELSE card
  /\ card' = card

\* The fields that are given back.
LEMMA ReturnedFields ==
  ASSUME TypeInv, NEW c, Returned(c)
  PROVE  /\ DOMAIN fs' = Fields
         /\ fs'.fs_type = c.fs_type /\ fs'.id = c.id /\ fs'.winsect = c.winsect
         /\ fs'.win = c.win /\ fs'.wflag = c.wflag /\ fs'.last_clust = c.last_clust
         /\ fs'.free_clust = c.free_clust /\ fs'.fsi = c.fsi
BY DEF TypeInv, Returned, Fields

\* They keep the types, on the volume and on the card.
LEMMA ReturnedType ==
  ASSUME TypeInv, NEW f \in FIL, NEW x, Begins(f, x), NEW c, Finishes(x, c), Returned(c)
  PROVE  /\ AtRest' \in Good /\ sec' \in [Card -> Sectors] /\ volume' \in Card
         /\ stat' # "STA_NOINIT" => volume' = card' /\ sec'[card'] = c.sec /\ c \in Good
<1>1. c \in Ctx /\ c.sec \in Sectors /\ c.stat \in Stat
  BY DEF Finishes, Fair, Ctx
<1>2. sec' \in [Card -> Sectors] /\ volume' \in Card /\ sec'[card] = c.sec
  BY <1>1 DEF TypeInv, Returned
<1>3. /\ fs'.fs_type = c.fs_type /\ fs'.id = c.id /\ fs'.winsect = c.winsect
      /\ fs'.win = c.win /\ fs'.wflag = c.wflag /\ fs'.last_clust = c.last_clust
      /\ fs'.free_clust = c.free_clust /\ fs'.fsi = c.fsi
  BY ReturnedFields
<1>4. AtRest' = Resting(fs', sec'[volume'], stat')
  BY DEF AtRest
<1>5. CASE c.stat = "STA_NOINIT"
  <2>1. /\ c.fs_type = fs.fs_type /\ c.id = fs.id /\ c.winsect = fs.winsect /\ c.win = fs.win
        /\ c.wflag = fs.wflag /\ c.last_clust = fs.last_clust /\ c.free_clust = fs.free_clust
        /\ c.fsi = fs.fsi /\ c.sec = sec[card] /\ c.stat = stat /\ ~c.hit
    BY <1>5, BeginsType DEF Finishes
  <2>2. stat' = stat /\ volume' = volume /\ sec' = sec
    BY <1>5, <2>1 DEF Returned, TypeInv
  <2>3. AtRest \in Good /\ AtRest.sec = sec[volume]
    BY AtRestFields DEF TypeInv
  <2> DEFINE a == AtRest
  <2>4. /\ a \in Good /\ a.sec = sec[volume]
        /\ fs'.fs_type = a.fs_type /\ fs'.id = a.id /\ fs'.winsect = a.winsect
        /\ fs'.win = a.win /\ fs'.wflag = a.wflag /\ fs'.last_clust = a.last_clust
        /\ fs'.free_clust = a.free_clust /\ fs'.fsi = a.fsi
    BY <1>3, <2>1, <2>3, AtRestFields
  <2> HIDE DEF a
  <2>5. stat' \in Stat
    BY <2>2, FsType
  <2>6. Resting(fs', a.sec, stat') \in Good
    BY <2>4, <2>5, RestingType
  <2> QED
    BY <1>2, <1>4, <1>5, <2>1, <2>2, <2>4, <2>6
<1>6. CASE c.stat # "STA_NOINIT"
  <2>1. c \in Good
    BY <1>6 DEF Finishes, Fair, Good
  <2>2. stat' \in Stat
    BY <1>1 DEF Returned, Stat
  <2>3. volume' = card /\ card' = card
    BY <1>6 DEF Returned
  <2>4. Resting(fs', c.sec, stat') \in Good
    BY <1>3, <2>1, <2>2, RestingType
  <2> QED
    BY <1>2, <1>4, <2>1, <2>3, <2>4
<1> QED
  BY <1>5, <1>6

\* ... and to the others.
LEMMA ReturnType ==
  ASSUME TypeInv, NEW f \in FIL, NEW x, Begins(f, x), NEW c, Finishes(x, c),
         NEW names \in SUBSET Name, NEW request, request.h \in Handle \cup {0},
         NEW fils, NEW owners, Filled(fils, owners), ops < MaxOps,
         Return(c, names, request, fils, owners), stray' \subseteq Handle
  PROVE  TypeInv'
<1> DEFINE h == request.h
           u == unsure[card]
           writes == IF h = 0 \/ ~fil[h].fs THEN names
                     ELSE IF Live(h) /\ fil[h].wr THEN {owner[h]} ELSE {}
           doubt == IF writes \cap u # {} THEN Name
                    ELSE IF h \in stray THEN writes
                    ELSE IF c.hit /\ ~IsOk(c) THEN names ELSE {}
           cuts == CASE request.how.trunc /\ ~request.how.creat -> cut[card] \cup names
                     [] request.op = "ftruncate" -> cut[card] \cup names
                     [] request.op = "rename" /\ c.hit -> cut[card] \cup names
                     [] request.op \in {"fsync", "close"} /\ IsOk(c) -> cut[card] \ (names \ u)
                     [] OTHER -> cut[card]
<1>1. Returned(c)
  BY DEF Return, Returned
<1>2. /\ ops' = ops + 1 /\ fil' = fils /\ owner' = owners /\ swaps' = swaps
      /\ faults' = IF c.hit /\ stat # "STA_NODISK" THEN faults + 1 ELSE faults
      /\ unsure' = [unsure EXCEPT ![card] = u \cup doubt]
      /\ cut' = [cut EXCEPT ![card] = cuts]
  BY DEF Return
<1>3. u \in SUBSET Name /\ cut[card] \in SUBSET Name
  BY DEF TypeInv
<1>4. h # 0 /\ fil[h].fs => owner[h] \in Name
  <2> SUFFICES ASSUME h # 0, fil[h].fs PROVE owner[h] \in Name
    OBVIOUS
  <2>1. h \in Handle
    OBVIOUS
  <2> HIDE DEF h
  <2>2. owner \in [Handle -> Name \cup {NoName}]
    BY DEF TypeInv, Filled
  <2>3. fil[h].fs <=> owner[h] # NoName
    BY <2>1 DEF TypeInv, Filled
  <2>4. owner[h] # NoName
    BY <2>3
  <2> QED
    BY <2>1, <2>2, <2>4
<1> HIDE DEF h
<1>5. writes \in SUBSET Name
  BY <1>4
<1> HIDE DEF writes
<1>6. doubt \in SUBSET Name
  BY <1>5
<1> HIDE DEF doubt, u
<1>7. cuts \in SUBSET Name
  BY <1>3
<1> HIDE DEF cuts
<1>8. unsure' \in [Card -> SUBSET Name] /\ cut' \in [Card -> SUBSET Name]
  BY <1>2, <1>3, <1>6, <1>7 DEF TypeInv
<1>9. faults' \in 0 .. MaxFaults
  <2>1. faults \in 0 .. MaxFaults
    BY DEF TypeInv
  <2>2. c.hit /\ stat # "STA_NODISK" => faults < MaxFaults
    BY BeginsType DEF Finishes, Met
  <2> QED
    BY <1>2, <2>1, <2>2, FatDevAssumption
<1>10. ops' \in 0 .. MaxOps
  BY <1>2, FatDevAssumption DEF TypeInv
<1>11. Filled(fil, owner)'
  BY <1>2 DEF Filled
<1>12. /\ AtRest' \in Good /\ sec' \in [Card -> Sectors] /\ volume' \in Card
       /\ stat' # "STA_NOINIT" => volume' = card'
  BY <1>1, ReturnedType
<1>13. DOMAIN fs' = Fields /\ card' \in Card
  BY <1>1, ReturnedFields DEF Returned, TypeInv
<1>14. swaps' \in 0 .. MaxSwaps
  BY <1>2 DEF TypeInv
<1> QED
  BY <1>8, <1>9, <1>10, <1>11, <1>12, <1>13, <1>14 DEF TypeInv
---------------------------------------------------------------------------
(* The calls on a handle.                                                  *)

\* A call on an open file finishes so.
LEMMA ResultFinishes ==
  ASSUME NEW x \in Fair, NEW c \in Result(x),
         x.stat = "STA_NOINIT" => c = Failed(x, "FR_INVALID_OBJECT")
  PROVE  Finishes(x, c)
<1>1. c \in Fair /\ Met(x, c) /\ c.stat = x.stat
  BY DEF Result, Filed
<1>2. CASE x.stat = "STA_NOINIT"
  <2>1. "FR_INVALID_OBJECT" \in Res
    BY DEF Res
  <2> QED
    BY <1>2, <2>1, FailedFinishes
<1>3. CASE x.stat # "STA_NOINIT"
  BY <1>1, <1>3 DEF Finishes
<1> QED
  BY <1>2, <1>3

\* A handle after a call on it.
LEMMA HandleType ==
  ASSUME TypeInv, NEW h \in Handle, NEW x, Begins(fil[h], x), NEW c \in Result(x)
  PROVE  Filled([fil EXCEPT ![h] = c.fp], owner)
<1> DEFINE p == c.fp
           g == [fil EXCEPT ![h] = p]
<1>1. fil \in [Handle -> FIL] /\ owner \in [Handle -> Name \cup {NoName}]
  BY DEF TypeInv, Filled
<1>2. x.fp = fil[h] /\ x \in Fair
  BY <1>1, BeginsType
<1>3. p \in FIL /\ p.fs = fil[h].fs /\ p.dir_ptr = fil[h].dir_ptr /\ Headed(p)
  BY <1>2 DEF Result, Fair, Ctx, Filed
<1>4. \A k \in Handle : Headed(fil[k]) /\ Listed(fil[k])
  BY DEF TypeInv, Filled
<1>5. \A k \in Handle : fil[k].fs <=> owner[k] # NoName
  BY DEF TypeInv, Filled
<1>6. Listed(p)
  BY <1>3, <1>4 DEF Listed
<1> HIDE DEF p
<1>7. g \in [Handle -> FIL] /\ g[h] = p /\ \A k \in Handle \ {h} : g[k] = fil[k]
  BY <1>1, <1>3
<1> HIDE DEF g
<1>8. \A k \in Handle : Headed(g[k]) /\ Listed(g[k])
  BY <1>3, <1>4, <1>6, <1>7
<1>9. \A k \in Handle : g[k].fs <=> owner[k] # NoName
  BY <1>3, <1>5, <1>7
<1>10. Filled(g, owner)
  BY <1>1, <1>7, <1>8, <1>9 DEF Filled
<1> QED
  BY <1>10 DEF g, p

\* The contexts a call may begin with.
LEMMA CallBegins ==
  ASSUME TypeInv, NEW f \in FIL, NEW clean, clean.made \in Nat
  PROVE  \A bad \in 1 .. Accesses(clean), gone \in BOOLEAN : Begins(f, Context(f, bad, gone))
<1> SUFFICES ASSUME NEW bad \in 1 .. Accesses(clean), NEW gone \in BOOLEAN
             PROVE  Begins(f, Context(f, bad, gone))
  OBVIOUS
<1>1. bad \in Nat /\ faults < MaxFaults
  BY DEF Accesses
<1> QED
  BY <1>1 DEF Begins

\* ... one that meets no disk error too.
LEMMA CleanBegins ==
  ASSUME TypeInv, NEW f \in FIL
  PROVE  Begins(f, Context(f, 0, FALSE))
BY DEF Begins

\* A call counts up to the bound.
LEMMA OpsBound ==
  ASSUME TypeInv, ops < (IF faults = 0 /\ stat = "0" /\ swaps = 0 THEN MaxOps ELSE FaultOps)
  PROVE  ops < MaxOps
BY FatDevAssumption DEF TypeInv

\* The handle of a call, and what FatFs needs to know of it.
LEMMA HandleBegins ==
  ASSUME TypeInv, NEW h \in Handle, NEW x, Begins(fil[h], x)
  PROVE  /\ x \in Fair /\ x \in Ctx /\ x.fp = fil[h] /\ Headed(x.fp) /\ Listed(x.fp)
<1>1. fil[h] \in FIL /\ Headed(fil[h]) /\ Listed(fil[h])
  BY DEF TypeInv, Filled
<1> QED
  BY <1>1, BeginsType DEF Fair

\* Read is f_read on a file object, from some context on.
LEMMA ReadStep ==
  ASSUME TypeInv, NEW h \in Handle, NEW n \in Nat, Read(h, n)
  PROVE  \E x : /\ Begins(fil[h], x) /\ ops < MaxOps /\ stray' = stray
                /\ LET c == f_read(x, n)
                   IN Return(c, {}, [Request("read", h) EXCEPT !.n = n],
                             [fil EXCEPT ![h] = c.fp], owner)
<1> DEFINE y == Context(fil[h], 0, FALSE)
<1>1. fil[h] \in FIL
  BY DEF TypeInv, Filled
<1>2. Begins(fil[h], y)
  BY <1>1, CleanBegins
<1>3. f_read(y, n).made \in Nat
  <2>1. y \in Fair /\ Headed(y.fp)
    BY <1>2, HandleBegins
  <2> HIDE DEF y
  <2>2. f_read(y, n) \in Ctx
    BY <2>1, ReadFileType DEF Result, Fair
  <2> QED
    BY <2>2 DEF Ctx
<1>4. \A bad \in 1 .. Accesses(f_read(y, n)), gone \in BOOLEAN :
        Begins(fil[h], Context(fil[h], bad, gone))
  BY <1>1, <1>3, CallBegins
<1>5. ops < MaxOps
  BY OpsBound DEF Read, OnHandle, Outcome
<1> QED
  BY <1>2, <1>4, <1>5 DEF Read, OnHandle, Outcome
---------------------------------------------------------------------------
(* The calls on a handle, one after the other.                             *)

\* A call on a handle keeps the invariant.
LEMMA HandleEnds ==
  ASSUME TypeInv, NEW h \in Handle, NEW x, Begins(fil[h], x), NEW c \in Result(x),
         x.stat = "STA_NOINIT" => c = Failed(x, "FR_INVALID_OBJECT"),
         NEW names \in SUBSET Name, NEW request, request.h = h, ops < MaxOps,
         Return(c, names, request, [fil EXCEPT ![h] = c.fp], owner), stray' \subseteq Handle
  PROVE  TypeInv'
<1>1. x \in Fair
  BY HandleBegins
<1>2. Finishes(x, c)
  BY <1>1, ResultFinishes
<1>3. Filled([fil EXCEPT ![h] = c.fp], owner)
  BY HandleType
<1>4. fil[h] \in FIL
  BY DEF TypeInv, Filled
<1> QED
  BY <1>2, <1>3, <1>4, ReturnType

\* A handle in use has a name.
LEMMA Owned ==
  ASSUME TypeInv, NEW h \in Handle, fil[h].fs
  PROVE  owner[h] \in Name
<1>1. owner \in [Handle -> Name \cup {NoName}]
  BY DEF TypeInv, Filled
<1>2. fil[h].fs <=> owner[h] # NoName
  BY DEF TypeInv, Filled
<1> QED
  BY <1>1, <1>2

\* Read keeps the invariant.
LEMMA ReadTypes ==
  ASSUME TypeInv, NEW h \in Handle, NEW n \in Nat, Read(h, n)
  PROVE  TypeInv'
<1>1. PICK x : /\ Begins(fil[h], x) /\ ops < MaxOps /\ stray' = stray
               /\ LET c == f_read(x, n)
                  IN Return(c, {}, [Request("read", h) EXCEPT !.n = n],
                            [fil EXCEPT ![h] = c.fp], owner)
  BY ReadStep
<1> DEFINE c == f_read(x, n)
           r == [Request("read", h) EXCEPT !.n = n]
           names == {}
<1>2. c \in Result(x)
  BY <1>1, HandleBegins, ReadFileType
<1>3. x.stat = "STA_NOINIT" => c = Failed(x, "FR_INVALID_OBJECT")
  BY <1>1, HandleBegins, Untouched
<1>4. r.h = h /\ names \in SUBSET Name /\ stray' \subseteq Handle
  BY <1>1 DEF Request, TypeInv
<1>5. Return(c, names, r, [fil EXCEPT ![h] = c.fp], owner)
  BY <1>1
<1> HIDE DEF c, r, names
<1> QED
  BY <1>1, <1>2, <1>3, <1>4, <1>5, HandleEnds

\* Write is f_write of bytes not written before.
LEMMA WriteStep ==
  ASSUME TypeInv, NEW h \in Handle, NEW n \in Nat, Write(h, n)
  PROVE  LET data == [i \in 1 .. n |-> 10 * (ops + 1) + i]
         IN \E x : /\ Begins(fil[h], x) /\ ops < MaxOps /\ stray' = stray /\ fil[h].fs
                   /\ LET c == f_write(x, data)
                      IN Return(c, {owner[h]}, [Request("write", h) EXCEPT !.data = data],
                                [fil EXCEPT ![h] = c.fp], owner)
<1> DEFINE data == [i \in 1 .. n |-> 10 * (ops + 1) + i]
           y == Context(fil[h], 0, FALSE)
<1>1. fil[h] \in FIL
  BY DEF TypeInv, Filled
<1>2. Begins(fil[h], y)
  BY <1>1, CleanBegins
<1>3. data \in Seq(Int)
  <2>1. ops \in Nat
    BY DEF TypeInv
  <2> QED
    BY <2>1
<1>4. f_write(y, data).made \in Nat
  <2>1. y \in Fair /\ Headed(y.fp)
    BY <1>2, HandleBegins
  <2> HIDE DEF y, data
  <2>2. f_write(y, data) \in Ctx
    BY <1>3, <2>1, WriteFileType DEF Result, Fair
  <2> QED
    BY <2>2 DEF Ctx
<1>5. \A bad \in 1 .. Accesses(f_write(y, data)), gone \in BOOLEAN :
        Begins(fil[h], Context(fil[h], bad, gone))
  BY <1>1, <1>4, CallBegins
<1>6. ops < MaxOps
  BY OpsBound DEF Write, OnHandle, Outcome
<1> QED
  BY <1>2, <1>5, <1>6 DEF Write, OnHandle, Outcome

\* Write keeps the invariant.
LEMMA WriteTypes ==
  ASSUME TypeInv, NEW h \in Handle, NEW n \in Nat, Write(h, n)
  PROVE  TypeInv'
<1> DEFINE data == [i \in 1 .. n |-> 10 * (ops + 1) + i]
           names == {owner[h]}
           r == [Request("write", h) EXCEPT !.data = data]
<1>1. PICK x : /\ Begins(fil[h], x) /\ ops < MaxOps /\ stray' = stray /\ fil[h].fs
               /\ LET c == f_write(x, data)
                  IN Return(c, names, r, [fil EXCEPT ![h] = c.fp], owner)
  BY WriteStep
<1> DEFINE c == f_write(x, data)
<1>2. data \in Seq(Int)
  <2>1. ops \in Nat
    BY DEF TypeInv
  <2> QED
    BY <2>1
<1>3. r.h = h /\ names \in SUBSET Name /\ stray' \subseteq Handle
  BY <1>1, Owned DEF Request, TypeInv
<1>4. Return(c, names, r, [fil EXCEPT ![h] = c.fp], owner)
  BY <1>1
<1> HIDE DEF data, r, names
<1>5. c \in Result(x)
  BY <1>1, <1>2, HandleBegins, WriteFileType
<1>6. x.stat = "STA_NOINIT" => c = Failed(x, "FR_INVALID_OBJECT")
  BY <1>1, HandleBegins, Untouched, SMTT(60)
<1> HIDE DEF c
<1> QED
  BY <1>1, <1>3, <1>4, <1>5, <1>6, HandleEnds

\* The offset of a seek.
SeekOff(h, pos, dir) ==
  CASE dir = "SET" -> pos
    [] dir = "END" -> fil[h].fsize - pos
    [] dir = "CUR" -> fil[h].fptr + pos

\* Seek is f_lseek to an offset of 32 bits.
LEMMA SeekStep ==
  ASSUME TypeInv, NEW h \in Handle, NEW pos \in Int, NEW dir \in {"SET", "CUR", "END"},
         Seek(h, pos, dir)
  PROVE  LET dword == SeekOff(h, pos, dir) % Wrap
         IN /\ dword \in Nat
            /\ \E x : /\ Begins(fil[h], x) /\ ops < MaxOps /\ stray' = stray /\ fil[h].fs
                      /\ LET c == f_lseek(x, dword)
                         IN Return(c, IF fil[h].wr THEN {owner[h]} ELSE {},
                                   [Request("seek", h) EXCEPT !.n = dword],
                                   [fil EXCEPT ![h] = c.fp], owner)
<1> DEFINE off == SeekOff(h, pos, dir)
           dword == off % Wrap
           y == Context(fil[h], 0, FALSE)
<1>1. fil[h] \in FIL
  BY DEF TypeInv, Filled
<1>2. Begins(fil[h], y)
  BY <1>1, CleanBegins
<1>3. dword \in Nat
  <2>1. fil[h].fptr \in Int /\ fil[h].fsize \in Int
    BY <1>1 DEF FIL
  <2>2. off \in Int
    BY <2>1 DEF SeekOff
  <2> HIDE DEF off
  <2> QED
    BY <2>2, FatDevAssumption
<1>4. f_lseek(y, dword).made \in Nat
  <2>1. y \in Fair /\ Headed(y.fp)
    BY <1>2, HandleBegins
  <2> HIDE DEF y, dword
  <2>2. f_lseek(y, dword) \in Ctx
    BY <1>3, <2>1, LseekType DEF Result, Fair
  <2> QED
    BY <2>2 DEF Ctx
<1>5. \A bad \in 1 .. Accesses(f_lseek(y, dword)), gone \in BOOLEAN :
        Begins(fil[h], Context(fil[h], bad, gone))
  BY <1>1, <1>4, CallBegins
<1>6. ops < MaxOps
  BY OpsBound DEF Seek, OnHandle, Outcome
<1> QED
  BY <1>2, <1>3, <1>5, <1>6, ZenonT(60) DEF Seek, OnHandle, Outcome, SeekOff

\* Seek keeps the invariant.
LEMMA SeekTypes ==
  ASSUME TypeInv, NEW h \in Handle, NEW pos \in Int, NEW dir \in {"SET", "CUR", "END"},
         Seek(h, pos, dir)
  PROVE  TypeInv'
<1> DEFINE dword == SeekOff(h, pos, dir) % Wrap
           names == IF fil[h].wr THEN {owner[h]} ELSE {}
           r == [Request("seek", h) EXCEPT !.n = dword]
<1>1. PICK x : /\ Begins(fil[h], x) /\ ops < MaxOps /\ stray' = stray /\ fil[h].fs
               /\ LET c == f_lseek(x, dword)
                  IN Return(c, names, r, [fil EXCEPT ![h] = c.fp], owner)
  BY SeekStep
<1> DEFINE c == f_lseek(x, dword)
<1>2. dword \in Nat
  BY SeekStep
<1>3. r.h = h /\ names \in SUBSET Name /\ stray' \subseteq Handle
  BY <1>1, Owned DEF Request, TypeInv
<1>4. Return(c, names, r, [fil EXCEPT ![h] = c.fp], owner)
  BY <1>1
<1> HIDE DEF dword, r, names
<1>5. c \in Result(x)
  BY <1>1, <1>2, HandleBegins, LseekType
<1>6. x.stat = "STA_NOINIT" => c = Failed(x, "FR_INVALID_OBJECT")
  BY <1>1, HandleBegins, Untouched
<1> HIDE DEF c
<1> QED
  BY <1>1, <1>3, <1>4, <1>5, <1>6, HandleEnds

\* Fsync is f_sync.
LEMMA FsyncStep ==
  ASSUME TypeInv, NEW h \in Handle, Fsync(h)
  PROVE  \E x : /\ Begins(fil[h], x) /\ ops < MaxOps /\ stray' = stray /\ fil[h].fs
                /\ LET c == f_sync(x)
                   IN Return(c, {owner[h]}, Request("fsync", h), [fil EXCEPT ![h] = c.fp], owner)
<1> DEFINE y == Context(fil[h], 0, FALSE)
<1>1. fil[h] \in FIL
  BY DEF TypeInv, Filled
<1>2. Begins(fil[h], y)
  BY <1>1, CleanBegins
<1>3. f_sync(y).made \in Nat
  <2>1. y \in Fair /\ Headed(y.fp) /\ Listed(y.fp)
    BY <1>2, HandleBegins
  <2> HIDE DEF y
  <2>2. f_sync(y) \in Ctx
    BY <2>1, FsyncType DEF Result, Fair
  <2> QED
    BY <2>2 DEF Ctx
<1>4. \A bad \in 1 .. Accesses(f_sync(y)), gone \in BOOLEAN :
        Begins(fil[h], Context(fil[h], bad, gone))
  BY <1>1, <1>3, CallBegins
<1>5. ops < MaxOps
  BY OpsBound DEF Fsync, OnHandle, Outcome
<1> QED
  BY <1>2, <1>4, <1>5 DEF Fsync, OnHandle, Outcome

\* Fsync keeps the invariant.
LEMMA FsyncTypes ==
  ASSUME TypeInv, NEW h \in Handle, Fsync(h)
  PROVE  TypeInv'
<1>1. PICK x : /\ Begins(fil[h], x) /\ ops < MaxOps /\ stray' = stray /\ fil[h].fs
               /\ LET c == f_sync(x)
                  IN Return(c, {owner[h]}, Request("fsync", h), [fil EXCEPT ![h] = c.fp], owner)
  BY FsyncStep
<1> DEFINE c == f_sync(x)
           r == Request("fsync", h)
<1>2. c \in Result(x)
  BY <1>1, HandleBegins, FsyncType
<1>3. x.stat = "STA_NOINIT" => c = Failed(x, "FR_INVALID_OBJECT")
  BY <1>1, HandleBegins, Untouched
<1>4. r.h = h /\ {owner[h]} \in SUBSET Name /\ stray' \subseteq Handle
  BY <1>1, Owned DEF Request, TypeInv
<1>5. Return(c, {owner[h]}, r, [fil EXCEPT ![h] = c.fp], owner)
  BY <1>1
<1> HIDE DEF c, r
<1> QED
  BY <1>1, <1>2, <1>3, <1>4, <1>5, HandleEnds
---------------------------------------------------------------------------
(* elm_ftruncate and elm_open.                                             *)

\* The devoptab's ftruncate seeks and truncates.
LEMMA ElmFtruncateType ==
  ASSUME NEW c \in Fair, Headed(c.fp), NEW len \in Nat
  PROVE  elm_ftruncate(c, len) \in Result(c)
<1> DEFINE d == f_lseek(c, len)
           e == f_truncate(d)
           pos == Least(c.fp.fptr, len)
           g == [e EXCEPT !.fp.fptr = pos]
<1>1. d \in Result(c) /\ LseekEnds(c, d, len)
  BY LseekType
<1>2. elm_ftruncate(c, len) = IF IsOk(d) THEN IF IsOk(e) THEN g ELSE e ELSE d
  BY DEF elm_ftruncate, Then
<1>3. IsOk(d) => c.fp.err = "FR_OK"
  <2>1. f_lseek(c, len) = IF IsOk(Reject(c)) THEN f_lseek(c, len) ELSE Reject(c)
    BY DEF f_lseek, Then
  <2>2. IsOk(Reject(c)) => c.fp.err = "FR_OK"
    BY RejectType
  <2> QED
    BY <2>1, <2>2
<1>4. d \in Fair /\ Headed(d.fp) /\ Filed(c, d)
  BY <1>1 DEF Result
<1> HIDE DEF d
<1>5. /\ e \in Result(d)
      /\ IsOk(e) => /\ e \in Good /\ d.fp.wr
                    /\ d.fp.fptr > 0 => e.fp.sclust = d.fp.sclust /\ e.fp.clust = d.fp.clust
  BY <1>4, TruncateType
<1> HIDE DEF e
<1>6. e \in Fair /\ Filed(d, e) /\ Headed(e.fp)
  BY <1>5 DEF Result
<1>7. Filed(c, e)
  BY <1>4, <1>6, FiledTransitive
<1>8. c.fp.fptr \in Nat /\ pos \in Nat /\ (pos > 0 => c.fp.fptr > 0 /\ len > 0)
  <2>1. c.fp.fptr \in Nat
    BY DEF Fair, Ctx, FIL
  <2> QED
    BY <2>1 DEF Least
<1> HIDE DEF pos
<1>9. CASE IsOk(d) /\ IsOk(e)
  <2> DEFINE p == [e.fp EXCEPT !.fptr = pos]
  <2>1. e \in Good /\ e.fp \in FIL
    BY <1>5, <1>9 DEF Good, Ctx
  <2>2. p \in FIL /\ p.fptr = pos /\ p.sclust = e.fp.sclust /\ p.clust = e.fp.clust
        /\ p.fs = e.fp.fs /\ p.id = e.fp.id /\ p.rd = e.fp.rd /\ p.wr = e.fp.wr
        /\ p.dir_ptr = e.fp.dir_ptr
    BY <1>8, <2>1 DEF FIL
  <2>3. g = WithFp(e, p)
    BY <2>1 DEF Good, Ctx, WithFp
  <2> HIDE DEF g, p
  <2>4. g \in Good /\ Beside(e, g) /\ g.fp = p
    BY <2>1, <2>2, <2>3, WithFpType
  <2>5. Filed(e, g)
    BY <2>2, <2>4 DEF Filed, Beside, Met
  <2>6. pos > 0 => Rooted(p)
    <3> SUFFICES ASSUME pos > 0 PROVE Rooted(p)
      OBVIOUS
    <3>1. Rooted(c.fp)
      BY <1>3, <1>8, <1>9 DEF Headed
    <3>2. c.fp.wr
      BY <1>4, <1>5, <1>9 DEF Filed
    <3>3. d.fp.fptr > 0 /\ d.fp.err = "FR_OK"
      BY <1>1, <1>8, <1>9, <3>1, <3>2 DEF LseekEnds
    <3>4. Rooted(d.fp)
      BY <1>4, <3>3 DEF Headed
    <3> QED
      BY <1>5, <1>9, <2>2, <3>3, <3>4 DEF Rooted
  <2>7. Headed(g.fp)
    BY <2>2, <2>4, <2>6 DEF Headed
  <2>8. Filed(c, g)
    BY <1>7, <2>5, FiledTransitive
  <2>9. g \in Result(c)
    BY <2>4, <2>7, <2>8 DEF Result, Good, Fair
  <2> QED
    BY <1>2, <1>9, <2>9
<1>10. CASE ~(IsOk(d) /\ IsOk(e))
  BY <1>1, <1>2, <1>6, <1>7, <1>10 DEF Result
<1> QED
  BY <1>9, <1>10

\* A file that was opened, with its position.
Owns(c) ==
  {d \in Good : Goes(c, d) /\ (IsOk(d) => d.fp.fs /\ Headed(d.fp) /\ Listed(d.fp))}

\* ... and calls on it leave it one.
LEMMA FiledOwns ==
  ASSUME NEW c, NEW d \in Owns(c), IsOk(d), NEW e \in Result(d)
  PROVE  e \in Owns(c)
<1>1. Goes(c, d) /\ d.fp.fs /\ Headed(d.fp) /\ Listed(d.fp) /\ d.stat # "STA_NOINIT"
  BY DEF Owns, Goes
<1>2. e \in Fair /\ Filed(d, e) /\ Headed(e.fp)
  BY DEF Result
<1>3. e.stat = d.stat /\ e.fp.fs = d.fp.fs /\ e.fp.dir_ptr = d.fp.dir_ptr /\ Met(d, e)
  BY <1>2 DEF Filed
<1>4. e \in Good
  BY <1>1, <1>2, <1>3 DEF Fair, Good
<1>5. Goes(c, e)
  BY <1>1, <1>3, MetTransitive DEF Goes
<1>6. Listed(e.fp)
  BY <1>1, <1>3 DEF Listed
<1> QED
  BY <1>1, <1>2, <1>3, <1>4, <1>5, <1>6 DEF Owns

\* The devoptab's open opens, and seeks to the end if it is to append.
LEMMA ElmOpenType ==
  ASSUME NEW c \in Fair, NEW name \in Name, NEW how \in Flags
  PROVE  elm_open(c, name, how) \in Owns(c)
<1> DEFINE d == f_open(c, name, Mode(how))
           e == IF how.trunc /\ ~how.creat THEN f_truncate(d) ELSE d
           g == IF how.app THEN f_lseek(e, e.fp.fsize) ELSE e
<1>1. Modal(Mode(how))
  BY FatDevAssumption DEF Modal, Mode
<1>2. d \in Opened(c)
  BY <1>1, OpenType
<1>3. elm_open(c, name, how) = IF IsOk(d) THEN IF IsOk(e) THEN g ELSE e ELSE d
  BY DEF elm_open, Then
<1> HIDE DEF d
<1>4. d \in Owns(c)
  BY <1>2 DEF Opened, Owns, Headed
<1>5. CASE ~IsOk(d)
  BY <1>3, <1>4, <1>5
<1>6. CASE IsOk(d)
  <2>1. d \in Fair /\ Headed(d.fp)
    BY <1>4, <1>6 DEF Owns, Good, Fair
  <2>2. e \in Owns(c)
    <3>1. f_truncate(d) \in Owns(c)
      BY <1>4, <1>6, <2>1, TruncateType, FiledOwns
    <3> QED
      BY <1>4, <3>1
  <2> HIDE DEF e
  <2>3. CASE ~IsOk(e)
    BY <1>3, <1>6, <2>2, <2>3
  <2>4. CASE IsOk(e)
    <3>1. e \in Fair /\ Headed(e.fp) /\ e.fp.fsize \in Nat
      BY <2>2, <2>4 DEF Owns, Good, Fair, Ctx, FIL
    <3>2. f_lseek(e, e.fp.fsize) \in Owns(c)
      BY <2>2, <2>4, <3>1, LseekType, FiledOwns
    <3> QED
      BY <1>3, <1>6, <2>2, <2>4, <3>2
  <2> QED
    BY <2>3, <2>4
<1> QED
  BY <1>5, <1>6
---------------------------------------------------------------------------
(* The other calls.                                                        *)

\* A handle is given to a file, or taken from it.
LEMMA GivenType ==
  ASSUME TypeInv, NEW h \in Handle, NEW p \in FIL, Headed(p), Listed(p),
         NEW o \in Name \cup {NoName}, p.fs <=> o # NoName
  PROVE  Filled([fil EXCEPT ![h] = p], [owner EXCEPT ![h] = o])
<1> DEFINE g == [fil EXCEPT ![h] = p]
           w == [owner EXCEPT ![h] = o]
<1>1. fil \in [Handle -> FIL] /\ owner \in [Handle -> Name \cup {NoName}]
  BY DEF TypeInv, Filled
<1>2. \A k \in Handle : Headed(fil[k]) /\ Listed(fil[k])
  BY DEF TypeInv, Filled
<1>3. \A k \in Handle : fil[k].fs <=> owner[k] # NoName
  BY DEF TypeInv, Filled
<1>4. g \in [Handle -> FIL] /\ g[h] = p /\ \A k \in Handle \ {h} : g[k] = fil[k]
  BY <1>1
<1>5. w \in [Handle -> Name \cup {NoName}] /\ w[h] = o /\ \A k \in Handle \ {h} : w[k] = owner[k]
  BY <1>1
<1> HIDE DEF g, w
<1>6. \A k \in Handle : Headed(g[k]) /\ Listed(g[k])
  BY <1>2, <1>4
<1>7. \A k \in Handle : g[k].fs <=> w[k] # NoName
  BY <1>3, <1>4, <1>5
<1>8. Filled(g, w)
  BY <1>4, <1>5, <1>6, <1>7 DEF Filled
<1> QED
  BY <1>8 DEF g, w

\* What a handle that is closed holds.
LEMMA ClosedGiven ==
  /\ Closed \in FIL /\ Headed(Closed) /\ Listed(Closed) /\ (Closed.fs <=> NoName # NoName)
<1>1. Closed \in FIL /\ ~Closed.fs /\ Closed.fptr = 0
  BY ClosedType
<1>2. Headed(Closed) /\ Listed(Closed)
  BY <1>1 DEF Headed, Listed
<1> QED
  BY <1>1, <1>2

\* Ftruncate is elm_ftruncate.
LEMMA FtruncateStep ==
  ASSUME TypeInv, NEW h \in Handle, NEW len \in Nat, Ftruncate(h, len)
  PROVE  \E x : /\ Begins(fil[h], x) /\ ops < MaxOps /\ fil[h].fs
                /\ LET c == elm_ftruncate(x, len)
                   IN /\ Return(c, IF fil[h].wr THEN {owner[h]} ELSE {},
                                [Request("ftruncate", h) EXCEPT !.n = len],
                                [fil EXCEPT ![h] = c.fp], owner)
                      /\ stray' = IF IsOk(c) /\ c.fp.fptr \notin {0, len}
                                  THEN stray \cup {h} ELSE stray
<1> DEFINE y == Context(fil[h], 0, FALSE)
<1>1. fil[h] \in FIL
  BY DEF TypeInv, Filled
<1>2. Begins(fil[h], y)
  BY <1>1, CleanBegins
<1>3. elm_ftruncate(y, len).made \in Nat
  <2>1. y \in Fair /\ Headed(y.fp)
    BY <1>2, HandleBegins
  <2> HIDE DEF y
  <2>2. elm_ftruncate(y, len) \in Ctx
    BY <2>1, ElmFtruncateType DEF Result, Fair
  <2> QED
    BY <2>2 DEF Ctx
<1>4. \A bad \in 1 .. Accesses(elm_ftruncate(y, len)), gone \in BOOLEAN :
        Begins(fil[h], Context(fil[h], bad, gone))
  BY <1>1, <1>3, CallBegins
<1>5. ops < MaxOps
  BY OpsBound DEF Ftruncate, Outcome
<1> QED
  BY <1>2, <1>4, <1>5 DEF Ftruncate, Outcome

\* Ftruncate keeps the invariant.
LEMMA FtruncateTypes ==
  ASSUME TypeInv, NEW h \in Handle, NEW len \in Nat, Ftruncate(h, len)
  PROVE  TypeInv'
<1> DEFINE names == IF fil[h].wr THEN {owner[h]} ELSE {}
           r == [Request("ftruncate", h) EXCEPT !.n = len]
<1>1. PICK x : /\ Begins(fil[h], x) /\ ops < MaxOps /\ fil[h].fs
               /\ LET c == elm_ftruncate(x, len)
                  IN /\ Return(c, names, r, [fil EXCEPT ![h] = c.fp], owner)
                     /\ stray' = IF IsOk(c) /\ c.fp.fptr \notin {0, len}
                                 THEN stray \cup {h} ELSE stray
  BY FtruncateStep
<1> DEFINE c == elm_ftruncate(x, len)
<1>2. c \in Result(x)
  BY <1>1, HandleBegins, ElmFtruncateType
<1>3. x.stat = "STA_NOINIT" => c = Failed(x, "FR_INVALID_OBJECT")
  <2> SUFFICES ASSUME x.stat = "STA_NOINIT" PROVE c = Failed(x, "FR_INVALID_OBJECT")
    OBVIOUS
  <2>1. x \in Ctx /\ f_lseek(x, len) = Failed(x, "FR_INVALID_OBJECT")
    BY <1>1, HandleBegins, Untouched
  <2>2. ~IsOk(f_lseek(x, len))
    <3>1. Failed(x, "FR_INVALID_OBJECT").res = "FR_INVALID_OBJECT"
      BY <2>1 DEF Failed, Ctx
    <3> QED
      BY <2>1, <3>1 DEF IsOk
  <2> QED
    BY <2>1, <2>2 DEF elm_ftruncate, Then
<1>4. r.h = h /\ names \in SUBSET Name /\ stray' \subseteq Handle
  BY <1>1, Owned DEF Request, TypeInv
<1>5. Return(c, names, r, [fil EXCEPT ![h] = c.fp], owner)
  BY <1>1
<1> HIDE DEF c, r, names
<1> QED
  BY <1>1, <1>2, <1>3, <1>4, <1>5, HandleEnds

\* Close is f_close; the handle is free afterwards.
LEMMA CloseStep ==
  ASSUME TypeInv, NEW h \in Handle, Close(h)
  PROVE  \E x : /\ Begins(fil[h], x) /\ ops < MaxOps /\ fil[h].fs /\ stray' = stray \ {h}
                /\ Return(f_close(x), {owner[h]}, Request("close", h),
                          [fil EXCEPT ![h] = Closed], [owner EXCEPT ![h] = NoName])
<1> DEFINE y == Context(fil[h], 0, FALSE)
<1>1. fil[h] \in FIL
  BY DEF TypeInv, Filled
<1>2. Begins(fil[h], y)
  BY <1>1, CleanBegins
<1>3. f_close(y).made \in Nat
  <2>1. y \in Fair /\ Headed(y.fp) /\ Listed(y.fp)
    BY <1>2, HandleBegins
  <2> HIDE DEF y
  <2>2. f_close(y) \in Ctx
    BY <2>1, FcloseType DEF Done, Fair
  <2> QED
    BY <2>2 DEF Ctx
<1>4. \A bad \in 1 .. Accesses(f_close(y)), gone \in BOOLEAN :
        Begins(fil[h], Context(fil[h], bad, gone))
  BY <1>1, <1>3, CallBegins
<1>5. ops < MaxOps
  BY OpsBound DEF Close, Outcome
<1> QED
  BY <1>2, <1>4, <1>5 DEF Close, Outcome

\* Close keeps the invariant.
LEMMA CloseTypes ==
  ASSUME TypeInv, NEW h \in Handle, Close(h)
  PROVE  TypeInv'
<1> DEFINE names == {owner[h]}
           r == Request("close", h)
           g == [fil EXCEPT ![h] = Closed]
           w == [owner EXCEPT ![h] = NoName]
<1>1. PICK x : /\ Begins(fil[h], x) /\ ops < MaxOps /\ fil[h].fs /\ stray' = stray \ {h}
               /\ Return(f_close(x), names, r, g, w)
  BY CloseStep
<1> DEFINE c == f_close(x)
<1>2. x \in Fair /\ c \in Done(x)
  BY <1>1, HandleBegins, FcloseType
<1>3. x.stat = "STA_NOINIT" => c = Failed(x, "FR_INVALID_OBJECT")
  BY <1>1, HandleBegins, Untouched
<1>4. r.h = h /\ names \in SUBSET Name /\ stray' \subseteq Handle
  BY <1>1, Owned DEF Request, TypeInv
<1>5. Return(c, names, r, g, w)
  BY <1>1
<1>6. Filled(g, w)
  BY ClosedGiven, GivenType
<1>7. fil[h] \in FIL
  BY DEF TypeInv, Filled
<1> HIDE DEF c, r, names, g, w
<1>8. Finishes(x, c)
  <2>1. c \in Fair /\ Met(x, c) /\ c.stat = x.stat
    BY <1>2 DEF Done
  <2>2. "FR_INVALID_OBJECT" \in Res
    BY DEF Res
  <2>3. CASE x.stat = "STA_NOINIT"
    BY <1>2, <1>3, <2>2, <2>3, FailedFinishes
  <2>4. CASE x.stat # "STA_NOINIT"
    BY <2>1, <2>4 DEF Finishes
  <2> QED
    BY <2>3, <2>4
<1> QED
  BY <1>1, <1>4, <1>5, <1>6, <1>7, <1>8, ReturnType
---------------------------------------------------------------------------
(* Calls by name.                                                          *)

\* The handle that open takes.
Slot == LET free == {h \in Handle : ~fil[h].fs}
         IN CHOOSE k \in free : \A m \in free : k <= m

\* ... is one that is free.
LEMMA SlotType ==
  ASSUME {h \in Handle : ~fil[h].fs} # {}
  PROVE  Slot \in Handle /\ ~fil[Slot].fs
<1> DEFINE free == {h \in Handle : ~fil[h].fs}
<1>1. free \subseteq Nat /\ free # {}
  BY FatDevAssumption
<1> HIDE DEF free
<1>2. \E k \in free : \A m \in free : k <= m
  BY <1>1, LeastExists
<1>3. (CHOOSE k \in free : \A m \in free : k <= m) \in free
  BY <1>2
<1> QED
  BY <1>3 DEF Slot, free

\* Open is elm_open for a handle that is free.
LEMMA OpenStep ==
  ASSUME TypeInv, NEW name \in Name, NEW how \in Flags, Open(name, how)
  PROVE  /\ Slot \in Handle /\ ~fil[Slot].fs /\ ~Busy(name) /\ stray' = stray /\ ops < MaxOps
         /\ \E x : /\ Begins(Closed, x)
                   /\ LET c == elm_open(x, name, how)
                      IN Return(c, IF how.trunc \/ how.creat THEN {name} ELSE {},
                                [Request("open", Slot) EXCEPT !.name = name, !.how = how],
                                [fil EXCEPT ![Slot] = IF IsOk(c) THEN c.fp ELSE Closed],
                                [owner EXCEPT ![Slot] = IF IsOk(c) THEN name ELSE NoName])
<1> DEFINE y == Context(Closed, 0, FALSE)
<1>1. Closed \in FIL
  BY ClosedType
<1>2. Begins(Closed, y)
  BY <1>1, CleanBegins
<1>3. elm_open(y, name, how).made \in Nat
  <2>1. y \in Fair
    BY <1>1, <1>2, BeginsType
  <2> HIDE DEF y
  <2>2. elm_open(y, name, how) \in Ctx
    BY <2>1, ElmOpenType DEF Owns, Good
  <2> QED
    BY <2>2 DEF Ctx
<1>4. \A bad \in 1 .. Accesses(elm_open(y, name, how)), gone \in BOOLEAN :
        Begins(Closed, Context(Closed, bad, gone))
  BY <1>1, <1>3, CallBegins
<1>5. ops < MaxOps
  BY OpsBound DEF Open, Outcome
<1>6. {h \in Handle : ~fil[h].fs} # {} /\ ~Busy(name)
  BY DEF Open
<1>7. Slot \in Handle /\ ~fil[Slot].fs
  BY <1>6, SlotType
<1>8. stray' = stray
  BY ZenonT(60) DEF Open, Outcome
<1>9. \E x : /\ Begins(Closed, x)
             /\ LET c == elm_open(x, name, how)
                IN Return(c, IF how.trunc \/ how.creat THEN {name} ELSE {},
                          [Request("open", Slot) EXCEPT !.name = name, !.how = how],
                          [fil EXCEPT ![Slot] = IF IsOk(c) THEN c.fp ELSE Closed],
                          [owner EXCEPT ![Slot] = IF IsOk(c) THEN name ELSE NoName])
  BY <1>2, <1>4 DEF Open, Outcome, Slot
<1> QED
  BY <1>5, <1>6, <1>7, <1>8, <1>9

\* Open keeps the invariant.
LEMMA OpenTypes ==
  ASSUME TypeInv, NEW name \in Name, NEW how \in Flags, Open(name, how)
  PROVE  TypeInv'
<1> DEFINE h == Slot
           names == IF how.trunc \/ how.creat THEN {name} ELSE {}
           r == [Request("open", h) EXCEPT !.name = name, !.how = how]
<1>1. PICK x : /\ Begins(Closed, x)
               /\ LET c == elm_open(x, name, how)
                  IN Return(c, names, r, [fil EXCEPT ![h] = IF IsOk(c) THEN c.fp ELSE Closed],
                            [owner EXCEPT ![h] = IF IsOk(c) THEN name ELSE NoName])
  BY OpenStep
<1>2. h \in Handle /\ stray' = stray /\ ops < MaxOps
  BY OpenStep
<1> DEFINE c == elm_open(x, name, how)
           p == IF IsOk(c) THEN c.fp ELSE Closed
           o == IF IsOk(c) THEN name ELSE NoName
           g == [fil EXCEPT ![h] = p]
           w == [owner EXCEPT ![h] = o]
<1>3. Closed \in FIL
  BY ClosedType
<1>4. x \in Fair
  BY <1>1, <1>3, BeginsType
<1>5. c \in Owns(x)
  BY <1>4, ElmOpenType
<1>6. Return(c, names, r, g, w)
  BY <1>1
<1>7. r.h = h /\ names \in SUBSET Name /\ stray' \subseteq Handle
  BY <1>2 DEF Request, TypeInv
<1> HIDE DEF r, names, h, c
<1>8. Finishes(x, c)
  BY <1>5 DEF Owns, Finishes, Goes, Fair, Good
<1>9. p \in FIL /\ Headed(p) /\ Listed(p) /\ o \in Name \cup {NoName} /\ (p.fs <=> o # NoName)
  <2>1. CASE IsOk(c)
    <3>1. c.fp \in FIL /\ c.fp.fs /\ Headed(c.fp) /\ Listed(c.fp)
      BY <1>5, <2>1 DEF Owns, Good, Ctx
    <3>2. name # NoName
      BY FatDevAssumption
    <3> QED
      BY <2>1, <3>1, <3>2
  <2>2. CASE ~IsOk(c)
    BY <2>2, ClosedGiven
  <2> QED
    BY <2>1, <2>2
<1> HIDE DEF p, o
<1>10. Filled(g, w)
  BY <1>2, <1>9, GivenType
<1> HIDE DEF g, w
<1>11. r.h \in Handle \cup {0}
  BY <1>2, <1>7
<1> QED
  BY <1>1, <1>2, <1>3, <1>6, <1>7, <1>8, <1>10, <1>11, ReturnType

\* A call by name keeps the invariant.
LEMMA NamedEnds ==
  ASSUME TypeInv, NEW x, Begins(Closed, x), NEW c \in Settled(x), NEW names \in SUBSET Name,
         NEW request, request.h = 0, ops < MaxOps, Return(c, names, request, fil, owner),
         stray' = stray
  PROVE  TypeInv'
<1>1. Closed \in FIL
  BY ClosedType
<1>2. Finishes(x, c)
  BY SettledFinishes
<1>3. Filled(fil, owner) /\ stray' \subseteq Handle
  BY DEF TypeInv
<1>4. request.h \in Handle \cup {0}
  OBVIOUS
<1> QED
  BY <1>1, <1>2, <1>3, <1>4, ReturnType

\* Unlink is f_unlink.
LEMMA UnlinkStep ==
  ASSUME TypeInv, NEW name \in Name, Unlink(name)
  PROVE  /\ ops < MaxOps /\ stray' = stray
         /\ \E x : /\ Begins(Closed, x)
                   /\ Return(f_unlink(x, name), {name},
                             [Request("unlink", 0) EXCEPT !.name = name],
                             fil, owner)
<1> DEFINE y == Context(Closed, 0, FALSE)
<1>1. Closed \in FIL
  BY ClosedType
<1>2. Begins(Closed, y)
  BY <1>1, CleanBegins
<1>3. f_unlink(y, name).made \in Nat
  <2>1. y \in Fair
    BY <1>1, <1>2, BeginsType
  <2> HIDE DEF y
  <2>2. f_unlink(y, name) \in Ctx
    BY <2>1, UnlinkType DEF Settled, Good
  <2> QED
    BY <2>2 DEF Ctx
<1>4. \A bad \in 1 .. Accesses(f_unlink(y, name)), gone \in BOOLEAN :
        Begins(Closed, Context(Closed, bad, gone))
  BY <1>1, <1>3, CallBegins
<1>5. ops < MaxOps
  BY OpsBound DEF Unlink, OnName, Outcome
<1> QED
  BY <1>2, <1>4, <1>5 DEF Unlink, OnName, Outcome

\* Unlink keeps the invariant.
LEMMA UnlinkTypes ==
  ASSUME TypeInv, NEW name \in Name, Unlink(name)
  PROVE  TypeInv'
<1> DEFINE r == [Request("unlink", 0) EXCEPT !.name = name]
           names == {name}
<1>1. PICK x : Begins(Closed, x) /\ Return(f_unlink(x, name), names, r, fil, owner)
  BY UnlinkStep
<1>2. x \in Fair
  BY <1>1, ClosedType, BeginsType
<1>3. f_unlink(x, name) \in Settled(x)
  BY <1>2, UnlinkType
<1>4. r.h = 0 /\ names \in SUBSET Name
  BY DEF Request
<1> HIDE DEF r, names
<1> QED
  BY <1>1, <1>3, <1>4, UnlinkStep, NamedEnds

\* Rename is f_rename.
LEMMA RenameStep ==
  ASSUME TypeInv, NEW name \in Name, NEW to \in Name, Rename(name, to)
  PROVE  /\ ops < MaxOps /\ stray' = stray
         /\ \E x : /\ Begins(Closed, x)
                   /\ Return(f_rename(x, name, to), {name, to},
                             [Request("rename", 0) EXCEPT !.name = name, !.to = to], fil, owner)
<1> DEFINE y == Context(Closed, 0, FALSE)
<1>1. Closed \in FIL
  BY ClosedType
<1>2. Begins(Closed, y)
  BY <1>1, CleanBegins
<1>3. f_rename(y, name, to).made \in Nat
  <2>1. y \in Fair
    BY <1>1, <1>2, BeginsType
  <2> HIDE DEF y
  <2>2. f_rename(y, name, to) \in Ctx
    BY <2>1, RenameType DEF Settled, Good
  <2> QED
    BY <2>2 DEF Ctx
<1>4. \A bad \in 1 .. Accesses(f_rename(y, name, to)), gone \in BOOLEAN :
        Begins(Closed, Context(Closed, bad, gone))
  BY <1>1, <1>3, CallBegins
<1>5. ops < MaxOps
  BY OpsBound DEF Rename, OnName, Outcome
<1> QED
  BY <1>2, <1>4, <1>5 DEF Rename, OnName, Outcome

\* Rename keeps the invariant.
LEMMA RenameTypes ==
  ASSUME TypeInv, NEW name \in Name, NEW to \in Name, Rename(name, to)
  PROVE  TypeInv'
<1> DEFINE r == [Request("rename", 0) EXCEPT !.name = name, !.to = to]
           names == {name, to}
<1>1. PICK x : Begins(Closed, x) /\ Return(f_rename(x, name, to), names, r, fil, owner)
  BY RenameStep
<1>2. x \in Fair
  BY <1>1, ClosedType, BeginsType
<1>3. f_rename(x, name, to) \in Settled(x)
  BY <1>2, RenameType
<1>4. r.h = 0 /\ names \in SUBSET Name
  BY DEF Request
<1> HIDE DEF r, names
<1> QED
  BY <1>1, <1>3, <1>4, RenameStep, NamedEnds

\* GetFree is f_getfree.
LEMMA GetFreeStep ==
  ASSUME TypeInv, GetFree
  PROVE  /\ ops < MaxOps /\ stray' = stray
         /\ \E x : /\ Begins(Closed, x)
                   /\ Return(f_getfree(x), {}, Request("getfree", 0), fil, owner)
<1> DEFINE y == Context(Closed, 0, FALSE)
<1>1. Closed \in FIL
  BY ClosedType
<1>2. Begins(Closed, y)
  BY <1>1, CleanBegins
<1>3. f_getfree(y).made \in Nat
  <2>1. y \in Fair
    BY <1>1, <1>2, BeginsType
  <2> HIDE DEF y
  <2>2. f_getfree(y) \in Ctx
    BY <2>1, GetFreeType DEF Settled, Good
  <2> QED
    BY <2>2 DEF Ctx
<1>4. \A bad \in 1 .. Accesses(f_getfree(y)), gone \in BOOLEAN :
        Begins(Closed, Context(Closed, bad, gone))
  BY <1>1, <1>3, CallBegins
<1>5. ops < MaxOps
  BY OpsBound DEF GetFree, OnName, Outcome
<1> QED
  BY <1>2, <1>4, <1>5 DEF GetFree, OnName, Outcome

\* GetFree keeps the invariant.
LEMMA GetFreeTypes ==
  ASSUME TypeInv, GetFree
  PROVE  TypeInv'
<1> DEFINE r == Request("getfree", 0)
           names == {}
<1>1. PICK x : Begins(Closed, x) /\ Return(f_getfree(x), names, r, fil, owner)
  BY GetFreeStep
<1>2. x \in Fair
  BY <1>1, ClosedType, BeginsType
<1>3. f_getfree(x) \in Settled(x)
  BY <1>2, GetFreeType
<1>4. r.h = 0 /\ names \in SUBSET Name
  BY DEF Request
<1> HIDE DEF r, names
<1> QED
  BY <1>1, <1>3, <1>4, GetFreeStep, NamedEnds
---------------------------------------------------------------------------
(* The card, and the beginning.                                            *)

\* Mounting a volume writes nothing to its card.
LEMMA MountWritesNothing ==
  ASSUME NEW c \in Fair, c.fs_type = 0
  PROVE  find_volume(c).sec = c.sec /\ ~find_volume(c).wflag
<1> DEFINE o == Reopened(c)
           r == disk_read(o)
           m == move_window(r, FSInfo)
           k == IsOk(m)
<1>1. find_volume(c) = IF IsOk(r) THEN IF Fat32 THEN Mount(m, k) ELSE Mount(r, FALSE) ELSE r
  BY DEF find_volume, Then
<1>2. o \in Good /\ o.sec = c.sec /\ ~o.wflag
  <2>1. o \in Good
    BY ReopenedType DEF Fair
  <2>2. c \in Ctx
    BY DEF Fair
  <2> QED
    BY <2>1, <2>2 DEF Reopened, Ctx
<1> HIDE DEF o
<1>3. r \in Ctx /\ r.sec = o.sec /\ r.winsect = o.winsect /\ r.win = o.win /\ r.wflag = o.wflag
  BY <1>2, ReadType DEF Good
<1> HIDE DEF r
<1>4. r \in Good
  BY <1>2, <1>3 DEF Good, Coherent
<1>5. Over(r) = c.sec /\ r.sec = c.sec /\ ~r.wflag
  BY <1>2, <1>3 DEF Over
<1>6. m \in Good /\ m.sec = c.sec /\ ~m.wflag
  <2>1. m \in Good /\ Flushed(r, m)
    BY <1>4, MoveWindowType, SectorFacts
  <2>2. m.sec = c.sec
    BY <1>5, <2>1 DEF Flushed, Moved
  <2>3. ~m.wflag
    <3> DEFINE y == sync_window(r)
    <3>1. y = Ok(r)
      BY <1>5 DEF sync_window
    <3>2. y \in Ctx /\ ~y.wflag
      BY <1>3, <1>5, <3>1, OkType
    <3> HIDE DEF y
    <3>3. m = IF FSInfo = r.winsect THEN Ok(r)
              ELSE IF IsOk(y) THEN
                     IF IsOk(disk_read(y))
                     THEN [disk_read(y) EXCEPT !.winsect = FSInfo,
                                               !.win = disk_read(y).sec[FSInfo]]
                     ELSE [disk_read(y) EXCEPT !.winsect = NoSector]
                   ELSE y
      BY DEF move_window, Then, y
    <3>4. disk_read(y) \in Ctx /\ ~disk_read(y).wflag
      BY <3>2, ReadType
    <3>5. ~Ok(r).wflag
      BY <3>1, <3>2
    <3> DEFINE d == disk_read(y)
               a == [d EXCEPT !.winsect = FSInfo, !.win = d.sec[FSInfo]]
               b == [d EXCEPT !.winsect = NoSector]
    <3>6. d \in Ctx /\ ~d.wflag
      BY <3>4
    <3>7. m = Ok(r) \/ m = a \/ m = b \/ m = y
      BY <3>3
    <3> HIDE DEF d, m
    <3>8. ~a.wflag /\ ~b.wflag
      BY <3>6 DEF Ctx
    <3> QED
      BY <3>2, <3>5, <3>7, <3>8
  <2> QED
    BY <2>1, <2>2, <2>3
<1> HIDE DEF m, k
<1>7. /\ Mount(m, k).sec = m.sec /\ Mount(m, k).wflag = m.wflag
      /\ Mount(r, FALSE).sec = r.sec /\ Mount(r, FALSE).wflag = r.wflag
  BY <1>3, <1>6 DEF Mount, Ok, Good, Ctx
<1> QED
  BY <1>1, <1>5, <1>6, <1>7

\* Files that are not on the card yet have names.
LEMMA UnsyncedType ==
  ASSUME TypeInv
  PROVE  Unsynced \subseteq Name
<1>1. \A h \in Handle : Live(h) => fil[h].fs
  BY DEF Live, Valid
<1> QED
  BY <1>1, Owned DEF Unsynced

\* Pull keeps the invariant: the volume stays the one of the card that was initialized last.
LEMMA PullType ==
  ASSUME TypeInv, Pull
  PROVE  TypeInv'
<1>1. /\ stat' = "STA_NODISK" /\ card' = volume /\ volume' = volume /\ fs' = fs /\ sec' = sec
      /\ fil' = fil /\ owner' = owner /\ stray' = stray /\ unsure' = unsure /\ cut' = cut
      /\ ops' = ops /\ faults' = faults /\ swaps' = swaps
  BY DEF Pull
<1>2. AtRest' \in Good
  <2> DEFINE a == AtRest
  <2>1. /\ a \in Good /\ a.sec = sec[volume]
        /\ fs.fs_type = a.fs_type /\ fs.id = a.id /\ fs.winsect = a.winsect
        /\ fs.win = a.win /\ fs.wflag = a.wflag /\ fs.last_clust = a.last_clust
        /\ fs.free_clust = a.free_clust /\ fs.fsi = a.fsi
    BY AtRestFields DEF TypeInv
  <2>2. AtRest' = Resting(fs, sec[volume], "STA_NODISK")
    BY <1>1 DEF AtRest
  <2> HIDE DEF a
  <2>3. "STA_NODISK" \in Stat
    BY DEF Stat
  <2>4. Resting(fs, a.sec, "STA_NODISK") \in Good
    BY <2>1, <2>3, RestingType
  <2> QED
    BY <2>1, <2>2, <2>4
<1>3. Filled(fil, owner)'
  BY <1>1 DEF TypeInv, Filled
<1> QED
  BY <1>1, <1>2, <1>3 DEF TypeInv

\* Insert keeps the invariant: the next call by name mounts the new card.
LEMMA InsertType ==
  ASSUME TypeInv, NEW c \in Card, Insert(c)
  PROVE  TypeInv'
<1>1. /\ stat' = "STA_NOINIT" /\ card' = c /\ volume' = volume /\ fs' = fs /\ sec' = sec
      /\ fil' = fil /\ owner' = owner /\ stray' = stray /\ cut' = cut
      /\ ops' = ops /\ faults' = faults /\ swaps' = swaps + 1 /\ swaps < MaxSwaps
      /\ unsure' = [unsure EXCEPT ![card] = @ \cup Unsynced]
  BY DEF Insert
<1>2. AtRest' \in Good
  <2> DEFINE a == AtRest
  <2>1. /\ a \in Good /\ a.sec = sec[volume]
        /\ fs.fs_type = a.fs_type /\ fs.id = a.id /\ fs.winsect = a.winsect
        /\ fs.win = a.win /\ fs.wflag = a.wflag /\ fs.last_clust = a.last_clust
        /\ fs.free_clust = a.free_clust /\ fs.fsi = a.fsi
    BY AtRestFields DEF TypeInv
  <2>2. AtRest' = Resting(fs, sec[volume], "STA_NOINIT")
    BY <1>1 DEF AtRest
  <2> HIDE DEF a
  <2>3. "STA_NOINIT" \in Stat
    BY DEF Stat
  <2>4. Resting(fs, a.sec, "STA_NOINIT") \in Good
    BY <2>1, <2>3, RestingType
  <2> QED
    BY <2>1, <2>2, <2>4
<1>3. Filled(fil, owner)'
  BY <1>1 DEF TypeInv, Filled
<1>4. unsure' \in [Card -> SUBSET Name]
  BY <1>1, UnsyncedType DEF TypeInv
<1>5. swaps' \in 0 .. MaxSwaps
  BY <1>1, FatDevAssumption DEF TypeInv
<1>6. fs' = fs /\ sec' = sec
  BY <1>1
<1>7. DOMAIN fs' = Fields /\ sec' \in [Card -> Sectors] /\ card' \in Card /\ volume' \in Card
  BY <1>1, <1>6 DEF TypeInv
<1>8. stray' \subseteq Handle /\ cut' \in [Card -> SUBSET Name]
  BY <1>1 DEF TypeInv
<1>9. ops' \in 0 .. MaxOps /\ faults' \in 0 .. MaxFaults
  BY <1>1 DEF TypeInv
<1> QED
  BY <1>1, <1>2, <1>3, <1>4, <1>5, <1>7, <1>8, <1>9 DEF TypeInv

\* So does a step that changes nothing.
LEMMA StutterType ==
  ASSUME TypeInv, UNCHANGED vars
  PROVE  TypeInv'
<1>1. AtRest' = AtRest
  BY DEF vars, AtRest, Resting
<1>2. Filled(fil, owner)'
  BY DEF TypeInv, Filled, vars
<1> QED
  BY <1>1, <1>2 DEF TypeInv, vars

\* What a card holds at first.
LEMMA TypedType ==
  ASSUME NEW s, Typed(s)
  PROVE  s \in Sectors
<1>1. s = [t \in Sector |-> s[t]] /\ \A t \in Sector : s[t] \in Content(t)
  BY DEF Typed
<1>2. \A t \in Sector : s[t] \in Anything
  BY <1>1 DEF Anything
<1>3. s \in [Sector -> Anything]
  BY <1>1, <1>2
<1> QED
  BY <1>1, <1>3 DEF Sectors

\* The invariant holds at first: nothing is mounted.
LEMMA InitType ==
  ASSUME Init
  PROVE  TypeInv
<1> DEFINE i == [fs_type |-> 0, id |-> 0, winsect |-> NoSector, win |-> <<>>, wflag |-> FALSE,
                 last_clust |-> 0, free_clust |-> 0, fsi |-> "off", sec |-> sec[card],
                 stat |-> "STA_NOINIT", fp |-> Closed, made |-> 0, bad |-> 0, gone |-> FALSE,
                 hit |-> FALSE, res |-> "FR_OK", val |-> 0, out |-> <<>>]
           c == find_volume(i)
<1>1. card \in Card /\ volume = card /\ stat = "0"
  BY FatDevAssumption DEF Init
<1>2. sec \in [Card -> Sectors]
  <2>1. sec \in [Card -> UNION {Blank[x] : x \in Card}] /\ \A x \in Card : sec[x] \in Blank[x]
    BY DEF Init
  <2>2. \A x \in Card : Typed(sec[x])
    BY <2>1, FatDevAssumption
  <2>3. \A x \in Card : sec[x] \in Sectors
    BY <2>2, TypedType
  <2> QED
    BY <2>1, <2>3
<1>3. i \in Fair /\ i.fs_type = 0 /\ i.sec = sec[card]
  <2>1. /\ 0 \in Nat /\ 0 \in Int /\ NoSector \in Sector \cup {NoSector} /\ <<>> \in Anything
        /\ "off" \in Fsi /\ "STA_NOINIT" \in Stat /\ Closed \in FIL /\ "FR_OK" \in Res
        /\ <<>> \in Seq(Int)
    <3>1. <<>> \in Anything
      BY DEF Anything
    <3>2. <<>> \in Seq(Int)
      OBVIOUS
    <3> QED
      BY <3>1, <3>2, ClosedType DEF Fsi, Stat, Res
  <2>2. sec[card] \in Sectors
    BY <1>1, <1>2
  <2>3. i \in Ctx
    BY <2>1, <2>2 DEF Ctx
  <2>4. i.stat = "STA_NOINIT" /\ i.fs_type = 0 /\ i.sec = sec[card]
    OBVIOUS
  <2> HIDE DEF i
  <2> QED
    BY <2>3, <2>4 DEF Fair
<1>4. fs = [x \in {"fs_type", "id", "winsect", "win", "wflag", "last_clust", "free_clust",
                   "fsi"} |-> c[x]]
  BY DEF Init
<1> HIDE DEF i
<1>5. c \in Good
  BY <1>3, FindVolumeType
<1>6. c.sec = sec[card]
  BY <1>3, MountWritesNothing
<1> HIDE DEF c
<1>7. /\ DOMAIN fs = Fields
      /\ fs.fs_type = c.fs_type /\ fs.id = c.id /\ fs.winsect = c.winsect
      /\ fs.win = c.win /\ fs.wflag = c.wflag /\ fs.last_clust = c.last_clust
      /\ fs.free_clust = c.free_clust /\ fs.fsi = c.fsi
  BY <1>4 DEF Fields
<1>8. AtRest \in Good
  <2>1. stat \in Stat
    BY <1>1 DEF Stat
  <2>2. Resting(fs, c.sec, stat) \in Good
    BY <1>5, <1>7, <2>1, RestingType
  <2> QED
    BY <1>1, <1>6, <2>2 DEF AtRest
<1>9. Filled(fil, owner)
  <2>1. fil = [h \in Handle |-> Closed] /\ owner = [h \in Handle |-> NoName]
    BY DEF Init
  <2>2. \A h \in Handle : fil[h] = Closed /\ owner[h] = NoName
    BY <2>1
  <2>3. fil \in [Handle -> FIL] /\ owner \in [Handle -> Name \cup {NoName}]
    BY <2>1, ClosedGiven
  <2>4. \A h \in Handle : Headed(fil[h]) /\ Listed(fil[h])
    BY <2>2, ClosedGiven
  <2>5. \A h \in Handle : fil[h].fs <=> owner[h] # NoName
    BY <2>2, ClosedGiven
  <2> QED
    BY <2>3, <2>4, <2>5 DEF Filled
<1>10. /\ stray \subseteq Handle
       /\ unsure \in [Card -> SUBSET Name] /\ cut \in [Card -> SUBSET Name]
       /\ ops \in 0 .. MaxOps /\ faults \in 0 .. MaxFaults /\ swaps \in 0 .. MaxSwaps
  <2>1. stray = {} /\ unsure = [x \in Card |-> {}] /\ cut = [x \in Card |-> {}]
    BY DEF Init
  <2>2. ops = 0 /\ faults = 0 /\ swaps = 0
    BY DEF Init
  <2>3. unsure \in [Card -> SUBSET Name] /\ cut \in [Card -> SUBSET Name]
    BY <2>1
  <2>4. ops \in 0 .. MaxOps /\ faults \in 0 .. MaxFaults /\ swaps \in 0 .. MaxSwaps
    BY <2>2, FatDevAssumption
  <2> QED
    BY <2>1, <2>3, <2>4
<1> QED
  BY <1>1, <1>2, <1>7, <1>8, <1>9, <1>10 DEF TypeInv

\* Every step keeps the invariant.
LEMMA NextType ==
  ASSUME TypeInv, [Next]_vars
  PROVE  TypeInv'
<1>1. CASE \E n \in Used, how \in Flags : Open(n, how)
  BY <1>1, FatDevAssumption, OpenTypes
<1>2. CASE \E h \in Handle : Close(h) \/ Fsync(h)
  BY <1>2, CloseTypes, FsyncTypes
<1>3. CASE \E h \in Handle, n \in Reads : Read(h, n)
  BY <1>3, FatDevAssumption, ReadTypes
<1>4. CASE \E h \in Handle, n \in Writes : Write(h, n)
  BY <1>4, FatDevAssumption, WriteTypes
<1>5. CASE \E h \in Handle, p \in Seeks : Seek(h, p[1], p[2])
  <2>1. PICK h \in Handle, p \in Seeks : Seek(h, p[1], p[2])
    BY <1>5
  <2>2. p[1] \in Int /\ p[2] \in {"SET", "CUR", "END"}
    BY FatDevAssumption
  <2> QED
    BY <2>1, <2>2, SeekTypes
<1>6. CASE \E h \in Handle, len \in Lengths : Ftruncate(h, len)
  BY <1>6, FatDevAssumption, FtruncateTypes
<1>7. CASE \E n \in Used : Unlink(n)
  BY <1>7, FatDevAssumption, UnlinkTypes
<1>8. CASE \E n, m \in Used : Rename(n, m)
  BY <1>8, FatDevAssumption, RenameTypes
<1>9. CASE GetFree
  BY <1>9, GetFreeTypes
<1>10. CASE Pull
  BY <1>10, PullType
<1>11. CASE \E c \in Card : Insert(c)
  BY <1>11, InsertType
<1>12. CASE UNCHANGED vars
  BY <1>12, StutterType
<1> QED
  BY <1>1, <1>2, <1>3, <1>4, <1>5, <1>6, <1>7, <1>8, <1>9, <1>10, <1>11, <1>12 DEF Next

\* The invariant always holds.
LEMMA AlwaysTypeInv == Spec => []TypeInv
<1>1. Init => TypeInv
  BY InitType
<1>2. TypeInv /\ [Next]_vars => TypeInv'
  BY NextType
<1> QED
  BY <1>1, <1>2, PTL DEF Spec

\* ... and with it the types of the variables.
LEMMA TypeInvImplies ==
  ASSUME TypeInv
  PROVE  TypeOK
<1>1. /\ fs.fs_type \in {0, 1} /\ fs.id \in Nat /\ fs.winsect \in Sector \cup {NoSector}
      /\ fs.wflag \in BOOLEAN /\ fs.last_clust \in Nat /\ fs.free_clust \in Nat
      /\ fs.fsi \in Fsi /\ stat \in Stat
  BY FsType
<1>2. [x \in DOMAIN fs \ {"win"} |-> fs[x]] \in FATFS
  <2>1. DOMAIN fs = Fields
    BY DEF TypeInv
  <2>2. [x \in DOMAIN fs \ {"win"} |-> fs[x]] =
          [fs_type |-> fs.fs_type, id |-> fs.id, winsect |-> fs.winsect, wflag |-> fs.wflag,
           last_clust |-> fs.last_clust, free_clust |-> fs.free_clust, fsi |-> fs.fsi]
    BY <2>1 DEF Fields
  <2> QED
    BY <1>1, <2>2 DEF FATFS, Fsi
<1>3. DOMAIN sec = Card /\ \A c \in Card : DOMAIN sec[c] = Sector
  <2>1. sec \in [Card -> Sectors]
    BY DEF TypeInv
  <2>2. \A c \in Card : sec[c] \in [Sector -> Anything]
    BY <2>1 DEF Sectors
  <2> QED
    BY <2>1, <2>2
<1>4. ASSUME NEW h \in Handle
      PROVE  /\ DOMAIN fil[h] = DOMAIN Closed
             /\ owner[h] \in Name \cup {NoName} /\ (fil[h].fs <=> owner[h] # NoName)
             /\ fil[h].fptr \in Nat /\ fil[h].fsize \in Nat
             /\ fil[h].clust \in 0 .. EOC /\ fil[h].sclust \in Cluster \cup {0}
  <2>1. fil[h] \in FIL /\ owner[h] \in Name \cup {NoName}
    BY DEF TypeInv, Filled
  <2>2. fil[h].fs <=> owner[h] # NoName
    BY DEF TypeInv, Filled
  <2>3. DOMAIN fil[h] = DOMAIN Closed
    BY <2>1 DEF FIL, Closed
  <2>4. /\ fil[h].fptr \in Nat /\ fil[h].fsize \in Nat
        /\ fil[h].clust \in 0 .. EOC /\ fil[h].sclust \in Cluster \cup {0}
    BY <2>1 DEF FIL
  <2> QED
    BY <2>1, <2>2, <2>3, <2>4
<1>5. /\ card \in Card /\ volume \in Card /\ stat \in {"0", "STA_NOINIT", "STA_NODISK"}
      /\ stray \subseteq Handle
      /\ unsure \in [Card -> SUBSET Name] /\ cut \in [Card -> SUBSET Name]
      /\ ops \in 0 .. MaxOps /\ faults \in 0 .. MaxFaults /\ swaps \in 0 .. MaxSwaps
  BY <1>1 DEF TypeInv, Stat
<1> QED
  BY <1>2, <1>3, <1>4, <1>5 DEF TypeOK
---------------------------------------------------------------------------
(* A short write or seek.                                                  *)

\* The FAT after a call is the one its context stands for.
LEMMA FatAfter ==
  ASSUME NEW c \in Good, c.fs_type # 0, c.stat # "STA_NOINIT", TypeInv, Returned(c),
         NEW k \in Cluster
  PROVE  FatOf(Here)'[k] = FatV(c)[k]
<1>1. /\ fs'.fs_type = c.fs_type /\ fs'.winsect = c.winsect /\ fs'.win = c.win
      /\ fs'.wflag = c.wflag
  BY ReturnedFields
<1>2. card' = card /\ sec'[card'] = c.sec /\ stat' # "STA_NOINIT"
  BY DEF Returned, TypeInv
<1> DEFINE x == Here'
<1>3. /\ x.fs_type = c.fs_type /\ x.winsect = c.winsect /\ x.win = c.win
      /\ x.wflag = c.wflag /\ x.sec = c.sec /\ x.stat # "STA_NOINIT"
  BY <1>1, <1>2 DEF Here, Context
<1> HIDE DEF x
<1>4. Seen(x, Fat(k)) = IF c.wflag /\ c.winsect = Fat(k) THEN c.win ELSE c.sec[Fat(k)]
  BY <1>3 DEF Seen, Mounted
<1>5. c.sec \in [Sector -> Anything] /\ Fat(k) \in Sector
  BY SectorFacts DEF Good, Ctx, Sectors
<1>6. Over(c)[Fat(k)] = IF c.wflag /\ c.winsect = Fat(k) THEN c.win ELSE c.sec[Fat(k)]
  BY <1>5 DEF Over
<1>7. FatOf(x)[k] = Seen(x, Fat(k))[k]
  BY DEF FatOf
<1>8. FatV(c)[k] = Over(c)[Fat(k)][k]
  BY DEF FatV
<1>9. FatOf(x)[k] = FatV(c)[k]
  BY <1>4, <1>6, <1>7, <1>8
<1> QED
  BY <1>9 DEF x, FatOf, Seen, Mounted

\* The fields of a request.
Asked == {"op", "h", "name", "to", "how", "n", "data", "ok", "hit", "out"}

\* The request that is recorded, and what it returned.
LEMMA Called ==
  ASSUME NEW c, NEW names, NEW request, NEW fils, NEW owners, DOMAIN request = Asked,
         Return(c, names, request, fils, owners)
  PROVE  /\ call'.op = request.op /\ call'.h = request.h /\ call'.n = request.n
         /\ call'.data = request.data /\ call'.ok = IsOk(c)
<1>1. call' = [request EXCEPT !.ok = IsOk(c), !.hit = c.hit, !.out = c.out]
  BY DEF Return
<1> QED
  BY <1>1 DEF Asked

\* A call that neither writes nor seeks does not fall short.
LEMMA OtherCall ==
  ASSUME NEW c, NEW names, NEW request, NEW fils, NEW owners, DOMAIN request = Asked,
         request.op \notin {"write", "seek"}, Return(c, names, request, fils, owners)
  PROVE  ~Short
<1>1. call'.op = request.op
  BY Called
<1> QED
  BY <1>1 DEF Short

\* No cluster is free after the step.
FullNow == \A k \in Cluster : FatOf(Here)'[k] # 0

\* A write that falls short found no free cluster.
LEMMA WriteShort ==
  ASSUME TypeInv, NEW h \in Handle, NEW n \in Nat, Write(h, n), Short
  PROVE  FullNow
<1> DEFINE data == [i \in 1 .. n |-> 10 * (ops + 1) + i]
           r == [Request("write", h) EXCEPT !.data = data]
           g(c) == [fil EXCEPT ![h] = c.fp]
<1>1. PICK x : /\ Begins(fil[h], x) /\ ops < MaxOps /\ stray' = stray /\ fil[h].fs
               /\ LET c == f_write(x, data) IN Return(c, {owner[h]}, r, g(c), owner)
  BY WriteStep
<1> DEFINE c == f_write(x, data)
<1>2. data \in Seq(Int)
  <2>1. ops \in Nat
    BY DEF TypeInv
  <2> QED
    BY <2>1
<1>3. x \in Fair /\ x.fp = fil[h] /\ Headed(x.fp)
  BY <1>1, HandleBegins
<1>4. DOMAIN r = Asked /\ r.op = "write" /\ r.h = h /\ r.data = data
  BY DEF Request, Asked
<1>5. Return(c, {owner[h]}, r, g(c), owner)
  BY <1>1
<1> HIDE DEF data, r
<1>6. Ends(x, c, x.fp.fptr + Len(data))
  BY <1>2, <1>3, WriteFileType
<1> HIDE DEF c
<1>7. call'.op = "write" /\ call'.h = h /\ call'.data = data /\ call'.ok = IsOk(c)
  BY <1>4, <1>5, Called
<1>8. fil'[h] = c.fp
  <2>1. fil' = g(c) /\ h \in DOMAIN fil
    BY <1>5 DEF Return, TypeInv, Filled
  <2> QED
    BY <2>1
<1>9. IsOk(c) /\ c.fp.fptr < x.fp.fptr + Len(data)
  BY <1>3, <1>7, <1>8 DEF Short
<1>10. c \in Good /\ c.fs_type # 0 /\ c.stat # "STA_NOINIT" /\ Full(FatV(c))
  BY <1>6, <1>9 DEF Ends
<1>11. Returned(c)
  BY <1>5 DEF Return, Returned
<1> QED
  BY <1>10, <1>11, FatAfter DEF Full, FullNow

\* So did a writer's seek.
LEMMA SeekShort ==
  ASSUME TypeInv, NEW h \in Handle, NEW pos \in Int, NEW dir \in {"SET", "CUR", "END"},
         Seek(h, pos, dir), Short
  PROVE  FullNow
<1> DEFINE dword == SeekOff(h, pos, dir) % Wrap
           names == IF fil[h].wr THEN {owner[h]} ELSE {}
           r == [Request("seek", h) EXCEPT !.n = dword]
           g(c) == [fil EXCEPT ![h] = c.fp]
<1>1. PICK x : /\ Begins(fil[h], x) /\ ops < MaxOps /\ stray' = stray /\ fil[h].fs
               /\ LET c == f_lseek(x, dword) IN Return(c, names, r, g(c), owner)
  BY SeekStep
<1> DEFINE c == f_lseek(x, dword)
<1>2. dword \in Nat
  BY SeekStep
<1>3. x \in Fair /\ x.fp = fil[h] /\ Headed(x.fp)
  BY <1>1, HandleBegins
<1>4. DOMAIN r = Asked /\ r.op = "seek" /\ r.h = h /\ r.n = dword
  BY DEF Request, Asked
<1>5. Return(c, names, r, g(c), owner)
  BY <1>1
<1> HIDE DEF dword, r, names
<1>6. LseekEnds(x, c, dword)
  BY <1>2, <1>3, LseekType
<1> HIDE DEF c
<1>7. call'.op = "seek" /\ call'.h = h /\ call'.n = dword /\ call'.ok = IsOk(c)
  BY <1>4, <1>5, Called
<1>8. fil'[h] = c.fp
  <2>1. fil' = g(c) /\ h \in DOMAIN fil
    BY <1>5 DEF Return, TypeInv, Filled
  <2> QED
    BY <2>1
<1>9. IsOk(c) /\ c.fp.fptr < dword /\ x.fp.wr
  BY <1>3, <1>7, <1>8 DEF Short
<1>10. c \in Good /\ c.fs_type # 0 /\ c.stat # "STA_NOINIT" /\ Full(FatV(c))
  BY <1>6, <1>9 DEF LseekEnds, Ends
<1>11. Returned(c)
  BY <1>5 DEF Return, Returned
<1> QED
  BY <1>10, <1>11, FatAfter DEF Full, FullNow

\* So did every step that fell short.
LEMMA NextShort ==
  ASSUME TypeInv, [Next]_vars, Short
  PROVE  FullNow
<1>1. CASE \E n \in Used, how \in Flags : Open(n, how)
  <2>1. PICK name \in Used, how \in Flags : Open(name, how)
    BY <1>1
  <2>2. name \in Name
    BY FatDevAssumption
  <2> DEFINE r == [Request("open", Slot) EXCEPT !.name = name, !.how = how]
  <2>3. DOMAIN r = Asked /\ r.op = "open"
    BY DEF Request, Asked
  <2>4. \E c, names, fils, owners : Return(c, names, r, fils, owners)
    BY <2>1, <2>2, OpenStep
  <2> HIDE DEF r
  <2> QED
    BY <2>3, <2>4, OtherCall
<1>2. CASE \E h \in Handle : Close(h)
  <2>1. PICK h \in Handle : Close(h)
    BY <1>2
  <2> DEFINE r == Request("close", h)
  <2>2. DOMAIN r = Asked /\ r.op = "close"
    BY DEF Request, Asked
  <2>3. \E c, names, fils, owners : Return(c, names, r, fils, owners)
    BY <2>1, CloseStep
  <2> HIDE DEF r
  <2> QED
    BY <2>2, <2>3, OtherCall
<1>3. CASE \E h \in Handle : Fsync(h)
  <2>1. PICK h \in Handle : Fsync(h)
    BY <1>3
  <2> DEFINE r == Request("fsync", h)
  <2>2. DOMAIN r = Asked /\ r.op = "fsync"
    BY DEF Request, Asked
  <2>3. \E c, names, fils, owners : Return(c, names, r, fils, owners)
    BY <2>1, FsyncStep
  <2> HIDE DEF r
  <2> QED
    BY <2>2, <2>3, OtherCall
<1>4. CASE \E h \in Handle, n \in Reads : Read(h, n)
  <2>1. PICK h \in Handle, n \in Reads : Read(h, n)
    BY <1>4
  <2> DEFINE r == [Request("read", h) EXCEPT !.n = n]
  <2>2. DOMAIN r = Asked /\ r.op = "read" /\ n \in Nat
    BY FatDevAssumption DEF Request, Asked
  <2>3. \E c, names, fils, owners : Return(c, names, r, fils, owners)
    BY <2>1, <2>2, ReadStep
  <2> HIDE DEF r
  <2> QED
    BY <2>2, <2>3, OtherCall
<1>5. CASE \E h \in Handle, n \in Writes : Write(h, n)
  BY <1>5, FatDevAssumption, WriteShort
<1>6. CASE \E h \in Handle, p \in Seeks : Seek(h, p[1], p[2])
  <2>1. PICK h \in Handle, p \in Seeks : Seek(h, p[1], p[2])
    BY <1>6
  <2>2. p[1] \in Int /\ p[2] \in {"SET", "CUR", "END"}
    BY FatDevAssumption
  <2> QED
    BY <2>1, <2>2, SeekShort
<1>7. CASE \E h \in Handle, len \in Lengths : Ftruncate(h, len)
  <2>1. PICK h \in Handle, len \in Lengths : Ftruncate(h, len)
    BY <1>7
  <2> DEFINE r == [Request("ftruncate", h) EXCEPT !.n = len]
  <2>2. DOMAIN r = Asked /\ r.op = "ftruncate" /\ len \in Nat
    BY FatDevAssumption DEF Request, Asked
  <2>3. \E c, names, fils, owners : Return(c, names, r, fils, owners)
    BY <2>1, <2>2, FtruncateStep
  <2> HIDE DEF r
  <2> QED
    BY <2>2, <2>3, OtherCall
<1>8. CASE \E n \in Used : Unlink(n)
  <2>1. PICK name \in Used : Unlink(name)
    BY <1>8
  <2> DEFINE r == [Request("unlink", 0) EXCEPT !.name = name]
  <2>2. DOMAIN r = Asked /\ r.op = "unlink" /\ name \in Name
    BY FatDevAssumption DEF Request, Asked
  <2>3. \E c, names, fils, owners : Return(c, names, r, fils, owners)
    BY <2>1, <2>2, UnlinkStep
  <2> HIDE DEF r
  <2> QED
    BY <2>2, <2>3, OtherCall
<1>9. CASE \E n, m \in Used : Rename(n, m)
  <2>1. PICK name \in Used, to \in Used : Rename(name, to)
    BY <1>9
  <2> DEFINE r == [Request("rename", 0) EXCEPT !.name = name, !.to = to]
  <2>2. DOMAIN r = Asked /\ r.op = "rename" /\ name \in Name /\ to \in Name
    BY FatDevAssumption DEF Request, Asked
  <2>3. \E c, names, fils, owners : Return(c, names, r, fils, owners)
    BY <2>1, <2>2, RenameStep
  <2> HIDE DEF r
  <2> QED
    BY <2>2, <2>3, OtherCall
<1>10. CASE GetFree
  <2> DEFINE r == Request("getfree", 0)
  <2>1. DOMAIN r = Asked /\ r.op = "getfree"
    BY DEF Request, Asked
  <2>2. \E c, names, fils, owners : Return(c, names, r, fils, owners)
    BY <1>10, GetFreeStep
  <2> HIDE DEF r
  <2> QED
    BY <2>1, <2>2, OtherCall
<1>11. CASE ops' = ops
  <2>1. ops \in Int
    BY DEF TypeInv
  <2> QED
    BY <1>11, <2>1 DEF Short
<1> QED
  BY <1>1, <1>2, <1>3, <1>4, <1>5, <1>6, <1>7, <1>8, <1>9, <1>10, <1>11
  DEF Next, Pull, Insert, vars

\* f_write and f_lseek of a writer report success and come out short only when the volume
\* has no free cluster left (elm.c turns the short count into the answer of write()).
THEOREM AlwaysShortMeansFull == Spec => ShortMeansFull
<1>1. TypeInv /\ [Next]_vars => [Short => FullNow]_vars
  BY NextShort
<1>2. TypeInv /\ [Next]_vars => [Short => \A k \in Cluster : FatOf(Here)'[k] # 0]_vars
  BY <1>1 DEF FullNow
<1> QED
  BY <1>2, AlwaysTypeInv, PTL DEF Spec, ShortMeansFull

\* The variables of the driver have their types after any calls, disk errors and cards pulled
\* and inserted.
THEOREM TypeCorrect == Spec => []TypeOK
BY AlwaysTypeInv, TypeInvImplies, PTL

---------------------------------------------------------------------------
(* The tables under the calls by name.                                     *)

\* Tables that differ in one entry.
Differs(t, u, i, x) == u.fat = t.fat /\ u.dir = [t.dir EXCEPT ![i] = x]

\* An entry of no file.
Void(e) == e.name \in {NoName, "DDE"}

\* An entry is right: it has no chain, or the one the chart gives it, which is long enough.
Right(m, i, e) ==
  /\ e.clust \in {0, m.hd[i]}
  /\ e.size > 0 => e.clust # 0
  /\ Holds(m, i, e.size)

\* The entries I are right or of no file.
Sane(m, I, dir) == \A j \in I : Void(dir[j]) \/ Right(m, j, dir[j])

\* Tables whose entries are those of dir but for I, with the chains of the other entries, and
\* entries I that are right.
Near(m, I, dir) ==
  {t \in Tables : /\ \A j \in Label \ I : t.dir[j] = dir[j]
                  /\ \E n \in Chart : Charted(t.fat, n) /\ Spares(m, n, I) /\ Sane(n, I, t.dir)}

\* The entries a call for these names may change.
Slots(dir, names) == {j \in Label : Void(dir[j]) \/ dir[j].name \in names}

\* An entry stays right when only other chains change.
LEMMA RightSpared ==
  ASSUME NEW m, NEW n, NEW I, Spares(m, n, I), NEW j \in Label \ I, NEW e, Right(m, j, e)
  PROVE  Right(n, j, e)
<1>1. j # 0 /\ n.hd[j] = m.hd[j]
  BY FatFsAssumption DEF Spares, Label
<1>2. Holds(n, j, e.size)
  <2>1. SUFFICES ASSUME e.size > 0
                 PROVE  \E k \in Cluster : n.own[k] = j /\ n.pos[k] = (e.size - 1) \div bcs
    BY DEF Holds
  <2>2. PICK k \in Cluster : m.own[k] = j /\ m.pos[k] = (e.size - 1) \div bcs
    BY <2>1 DEF Right, Holds
  <2>3. n.own[k] = j /\ n.pos[k] = m.pos[k]
    BY <1>1, <2>2 DEF Spares
  <2> QED
    BY <2>2, <2>3
<1> QED
  BY <1>1, <1>2 DEF Right

\* ... and when chains become longer.
LEMMA RightGrown ==
  ASSUME NEW m \in Chart, NEW n, NEW i, Grows(m, n, i), NEW j \in Label, NEW e, Right(m, j, e)
  PROVE  Right(n, j, e)
<1>1. Holds(n, j, e.size)
  BY GrowsHolds DEF Right
<1>2. e.clust \in {0, n.hd[j]}
  <2>1. CASE m.hd[j] = 0
    BY <2>1 DEF Right
  <2>2. CASE m.hd[j] # 0
    BY <2>2 DEF Right, Grows
  <2> QED
    BY <2>1, <2>2
<1> QED
  BY <1>1, <1>2 DEF Right

\* An entry without a chain is right.
LEMMA RightEmpty ==
  ASSUME NEW m, NEW i, NEW e, e.clust = 0, e.size = 0
  PROVE  Right(m, i, e)
BY DEF Right, Holds

\* What a file is enters its entry.
LEMMA RightEntry ==
  ASSUME NEW m \in Chart, NEW fat, Charted(fat, m), NEW i \in Label, NEW e,
         m.hd[i] = e.clust, Holds(m, i, e.size)
  PROVE  Right(m, i, e)
<1>1. i # 0
  BY FatFsAssumption DEF Label
<1>2. e.size > 0 => e.clust # 0
  BY <1>1 DEF Holds, Charted
<1> QED
  BY <1>2 DEF Right

\* Chains that spare some entries, and then some others.
LEMMA SparesTransitive ==
  ASSUME NEW m, NEW n, NEW o, NEW I, NEW J, Spares(m, n, I), Spares(n, o, J), J \subseteq I
  PROVE  Spares(m, o, I)
BY DEF Spares

\* Chains that spare all but few spare all but many.
LEMMA SparesMore ==
  ASSUME NEW m, NEW n, NEW I, NEW J, Spares(m, n, I), I \subseteq J
  PROVE  Spares(m, n, J)
BY DEF Spares

\* The chain of a right entry may be the one of the entry.
LEMMA RightHead ==
  ASSUME NEW m \in Chart, NEW fat, Charted(fat, m), NEW i \in Label, NEW e, Right(m, i, e)
  PROVE  \E n \in Chart : /\ Charted(fat, n) /\ Spares(m, n, {i}) /\ n.hd[i] = e.clust
                          /\ Holds(n, i, e.size)
<1>1. CASE e.clust = m.hd[i]
  BY <1>1, SparesReflexive DEF Right
<1>2. CASE e.clust # m.hd[i]
  <2> DEFINE n == CutAt(m, i, 0)
  <2>1. n \in Chart /\ Spares(m, n, {i}) /\ n.hd[i] = 0
    BY CutKeeps
  <2>2. EndsAt(fat, fat, m, i, 0)
    <3>1. SUFFICES ASSUME NEW k \in Cluster
                   PROVE  ~(m.own[k] = i /\ m.pos[k] + 1 = 0)
      BY DEF EndsAt
    <3>2. m.pos[k] \in Nat
      BY <3>1 DEF Chart
    <3> QED
      BY <3>2
  <2>3. Charted(fat, n)
    BY <2>2, CutCharted
  <2>4. e.clust = 0 /\ ~(e.size > 0)
    BY <1>2 DEF Right
  <2> HIDE DEF n
  <2>5. Holds(n, i, e.size)
    BY <2>4 DEF Holds
  <2> QED
    BY <2>1, <2>3, <2>4, <2>5
<1> QED
  BY <1>1, <1>2

\* The tables themselves.
LEMMA NearKept ==
  ASSUME NEW t \in Tables, NEW m \in Chart, Charted(t.fat, m), NEW I, Sane(m, I, t.dir)
  PROVE  t \in Near(m, I, t.dir)
BY SparesReflexive DEF Near

\* One of the entries has become right, or one of no file.
LEMMA NearEntered ==
  ASSUME NEW t \in Tables, NEW m \in Chart, Charted(t.fat, m), NEW I \in SUBSET Label,
         Sane(m, I, t.dir), NEW i \in I, NEW x, Void(x) \/ Right(m, i, x),
         NEW u \in Tables, Differs(t, u, i, x)
  PROVE  u \in Near(m, I, t.dir)
<1>1. t.dir \in [Label -> Entry]
  BY DEF Tables
<1> USE DEF Differs
<1>2. \A j \in Label : j # i => u.dir[j] = t.dir[j]
  BY <1>1
<1>3. u.dir[i] = x
  BY <1>1
<1>4. Sane(m, I, u.dir)
  BY <1>2, <1>3 DEF Sane
<1>5. Spares(m, m, I)
  BY SparesReflexive
<1> QED
  BY <1>2, <1>4, <1>5 DEF Near

\* ... and the clusters of its chain have been freed, in any order and number.
LEMMA NearFreed ==
  ASSUME NEW t \in Tables, NEW m \in Chart, Charted(t.fat, m), NEW I \in SUBSET Label,
         Sane(m, I, t.dir), NEW i \in I, NEW x, Void(x) \/ (x.clust = 0 /\ x.size = 0),
         NEW u \in Tables, Differs(t, u, i, x),
         NEW w \in Freed(TailOf(m, i, 0), u)
  PROVE  /\ w \in Near(m, I, t.dir)
         /\ Charted(w.fat, CutAt(m, i, 0)) /\ Sane(CutAt(m, i, 0), I, w.dir)
<1> DEFINE n == CutAt(m, i, 0)
<1>1. i \in Label /\ t.fat \in [Cluster -> FatEntry] /\ t.dir \in [Label -> Entry]
  BY DEF Tables
<1> USE DEF Differs
<1>2. EndsAt(t.fat, u.fat, m, i, 0)
  <2>1. SUFFICES ASSUME NEW k \in Cluster
                 PROVE  ~(m.own[k] = i /\ m.pos[k] + 1 = 0)
    BY DEF EndsAt
  <2>2. m.pos[k] \in Nat
    BY <2>1 DEF Chart
  <2> QED
    BY <2>2
<1>3. Charted(w.fat, n)
  BY <1>1, <1>2, FreedCharted
<1>4. n \in Chart /\ Spares(m, n, {i})
  BY <1>1, CutKeeps
<1>5. w \in Tables /\ w.dir = u.dir
  BY DEF Freed
<1> HIDE DEF n
<1>6. \A j \in Label : j # i => w.dir[j] = t.dir[j]
  BY <1>1, <1>5
<1>7. w.dir[i] = x
  BY <1>1, <1>5
<1>8. Sane(n, I, w.dir)
  <2>1. SUFFICES ASSUME NEW j \in I
                 PROVE  Void(w.dir[j]) \/ Right(n, j, w.dir[j])
    BY DEF Sane
  <2>2. CASE j = i
    BY <1>7, <2>2, RightEmpty
  <2>3. CASE j # i
    BY <1>4, <1>6, <2>3, RightSpared DEF Sane
  <2> QED
    BY <2>2, <2>3
<1>9. Spares(m, n, I)
  BY <1>4, SparesMore
<1>10. w \in Near(m, I, t.dir)
  BY <1>3, <1>4, <1>5, <1>6, <1>8, <1>9 DEF Near
<1> QED
  BY <1>3, <1>8, <1>10 DEF n

\* Sectors with another entry.
LEMMA EnterInTable ==
  ASSUME NEW o \in Sectors, NEW i \in Label, NEW x \in Entry
  PROVE  LET p == EnterIn(o, i, x)
         IN /\ Table(p).fat = Table(o).fat
            /\ Table(p).dir = [Table(o).dir EXCEPT ![i] = x]
<1> DEFINE p == EnterIn(o, i, x)
           w == [o[Dir(i)] EXCEPT ![i] = x]
<1>1. /\ o \in [Sector -> Anything]
      /\ o[Dir(i)] \in Content(Dir(i)) /\ Dir(i) \in Sector
  BY SectorFacts DEF Sectors, Label
<1>2. o[Dir(i)] \in [{j \in 1 .. n_rootdir : Dir(j) = Dir(i)} -> Entry]
  BY <1>1, Contents
<1>3. p = [o EXCEPT ![Dir(i)] = w]
  BY DEF EnterIn
<1>4. ASSUME NEW j \in Label
      PROVE  p[Dir(j)][j] = IF j = i THEN x ELSE o[Dir(j)][j]
  <2>1. Dir(j) \in Sector
    BY SectorFacts DEF Label
  <2>2. CASE Dir(j) = Dir(i)
    BY <1>1, <1>2, <1>3, <2>2 DEF Label
  <2>3. CASE Dir(j) # Dir(i)
    BY <1>1, <1>3, <2>1, <2>3
  <2> QED
    BY <2>2, <2>3
<1>5. ASSUME NEW k \in Cluster PROVE p[Fat(k)][k] = o[Fat(k)][k]
  BY <1>1, <1>3, SectorFacts DEF Label
<1> HIDE DEF p
<1>6. Table(p).fat = Table(o).fat
  BY <1>5 DEF Table
<1>7. Table(p).dir = [Table(o).dir EXCEPT ![i] = x]
  BY <1>4 DEF Table
<1> QED
  BY <1>6, <1>7 DEF p

\* An entry of the window is changed: the view has it, the card does not yet.
Puts(c, d, i, x) ==
  /\ d \in Good /\ Kept(c, d)
  /\ Differs(TableV(c), TableV(d), i, x)
  /\ TableC(d) \in {TableC(c), TableV(c)}

\* That is what writing to the window does.
LEMMA EnteredPuts ==
  ASSUME NEW c \in Good, NEW i, At(c, i), NEW x \in Entry
  PROVE  Puts(c, Entered(c, i, x), i, x) /\ TableC(Entered(c, i, x)) = TableC(c)
<1> DEFINE d == Entered(c, i, x)
<1>1. d \in Good /\ Kept(c, d) /\ d.sec = c.sec /\ Over(d) = EnterIn(Over(c), i, x)
  BY EnterType
<1>2. i \in Label /\ Over(c) \in Sectors
  BY OverType DEF At, Label
<1> HIDE DEF d
<1>3. /\ TableV(d).fat = TableV(c).fat /\ TableV(d).dir = [TableV(c).dir EXCEPT ![i] = x]
  BY <1>1, <1>2, EnterInTable DEF TableV
<1>4. TableC(d) = TableC(c)
  BY <1>1 DEF TableC
<1> QED
  BY <1>1, <1>3, <1>4 DEF Puts, Differs, d

\* ... also if the window had to be moved first.
LEMMA QuietPuts ==
  ASSUME NEW c, NEW d, NEW e, NEW i, NEW x, Quiet(c, d), Kept(c, d), Puts(d, e, i, x)
  PROVE  Puts(c, e, i, x)
BY KeptTransitive DEF Puts, Quiet

\* The entry in the window is the one of the view.
LEMMA WindowEntry ==
  ASSUME NEW c \in Good, NEW i, At(c, i)
  PROVE  c.win[i] = TableV(c).dir[i] /\ i \in Label
<1>1. i \in Label /\ Dir(i) \in Sector /\ Dir(i) \in Changing
  BY EntryType DEF At, Label
<1>2. c.sec \in [Sector -> Anything]
  BY DEF Good, Ctx, Sectors
<1>3. Over(c)[Dir(i)] = c.win
  BY <1>1, <1>2 DEF Over, Good, Coherent, At
<1> QED
  BY <1>1, <1>3 DEF TableV, Table

\* What f_sync, f_unlink and f_rename end with: if that succeeds, the card is as the view was.
LEMMA SyncFsQuiet ==
  ASSUME NEW c \in Good
  PROVE  LET d == sync_fs(c)
         IN /\ Quiet(c, d)
            /\ IsOk(d) => TableC(d) = TableV(c)
            /\ ~IsOk(d) => d.hit
<1> DEFINE y == sync_window(c)
           info == [free |-> c.free_clust, next |-> c.last_clust]
           b == [y EXCEPT !.win = info, !.winsect = FSInfo, !.fsi = "clean"]
           w == disk_write(b, FSInfo, info)
<1>1. /\ y \in Good /\ Flushed(c, y) /\ (IsOk(y) => ~y.wflag)
  BY SyncWindowType
<1>2. sync_fs(c) = IF IsOk(y) THEN IF y.fsi = "dirty" THEN Ok(w) ELSE y ELSE y
  BY DEF sync_fs, Then
<1> HIDE DEF y
<1>3. Quiet(c, y)
  BY <1>1, MovedQuiet DEF Flushed
<1>4. IsOk(y) => y.sec = Over(c)
  BY <1>1 DEF Flushed, Moved, Over
<1>5. IsOk(y) => TableC(y) = TableV(c)
  BY <1>4 DEF TableC, TableV
<1>6. CASE ~(IsOk(y) /\ y.fsi = "dirty")
  BY <1>1, <1>2, <1>3, <1>5, <1>6 DEF Flushed
<1>7. CASE IsOk(y) /\ y.fsi = "dirty"
  <2>1. /\ info \in Content(FSInfo) /\ info \in Anything /\ FSInfo \in Sector
        /\ FSInfo \notin Changing /\ FSInfo # NoSector
    <3>1. info \in Content(FSInfo)
      BY Contents DEF Good, Ctx
    <3> HIDE DEF info
    <3> QED
      BY <3>1, SectorFacts DEF Anything
  <2> HIDE DEF info
  <2>2. b \in Ctx /\ ~b.wflag /\ b.sec = y.sec
    BY <1>1, <1>7, <2>1 DEF Good, Ctx, Fsi
  <2> HIDE DEF b
  <2>3. /\ w \in Ctx /\ w.wflag = b.wflag
        /\ w.sec = [b.sec EXCEPT ![FSInfo] = info] \/ w.sec = b.sec
    <3>1. b \in Ctx /\ FSInfo \in Sector /\ info \in Content(FSInfo)
      BY <2>1, <2>2
    <3> QED
      BY <3>1, WriteType, ZenonT(60)
  <2> HIDE DEF w
  <2>4. Ok(w).sec = w.sec /\ ~Ok(w).wflag /\ IsOk(Ok(w))
    BY <2>2, <2>3, OkType
  <2>5. y.sec \in [Sector -> Anything]
    BY <1>1 DEF Good, Ctx, Sectors
  <2>6. \A s \in Changing : w.sec[s] = y.sec[s]
    BY <2>1, <2>2, <2>3, <2>5, SectorFacts
  <2>7. /\ \A k \in Cluster : w.sec[Fat(k)] = y.sec[Fat(k)]
        /\ \A i \in Label : w.sec[Dir(i)] = y.sec[Dir(i)]
    BY <2>6, SectorFacts DEF Label
  <2>8. Table(w.sec) = Table(y.sec)
    BY <2>7 DEF Table
  <2>9. TableC(Ok(w)) = TableC(y) /\ TableV(Ok(w)) = TableC(y)
    BY <2>4, <2>8 DEF TableC, TableV, Over
  <2>10. sync_fs(c) = Ok(w)
    BY <1>2, <1>7
  <2> QED
    BY <1>5, <1>7, <2>4, <2>9, <2>10 DEF Quiet
<1> QED
  BY <1>6, <1>7

\* An entry with one of the names is found.
LEMMA ScanFinds ==
  ASSUME NEW c \in Good, IsOk(c), NEW names
  PROVE  LET d == Scan(c, names)
         IN /\ d \in Good /\ Moved(c, d) /\ Quiet(c, d)
            /\ IsOk(d) => /\ At(d, d.val) /\ d.val \in Label
                          /\ d.win[d.val] = TableV(c).dir[d.val]
                          /\ TableV(c).dir[d.val].name \in names
<1> DEFINE d == Scan(c, names)
<1>1. /\ d \in Good /\ Moved(c, d) /\ d.val \in 0 .. n_rootdir
      /\ IsOk(d) => At(d, d.val) /\ d.win[d.val].name \in names
  BY ScanType
<1> HIDE DEF d
<1>2. Quiet(c, d)
  BY <1>1, MovedQuiet
<1>3. IsOk(d) => d.win[d.val] = TableV(d).dir[d.val] /\ d.val \in Label
  BY <1>1, WindowEntry
<1> QED
  BY <1>1, <1>2, <1>3 DEF Quiet, d

\* dir_register gives an entry of no file the name.
LEMMA RegisterPuts ==
  ASSUME NEW c \in Good, IsOk(c), NEW name \in Name
  PROVE  LET d == dir_register(c, name)
             x == [Unused EXCEPT !.name = name]
         IN /\ d \in Good
            /\ IsOk(d) => /\ At(d, d.val) /\ d.val \in Label /\ d.wflag /\ d.win[d.val] = x
                          /\ Void(TableV(c).dir[d.val]) /\ Puts(c, d, d.val, x)
            /\ ~IsOk(d) => Quiet(c, d)
<1> DEFINE s == Scan(c, {Unused.name, Removed.name})
           y == Failed(s, "FR_DENIED")
           x == [Unused EXCEPT !.name = name]
           r == [s EXCEPT !.win[s.val] = x, !.wflag = TRUE]
<1>1. /\ s \in Good /\ Moved(c, s) /\ Quiet(c, s)
      /\ IsOk(s) => /\ At(s, s.val) /\ s.val \in Label
                    /\ TableV(c).dir[s.val].name \in {Unused.name, Removed.name}
  BY ScanFinds
<1>2. dir_register(c, name) = IF s.res = "FR_NO_FILE" THEN y ELSE IF IsOk(s) THEN r ELSE s
  BY DEF dir_register, Then
<1> HIDE DEF s
<1>3. "FR_DENIED" \in Res /\ "FR_DENIED" # "FR_OK" /\ s \in Ctx
  BY <1>1 DEF Res, Good
<1>4. y \in Good /\ Quiet(s, y) /\ ~IsOk(y)
  BY <1>1, <1>3, FailedType, FailedQuiet
<1> HIDE DEF y
<1>5. x \in Entry /\ {Unused.name, Removed.name} = {NoName, "DDE"}
  BY DEF Unused, Removed, Entry
<1> HIDE DEF x
<1>6. IsOk(s) => /\ r \in Good /\ r.val = s.val /\ At(r, s.val) /\ r.wflag /\ r.win[s.val] = x
                 /\ Puts(c, r, s.val, x) /\ IsOk(r)
  <2> SUFFICES ASSUME IsOk(s)
               PROVE  /\ r \in Good /\ r.val = s.val /\ At(r, s.val) /\ r.wflag
                      /\ r.win[s.val] = x /\ Puts(c, r, s.val, x) /\ IsOk(r)
    OBVIOUS
  <2>1. r = Entered(s, s.val, x) /\ At(s, s.val)
    BY <1>1 DEF Entered
  <2> HIDE DEF r
  <2>2. Puts(s, r, s.val, x)
    BY <1>1, <1>5, <2>1, EnteredPuts
  <2>3. Puts(c, r, s.val, x)
    BY <1>1, <2>2, QuietPuts DEF Moved
  <2>4. /\ r \in Good /\ r.val = s.val /\ At(r, s.val) /\ r.wflag /\ r.win[s.val] = x
        /\ r.res = s.res
    BY <1>1, <1>5, <2>1, EnterType
  <2> QED
    BY <2>3, <2>4 DEF IsOk
<1> HIDE DEF r
<1>7. CASE s.res = "FR_NO_FILE"
  BY <1>1, <1>2, <1>4, <1>7, QuietTransitive DEF x
<1>8. CASE s.res # "FR_NO_FILE" /\ IsOk(s)
  BY <1>1, <1>2, <1>5, <1>6, <1>8 DEF Void, x
<1>9. CASE s.res # "FR_NO_FILE" /\ ~IsOk(s)
  BY <1>1, <1>2, <1>9
<1> QED
  BY <1>7, <1>8, <1>9

\* dir_remove makes an entry one of no file.
LEMMA RemovePuts ==
  ASSUME NEW c \in Good, NEW i \in Label
  PROVE  LET d == dir_remove(c, i)
         IN /\ d \in Good /\ Kept(c, d) /\ d.val = c.val
            /\ IsOk(d) => Puts(c, d, i, Removed)
            /\ ~IsOk(d) => Quiet(c, d) /\ d.hit
<1> DEFINE m == move_window(c, Dir(i))
           x == Removed
           r == [m EXCEPT !.win[i] = x, !.wflag = TRUE]
<1>0. dir_remove(c, i) \in Good /\ Kept(c, dir_remove(c, i)) /\ dir_remove(c, i).val = c.val
  BY DirRemoveType DEF Label
<1>1. /\ m \in Good /\ Flushed(c, m)
      /\ IsOk(m) => m.winsect = Dir(i)
  BY MoveWindowType, SectorFacts DEF Label
<1>2. dir_remove(c, i) = IF IsOk(m) THEN r ELSE m
  BY DEF dir_remove, Then
<1> HIDE DEF m
<1>3. x \in Entry
  BY DEF Unused, Removed, Entry
<1> HIDE DEF x
<1>4. Quiet(c, m)
  BY <1>1, MovedQuiet DEF Flushed
<1>5. IsOk(m) => Puts(c, r, i, x) /\ IsOk(r)
  <2> SUFFICES ASSUME IsOk(m) PROVE Puts(c, r, i, x) /\ IsOk(r)
    OBVIOUS
  <2>1. r = Entered(m, i, x) /\ At(m, i)
    BY <1>1 DEF Entered, At, Label
  <2> HIDE DEF r
  <2>2. Puts(m, r, i, x) /\ r.res = m.res
    BY <1>1, <1>3, <2>1, EnteredPuts, EnterType
  <2> QED
    BY <1>1, <1>4, <2>2, QuietPuts DEF Flushed, Moved, IsOk
<1> HIDE DEF r
<1>6. CASE IsOk(m)
  BY <1>0, <1>2, <1>5, <1>6 DEF x
<1>7. CASE ~IsOk(m)
  BY <1>0, <1>1, <1>2, <1>4, <1>7 DEF Flushed
<1> QED
  BY <1>6, <1>7

\* An entry of the window gets a chain and a size: the card does not have them yet.
Filling(c, d, i, clst, size) ==
  /\ d \in Good /\ Kept(c, d) /\ At(d, i) /\ d.res = c.res /\ d.val = c.val /\ d.wflag
  /\ Puts(c, d, i, EntryFor(TableV(c).dir[i], clst, size)) /\ TableC(d) = TableC(c)

\* That is what writing both fields does.
LEMMA FillingType ==
  ASSUME NEW c \in Good, NEW i, At(c, i), NEW clst \in Cluster \cup {0}, NEW size \in Nat
  PROVE  Filling(c, [c EXCEPT !.win[i].clust = clst, !.win[i].size = size, !.wflag = TRUE], i,
                 clst, size)
<1> DEFINE w == [c EXCEPT !.win[i].clust = clst, !.win[i].size = size, !.wflag = TRUE]
           x == EntryFor(c.win[i], clst, size)
<1>1. /\ w \in Good /\ Kept(c, w) /\ w.val = c.val /\ w.res = c.res /\ w.sec = c.sec
      /\ At(w, i) /\ w.wflag
      /\ Over(w) = EnterIn(Over(c), i, x)
  BY EnterForType, ZenonT(60)
<1>2. /\ w \in Good /\ Kept(c, w) /\ w.res = c.res /\ w.val = c.val /\ w.sec = c.sec /\ At(w, i)
      /\ w.wflag /\ Over(w) = EnterIn(Over(c), i, x)
  BY <1>1
<1>3. x \in Entry
  BY FieldsType, EntryForType
<1>4. i \in Label /\ Over(c) \in Sectors /\ c.win[i] = TableV(c).dir[i]
  BY OverType, WindowEntry
<1> HIDE DEF w
<1>5. x = EntryFor(TableV(c).dir[i], clst, size)
  BY <1>4
<1> HIDE DEF x
<1>6. TableV(w).fat = TableV(c).fat /\ TableV(w).dir = [TableV(c).dir EXCEPT ![i] = x]
  BY <1>2, <1>3, <1>4, EnterInTable DEF TableV
<1>7. TableC(w) = TableC(c)
  BY <1>2 DEF TableC
<1> QED
  BY <1>2, <1>5, <1>6, <1>7 DEF Filling, Puts, Differs, w

\* An entry loses its chain in the view; the FAT has it still.
Emptied(c, d, i) ==
  /\ d \in Good /\ Kept(c, d) /\ At(d, i) /\ d.res = c.res
  /\ Puts(c, d, i, EntryFor(TableV(c).dir[i], 0, 0)) /\ TableC(d) = TableC(c)

\* That is how Overwrite begins.
LEMMA EmptiedType ==
  ASSUME NEW c \in Good, NEW i, At(c, i)
  PROVE  Emptied(c, [c EXCEPT !.win[i].clust = 0, !.win[i].size = 0, !.wflag = TRUE], i)
<1>1. 0 \in Cluster \cup {0} /\ 0 \in Nat
  OBVIOUS
<1>2. Filling(c, [c EXCEPT !.win[i].clust = 0, !.win[i].size = 0, !.wflag = TRUE], i, 0, 0)
  BY <1>1, FillingType
<1> QED
  BY <1>2 DEF Filling, Emptied

\* The chain of an entry, which the view does not have any more, is freed.
LEMMA RemoveChainKeeps ==
  ASSUME NEW t \in Tables, NEW m \in Chart, Charted(t.fat, m), NEW I \in SUBSET Label,
         Sane(m, I, t.dir), NEW i \in I, m.hd[i] # 0,
         NEW x, Void(x) \/ (x.clust = 0 /\ x.size = 0),
         NEW c \in Good, IsOk(c), Differs(t, TableV(c), i, x)
  PROVE  LET d == remove_chain(c, m.hd[i])
         IN /\ d \in Good /\ Steady(c, d) /\ Through(c, d, Near(m, I, t.dir))
            /\ TableV(d).dir = TableV(c).dir /\ (~IsOk(d) => d.hit)
<1> DEFINE cl == m.hd[i]
           d == remove_chain(c, cl)
           K == TailOf(m, i, 0)
           u == TableV(c)
<1>1. i \in Label /\ t.fat \in [Cluster -> FatEntry]
  BY DEF Tables
<1>2. cl \in Cluster /\ cl \in Nat
  BY <1>1, OnesNoCluster DEF Chart
<1>3. m.own[cl] = i /\ m.pos[cl] = 0
  BY <1>1 DEF Charted
<1> HIDE DEF cl
<1>4. cl \in K /\ K \in SUBSET Cluster
  BY <1>2, <1>3 DEF TailOf
<1>5. FatV(c) = t.fat /\ u \in Tables
  BY TableType DEF Differs
<1>6. Inner(FatV(c), K)
  BY <1>1, <1>5, TailInner
<1>7. d \in Good /\ Steady(c, d) /\ GivesUp(c, d, cl)
  BY <1>2, RemoveChainType
<1> HIDE DEF d, K
<1>8. Through(c, d, Freed(K, u)) /\ (~IsOk(d) => d.hit)
  BY <1>4, <1>6, <1>7 DEF GivesUp
<1> HIDE DEF u
<1>9. Differs(t, u, i, x)
  BY DEF u
<1>10. \A w \in Freed(TailOf(m, i, 0), u) : w \in Near(m, I, t.dir)
  BY <1>5, <1>9, NearFreed
<1>11. Freed(K, u) \subseteq Near(m, I, t.dir)
  BY <1>10 DEF K
<1>12. Through(c, d, Near(m, I, t.dir))
  BY <1>8, <1>11, ThroughLarger
<1>13. TableV(d).dir = u.dir
  BY <1>8 DEF Through, Freed
<1> QED
  BY <1>7, <1>8, <1>12, <1>13 DEF d, cl, u

\* Overwrite changes the entry and frees its chain, and leaves all others as they are.
LEMMA OverwriteKeeps ==
  ASSUME NEW c \in Good, IsOk(c), NEW i, At(c, i), NEW m \in Chart, Charted(TableV(c).fat, m),
         NEW I \in SUBSET Label, Sane(m, I, TableV(c).dir), i \in I, ~Void(TableV(c).dir[i])
  PROVE  LET d == Overwrite(c, i)
         IN /\ d \in Good /\ Steady(c, d) /\ Through(c, d, Near(m, I, TableV(c).dir))
            /\ IsOk(d) => /\ At(d, i)
                          /\ TableV(d).dir =
                               [TableV(c).dir EXCEPT ![i] = EntryFor(TableV(c).dir[i], 0, 0)]
<1> DEFINE cl == c.win[i].clust
           w == [c EXCEPT !.win[i].clust = 0, !.win[i].size = 0, !.wflag = TRUE]
           o == Ok(w)
           r == remove_chain(w, cl)
           l == [r EXCEPT !.last_clust = cl - 1]
           b == move_window(l, Dir(i))
           d == Overwrite(c, i)
           t == TableV(c)
           x == EntryFor(t.dir[i], 0, 0)
           T == Near(m, I, t.dir)
<1>0. d \in Good /\ Steady(c, d) /\ (IsOk(d) => At(d, i))
  BY OverwriteType
<1>1. d = IF cl = 0 THEN o ELSE IF IsOk(r) THEN b ELSE r
  BY DEF Overwrite, Then
<1>2. cl \in Cluster \cup {0} /\ c.win[i] = t.dir[i] /\ i \in Label
  BY FieldsType, WindowEntry
<1>3. t \in Tables /\ t.dir \in [Label -> Entry]
  BY TableType DEF Tables
<1>4. x.clust = 0 /\ x.size = 0
  <2>1. t.dir[i] \in Entry
    BY <1>2, <1>3
  <2> QED
    BY <2>1 DEF EntryFor, Entry
<1>5. cl = t.dir[i].clust
  BY <1>2
<1>6. Emptied(c, w, i)
  BY EmptiedType
<1> HIDE DEF d, cl, w, t, x
<1>7. /\ w \in Good /\ IsOk(w) /\ Differs(t, TableV(w), i, x)
      /\ TableC(w) = TableC(c)
  BY <1>6 DEF Emptied, Puts, IsOk, t, x
<1>8. TableV(w) \in T
  <2>1. TableV(w) \in Tables /\ Right(m, i, x)
    BY <1>4, <1>7, TableType, RightEmpty
  <2> QED
    BY <1>3, <1>7, <2>1, NearEntered DEF t
<1> HIDE DEF T
<1>9. CASE cl = 0
  <2>1. Over(o) = Over(w) /\ o.sec = w.sec
    BY <1>7, OkType DEF Good
  <2>2. TableV(o) = TableV(w) /\ TableC(o) = TableC(w)
    BY <2>1 DEF TableV, TableC
  <2> QED
    BY <1>0, <1>1, <1>7, <1>8, <1>9, <2>2 DEF Through, Differs, d, t, x, T
<1>10. CASE cl # 0
  <2>1. cl = m.hd[i] /\ m.hd[i] # 0 /\ cl \in Nat
    <3>1. Right(m, i, t.dir[i])
      BY DEF Sane, t
    <3> QED
      BY <1>2, <1>5, <1>10, <3>1, OnesNoCluster DEF Right
  <2>2. /\ r \in Good /\ Steady(w, r) /\ Through(w, r, T)
        /\ TableV(r).dir = TableV(w).dir
    <3>1. Sane(m, I, t.dir) /\ Charted(t.fat, m) /\ (Void(x) \/ (x.clust = 0 /\ x.size = 0))
      BY <1>4 DEF t
    <3>2. r = remove_chain(w, m.hd[i])
      BY <2>1
    <3> HIDE DEF r
    <3> QED
      <4>1. /\ w \in Good /\ IsOk(w) /\ Differs(t, TableV(w), i, x) /\ t \in Tables /\ m.hd[i] # 0
        BY <1>3, <1>7, <2>1
      <4>2. LET e == remove_chain(w, m.hd[i])
            IN /\ e \in Good /\ Steady(w, e) /\ Through(w, e, Near(m, I, t.dir))
               /\ TableV(e).dir = TableV(w).dir /\ (~IsOk(e) => e.hit)
        BY <3>1, <4>1, RemoveChainKeeps
      <4> QED
        BY <3>2, <4>2 DEF T
  <2> HIDE DEF r
  <2>3. cl - 1 \in Nat
    BY <1>2, <1>10 DEF Cluster
  <2>4. l \in Ctx /\ l.sec = r.sec /\ Over(l) = Over(r)
    BY <2>2, <2>3 DEF Good, Ctx, Over
  <2>5. l \in Good
    BY <2>2, <2>4 DEF Good, Coherent, Ctx
  <2> HIDE DEF l
  <2>6. Dir(i) \in Sector
    BY SectorFacts DEF At
  <2>7. b \in Good /\ Flushed(l, b)
    BY <2>5, <2>6, MoveWindowType
  <2> HIDE DEF b
  <2>8. Quiet(r, l) /\ Quiet(l, b)
    BY <2>4, <2>7, BesideQuiet, MovedQuiet DEF Flushed
  <2>9. Quiet(r, b)
    BY <2>8, QuietTransitive
  <2>10. Through(c, r, T)
    BY <1>7, <2>2 DEF Through
  <2>11. Through(c, b, T)
    BY <2>9, <2>10, ThroughQuietNext
  <2>12. TableV(b).dir = [t.dir EXCEPT ![i] = x]
    BY <1>7, <2>2, <2>9 DEF Quiet, Differs
  <2> QED
    BY <1>0, <1>1, <1>10, <2>10, <2>11, <2>12 DEF d, t, x, T
<1> QED
  BY <1>9, <1>10

\* A file that was opened: its object says what its entry says.
AsFile(d, name, mode) ==
  /\ d.fp.fs /\ d.fp.id = d.id /\ d.fp.wr = mode.wr /\ d.fp.fptr = 0 /\ d.fp.err = "FR_OK"
  /\ d.fp.dir_ptr \in Label /\ TableV(d).dir[d.fp.dir_ptr].name = name
  /\ TableV(d).dir[d.fp.dir_ptr].clust = d.fp.sclust
  /\ TableV(d).dir[d.fp.dir_ptr].size = d.fp.fsize
  /\ d.fp.written => d.fp.sclust = 0 /\ d.fp.fsize = 0

\* The volume stays the one it was.
SameVolume(c, d) == d.fs_type = c.fs_type /\ d.id = c.id

\* An entry without a chain.
Hollow(e) == e.clust = 0 /\ e.size = 0

\* Entry i has been opened.
Objected(c, d, i, mode) ==
  /\ d \in Good /\ SameVolume(c, d) /\ AsFile(d, TableV(c).dir[i].name, mode)
  /\ d.fp.dir_ptr = i /\ IsOk(d) /\ TableV(d) = TableV(c) /\ TableC(d) = TableC(c)

\* That is what FileObject makes.
LEMMA FileObjectIs ==
  ASSUME NEW c \in Good, IsOk(c), NEW i, At(c, i), NEW mode, Modal(mode),
         NEW written \in BOOLEAN, written => Hollow(TableV(c).dir[i])
  PROVE  /\ Objected(c, FileObject(c, i, mode, written), i, mode)
         /\ FileObject(c, i, mode, written).fp.written = written
<1> DEFINE size == c.win[i].size
           cl == c.win[i].clust
           p == [Closed EXCEPT
                   !.fs = TRUE, !.id = c.id, !.rd = mode.rd, !.wr = mode.wr, !.written = written,
                   !.sclust = cl, !.fsize = size, !.dir_ptr = i]
           d == WithFp(c, p)
           name == TableV(c).dir[i].name
<1>1. FileObject(c, i, mode, written) = d
  BY DEF FileObject, WithFp
<1>2. /\ cl \in Cluster \cup {0} /\ size \in Nat /\ i \in Label
      /\ cl = TableV(c).dir[i].clust /\ size = TableV(c).dir[i].size
  BY FieldsType, WindowEntry
<1>3. c.id \in Nat /\ i \in 0 .. n_rootdir
  BY FatFsAssumption, SMTT(60) DEF Good, Ctx, At
<1> HIDE DEF size, cl
<1>4. p \in FIL /\ p.fptr = 0 /\ p.err = "FR_OK"
  <2>1. Closed \in FIL /\ Closed.fptr = 0 /\ Closed.err = "FR_OK"
    BY ClosedType DEF Closed
  <2> QED
    BY <1>2, <1>3, <2>1, ZenonT(60) DEF FIL, Modal
<1>5. /\ p.fs /\ p.id = c.id /\ p.wr = mode.wr /\ p.written = written /\ p.sclust = cl
      /\ p.fsize = size /\ p.dir_ptr = i
  BY DEF Closed
<1> HIDE DEF p
<1>6. /\ d \in Good /\ Beside(c, d) /\ d.fp = p /\ Over(d) = Over(c) /\ (IsOk(d) <=> IsOk(c))
  BY <1>4, WithFpType
<1> HIDE DEF d
<1>7. TableV(d) = TableV(c) /\ TableC(d) = TableC(c) /\ SameVolume(c, d) /\ d.id = c.id
  BY <1>6 DEF TableV, TableC, Beside, SameVolume
<1>8. AsFile(d, name, mode)
  BY <1>2, <1>4, <1>5, <1>6, <1>7 DEF AsFile, Hollow
<1> QED
  BY <1>1, <1>5, <1>6, <1>7, <1>8 DEF Objected

\* An entry that is there is opened, and keeps its chain.
LEMMA OpenEntryQuiet ==
  ASSUME NEW c \in Good, IsOk(c), At(c, c.val), NEW mode, Modal(mode), mode.create # "ALWAYS"
  PROVE  LET d == OpenEntry(c, mode)
         IN /\ d \in Good /\ Quiet(c, d) /\ SameVolume(c, d)
            /\ IsOk(d) => /\ AsFile(d, TableV(c).dir[c.val].name, mode) /\ d.fp.dir_ptr = c.val
                          /\ ~d.fp.written
<1> DEFINE name == TableV(c).dir[c.val].name
           f == Failed(c, "FR_EXIST")
           d == FileObject(c, c.val, mode, FALSE)
<1>1. OpenEntry(c, mode) = IF mode.create = "NEW" THEN f ELSE d
  BY DEF OpenEntry
<1>2. f \in Good /\ Quiet(c, f) /\ ~IsOk(f) /\ SameVolume(c, f)
  <2>1. "FR_EXIST" \in Res /\ "FR_EXIST" # "FR_OK" /\ c \in Ctx
    BY DEF Res, Good
  <2>2. f \in Good /\ Quiet(c, f) /\ ~IsOk(f)
    BY <2>1, FailedType, FailedQuiet
  <2>3. SameVolume(c, f)
    BY DEF Failed, SameVolume
  <2> QED
    BY <2>2, <2>3
<1>3. Objected(c, d, c.val, mode) /\ d.fp.written = FALSE
  BY FileObjectIs
<1>4. Quiet(c, d)
  BY <1>3 DEF Objected, Quiet
<1> HIDE DEF f, d
<1> QED
  BY <1>1, <1>2, <1>3, <1>4 DEF Objected

\* An entry that is there is opened, and emptied if the mode says so.
LEMMA OpenEntryKeeps ==
  ASSUME NEW c \in Good, IsOk(c), At(c, c.val), NEW m \in Chart, Charted(TableV(c).fat, m),
         NEW I \in SUBSET Label, Sane(m, I, TableV(c).dir), c.val \in I,
         ~Void(TableV(c).dir[c.val]), NEW mode, Modal(mode)
  PROVE  LET d == OpenEntry(c, mode)
         IN /\ d \in Good /\ Through(c, d, Near(m, I, TableV(c).dir)) /\ SameVolume(c, d)
            /\ IsOk(d) => AsFile(d, TableV(c).dir[c.val].name, mode) /\ d.fp.dir_ptr = c.val
<1> DEFINE T == Near(m, I, TableV(c).dir)
           x == EntryFor(TableV(c).dir[c.val], 0, 0)
           name == TableV(c).dir[c.val].name
           o == Overwrite(c, c.val)
           f == FileObject(o, c.val, mode, TRUE)
<1>1. CASE mode.create # "ALWAYS"
  <2> DEFINE d == OpenEntry(c, mode)
  <2>1. /\ d \in Good /\ Quiet(c, d) /\ SameVolume(c, d)
        /\ IsOk(d) => AsFile(d, name, mode) /\ d.fp.dir_ptr = c.val
    BY <1>1, OpenEntryQuiet
  <2> HIDE DEF d
  <2>2. TableV(c) \in T
    BY TableType, NearKept
  <2>3. Through(c, d, T)
    BY <2>1, <2>2, QuietThrough
  <2> QED
    BY <2>1, <2>3 DEF d
<1>2. CASE mode.create = "ALWAYS"
  <2>1. OpenEntry(c, mode) = IF IsOk(o) THEN f ELSE o
    BY <1>2 DEF OpenEntry, Then
  <2>2. /\ o \in Good /\ Steady(c, o) /\ Through(c, o, T)
        /\ IsOk(o) => At(o, c.val) /\ TableV(o).dir = [TableV(c).dir EXCEPT ![c.val] = x]
    BY OverwriteKeeps
  <2> HIDE DEF o, T
  <2>3. SameVolume(c, o)
    BY <2>2 DEF SameVolume, Steady
  <2>4. CASE ~IsOk(o)
    BY <2>1, <2>2, <2>3, <2>4 DEF T
  <2>5. CASE IsOk(o)
    <3>1. TableV(c).dir \in [Label -> Entry] /\ c.val \in Label
      BY TableType DEF Tables, At, Label
    <3>2. x.name = name /\ x.clust = 0 /\ x.size = 0
      BY <3>1 DEF EntryFor, Entry
    <3>3. TableV(o).dir[c.val] = x
      BY <2>2, <2>5, <3>1
    <3> HIDE DEF x, name
    <3>4. TableV(o).dir[c.val].name = name /\ Hollow(TableV(o).dir[c.val])
      BY <3>2, <3>3 DEF Hollow
    <3>5. Objected(o, f, c.val, mode)
      BY <2>2, <2>5, <3>4, FileObjectIs
    <3> HIDE DEF f
    <3>6. SameVolume(c, f) /\ Through(c, f, T)
      BY <2>2, <2>3, <3>5 DEF SameVolume, Objected, Through
    <3> QED
      BY <2>1, <2>5, <3>4, <3>5, <3>6 DEF T, name, Objected
  <2> QED
    BY <2>4, <2>5
<1> QED
  BY <1>1, <1>2

\* What f_open leaves behind the mount: the tables are among T, and a file it opened is that
\* of an entry of I.
Opens(v, d, T, I, name, mode) ==
  /\ d \in Good /\ Through(v, d, T) /\ SameVolume(v, d)
  /\ IsOk(d) => AsFile(d, name, mode) /\ d.fp.dir_ptr \in I

\* Nothing was opened.
LEMMA OpensNone ==
  ASSUME NEW v, NEW d \in Good, ~IsOk(d), Kept(v, d), Quiet(v, d), NEW T, TableV(v) \in T,
         NEW I, NEW name, NEW mode
  PROVE  Opens(v, d, T, I, name, mode)
BY QuietThrough DEF Opens, SameVolume, Kept, Steady

\* An entry is made for the file.
LEMMA OpenRegisters ==
  ASSUME NEW c \in Good, IsOk(c), NEW m \in Chart, Charted(TableV(c).fat, m),
         NEW I \in SUBSET Label, Sane(m, I, TableV(c).dir),
         \A j \in Label : Void(TableV(c).dir[j]) => j \in I,
         NEW name \in Name, NEW mode, Modal(mode)
  PROVE  LET g == dir_register(c, name)
             d == IF IsOk(g) THEN FileObject(g, g.val, mode, TRUE) ELSE g
         IN Opens(c, d, Near(m, I, TableV(c).dir), I, name, mode)
<1> DEFINE g == dir_register(c, name)
           f == FileObject(g, g.val, mode, TRUE)
           x == [Unused EXCEPT !.name = name]
           T == Near(m, I, TableV(c).dir)
<1>1. /\ g \in Good
      /\ IsOk(g) => /\ At(g, g.val) /\ g.val \in Label /\ g.wflag /\ g.win[g.val] = x
                    /\ Void(TableV(c).dir[g.val]) /\ Puts(c, g, g.val, x)
      /\ ~IsOk(g) => Quiet(c, g)
  BY RegisterPuts
<1>2. Kept(c, g)
  BY DirRegisterType
<1> HIDE DEF g
<1>3. TableV(c) \in T
  BY TableType, NearKept
<1>4. x.name = name /\ Hollow(x)
  BY DEF Unused, Hollow
<1> HIDE DEF x
<1>5. CASE ~IsOk(g)
  <2> HIDE DEF T
  <2>1. Opens(c, g, T, I, name, mode)
    BY <1>1, <1>2, <1>3, <1>5, OpensNone
  <2> QED
    BY <1>5, <2>1 DEF g, T
<1>6. CASE IsOk(g)
  <2>1. g.val \in I /\ Differs(TableV(c), TableV(g), g.val, x)
    BY <1>1, <1>6 DEF Puts
  <2>2. Right(m, g.val, x)
    BY <1>4, RightEmpty DEF Hollow
  <2>3. TableV(g) \in T
    <3>1. TableV(c) \in Tables /\ TableV(g) \in Tables
      BY <1>1, TableType
    <3> QED
      BY <2>1, <2>2, <3>1, NearEntered
  <2>4. Through(c, g, T)
    BY <1>1, <1>3, <1>6, <2>3 DEF Puts, Through
  <2> HIDE DEF T
  <2>5. TableV(g).dir[g.val] = x
    <3>1. TableV(c).dir \in [Label -> Entry] /\ g.val \in Label
      BY <1>1, <1>6, TableType DEF Tables
    <3> QED
      BY <2>1, <3>1 DEF Differs
  <2>6. Objected(g, f, g.val, mode)
    BY <1>1, <1>4, <1>6, <2>5, FileObjectIs
  <2> HIDE DEF f
  <2>7. SameVolume(c, f) /\ Through(c, f, T)
    BY <1>2, <2>4, <2>6 DEF SameVolume, Objected, Through, Kept, Steady
  <2>8. Opens(c, f, T, I, name, mode)
    BY <1>4, <2>1, <2>5, <2>6, <2>7 DEF Opens, Objected
  <2> QED
    BY <1>6, <2>8 DEF g, T, f
<1> QED
  BY <1>5, <1>6

\* f_open, step by step.
LEMMA OpenSteps ==
  ASSUME NEW c \in Fair, c.fp = Closed, NEW name, NEW mode
  PROVE  LET v == find_volume(c)
             s == dir_find(v, name)
             g == dir_register(Ok(s), name)
         IN f_open(c, name, mode) =
              IF IsOk(v) THEN IF s.res = "FR_NO_FILE" /\ mode.create # "EXISTING"
                              THEN IF IsOk(g) THEN FileObject(g, g.val, mode, TRUE) ELSE g
                              ELSE IF IsOk(s) THEN OpenEntry(s, mode) ELSE s
              ELSE v
<1>1. [c EXCEPT !.fp = Closed] = c
  BY DEF Fair, Ctx
<1> QED
  BY <1>1 DEF f_open, Then

\* f_open changes at most an entry that was of no file, or the one of this name.
LEMMA OpenKeeps ==
  ASSUME NEW c \in Fair, c.fp = Closed, NEW name \in Name, NEW mode, Modal(mode),
         NEW v, v = find_volume(c), IsOk(v), NEW m \in Chart, Charted(TableV(v).fat, m),
         NEW I, I = Slots(TableV(v).dir, {name}), Sane(m, I, TableV(v).dir)
  PROVE  Opens(v, f_open(c, name, mode), Near(m, I, TableV(v).dir), I, name, mode)
<1> DEFINE s == dir_find(v, name)
           o == Ok(s)
           g == dir_register(o, name)
           r == IF IsOk(g) THEN FileObject(g, g.val, mode, TRUE) ELSE g
           e == OpenEntry(s, mode)
           d == f_open(c, name, mode)
           T == Near(m, I, TableV(v).dir)
<1>1. d = IF s.res = "FR_NO_FILE" /\ mode.create # "EXISTING" THEN r
          ELSE IF IsOk(s) THEN e ELSE s
  BY OpenSteps
<1> HIDE DEF d
<1>2. v \in Good
  BY FoundVolume
<1>3. /\ s \in Good /\ Moved(v, s) /\ Quiet(v, s)
      /\ IsOk(s) => /\ At(s, s.val) /\ s.val \in Label
                    /\ TableV(v).dir[s.val].name \in {name}
  BY <1>2, ScanFinds DEF dir_find
<1> HIDE DEF s
<1>4. I \in SUBSET Label /\ \A j \in Label : Void(TableV(v).dir[j]) => j \in I
  BY DEF Slots
<1>5. TableV(v) \in T
  BY <1>2, TableType, NearKept
<1>6. CASE s.res = "FR_NO_FILE" /\ mode.create # "EXISTING"
  <2>1. o \in Good /\ Kept(s, o) /\ IsOk(o) /\ Over(o) = Over(s) /\ o.sec = s.sec
    BY <1>3, OkType DEF Good
  <2> HIDE DEF o
  <2>2. Quiet(v, o) /\ TableV(o) = TableV(v) /\ Kept(v, o)
    <3>1. Quiet(s, o)
      BY <2>1, BesideQuiet
    <3>2. Quiet(v, o)
      BY <1>3, <3>1, QuietTransitive
    <3> QED
      BY <1>3, <2>1, <3>2, KeptTransitive DEF Quiet, Moved
  <2>3. Opens(o, r, Near(m, I, TableV(o).dir), I, name, mode)
    BY <1>4, <2>1, <2>2, OpenRegisters
  <2> HIDE DEF r, T
  <2>4. Opens(o, r, T, I, name, mode)
    BY <2>2, <2>3 DEF T
  <2>5. Through(v, r, T) /\ SameVolume(v, r)
    BY <1>5, <2>2, <2>4, QuietThroughNext DEF Opens, SameVolume, Kept, Steady
  <2>6. Opens(v, r, T, I, name, mode)
    BY <2>4, <2>5 DEF Opens
  <2> QED
    BY <1>1, <1>6, <2>6 DEF d, T
<1>7. CASE ~(s.res = "FR_NO_FILE" /\ mode.create # "EXISTING") /\ IsOk(s)
  <2>1. TableV(s) = TableV(v) /\ TableV(v).dir[s.val].name = name /\ ~Void(TableV(v).dir[s.val])
    BY <1>3, <1>7, FatDevAssumption DEF Quiet, Void, Removed
  <2>2. s.val \in I
    BY <1>3, <1>7, <2>1 DEF Slots
  <2>3. /\ e \in Good /\ Through(s, e, Near(m, I, TableV(s).dir)) /\ SameVolume(s, e)
        /\ IsOk(e) => AsFile(e, TableV(s).dir[s.val].name, mode) /\ e.fp.dir_ptr = s.val
    BY <1>3, <1>4, <1>7, <2>1, <2>2, OpenEntryKeeps
  <2> HIDE DEF e, T
  <2>4. Through(s, e, T)
    BY <2>1, <2>3 DEF T
  <2>5. Through(v, e, T) /\ SameVolume(v, e)
    BY <1>3, <1>5, <2>3, <2>4, QuietThroughNext DEF SameVolume, Moved, Kept, Steady
  <2>6. Opens(v, e, T, I, name, mode)
    BY <2>1, <2>2, <2>3, <2>5 DEF Opens
  <2> QED
    BY <1>1, <1>7, <2>6 DEF d, T
<1>8. CASE ~(s.res = "FR_NO_FILE" /\ mode.create # "EXISTING") /\ ~IsOk(s)
  <2> HIDE DEF T
  <2>1. Opens(v, s, T, I, name, mode)
    BY <1>3, <1>5, <1>8, OpensNone DEF Moved
  <2> QED
    BY <1>1, <1>8, <2>1 DEF d, T
<1> QED
  BY <1>6, <1>7, <1>8

\* f_open of a file that must exist changes nothing.
LEMMA OpenExisting ==
  ASSUME NEW c \in Fair, c.fp = Closed, NEW name \in Name, NEW mode, Modal(mode),
         mode.create = "EXISTING", NEW v, v = find_volume(c), IsOk(v)
  PROVE  LET d == f_open(c, name, mode)
         IN /\ d \in Good /\ Quiet(v, d) /\ SameVolume(v, d)
            /\ IsOk(d) => AsFile(d, name, mode) /\ ~d.fp.written
<1> DEFINE s == dir_find(v, name)
           e == OpenEntry(s, mode)
           d == f_open(c, name, mode)
<1>1. d = IF IsOk(s) THEN e ELSE s
  BY OpenSteps
<1> HIDE DEF d
<1>2. v \in Good
  BY FoundVolume
<1>3. /\ s \in Good /\ Moved(v, s) /\ Quiet(v, s)
      /\ IsOk(s) => /\ At(s, s.val) /\ s.val \in Label
                    /\ TableV(v).dir[s.val].name \in {name}
  BY <1>2, ScanFinds DEF dir_find
<1> HIDE DEF s
<1>4. SameVolume(v, s)
  BY <1>3 DEF SameVolume, Moved, Kept, Steady
<1>5. CASE ~IsOk(s)
  BY <1>1, <1>3, <1>4, <1>5 DEF d
<1>6. CASE IsOk(s)
  <2>1. TableV(s).dir[s.val].name = name
    BY <1>3, <1>6 DEF Quiet
  <2>2. /\ e \in Good /\ Quiet(s, e) /\ SameVolume(s, e)
        /\ IsOk(e) => /\ AsFile(e, TableV(s).dir[s.val].name, mode) /\ ~e.fp.written
    BY <1>3, <1>6, OpenEntryQuiet
  <2> HIDE DEF e
  <2>3. Quiet(v, e) /\ SameVolume(v, e)
    BY <1>3, <1>4, <2>2, QuietTransitive DEF SameVolume
  <2> QED
    BY <1>1, <1>6, <2>1, <2>2, <2>3 DEF d
<1> QED
  BY <1>5, <1>6

\* What a call by name leaves behind the mount: the tables are among T.
Leaves(v, d, T) == d \in Good /\ Through(v, d, T) /\ SameVolume(v, d)

\* f_unlink changes at most the entry of this name, and frees its chain.
LEMMA UnlinkKeeps ==
  ASSUME NEW c \in Fair, NEW name \in Name,
         NEW v, v = find_volume(c), IsOk(v), NEW m \in Chart, Charted(TableV(v).fat, m),
         NEW I, I = Slots(TableV(v).dir, {name}), Sane(m, I, TableV(v).dir)
  PROVE  Leaves(v, f_unlink(c, name), Near(m, I, TableV(v).dir))
<1> DEFINE s == dir_find(v, name)
           i == s.val
           cl == s.win[s.val].clust
           r == dir_remove(s, s.val)
           k == IF cl = 0 THEN r ELSE remove_chain(r, cl)
           y == sync_fs(k)
           d == f_unlink(c, name)
           t == TableV(v)
           T == Near(m, I, t.dir)
<1>1. d = IF IsOk(s) THEN IF IsOk(r) THEN IF IsOk(k) THEN y ELSE k ELSE r ELSE s
  BY DEF f_unlink, Then
<1> HIDE DEF d
<1>2. v \in Good /\ t \in Tables
  BY FoundVolume, TableType
<1>3. /\ s \in Good /\ Moved(v, s) /\ Quiet(v, s)
      /\ IsOk(s) => /\ At(s, s.val) /\ s.val \in Label /\ s.win[s.val] = t.dir[s.val]
                    /\ t.dir[s.val].name \in {name}
  BY <1>2, ScanFinds DEF dir_find
<1> HIDE DEF s, t
<1>4. I \in SUBSET Label /\ Sane(m, I, t.dir) /\ Charted(t.fat, m)
  BY DEF Slots, t
<1>5. t \in T /\ TableV(s) = t /\ TableC(s) \in {t, TableC(v)}
  BY <1>2, <1>3, <1>4, NearKept DEF Quiet, t
<1>6. SameVolume(v, s)
  BY <1>3 DEF SameVolume, Moved, Kept, Steady
<1>7. CASE ~IsOk(s)
  <2> HIDE DEF T
  <2>1. Through(v, s, T)
    BY <1>3, <1>5, QuietThrough DEF t
  <2> QED
    BY <1>1, <1>3, <1>6, <1>7, <2>1 DEF Leaves, d, t, T
<1>8. CASE IsOk(s)
  <2>1. /\ r \in Good /\ Kept(s, r)
        /\ IsOk(r) => Puts(s, r, i, Removed)
        /\ ~IsOk(r) => Quiet(s, r) /\ r.hit
    BY <1>3, <1>8, RemovePuts
  <2> HIDE DEF r
  <2>2. SameVolume(v, r)
    BY <1>6, <2>1 DEF SameVolume, Kept, Steady
  <2>3. CASE ~IsOk(r)
    <3> HIDE DEF T
    <3>1. Quiet(v, r)
      BY <1>3, <2>1, <2>3, QuietTransitive
    <3>2. Through(v, r, T)
      BY <1>5, <3>1, QuietThrough DEF t
    <3> QED
      BY <1>1, <1>8, <2>1, <2>2, <2>3, <3>2 DEF Leaves, d, t, T
  <2>4. CASE IsOk(r)
    <3>1. /\ i \in I /\ ~Void(t.dir[i]) /\ cl = t.dir[i].clust
      BY <1>3, <1>8, FatDevAssumption DEF Slots, Void, t, Removed
    <3>2. Differs(t, TableV(r), i, Removed) /\ TableC(r) \in {TableC(s), t}
      BY <1>5, <2>1, <2>4 DEF Puts
    <3>3. TableV(r) \in T
      <4>1. Void(Removed) /\ TableV(r) \in Tables
        BY <2>1, TableType DEF Void, Removed
      <4> QED
        BY <1>2, <1>4, <3>1, <3>2, <4>1, NearEntered
    <3>4. Through(v, r, T)
      BY <1>5, <3>2, <3>3 DEF Through
    <3> HIDE DEF cl, i
    <3>5. k \in Good /\ Steady(r, k) /\ Through(r, k, T)
      <4>1. CASE cl = 0
        BY <2>1, <3>3, <4>1 DEF Through, Steady
      <4>2. CASE cl # 0
        <5>1. Right(m, i, t.dir[i])
          BY <1>4, <3>1 DEF Sane
        <5>2. cl = m.hd[i] /\ m.hd[i] # 0
          BY <3>1, <4>2, <5>1 DEF Right
        <5>3. Void(Removed)
          BY DEF Void, Removed
        <5>4. LET e == remove_chain(r, m.hd[i])
              IN e \in Good /\ Steady(r, e) /\ Through(r, e, Near(m, I, t.dir))
          BY <1>2, <1>4, <2>1, <2>4, <3>1, <3>2, <5>2, <5>3, RemoveChainKeeps
        <5> QED
          BY <4>2, <5>2, <5>4
      <4> QED
        BY <4>1, <4>2
    <3> HIDE DEF k, T
    <3>6. Through(v, k, T) /\ SameVolume(v, k)
      BY <2>2, <3>4, <3>5, ThroughTransitive DEF SameVolume, Steady
    <3>7. y \in Good /\ Steady(k, y) /\ Quiet(k, y)
      BY <3>5, SyncFsType, SyncFsQuiet
    <3> HIDE DEF y
    <3>8. Through(v, y, T) /\ SameVolume(v, y)
      BY <3>6, <3>7, ThroughQuietNext DEF SameVolume, Steady
    <3> QED
      BY <1>1, <1>8, <2>4, <3>5, <3>6, <3>7, <3>8 DEF Leaves, d, t, T
  <2> QED
    BY <2>3, <2>4
<1> QED
  BY <1>7, <1>8

\* A chain is given to an entry that has none.
Relabelled(m, i, j) ==
  [m EXCEPT !.hd = [m.hd EXCEPT ![j] = m.hd[i], ![i] = 0],
            !.own = [k \in Cluster |-> IF m.own[k] = i THEN j ELSE m.own[k]]]

\* ... which then has it as the other one did.
LEMMA RelabelledCharted ==
  ASSUME NEW m \in Chart, NEW fat, Charted(fat, m), NEW i \in Label, NEW j \in Label, i # j,
         \A k \in Cluster : m.own[k] # j
  PROVE  LET n == Relabelled(m, i, j)
         IN /\ n \in Chart /\ Charted(fat, n) /\ Spares(m, n, {i, j}) /\ n.hd[j] = m.hd[i]
            /\ \A size : Holds(m, i, size) => Holds(n, j, size)
<1> DEFINE n == Relabelled(m, i, j)
<1>1. /\ m.hd \in [Label -> Cluster \cup {0}] /\ m.own \in [Cluster -> Label \cup {0}]
      /\ m.pos \in [Cluster -> Nat] /\ 0 \notin Label /\ 0 \notin Cluster
  BY OnesNoCluster, SMTT(60) DEF Chart, Label
<1>2. /\ n \in Chart /\ n.hd = [m.hd EXCEPT ![j] = m.hd[i], ![i] = 0] /\ n.pos = m.pos
      /\ n.own = [k \in Cluster |-> IF m.own[k] = i THEN j ELSE m.own[k]]
  BY <1>1 DEF Relabelled, Chart
<1> HIDE DEF n
<1>3. /\ n.hd[j] = m.hd[i] /\ n.hd[i] = 0
      /\ \A l \in Label : l # i /\ l # j => n.hd[l] = m.hd[l]
  BY <1>1, <1>2
<1>4. /\ \A k \in Cluster : m.own[k] = i => n.own[k] = j
      /\ \A k \in Cluster : m.own[k] # i => n.own[k] = m.own[k]
      /\ \A k \in Cluster : n.own[k] # i
  BY <1>1, <1>2
<1>5. \A k, l \in Cluster : m.own[k] = m.own[l] <=> n.own[k] = n.own[l]
  BY <1>4
<1>6. Charted(fat, n)
  <2>1. ASSUME NEW l \in Label, n.hd[l] # 0
        PROVE  n.own[n.hd[l]] = l /\ n.pos[n.hd[l]] = 0
    <3>1. CASE l = j
      <4>1. m.own[m.hd[i]] = i /\ m.pos[m.hd[i]] = 0 /\ m.hd[i] \in Cluster
        BY <1>1, <1>3, <2>1, <3>1 DEF Charted
      <4> QED
        BY <1>2, <1>3, <1>4, <3>1, <4>1
    <3>2. CASE l # j
      <4>1. l # i /\ m.hd[l] = n.hd[l]
        BY <1>3, <2>1, <3>2
      <4>2. m.own[m.hd[l]] = l /\ m.pos[m.hd[l]] = 0 /\ m.hd[l] \in Cluster
        BY <1>1, <2>1, <4>1 DEF Charted
      <4> QED
        BY <1>2, <1>4, <4>1, <4>2
    <3> QED
      BY <3>1, <3>2
  <2>2. ASSUME NEW k \in Cluster, n.own[k] # 0
        PROVE  n.hd[n.own[k]] # 0 /\ (LastOf(fat, n, k) \/ Onto(fat, n, k))
    <3>1. m.own[k] # 0 /\ m.own[k] \in Label
      BY <1>1, <1>4, <2>2
    <3>2. m.hd[m.own[k]] # 0 /\ (LastOf(fat, m, k) \/ Onto(fat, m, k))
      BY <3>1 DEF Charted
    <3>3. n.hd[n.own[k]] # 0
      BY <1>3, <1>4, <3>1, <3>2
    <3>4. LastOf(fat, m, k) => LastOf(fat, n, k)
      BY <1>2, <1>5 DEF LastOf
    <3>5. Onto(fat, m, k) => Onto(fat, n, k)
      BY <1>2, <1>5 DEF Onto
    <3> QED
      BY <3>2, <3>3, <3>4, <3>5
  <2>3. ASSUME NEW k \in Cluster, NEW l \in Cluster, n.own[k] # 0, n.own[k] = n.own[l],
               n.pos[k] = n.pos[l]
        PROVE  k = l
    <3>1. m.own[k] # 0 /\ m.own[k] = m.own[l] /\ m.pos[k] = m.pos[l]
      BY <1>1, <1>2, <1>4, <1>5, <2>3
    <3> QED
      BY <3>1 DEF Charted
  <2> QED
    BY <2>1, <2>2, <2>3 DEF Charted
<1>7. Spares(m, n, {i, j})
  BY <1>2, <1>3, <1>4 DEF Spares
<1>8. ASSUME NEW size, Holds(m, i, size) PROVE Holds(n, j, size)
  BY <1>2, <1>4, <1>8 DEF Holds
<1> QED
  BY <1>2, <1>3, <1>6, <1>7, <1>8 DEF n

\* A chart that does without the chain of an entry.
LEMMA CutNone ==
  ASSUME NEW m \in Chart, NEW fat, Charted(fat, m), NEW j \in Label
  PROVE  LET n == CutAt(m, j, 0)
         IN /\ n \in Chart /\ Charted(fat, n) /\ Spares(m, n, {j})
            /\ \A k \in Cluster : n.own[k] # j
<1> DEFINE n == CutAt(m, j, 0)
<1>1. /\ m.own \in [Cluster -> Label \cup {0}] /\ m.pos \in [Cluster -> Nat] /\ 0 # j
  BY DEF Chart, Label
<1>2. EndsAt(fat, fat, m, j, 0)
  <2>1. SUFFICES ASSUME NEW k \in Cluster
                 PROVE  ~(m.own[k] = j /\ m.pos[k] + 1 = 0)
    BY DEF EndsAt
  <2>2. m.pos[k] \in Nat
    BY <1>1
  <2> QED
    BY <2>2
<1>3. Charted(fat, n)
  BY <1>2, CutCharted
<1>4. n \in Chart /\ Spares(m, n, {j})
  BY CutKeeps
<1>5. ASSUME NEW k \in Cluster PROVE n.own[k] # j
  <2>1. n.own[k] = IF k \in TailOf(m, j, 0) THEN 0 ELSE m.own[k]
    BY <1>1 DEF CutAt, Chart
  <2>2. m.own[k] = j => k \in TailOf(m, j, 0)
    BY <1>1 DEF TailOf
  <2> QED
    BY <1>1, <2>1, <2>2
<1> QED
  BY <1>3, <1>4, <1>5

\* The tables of a file that was renamed: its chain is that of the new entry.
LEMMA RenamedNear ==
  ASSUME NEW t \in Tables, NEW m \in Chart, Charted(t.fat, m), NEW I \in SUBSET Label,
         Sane(m, I, t.dir), NEW i \in I, ~Void(t.dir[i]), NEW j \in I, Void(t.dir[j]),
         NEW x, x.clust = t.dir[i].clust, x.size = t.dir[i].size,
         NEW u \in Tables, Differs(t, u, j, x), NEW w \in Tables, Differs(u, w, i, Removed)
  PROVE  w \in Near(m, I, t.dir)
<1> DEFINE e == t.dir[i]
<1>1. i \in Label /\ j \in Label /\ i # j /\ Right(m, i, e)
  BY DEF Sane
<1>2. PICK n1 \in Chart : /\ Charted(t.fat, n1) /\ Spares(m, n1, {i}) /\ n1.hd[i] = e.clust
                          /\ Holds(n1, i, e.size)
  BY <1>1, RightHead
<1>3. Right(n1, i, e)
  BY <1>1, <1>2 DEF Right
<1>4. PICK n2 \in Chart : /\ Charted(t.fat, n2) /\ Spares(n1, n2, {j})
                          /\ \A k \in Cluster : n2.own[k] # j
  BY <1>1, <1>2, CutNone
<1>5. Right(n2, i, e)
  BY <1>1, <1>3, <1>4, RightSpared
<1>6. n2.hd[i] = e.clust
  BY <1>1, <1>2, <1>4 DEF Spares
<1>7. PICK n3 \in Chart : /\ Charted(t.fat, n3) /\ Spares(n2, n3, {i, j}) /\ n3.hd[j] = n2.hd[i]
                          /\ \A size : Holds(n2, i, size) => Holds(n3, j, size)
  BY <1>1, <1>4, RelabelledCharted
<1>8. Right(n3, j, x)
  BY <1>5, <1>6, <1>7 DEF Right
<1>9. Spares(m, n3, {i, j})
  <2>1. Spares(m, n1, {i, j}) /\ Spares(n1, n2, {i, j})
    BY <1>2, <1>4, SparesMore
  <2>2. Spares(m, n2, {i, j})
    BY <2>1, SparesTransitive
  <2> QED
    BY <1>7, <2>2, SparesTransitive
<1> HIDE DEF e
<1>10. t.dir \in [Label -> Entry] /\ u.dir \in [Label -> Entry]
  BY DEF Tables
<1>11. /\ w.fat = t.fat /\ w.dir[i] = Removed /\ w.dir[j] = x
       /\ \A l \in Label : l # i /\ l # j => w.dir[l] = t.dir[l]
  BY <1>1, <1>10 DEF Differs
<1>12. Sane(n3, I, w.dir)
  <2>1. SUFFICES ASSUME NEW l \in I PROVE Void(w.dir[l]) \/ Right(n3, l, w.dir[l])
    BY DEF Sane
  <2>2. CASE l = i
    <3>1. Void(Removed)
      BY DEF Void, Removed
    <3> QED
      BY <1>11, <2>2, <3>1
  <2>3. CASE l = j
    BY <1>8, <1>11, <2>3
  <2>4. CASE l # i /\ l # j
    <3>1. w.dir[l] = t.dir[l] /\ l \in Label \ {i, j}
      BY <1>11, <2>4
    <3>2. Right(m, l, t.dir[l]) => Right(n3, l, t.dir[l])
      BY <1>9, <3>1, RightSpared
    <3> QED
      BY <3>1, <3>2 DEF Sane
  <2> QED
    BY <2>2, <2>3, <2>4
<1>13. Spares(m, n3, I)
  BY <1>9, SparesMore
<1> QED
  BY <1>1, <1>7, <1>11, <1>12, <1>13 DEF Near

\* Tables whose entries I are of no file, or have one of the names, and may be wrong.
Loose(t, I, names) ==
  {u \in Tables : /\ u.fat = t.fat /\ \A j \in Label \ I : u.dir[j] = t.dir[j]
                  /\ \A j \in I : Void(u.dir[j]) \/ u.dir[j].name \in names}

\* One more entry has changed.
LEMMA LooseEntered ==
  ASSUME NEW t, NEW I \in SUBSET Label, NEW names, NEW u \in Loose(t, I, names), NEW i \in I,
         NEW x, Void(x) \/ x.name \in names, NEW w \in Tables, Differs(u, w, i, x)
  PROVE  w \in Loose(t, I, names)
<1>1. u.dir \in [Label -> Entry]
  BY DEF Loose, Tables
<1>2. w.dir[i] = x /\ \A j \in Label : j # i => w.dir[j] = u.dir[j]
  BY <1>1 DEF Differs
<1> QED
  BY <1>2 DEF Loose, Differs

\* The new entry has got what the old one says, and the old one is removed, or is not: the card
\* failed.
MovedTo(v, d, t, I, names, m) ==
  /\ d \in Good /\ SameVolume(v, d)
  /\ IsOk(d) => TableV(d) \in Near(m, I, t.dir)
  /\ ~IsOk(d) => d.hit
  /\ TableV(d) \in Loose(t, I, names) /\ TableC(d) \in {TableC(v)} \cup Loose(t, I, names)

\* That is what Move does.
LEMMA MoveKeeps ==
  ASSUME NEW v \in Good, NEW t, t = TableV(v), NEW m \in Chart, Charted(t.fat, m),
         NEW I, NEW old, NEW name \in Name, I = Slots(t.dir, {old, name}), Sane(m, I, t.dir),
         NEW i \in Label, t.dir[i].name = old, old \in Name,
         NEW g \in Good, At(g, g.val), g.wflag, SameVolume(v, g), TableC(g) \in {TableC(v), t},
         g.val \in Label, Void(t.dir[g.val]),
         Differs(t, TableV(g), g.val, [Unused EXCEPT !.name = name])
  PROVE  MovedTo(v, Move(g, i, t.dir[i]), t, I, {old, name}, m)
<1> DEFINE j == g.val
           e == t.dir[i]
           cl == e.clust
           size == e.size
           w == [g EXCEPT !.win[j].clust = cl, !.win[j].size = size, !.wflag = TRUE]
           u == [g EXCEPT !.win[j].clust = cl, !.win[j].size = size]
           d == Move(g, i, e)
           y == [Unused EXCEPT !.name = name]
           x == EntryFor(TableV(g).dir[j], cl, size)
           L == Loose(t, I, {old, name})
<1>1. d = dir_remove(u, i)
  BY DEF Move
<1>2. /\ t \in Tables /\ t.dir \in [Label -> Entry] /\ e \in Entry
      /\ cl \in Cluster \cup {0} /\ size \in Nat
  <2>1. t \in Tables
    BY TableType
  <2> QED
    BY <2>1 DEF Tables, Entry
<1>3. g \in Ctx
  BY DEF Good
<1>4. y.name = name /\ Void(Removed)
  BY DEF Unused, Void, Removed
<1>5. ~Void(e) /\ i \in I /\ j \in I /\ I \in SUBSET Label
  BY FatDevAssumption DEF Void, Removed, Slots
<1> HIDE DEF d, cl, size, e, j, y
<1>6. Filling(g, w, j, cl, size)
  BY <1>2, FillingType DEF j
<1>7. w = u
  BY <1>3 DEF Ctx
<1> HIDE DEF w, u
<1>8. w \in Good /\ SameVolume(v, w) /\ TableC(w) \in {TableC(v), t}
  BY <1>6 DEF Filling, Kept, Steady, SameVolume
<1>9. Differs(TableV(g), TableV(w), j, x)
  BY <1>6 DEF Filling, Puts
<1>10. TableV(g).dir[j] = y /\ TableV(g) \in Tables /\ TableV(w) \in Tables
  BY <1>2, <1>5, <1>8, TableType DEF Differs, j, y
<1>11. x.name = name /\ x.clust = cl /\ x.size = size
  <2>1. y \in Entry
    BY DEF Unused, Entry, y
  <2> QED
    BY <1>4, <1>10, <2>1 DEF EntryFor, Entry
<1> HIDE DEF x
<1>12. Differs(t, TableV(w), j, x)
  <2>1. TableV(g).dir = [t.dir EXCEPT ![j] = y] /\ TableV(g).fat = t.fat
    BY DEF Differs, j, y
  <2> QED
    BY <1>2, <1>9, <2>1 DEF Differs
<1>13. t \in L
  BY <1>2 DEF Loose, Slots
<1>14. TableV(w) \in L
  BY <1>5, <1>10, <1>11, <1>12, <1>13, LooseEntered
<1>15. /\ d \in Good /\ Kept(w, d)
       /\ IsOk(d) => Puts(w, d, i, Removed)
       /\ ~IsOk(d) => Quiet(w, d) /\ d.hit
  BY <1>1, <1>7, <1>8, RemovePuts
<1>16. SameVolume(v, d)
  BY <1>8, <1>15 DEF Kept, Steady, SameVolume
<1>17. CASE ~IsOk(d)
  BY <1>8, <1>13, <1>14, <1>15, <1>16, <1>17 DEF MovedTo, Quiet, d, e
<1>18. CASE IsOk(d)
  <2>1. Differs(TableV(w), TableV(d), i, Removed) /\ TableC(d) \in {TableC(w), TableV(w)}
    BY <1>15, <1>18 DEF Puts
  <2>2. TableV(d) \in Tables
    BY <1>15, TableType
  <2>3. TableV(d) \in Near(m, I, t.dir)
    <3>1. /\ Sane(m, I, t.dir) /\ ~Void(t.dir[i]) /\ Void(t.dir[j])
          /\ x.clust = t.dir[i].clust /\ x.size = t.dir[i].size
      BY <1>5, <1>11 DEF cl, size, e, j
    <3> QED
      BY <1>2, <1>5, <1>10, <1>12, <2>1, <2>2, <3>1, RenamedNear
  <2>4. TableV(d) \in L
    BY <1>4, <1>5, <1>14, <2>1, <2>2, LooseEntered
  <2> QED
    BY <1>8, <1>13, <1>14, <1>15, <1>16, <1>18, <2>1, <2>3, <2>4 DEF MovedTo, d, e
<1> QED
  BY <1>17, <1>18

\* What f_rename leaves behind the mount: a disk error may leave the two entries with one chain.
Renames(v, d, T, L) ==
  /\ d \in Good /\ SameVolume(v, d)
  /\ IsOk(d) => Through(v, d, T)
  /\ ~IsOk(d) => Quiet(v, d) \/ (d.hit /\ Through(v, d, L))

\* f_rename changes at most the entries of the two names, and one of no file, and the new
\* entry has the chain of the old one.
LEMMA RenameKeeps ==
  ASSUME NEW c \in Fair, NEW old \in Name, NEW name \in Name,
         NEW v, v = find_volume(c), IsOk(v), NEW m \in Chart, Charted(TableV(v).fat, m),
         NEW I, I = Slots(TableV(v).dir, {old, name}), Sane(m, I, TableV(v).dir)
  PROVE  Renames(v, f_rename(c, old, name), Near(m, I, TableV(v).dir),
                 Loose(TableV(v), I, {old, name}))
<1> DEFINE d == dir_find(v, old)
           i == d.val
           x == d.win[i]
           e == dir_find(d, name)
           y == Failed(e, "FR_EXIST")
           o == Ok(e)
           g == dir_register(o, name)
           k == Move(g, i, x)
           s == sync_fs(k)
           r == f_rename(c, old, name)
           t == TableV(v)
           T == Near(m, I, t.dir)
           L == Loose(t, I, {old, name})
<1>1. r = IF IsOk(d) THEN CASE IsOk(e) -> y
                            [] e.res = "FR_NO_FILE" ->
                                 IF IsOk(g) THEN IF IsOk(k) THEN s ELSE k ELSE g
                            [] OTHER -> e
          ELSE d
  BY DEF f_rename, Then
<1> HIDE DEF r
<1>2. v \in Good /\ t \in Tables
  BY FoundVolume, TableType
<1>3. /\ d \in Good /\ Moved(v, d) /\ Quiet(v, d)
      /\ IsOk(d) => i \in Label /\ x = t.dir[i] /\ t.dir[i].name = old
  BY <1>2, ScanFinds DEF dir_find
<1> HIDE DEF d, i, x
<1>4. SameVolume(v, d) /\ Charted(t.fat, m) /\ Sane(m, I, t.dir)
  BY <1>3 DEF SameVolume, Moved, Kept, Steady
<1>5. CASE ~IsOk(d)
  BY <1>1, <1>3, <1>4, <1>5 DEF Renames, r
<1>6. CASE IsOk(d)
  <2>1. /\ e \in Good /\ Moved(d, e) /\ Quiet(d, e)
    BY <1>3, <1>6, ScanFinds DEF dir_find
  <2> HIDE DEF e
  <2>2. SameVolume(v, e) /\ Quiet(v, e) /\ e \in Ctx
    BY <1>3, <1>4, <2>1, QuietTransitive DEF SameVolume, Moved, Kept, Steady, Good
  <2>3. "FR_EXIST" \in Res /\ "FR_EXIST" # "FR_OK"
    BY DEF Res
  <2>4. y \in Good /\ Quiet(e, y) /\ ~IsOk(y) /\ Kept(e, y)
    BY <2>1, <2>2, <2>3, FailedType, FailedQuiet
  <2> HIDE DEF y
  <2>5. SameVolume(v, y) /\ Quiet(v, y)
    BY <2>2, <2>4, QuietTransitive DEF SameVolume, Kept, Steady
  <2>6. o \in Good /\ Kept(e, o) /\ IsOk(o) /\ Over(o) = Over(e) /\ o.sec = e.sec
    BY <2>1, <2>2, OkType
  <2> HIDE DEF o
  <2>7. SameVolume(v, o) /\ Quiet(v, o)
    <3>1. Quiet(e, o)
      BY <2>6, BesideQuiet
    <3> QED
      BY <2>2, <2>6, <3>1, QuietTransitive DEF SameVolume, Kept, Steady
  <2>8. /\ g \in Good
        /\ IsOk(g) => /\ At(g, g.val) /\ g.val \in Label /\ g.wflag
                      /\ Void(TableV(o).dir[g.val])
                      /\ Puts(o, g, g.val, [Unused EXCEPT !.name = name])
        /\ ~IsOk(g) => Quiet(o, g)
    BY <2>6, RegisterPuts
  <2>9. Kept(o, g)
    BY <2>6, DirRegisterType
  <2> HIDE DEF g
  <2>10. SameVolume(v, g)
    BY <2>7, <2>9 DEF SameVolume, Kept, Steady
  <2>11. CASE ~(e.res = "FR_NO_FILE" /\ IsOk(g))
    <3>1. ~IsOk(g) => Quiet(v, g)
      BY <2>7, <2>8, QuietTransitive
    <3>2. e.res = "FR_NO_FILE" => ~IsOk(e)
      BY DEF IsOk
    <3> QED
      BY <1>1, <1>6, <2>1, <2>2, <2>4, <2>5, <2>8, <2>10, <2>11, <3>1, <3>2 DEF Renames, r
  <2>12. CASE e.res = "FR_NO_FILE" /\ IsOk(g)
    <3>1. MovedTo(v, k, t, I, {old, name}, m)
      <4>1. /\ TableV(o) = t /\ TableC(o) \in {TableC(v), t}
        BY <2>7 DEF Quiet
      <4>2. /\ At(g, g.val) /\ g.wflag /\ TableC(g) \in {TableC(v), t} /\ g.val \in Label
            /\ Void(t.dir[g.val])
            /\ Differs(t, TableV(g), g.val, [Unused EXCEPT !.name = name])
        BY <2>8, <2>12, <4>1 DEF Puts
      <4>3. i \in Label /\ t.dir[i].name = old /\ x = t.dir[i] /\ I = Slots(t.dir, {old, name})
        BY <1>3, <1>6
      <4> HIDE DEF t
      <4>4. t = TableV(v)
        BY DEF t
      <4>5. MovedTo(v, Move(g, i, t.dir[i]), t, I, {old, name}, m)
        BY <1>2, <1>4, <2>8, <2>10, <4>2, <4>3, <4>4, MoveKeeps
      <4> QED
        BY <4>3, <4>5
    <3> HIDE DEF k
    <3>2. s \in Good /\ Steady(k, s) /\ Quiet(k, s) /\ (IsOk(s) => TableC(s) = TableV(k))
          /\ (~IsOk(s) => s.hit)
      BY <3>1, SyncFsType, SyncFsQuiet DEF MovedTo
    <3> HIDE DEF s, T, L
    <3>3. SameVolume(v, k) /\ SameVolume(v, s)
      BY <3>1, <3>2 DEF SameVolume, Steady, MovedTo
    <3>4. TableV(s) = TableV(k) /\ TableC(s) \in {TableC(k), TableV(k)}
      BY <3>2 DEF Quiet
    <3>5. r = IF IsOk(k) THEN s ELSE k
      BY <1>1, <1>6, <2>12 DEF IsOk
    <3>6. CASE ~IsOk(k)
      BY <3>1, <3>3, <3>5, <3>6 DEF MovedTo, Renames, Through, r, t, L
    <3>7. CASE IsOk(k) /\ IsOk(s)
      BY <3>1, <3>2, <3>3, <3>4, <3>5, <3>7 DEF MovedTo, Renames, Through, r, t, T
    <3>8. CASE IsOk(k) /\ ~IsOk(s)
      <4>1. TableV(k) \in L
        BY <3>1 DEF MovedTo, L
      <4> QED
        BY <3>1, <3>2, <3>3, <3>4, <3>5, <3>8, <4>1 DEF MovedTo, Renames, Through, r, t, L
    <3> QED
      BY <3>6, <3>7, <3>8
  <2> QED
    BY <2>11, <2>12
<1> QED
  BY <1>5, <1>6

\* A volume that is mounted already.
LEMMA MountedAlready ==
  ASSUME NEW c \in Fair, c.fs_type # 0, c.stat # "STA_NOINIT"
  PROVE  find_volume(c) = Ok(c) /\ IsOk(Ok(c)) /\ Quiet(c, Ok(c)) /\ SameVolume(c, Ok(c))
<1>1. find_volume(c) = Ok(c) /\ c \in Ctx
  BY DEF find_volume, Fair
<1> DEFINE d == Ok(c)
<1>2. /\ IsOk(d) /\ Kept(c, d) /\ d.sec = c.sec /\ Over(d) = Over(c)
  BY <1>1, OkType
<1> HIDE DEF d
<1> QED
  BY <1>1, <1>2, BesideQuiet DEF Kept, Steady, SameVolume, d

\* Mounting a volume writes nothing to the card, and files that were open are on it no more.
LEMMA MountedAnew ==
  ASSUME NEW c \in Fair, c.fs_type = 0 \/ c.stat = "STA_NOINIT"
  PROVE  LET d == find_volume(c)
         IN /\ d.sec = c.sec /\ ~d.wflag /\ TableV(d) = TableC(c) /\ TableC(d) = TableC(c)
            /\ d.id = IF IsOk(d) THEN c.id + 1 ELSE c.id
            /\ ~IsOk(d) => d.fs_type = 0
<1> DEFINE o == Reopened(c)
           r == disk_read(o)
           m == move_window(r, FSInfo)
           k == IsOk(m)
           d == find_volume(c)
<1>1. d = IF IsOk(r) THEN IF Fat32 THEN Mount(m, k) ELSE Mount(r, FALSE) ELSE r
  BY DEF find_volume, Then
<1>2. o \in Good /\ o.sec = c.sec /\ ~o.wflag /\ o.fs_type = 0 /\ o.id = c.id
  <2>1. o \in Good
    BY ReopenedType DEF Fair
  <2>2. c \in Ctx
    BY DEF Fair
  <2> QED
    BY <2>1, <2>2 DEF Reopened, Ctx
<1> HIDE DEF o, d
<1>3. /\ r \in Ctx /\ r.sec = o.sec /\ r.winsect = o.winsect /\ r.win = o.win
      /\ r.wflag = o.wflag /\ Kept(o, r)
  BY <1>2, ReadType DEF Good
<1> HIDE DEF r
<1>4. r \in Good /\ r.fs_type = 0 /\ r.id = c.id
  BY <1>2, <1>3 DEF Good, Coherent, Kept, Steady
<1>5. Over(r) = c.sec /\ r.sec = c.sec /\ ~r.wflag
  BY <1>2, <1>3 DEF Over
<1>6. m \in Good /\ m.sec = c.sec /\ ~m.wflag /\ m.id = c.id
  <2>1. m \in Good /\ Flushed(r, m)
    BY <1>4, MoveWindowType, SectorFacts
  <2>2. m.sec = c.sec /\ m.id = c.id
    BY <1>4, <1>5, <2>1 DEF Flushed, Moved, Kept, Steady
  <2>3. ~m.wflag
    <3> DEFINE y == sync_window(r)
    <3>1. y = Ok(r)
      BY <1>5 DEF sync_window
    <3>2. y \in Ctx /\ ~y.wflag
      BY <1>3, <1>5, <3>1, OkType
    <3> HIDE DEF y
    <3>3. m = IF FSInfo = r.winsect THEN Ok(r)
              ELSE IF IsOk(y) THEN
                     IF IsOk(disk_read(y))
                     THEN [disk_read(y) EXCEPT !.winsect = FSInfo,
                                               !.win = disk_read(y).sec[FSInfo]]
                     ELSE [disk_read(y) EXCEPT !.winsect = NoSector]
                   ELSE y
      BY DEF move_window, Then, y
    <3>4. disk_read(y) \in Ctx /\ ~disk_read(y).wflag
      BY <3>2, ReadType
    <3>5. ~Ok(r).wflag
      BY <3>1, <3>2
    <3> DEFINE q == disk_read(y)
               a == [q EXCEPT !.winsect = FSInfo, !.win = q.sec[FSInfo]]
               b == [q EXCEPT !.winsect = NoSector]
    <3>6. q \in Ctx /\ ~q.wflag
      BY <3>4
    <3>7. m = Ok(r) \/ m = a \/ m = b \/ m = y
      BY <3>3
    <3> HIDE DEF q, m
    <3>8. ~a.wflag /\ ~b.wflag
      BY <3>6 DEF Ctx
    <3> QED
      BY <3>2, <3>5, <3>7, <3>8
  <2> QED
    BY <2>1, <2>2, <2>3
<1> HIDE DEF m, k
<1>7. ASSUME NEW b \in Good, b.sec = c.sec, ~b.wflag, b.id = c.id, NEW known
      PROVE  /\ Mount(b, known).sec = c.sec /\ ~Mount(b, known).wflag
             /\ Mount(b, known).id = c.id + 1 /\ IsOk(Mount(b, known))
  BY <1>7 DEF Mount, Ok, Good, Ctx, IsOk
<1>8. /\ d.sec = c.sec /\ ~d.wflag /\ d.id = (IF IsOk(d) THEN c.id + 1 ELSE c.id)
      /\ ~IsOk(d) => d.fs_type = 0
  <2>1. CASE ~IsOk(r)
    BY <1>1, <1>4, <1>5, <2>1
  <2>2. CASE IsOk(r) /\ Fat32
    BY <1>1, <1>6, <1>7, <2>2
  <2>3. CASE IsOk(r) /\ ~Fat32
    BY <1>1, <1>4, <1>5, <1>7, <2>3
  <2> QED
    BY <2>1, <2>2, <2>3
<1>9. Over(d) = d.sec
  BY <1>8 DEF Over
<1>10. TableV(d) = TableC(c) /\ TableC(d) = TableC(c)
  BY <1>8, <1>9 DEF TableV, TableC
<1> QED
  BY <1>8, <1>10 DEF d

\* f_getfree leaves the tables.
LEMMA GetFreeKeeps ==
  ASSUME NEW c \in Fair, NEW v, v = find_volume(c), IsOk(v)
  PROVE  LET d == f_getfree(c)
         IN d \in Good /\ Quiet(v, d) /\ SameVolume(v, d)
<1> DEFINE x == [v EXCEPT !.val = v.free_clust]
           y == CountFree(v)
           d == f_getfree(c)
<1>1. d \in {x, y}
  BY DEF f_getfree, Then
<1>2. v \in Good
  BY FoundVolume
<1> HIDE DEF d
<1>3. v.free_clust \in Int
  BY <1>2 DEF Good, Ctx
<1>4. x \in Good /\ Moved(v, x)
  BY <1>2, <1>3, ValType
<1> HIDE DEF x
<1>5. y \in Good /\ Steady(v, y) /\ Quiet(v, y)
  BY <1>2, CountFreeType
<1> HIDE DEF y
<1> QED
  BY <1>1, <1>4, <1>5, MovedQuiet DEF SameVolume, Moved, Kept, Steady, d

\* The entry gets what the file object says, in the window.
Enters(m, w, i, x) ==
  /\ w \in Good /\ Filed(m, w) /\ Differs(TableV(m), TableV(w), i, x) /\ TableC(w) = TableC(m)

\* What f_sync does before it calls sync_fs.
Stamped(m, i, clst, size) ==
  [m EXCEPT !.win[i].size = size, !.win[i].clust = clst, !.wflag = TRUE, !.fp.written = FALSE]

\* It does that.
LEMMA SyncEntered ==
  ASSUME NEW m \in Good, NEW i, At(m, i), NEW size \in Nat, NEW clst \in Cluster \cup {0},
         NEW w, w = Stamped(m, i, clst, size)
  PROVE  /\ Enters(m, w, i, EntryFor(TableV(m).dir[i], clst, size))
         /\ w.fp = [m.fp EXCEPT !.written = FALSE]
<1> DEFINE x == EntryFor(m.win[i], clst, size)
           t == Entered(m, i, x)
           p == [m.fp EXCEPT !.written = FALSE]
<1>1. /\ m.win \in [{j \in 1 .. n_rootdir : Dir(j) = Dir(i)} -> Entry] /\ m.win[i] \in Entry
      /\ m.win[i] = TableV(m).dir[i] /\ i \in Label
  BY EntryType, WindowEntry
<1>2. x \in Entry
  BY <1>1, EntryForType
<1>3. [m.win[i] EXCEPT !.size = size, !.clust = clst] = x
  BY <1>1 DEF EntryFor, Entry
<1> HIDE DEF x
<1>4. t \in Good /\ Kept(m, t) /\ Puts(m, t, i, x) /\ TableC(t) = TableC(m)
  BY <1>2, EnterType, EnteredPuts
<1>5. m \in Ctx /\ m.fp \in FIL
  BY DEF Good, Ctx
<1>6. w = WithFp(t, p)
  <2> DEFINE y == [m EXCEPT !.win[i].size = size, !.win[i].clust = clst]
             u == [m EXCEPT !.win[i] = x]
  <2>1. y = u
    <3> DEFINE f == [m.win EXCEPT ![i].size = size, ![i].clust = clst]
               g == [m.win EXCEPT ![i] = x]
    <3>1. i \in {j \in 1 .. n_rootdir : Dir(j) = Dir(i)}
      BY DEF At
    <3>2. f = [m.win EXCEPT ![i] = [m.win[i] EXCEPT !.size = size, !.clust = clst]]
      BY <1>1, <3>1
    <3>3. f = g
      BY <1>3, <3>2
    <3>4. y = [m EXCEPT !.win = f]
      BY <1>5 DEF Ctx
    <3>5. u = [m EXCEPT !.win = g]
      BY <1>5 DEF Ctx
    <3> QED
      BY <3>3, <3>4, <3>5
  <2>2. WithFp(t, p) = [u EXCEPT !.wflag = TRUE, !.fp.written = FALSE]
    BY <1>5 DEF WithFp, Entered, Ctx, FIL
  <2>3. w = [y EXCEPT !.wflag = TRUE, !.fp.written = FALSE]
    BY <1>5 DEF Ctx, FIL, Stamped
  <2> QED
    BY <2>1, <2>2, <2>3
<1> HIDE DEF t
<1>7. /\ p \in FIL /\ p.fs = m.fp.fs /\ p.id = m.fp.id /\ p.rd = m.fp.rd /\ p.wr = m.fp.wr
      /\ p.dir_ptr = m.fp.dir_ptr
  BY <1>5 DEF FIL
<1> HIDE DEF p
<1>8. w \in Good /\ Beside(t, w) /\ w.fp = p /\ Over(w) = Over(t) /\ Met(t, w)
  <2> DEFINE y == WithFp(t, p)
  <2>1. t \in Good /\ p \in FIL
    BY <1>4, <1>7
  <2>2. /\ y \in Good /\ Beside(t, y) /\ y.fp = p /\ y.val = t.val /\ y.res = t.res
        /\ y.out = t.out /\ Over(y) = Over(t) /\ FatV(y) = FatV(t) /\ Met(t, y)
        /\ IsOk(y) <=> IsOk(t)
    BY <2>1, WithFpType, Zenon
  <2>3. w = y
    BY <1>6
  <2> HIDE DEF y
  <2> QED
    BY <2>2, <2>3, Zenon
<1>9. TableV(w) = TableV(t) /\ TableC(w) = TableC(t)
  BY <1>8 DEF TableV, TableC, Beside
<1>10. Filed(m, w)
  BY <1>4, <1>7, <1>8, MetTransitive DEF Filed, Beside, Kept, Steady, Met
<1> QED
  BY <1>1, <1>4, <1>8, <1>9, <1>10 DEF Enters, Puts, Differs, x, p

\* The file object stays, but for its buffer and what is to be written.
SameFile(c, d) ==
  /\ Filed(c, d) /\ d.fp.fptr = c.fp.fptr /\ d.fp.fsize = c.fp.fsize
  /\ d.fp.sclust = c.fp.sclust /\ d.fp.clust = c.fp.clust /\ d.fp.err = c.fp.err

\* What f_sync does to a file that is written: the entry says what the file object does, on
\* the card too if nothing failed.
Syncs(c, d, i, x) ==
  /\ d \in Good /\ SameFile(c, d)
  /\ IsOk(d) => Differs(TableV(c), TableV(d), i, x) /\ TableC(d) = TableV(d) /\ ~d.fp.written
  /\ ~IsOk(d) => d.hit
  /\ \/ Quiet(c, d)
     \/ /\ Differs(TableV(c), TableV(d), i, x)
        /\ TableC(d) \in {TableC(c), TableV(c), TableV(d)}

\* f_sync does so.
LEMMA SyncKeeps ==
  ASSUME NEW c \in Fair, IsOk(validate(c)), c.fp.dir_ptr \in Label
  PROVE  LET d == f_sync(c)
         IN /\ c \in Good
            /\ c.fp.written => Syncs(c, d, c.fp.dir_ptr, EntryFor(TableV(c).dir[c.fp.dir_ptr],
                                                                  c.fp.sclust, c.fp.fsize))
            /\ ~c.fp.written => d \in Good /\ IsOk(d) /\ Quiet(c, d) /\ d.fp = c.fp
                                /\ SameVolume(c, d)
<1> DEFINE i == c.fp.dir_ptr
           clst == c.fp.sclust
           size == c.fp.fsize
           v == validate(c)
           b == WriteBack(v)
           m == move_window(b, Dir(i))
           w == Stamped(m, i, clst, size)
           s == sync_fs(w)
           d == f_sync(c)
           x == EntryFor(TableV(c).dir[i], clst, size)
<1>1. c \in Ctx /\ c.fp \in FIL /\ size \in Nat /\ clst \in Cluster \cup {0}
  BY DEF Fair, Ctx, FIL
<1>2. c \in Good /\ v = Ok(c)
  BY ValidateType DEF validate, Fair, Good, Failed, IsOk
<1>3. d = IF c.fp.written THEN IF IsOk(b) THEN IF IsOk(m) THEN s ELSE m ELSE b ELSE v
  BY DEF f_sync, Then, Stamped
<1>4. /\ v \in Good /\ Kept(c, v) /\ v.sec = c.sec /\ Over(v) = Over(c) /\ IsOk(v)
  BY <1>1, <1>2, OkType
<1> HIDE DEF v, d
<1>5. Quiet(c, v) /\ v.fp = c.fp /\ Stays(c, v)
  BY <1>4, BesideQuiet, SteadyStays DEF Kept, Steady
<1>6. CASE ~c.fp.written
  BY <1>2, <1>3, <1>4, <1>5, <1>6 DEF d, SameVolume, Stays, Filed
<1>7. CASE c.fp.written
  <2>1. /\ b \in Good /\ Stays(v, b) /\ b.fp.err = v.fp.err /\ Quiet(v, b)
        /\ ~IsOk(b) => b.hit
    BY <1>4, WriteBackType
  <2> HIDE DEF b
  <2>2. SameFile(c, b) /\ Quiet(c, b)
    BY <1>5, <2>1, StaysTransitive, QuietTransitive DEF Stays, SameFile
  <2>3. CASE ~IsOk(b)
    BY <1>2, <1>3, <1>7, <2>1, <2>2, <2>3 DEF Syncs, d
  <2>4. CASE IsOk(b)
    <3>1. i \in 1 .. n_rootdir /\ Dir(i) \in Sector
      BY SectorFacts DEF Label
    <3>2. /\ m \in Good /\ Flushed(b, m) /\ (IsOk(m) => m.winsect = Dir(i))
      BY <2>1, <3>1, MoveWindowType
    <3> HIDE DEF m
    <3>3. Filed(b, m) /\ m.fp = b.fp /\ Quiet(b, m) /\ (~IsOk(m) => m.hit)
      BY <3>2, MovedQuiet, SteadyStays DEF Flushed, Moved, Kept, Steady
    <3>4. SameFile(c, m) /\ Quiet(c, m)
      BY <2>2, <3>3, FiledTransitive, QuietTransitive DEF SameFile
    <3>5. CASE ~IsOk(m)
      BY <1>2, <1>3, <1>7, <2>4, <3>2, <3>3, <3>4, <3>5 DEF Syncs, d
    <3>6. CASE IsOk(m)
      <4>1. At(m, i)
        BY <3>1, <3>2, <3>6 DEF At
      <4> HIDE DEF size, clst, i
      <4>a. w = Stamped(m, i, clst, size)
        OBVIOUS
      <4> HIDE DEF w
      <4>2. Enters(m, w, i, EntryFor(TableV(m).dir[i], clst, size))
            /\ w.fp = [m.fp EXCEPT !.written = FALSE]
        BY <1>1, <3>2, <4>1, <4>a, SyncEntered
      <4>3. TableV(m) = TableV(c)
        BY <3>4 DEF Quiet
      <4>4. /\ w \in Good /\ Filed(m, w) /\ Differs(TableV(c), TableV(w), i, x)
            /\ TableC(w) = TableC(m)
        BY <4>2, <4>3 DEF Enters
      <4>5. SameFile(c, w) /\ ~w.fp.written
        <5>1. m.fp \in FIL
          BY <3>2 DEF Good, Ctx
        <5>2. /\ w.fp.fptr = m.fp.fptr /\ w.fp.fsize = m.fp.fsize /\ w.fp.sclust = m.fp.sclust
              /\ w.fp.clust = m.fp.clust /\ w.fp.err = m.fp.err /\ ~w.fp.written
          BY <4>2, <5>1 DEF FIL
        <5> QED
          BY <3>4, <4>4, <5>2, FiledTransitive DEF SameFile
      <4> HIDE DEF x
      <4>6. /\ s \in Good /\ Steady(w, s) /\ Quiet(w, s)
            /\ IsOk(s) => TableC(s) = TableV(w)
            /\ ~IsOk(s) => s.hit
        BY <4>4, SyncFsType, SyncFsQuiet
      <4> HIDE DEF s
      <4>7. Filed(w, s) /\ s.fp = w.fp
        BY <4>6, SteadyStays DEF Steady
      <4>8. SameFile(c, s) /\ ~s.fp.written
        BY <4>5, <4>7, FiledTransitive DEF SameFile
      <4>9. TableV(s) = TableV(w) /\ TableC(s) \in {TableC(w), TableV(w)}
        BY <4>6 DEF Quiet
      <4>10. TableC(m) \in {TableC(c), TableV(c)}
        BY <3>4 DEF Quiet
      <4>11. Differs(TableV(c), TableV(s), i, x)
        BY <4>4, <4>9
      <4>12. Syncs(c, s, i, x)
        BY <4>4, <4>6, <4>8, <4>9, <4>10, <4>11 DEF Syncs
      <4>13. d = s
        BY <1>3, <1>7, <2>4, <3>6
      <4> QED
        BY <1>2, <1>7, <4>12, <4>13 DEF d, x, i, clst, size
    <3> QED
      BY <3>5, <3>6
  <2> QED
    BY <2>3, <2>4
<1> QED
  BY <1>6, <1>7

---------------------------------------------------------------------------
(* The clusters of a chain, one after the other.                           *)

\* The first clusters of the chain that begins with k, at most n; fewer only if the chain
\* ends with them.
Path(fat, k, n) ==
  {s \in Seq(Cluster) :
     /\ Len(s) <= n
     /\ s # <<>> => s[1] = k
     /\ \A p \in 1 .. Len(s) - 1 : s[p + 1] = fat[s[p]]
     /\ Len(s) < n => IF s = <<>> THEN k \notin Cluster ELSE fat[s[Len(s)]] \notin Cluster}

\* One cluster more, if there is one.
Longer(fat, k, s) ==
  LET next == IF s = <<>> THEN k ELSE fat[s[Len(s)]]
  IN IF next \in Cluster THEN Append(s, next) ELSE s

\* That is the next one.
LEMMA LongerPath ==
  ASSUME NEW fat, NEW k, NEW n \in Nat, NEW s \in Path(fat, k, n)
  PROVE  Longer(fat, k, s) \in Path(fat, k, n + 1)
<1> DEFINE next == IF s = <<>> THEN k ELSE fat[s[Len(s)]]
           t == Append(s, next)
<1>1. /\ s \in Seq(Cluster) /\ Len(s) \in Nat /\ Len(s) <= n /\ (s # <<>> => s[1] = k)
      /\ \A p \in 1 .. Len(s) - 1 : s[p + 1] = fat[s[p]]
      /\ s = <<>> <=> Len(s) = 0
      /\ Len(s) < n => next \notin Cluster
  BY DEF Path
<1>2. CASE next \notin Cluster
  <2>1. Longer(fat, k, s) = s
    BY <1>2 DEF Longer
  <2> QED
    BY <1>1, <1>2, <2>1 DEF Path
<1>3. CASE next \in Cluster
  <2>1. Longer(fat, k, s) = t
    BY <1>3 DEF Longer
  <2>2. next = IF s = <<>> THEN k ELSE fat[s[Len(s)]]
    OBVIOUS
  <2> HIDE DEF next
  <2>3. /\ t \in Seq(Cluster) /\ Len(t) = Len(s) + 1 /\ t[Len(s) + 1] = next
        /\ \A p \in 1 .. Len(s) : t[p] = s[p]
    BY <1>1, <1>3
  <2>4. Len(s) = n
    BY <1>1, <1>3
  <2> HIDE DEF t
  <2>5. ASSUME NEW p \in 1 .. Len(t) - 1 PROVE t[p + 1] = fat[t[p]]
    <3>1. CASE p = Len(s)
      BY <1>1, <2>2, <2>3, <3>1
    <3>2. CASE p # Len(s)
      <4>1. p \in 1 .. Len(s) - 1 /\ p + 1 \in 1 .. Len(s) /\ p \in 1 .. Len(s)
        BY <1>1, <2>3, <3>2
      <4> QED
        BY <1>1, <2>3, <4>1
    <3> QED
      BY <3>1, <3>2
  <2>6. t # <<>> /\ t[1] = k
    <3>1. CASE s = <<>>
      BY <1>1, <2>2, <2>3, <3>1, SMTT(60)
    <3>2. CASE s # <<>>
      <4>1. 1 \in 1 .. Len(s)
        BY <1>1, <3>2
      <4> QED
        BY <1>1, <2>3, <3>2, <4>1
    <3> QED
      BY <3>1, <3>2
  <2> QED
    BY <2>1, <2>3, <2>4, <2>5, <2>6 DEF Path
<1> QED
  BY <1>2, <1>3

\* Chain is such a path, of as many clusters as there are if need be.
LEMMA ChainPath ==
  ASSUME NEW fat, NEW k
  PROVE  Chain(fat, k) \in Path(fat, k, Clusters)
<1> DEFINE N == Clusters
           S == [n \in 0 .. N |-> Path(fat, k, n)]
           V == UNION {Path(fat, k, n) : n \in 0 .. N}
           turn == [x \in (1 .. N) \X V |-> Longer(fat, k, x[2])]
           Loop(g) == g = [n \in 0 .. N |-> IF n = 0 THEN <<>> ELSE Longer(fat, k, g[n - 1])]
           after == CHOOSE g : Loop(g)
<1>1. N \in Nat
  BY FatFsAssumption
<1>2. Chain(fat, k) = after[N]
  BY DEF Chain, Repeat, Longer
<1>3. <<>> \in S[0]
  <2>1. <<>> \in Path(fat, k, 0)
    BY DEF Path
  <2> QED
    BY <1>1, <2>1
<1>4. Turns(N, S, turn)
  <2>1. ASSUME NEW n \in 0 .. N, n < N, NEW s \in Path(fat, k, n)
        PROVE  turn[<<n + 1, s>>] \in Path(fat, k, n + 1)
    <3>1. n \in Nat /\ n + 1 \in 1 .. N
      BY <1>1, <2>1
    <3>2. <<n + 1, s>> \in (1 .. N) \X V
      BY <2>1, <3>1
    <3>3. turn[<<n + 1, s>>] = Longer(fat, k, s)
      BY <3>2
    <3> HIDE DEF turn
    <3> QED
      BY <2>1, <3>1, <3>3, LongerPath
  <2>2. \A n \in 0 .. N : n < N => n + 1 \in 0 .. N
    BY <1>1
  <2> HIDE DEF turn, N
  <2> QED
    BY <2>1, <2>2 DEF Turns
<1>5. Runs(N, S, <<>>, turn)
  <2> HIDE DEF S, turn, N
  <2> QED
    BY <1>1, <1>3, <1>4, LoopExists
<1>6. PICK f : /\ f = [n \in 0 .. N |-> IF n = 0 THEN <<>> ELSE turn[<<n, f[n - 1]>>]]
               /\ \A n \in 0 .. N : f[n] \in S[n]
  <2> HIDE DEF S, turn, N
  <2> QED
    BY <1>5 DEF Runs
<1>7. Loop(f)
  <2>1. ASSUME NEW n \in 0 .. N, n # 0
        PROVE  turn[<<n, f[n - 1]>>] = Longer(fat, k, f[n - 1])
    <3>1. n \in 1 .. N /\ n - 1 \in 0 .. N
      BY <1>1, <2>1
    <3>2. f[n - 1] \in Path(fat, k, n - 1)
      BY <1>6, <3>1
    <3>3. <<n, f[n - 1]>> \in (1 .. N) \X V
      BY <3>1, <3>2
    <3> HIDE DEF V
    <3> QED
      BY <3>3
  <2> HIDE DEF turn, N, S
  <2> QED
    BY <1>6, <2>1
<1>8. Loop(after)
  <2> HIDE DEF Loop
  <2> QED
    BY <1>7
<1>9. \A n \in 0 .. N : after[n] \in Path(fat, k, n)
  <2> DEFINE T == {n \in 0 .. N : after[n] \in Path(fat, k, n)}
  <2> HIDE DEF after
  <2>0. /\ after[0] = <<>>
        /\ \A n \in 0 .. N : n < N => after[n + 1] = Longer(fat, k, after[n])
    <3>1. \A n \in 0 .. N : n < N => n + 1 \in 0 .. N /\ n + 1 # 0 /\ (n + 1) - 1 = n
      BY <1>1
    <3>2. 0 \in 0 .. N
      BY <1>1
    <3> HIDE DEF N
    <3> QED
      BY <1>8, <3>1, <3>2
  <2>1. 0 \in T
    <3>1. <<>> \in Path(fat, k, 0)
      BY DEF Path
    <3> QED
      BY <1>1, <2>0, <3>1
  <2>2. \A n \in 0 .. N : n \in T /\ n < N => n + 1 \in T
    <3> SUFFICES ASSUME NEW n \in 0 .. N, n \in T, n < N PROVE n + 1 \in T
      OBVIOUS
    <3>1. n \in Nat /\ n + 1 \in 0 .. N
      BY <1>1
    <3>2. after[n + 1] \in Path(fat, k, n + 1)
      BY <2>0, <3>1, LongerPath
    <3> QED
      BY <3>1, <3>2
  <2>3. 0 .. N \subseteq T
    <3> HIDE DEF T, N
    <3> QED
      BY <1>1, <2>1, <2>2, UptoInduction
  <2> QED
    BY <2>3
<1> QED
  BY <1>1, <1>2, <1>9

\* The chain of an entry, as the chart has it.
Charts(fat, m, i, s) ==
  /\ \A p \in 1 .. Len(s) : s[p] \in Cluster /\ m.own[s[p]] = i /\ m.pos[s[p]] = p - 1
  /\ s # <<>> => fat[s[Len(s)]] = EOC

\* A function to fewer values takes one twice.
LEMMA Collide ==
  ASSUME NEW S, NEW T, IsFiniteSet(S), IsFiniteSet(T), Cardinality(T) < Cardinality(S),
         NEW f \in [S -> T]
  PROVE  \E p \in S, q \in S : p # q /\ f[p] = f[q]
<1>1. \E x, y \in S : x # y /\ f[x] = f[y]
  BY FS_PigeonHole
<1> QED
  BY <1>1

\* A chart says where the clusters of a chain are.
LEMMA ChartedChain ==
  ASSUME NEW fat \in [Cluster -> FatEntry], NEW m \in Chart, Charted(fat, m), NEW i \in Label,
         NEW k \in {0, m.hd[i]}
  PROVE  LET s == Chain(fat, k)
         IN /\ s \in Seq(Cluster) /\ Charts(fat, m, i, s)
            /\ k # 0 => \A l \in Cluster :
                 m.own[l] = i => m.pos[l] < Len(s) /\ s[m.pos[l] + 1] = l
<1> DEFINE s == Chain(fat, k)
           L == Len(s)
<1>1. s \in Path(fat, k, Clusters)
  BY ChainPath
<1> HIDE DEF s
<1>2. /\ s \in Seq(Cluster) /\ L \in Nat /\ L <= Clusters /\ (s # <<>> => s[1] = k)
      /\ \A p \in 1 .. L - 1 : s[p + 1] = fat[s[p]]
      /\ \A p \in 1 .. L : s[p] \in Cluster
      /\ s = <<>> <=> L = 0
  BY <1>1 DEF Path
<1>3. L < Clusters => IF s = <<>> THEN k \notin Cluster ELSE fat[s[L]] \notin Cluster
  BY <1>1 DEF Path
<1>4. 0 \notin Cluster /\ EOC \notin Cluster /\ i # 0 /\ Clusters \in Nat /\ Clusters # 0
  BY OnesNoCluster, FatFsAssumption DEF Label
<1>5. k = 0 => s = <<>>
  <2>1. SUFFICES ASSUME k = 0, s # <<>> PROVE FALSE
    OBVIOUS
  <2>2. 1 \in 1 .. L
    BY <1>2, <2>1
  <2> QED
    BY <1>2, <1>4, <2>1, <2>2
<1>6. CASE k = 0
  BY <1>2, <1>5, <1>6 DEF s, Charts
<1>7. CASE k # 0
  <2>1. k \in Cluster /\ m.own[k] = i /\ m.pos[k] = 0
    BY <1>7 DEF Charted, Chart
  <2>2. L > 0
    BY <1>2, <1>3, <1>4, <2>1
  <2> HIDE DEF L
  <2>3. \A p \in 1 .. L : m.own[s[p]] = i /\ m.pos[s[p]] = p - 1
    <3> DEFINE T == {n \in 0 .. L : n < L => m.own[s[n + 1]] = i /\ m.pos[s[n + 1]] = n}
    <3>1. 0 \in T
      BY <1>2, <2>1, <2>2
    <3>2. \A n \in 0 .. L : n \in T /\ n < L => n + 1 \in T
      <4> SUFFICES ASSUME NEW n \in 0 .. L, n \in T, n < L, n + 1 < L
                   PROVE  m.own[s[n + 2]] = i /\ m.pos[s[n + 2]] = n + 1
        BY <1>2
      <4>1. n + 1 \in 1 .. L - 1 /\ n + 1 \in 1 .. L /\ n + 2 \in 1 .. L /\ n + 1 + 1 = n + 2
        BY <1>2
      <4>2. s[n + 2] = fat[s[n + 1]] /\ s[n + 1] \in Cluster /\ s[n + 2] \in Cluster
        BY <1>2, <4>1
      <4>3. m.own[s[n + 1]] = i /\ m.pos[s[n + 1]] = n
        OBVIOUS
      <4>4. Onto(fat, m, s[n + 1])
        BY <1>4, <4>2, <4>3 DEF Charted, LastOf
      <4> QED
        BY <4>2, <4>3, <4>4 DEF Onto
    <3>3. 0 .. L \subseteq T
      <4> HIDE DEF T
      <4> QED
        BY <1>2, <3>1, <3>2, UptoInduction
    <3>4. SUFFICES ASSUME NEW p \in 1 .. L PROVE m.own[s[p]] = i /\ m.pos[s[p]] = p - 1
      OBVIOUS
    <3>5. p - 1 \in 0 .. L /\ p - 1 < L /\ p - 1 + 1 = p
      BY <1>2
    <3>6. p - 1 \in T
      BY <3>3, <3>5
    <3> QED
      BY <3>5, <3>6
  <2>4. L \in 1 .. L /\ s[L] \in Cluster /\ m.own[s[L]] = i /\ m.pos[s[L]] = L - 1
    BY <1>2, <2>2, <2>3
  <2>5. ~Onto(fat, m, s[L])
    <3> SUFFICES ASSUME Onto(fat, m, s[L]) PROVE FALSE
      OBVIOUS
    <3>1. /\ fat[s[L]] \in Cluster /\ m.own[fat[s[L]]] = i /\ m.pos[fat[s[L]]] = L
      BY <1>2, <2>4 DEF Onto
    <3>2. L = Clusters
      <4>1. s # <<>> /\ ~(fat[s[L]] \notin Cluster)
        BY <1>2, <2>2, <3>1
      <4>2. ~(L < Clusters)
        BY <1>3, <4>1, Zenon
      <4> QED
        BY <1>2, <1>4, <4>2
    <3> DEFINE f == [p \in 1 .. L + 1 |-> IF p = L + 1 THEN fat[s[L]] ELSE s[p]]
    <3>3. f \in [1 .. L + 1 -> Cluster]
      BY <1>2, <3>1
    <3>4. \A p \in 1 .. L + 1 : m.pos[f[p]] = p - 1
      <4> SUFFICES ASSUME NEW p \in 1 .. L + 1 PROVE m.pos[f[p]] = p - 1
        OBVIOUS
      <4>1. CASE p = L + 1
        BY <1>2, <3>1, <4>1
      <4>2. CASE p # L + 1
        <5>1. p \in 1 .. L /\ f[p] = s[p]
          BY <1>2, <4>2
        <5> QED
          BY <2>3, <5>1
      <4> QED
        BY <4>1, <4>2
    <3>5. /\ IsFiniteSet(1 .. L + 1) /\ Cardinality(1 .. L + 1) = L + 1
          /\ IsFiniteSet(Cluster) /\ Cardinality(Cluster) = L
      <4>1. Cluster = 2 .. L + 1
        BY <1>2, <3>2 DEF Cluster, n_fatent
      <4> QED
        BY <1>2, <2>2, <4>1, FS_Interval
    <3> HIDE DEF f
    <3>6. PICK p \in 1 .. L + 1, q \in 1 .. L + 1 : p # q /\ f[p] = f[q]
      <4> DEFINE D == 1 .. L + 1
      <4>1. Cardinality(Cluster) < Cardinality(D)
        BY <1>2, <3>5
      <4>2. IsFiniteSet(D) /\ IsFiniteSet(Cluster) /\ f \in [D -> Cluster]
        BY <3>3, <3>5
      <4> HIDE DEF D
      <4>3. \E p \in D, q \in D : p # q /\ f[p] = f[q]
        BY <4>1, <4>2, Collide
      <4> QED
        BY <4>3 DEF D
    <3>7. p - 1 = q - 1
      BY <3>4, <3>6
    <3> QED
      BY <1>2, <3>6, <3>7
  <2>6. LastOf(fat, m, s[L])
    BY <1>4, <2>4, <2>5 DEF Charted
  <2>7. ASSUME NEW l \in Cluster, m.own[l] = i PROVE m.pos[l] < L /\ s[m.pos[l] + 1] = l
    <3>1. m.pos[l] <= L - 1 /\ m.pos[l] \in Nat
      BY <2>4, <2>6, <2>7 DEF LastOf, Chart
    <3>2. m.pos[l] + 1 \in 1 .. L /\ (m.pos[l] + 1) - 1 = m.pos[l]
      BY <1>2, <3>1, SMTT(60)
    <3> DEFINE p == m.pos[l] + 1
    <3>3. s[p] \in Cluster /\ m.own[s[p]] = i /\ m.pos[s[p]] = m.pos[l]
      BY <1>2, <2>3, <3>2
    <3> HIDE DEF p
    <3>4. s[p] = l
      BY <1>4, <2>7, <3>3 DEF Charted
    <3> QED
      BY <1>2, <3>1, <3>4 DEF p
  <2>8. fat[s[L]] = EOC
    BY <2>6 DEF LastOf
  <2>9. Charts(fat, m, i, s)
    BY <1>2, <2>3, <2>8 DEF Charts, L
  <2> QED
    BY <1>2, <2>7, <2>9 DEF s, L
<1> QED
  BY <1>6, <1>7

---------------------------------------------------------------------------
(* Charts and what the runs check.                                         *)

\* The entries of files are right, but for those of X, pairs of an entry's number and its name.
DirRight(m, dir, X) ==
  \A i \in Label : dir[i].name \in Name /\ <<i, dir[i].name>> \notin X => Right(m, i, dir[i])

\* There is a chart of the FAT by which they are.
SoundTable(t, X) == \E m \in Chart : Charted(t.fat, m) /\ DirRight(m, t.dir, X)

\* n bytes reach into cluster number (n - 1) \div bcs of a chain.
LEMMA ReachesInto ==
  ASSUME NEW n \in Nat \ {0}, NEW L \in Nat, (n - 1) \div bcs < L
  PROVE  n <= L * bcs
<1> DEFINE q == (n - 1) \div bcs
           r == (n - 1) % bcs
<1>0. bcs \in Nat \ {0} /\ n - 1 \in Nat
  <2>1. SS \in Nat \ {0} /\ csize \in Nat \ {0}
    BY FatFsAssumption
  <2>2. bcs # 0 /\ bcs \in Nat
    BY <2>1, SMTT(30) DEF bcs
  <2> QED
    BY <2>2
<1>1. q \in Nat /\ r \in 0 .. bcs - 1 /\ n - 1 = bcs * q + r
  BY <1>0, Division
<1> HIDE DEF q, r
<1>2. bcs * q + bcs = (q + 1) * bcs /\ (q + 1) * bcs <= L * bcs /\ bcs * q \in Nat
  BY <1>0, <1>1, SMTT(60) DEF q
<1> DEFINE x == bcs * q
           y == L * bcs
           z == (q + 1) * bcs
<1>3. x + bcs = z /\ z <= y /\ x \in Nat /\ n - 1 = x + r /\ y \in Nat /\ z \in Nat
  BY <1>0, <1>1, <1>2, SMTT(60)
<1> HIDE DEF x, y, z
<1>4. n <= y
  BY <1>0, <1>1, <1>3
<1> QED
  BY <1>4 DEF y

\* The tables of sectors have their types.
LEMMA TablesOf ==
  ASSUME NEW s \in Sectors
  PROVE  Table(s) \in Tables
<1>1. ASSUME NEW k \in Cluster PROVE s[Fat(k)][k] \in FatEntry
  <2>1. Fat(k) \in Sector
    BY SectorFacts
  <2>2. s[Fat(k)] \in Content(Fat(k))
    BY <2>1 DEF Sectors
  <2>3. s[Fat(k)] \in [{l \in Cluster : Fat(l) = Fat(k)} -> FatEntry]
    BY <2>2, Contents
  <2> QED
    BY <2>3
<1>2. ASSUME NEW i \in Label PROVE s[Dir(i)][i] \in Entry
  <2>1. Dir(i) \in Sector
    BY SectorFacts DEF Label
  <2>2. s[Dir(i)] \in Content(Dir(i))
    BY <2>1 DEF Sectors
  <2>3. s[Dir(i)] \in [{j \in 1 .. n_rootdir : Dir(j) = Dir(i)} -> Entry]
    BY <2>2, Contents DEF Label
  <2> QED
    BY <2>3 DEF Label
<1> QED
  BY <1>1, <1>2 DEF Table, Tables

\* An entry that is right has a chain that is sound, of the entry's clusters.
LEMMA RightIsSound ==
  ASSUME NEW fat \in [Cluster -> FatEntry], NEW m \in Chart, Charted(fat, m), NEW i \in Label,
         NEW e \in Entry, Right(m, i, e)
  PROVE  /\ Sound(fat, e.clust, e.size)
         /\ \A k \in ClustersOf(fat, e.clust) : m.own[k] = i
<1> DEFINE s == Chain(fat, e.clust)
<1>1. e.clust \in {0, m.hd[i]} /\ e.size \in Nat /\ (e.size > 0 => e.clust # 0)
      /\ Holds(m, i, e.size)
  BY DEF Right, Entry
<1>2. /\ s \in Seq(Cluster) /\ Charts(fat, m, i, s)
      /\ e.clust # 0 => \A l \in Cluster :
           m.own[l] = i => m.pos[l] < Len(s) /\ s[m.pos[l] + 1] = l
  BY <1>1, ChartedChain
<1> HIDE DEF s
<1>3. Len(s) * bcs >= e.size
  <2>1. Len(s) \in Nat /\ bcs \in Nat /\ Len(s) * bcs \in Nat
    <3>1. SS \in Nat /\ csize \in Nat /\ Len(s) \in Nat
      BY <1>2, FatFsAssumption
    <3>2. bcs \in Nat
      BY <3>1, SMTT(30) DEF bcs
    <3> QED
      BY <3>1, <3>2, SMTT(30)
  <2>2. CASE e.size = 0
    BY <2>1, <2>2
  <2>3. CASE e.size # 0
    <3>1. PICK k \in Cluster : m.own[k] = i /\ m.pos[k] = (e.size - 1) \div bcs
      BY <1>1, <2>3 DEF Holds
    <3>2. (e.size - 1) \div bcs < Len(s)
      BY <1>1, <1>2, <2>3, <3>1
    <3> QED
      BY <1>1, <2>1, <2>3, <3>2, ReachesInto
  <2> QED
    BY <2>2, <2>3
<1>4. Sound(fat, e.clust, e.size)
  BY <1>2, <1>3 DEF Sound, Charts, s
<1>5. \A k \in ClustersOf(fat, e.clust) : m.own[k] = i
  BY <1>2 DEF ClustersOf, Range, Charts, s
<1> QED
  BY <1>4, <1>5

\* Sectors of a sound table make a sound card.
LEMMA TableIsSound ==
  ASSUME NEW s \in Sectors, NEW X, NEW lost, SoundTable(Table(s), X),
         \A i \in Label : \A n \in Name : <<i, n>> \in X => n \in lost
  PROVE  SoundCard(s, lost)
<1> DEFINE fat == [k \in Cluster |-> s[Fat(k)][k]]
           entry == [i \in 1 .. n_rootdir |-> s[Dir(i)][i]]
           kept == {i \in 1 .. n_rootdir : entry[i].name \in Name \ lost}
<1>1. Table(s).fat = fat /\ Table(s).dir = entry
  BY DEF Table, Label
<1>2. fat \in [Cluster -> FatEntry] /\ entry \in [Label -> Entry]
  <2>1. Table(s) \in Tables
    BY TablesOf
  <2> QED
    BY <1>1, <2>1 DEF Tables
<1> HIDE DEF fat, entry
<1>3. PICK m \in Chart : Charted(fat, m) /\ DirRight(m, entry, X)
  BY <1>1 DEF SoundTable
<1>4. ASSUME NEW i \in kept PROVE i \in Label /\ entry[i] \in Entry /\ Right(m, i, entry[i])
  BY <1>2, <1>3 DEF DirRight, Label
<1>5. \A i \in kept : /\ Sound(fat, entry[i].clust, entry[i].size)
                      /\ \A k \in ClustersOf(fat, entry[i].clust) : m.own[k] = i
  <2> HIDE DEF kept
  <2> QED
    BY <1>2, <1>3, <1>4, RightIsSound
<1>6. \A i, j \in kept :
        i # j => ClustersOf(fat, entry[i].clust) \cap ClustersOf(fat, entry[j].clust) = {}
  <2> HIDE DEF kept
  <2> QED
    BY <1>5
<1> QED
  BY <1>5, <1>6 DEF SoundCard, fat, entry

\* A file at its place is where the runs look for it.
LEMMA FitsIsPlaced ==
  ASSUME NEW fat \in [Cluster -> FatEntry], NEW m \in Chart, Charted(fat, m), NEW f \in FIL,
         f.dir_ptr \in Label, Fits(m, f.dir_ptr, f, TRUE, 0), f.fptr > 0, f.err = "FR_OK"
  PROVE  LET chain == Chain(fat, f.sclust)
         IN /\ f.fptr <= Len(chain) * bcs
            /\ f.clust = chain[(f.fptr - 1) \div bcs + 1]
<1> DEFINE i == f.dir_ptr
           s == Chain(fat, f.sclust)
           q == (f.fptr - 1) \div bcs
<1>1. i # 0 /\ f.fptr \in Nat
  BY FatFsAssumption DEF Label, FIL
<1>2. /\ m.hd[i] = f.sclust /\ f.clust \in Cluster /\ m.own[f.clust] = i
      /\ m.pos[f.clust] = Behind(f.fptr)
  BY <1>1 DEF Fits
<1>3. f.sclust # 0
  BY <1>1, <1>2 DEF Charted
<1>4. /\ s \in Seq(Cluster)
      /\ \A l \in Cluster : m.own[l] = i => m.pos[l] < Len(s) /\ s[m.pos[l] + 1] = l
  BY <1>2, <1>3, ChartedChain
<1> HIDE DEF s
<1>5. q < Len(s) /\ s[q + 1] = f.clust
  BY <1>2, <1>4 DEF Behind
<1>6. f.fptr <= Len(s) * bcs
  BY <1>1, <1>4, <1>5, ReachesInto
<1> QED
  BY <1>5, <1>6 DEF s

\* What a chain that is sound looks like: each cluster comes once.
Straight(fat, k, s) ==
  /\ s \in Seq(Cluster)
  /\ s # <<>> => s[1] = k /\ fat[s[Len(s)]] = EOC
  /\ \A p \in 1 .. Len(s) - 1 : s[p + 1] = fat[s[p]]
  /\ \A p, q \in 1 .. Len(s) : s[p] = s[q] => p = q
  /\ s = <<>> => k \notin Cluster

\* It does.
LEMMA SoundIsStraight ==
  ASSUME NEW fat, NEW k, NEW size, Sound(fat, k, size)
  PROVE  Straight(fat, k, Chain(fat, k))
<1> DEFINE s == Chain(fat, k)
           L == Len(s)
<1>1. s \in Path(fat, k, Clusters) /\ (s # <<>> => fat[s[Len(s)]] = EOC)
  BY ChainPath DEF Sound
<1> HIDE DEF s
<1>2. /\ s \in Seq(Cluster) /\ L \in Nat /\ (s # <<>> => s[1] = k)
      /\ \A p \in 1 .. L - 1 : s[p + 1] = fat[s[p]]
      /\ \A p \in 1 .. L : s[p] \in Cluster
      /\ s = <<>> <=> L = 0
  BY <1>1 DEF Path
<1>3. s = <<>> => k \notin Cluster
  BY <1>1, <1>2, FatFsAssumption DEF Path
<1>4. ASSUME NEW p \in 1 .. L, NEW q \in 1 .. L, s[p] = s[q], p < q PROVE FALSE
  <2> HIDE DEF L
  <2> DEFINE N == L - q
             T == {j \in 0 .. N : s[p + j] = s[q + j]}
  <2>1. N \in Nat /\ p \in Nat /\ q \in Nat
    BY <1>2
  <2>2. 0 \in T
    BY <1>2, <1>4, <2>1
  <2>3. \A j \in 0 .. N : j \in T /\ j < N => j + 1 \in T
    <3> SUFFICES ASSUME NEW j \in 0 .. N, j \in T, j < N PROVE s[p + j + 1] = s[q + j + 1]
      BY <1>2, <2>1
    <3>1. p + j \in 1 .. L - 1 /\ q + j \in 1 .. L - 1
      BY <1>2, <1>4, <2>1
    <3>2. s[p + j] = s[q + j]
      OBVIOUS
    <3> DEFINE a == p + j
               b == q + j
    <3> HIDE DEF a, b
    <3>3. s[a + 1] = fat[s[a]] /\ s[b + 1] = fat[s[b]]
      BY <1>2, <3>1 DEF a, b
    <3> QED
      BY <3>2, <3>3 DEF a, b
  <2>4. 0 .. N \subseteq T
    <3> HIDE DEF T, N
    <3> QED
      BY <2>1, <2>2, <2>3, UptoInduction
  <2>5. N \in 0 .. N /\ q + N = L
    BY <1>2, <2>1
  <2>6. s[p + N] = s[L]
    BY <2>4, <2>5
  <2>7. p + N \in 1 .. L - 1 /\ p + N + 1 \in 1 .. L /\ L # 0
    BY <1>2, <1>4, <2>1
  <2> DEFINE a == p + N
  <2>8. s[a + 1] = fat[s[a]] /\ s[a + 1] \in Cluster
    <3> HIDE DEF N
    <3> QED
      BY <1>2, <2>7
  <2>9. fat[s[L]] = EOC
    BY <1>1, <1>2, <2>7 DEF L
  <2> QED
    BY <2>6, <2>8, <2>9, OnesNoCluster
<1>5. \A p, q \in 1 .. L : s[p] = s[q] => p = q
  <2> HIDE DEF L
  <2> QED
    BY <1>2, <1>4
<1> QED
  BY <1>1, <1>2, <1>3, <1>5 DEF Straight, s, L

\* Chains that do not meet.
Apart(kept, s) ==
  \A i, j \in kept : \A p \in 1 .. Len(s[i]), q \in 1 .. Len(s[j]) : s[i][p] = s[j][q] => i = j

\* The chart has these chains.
Lays(m, kept, k, s) ==
  \A i \in kept : /\ m.hd[i] = IF s[i] = <<>> THEN 0 ELSE k[i]
                  /\ \A p \in 1 .. Len(s[i]) : m.own[s[i][p]] = i /\ m.pos[s[i][p]] = p - 1

\* Chains that are straight and do not meet make a chart.
LEMMA StraightCharts ==
  ASSUME NEW fat \in [Cluster -> FatEntry], NEW kept \in SUBSET Label, NEW k, NEW s,
         \A i \in kept : Straight(fat, k[i], s[i]),
         Apart(kept, s)
  PROVE  \E m \in Chart : Charted(fat, m) /\ Lays(m, kept, k, s)
<1> DEFINE of(l) == {i \in kept : \E p \in 1 .. Len(s[i]) : s[i][p] = l}
           own == [l \in Cluster |-> IF of(l) = {} THEN 0 ELSE CHOOSE i \in of(l) : TRUE]
           at(l) == CHOOSE p \in 1 .. Len(s[own[l]]) : s[own[l]][p] = l
           pos == [l \in Cluster |-> IF of(l) = {} THEN 0 ELSE at(l) - 1]
           hd == [i \in Label |-> IF i \in kept /\ s[i] # <<>> THEN k[i] ELSE 0]
           m == [hd |-> hd, own |-> own, pos |-> pos]
<1>1. \A i \in kept : /\ s[i] \in Seq(Cluster) /\ Len(s[i]) \in Nat
                      /\ s[i] # <<>> <=> Len(s[i]) > 0
                      /\ s[i] # <<>> => s[i][1] = k[i] /\ fat[s[i][Len(s[i])]] = EOC
                      /\ \A p \in 1 .. Len(s[i]) - 1 : s[i][p + 1] = fat[s[i][p]]
                      /\ \A p, q \in 1 .. Len(s[i]) : s[i][p] = s[i][q] => p = q
                      /\ \A p \in 1 .. Len(s[i]) : s[i][p] \in Cluster
  <2> TAKE i \in kept
  <2>1. Straight(fat, k[i], s[i])
    OBVIOUS
  <2> DEFINE r == s[i]
  <2> HIDE DEF r
  <2>2. /\ r \in Seq(Cluster) /\ (r # <<>> => r[1] = k[i] /\ fat[r[Len(r)]] = EOC)
        /\ \A p \in 1 .. Len(r) - 1 : r[p + 1] = fat[r[p]]
        /\ \A p, q \in 1 .. Len(r) : r[p] = r[q] => p = q
    BY <2>1 DEF Straight, r
  <2>3. Len(r) \in Nat /\ (r # <<>> <=> Len(r) > 0) /\ \A p \in 1 .. Len(r) : r[p] \in Cluster
    BY <2>2
  <2> QED
    BY <2>2, <2>3, Zenon DEF r
<1>2. 0 \notin Label /\ 0 \notin Cluster /\ Cluster \subseteq Nat /\ EOC \notin Cluster
  BY OnesNoCluster, FatFsAssumption DEF Label
<1>3. ASSUME NEW i \in kept, NEW p \in 1 .. Len(s[i])
      PROVE  own[s[i][p]] = i /\ pos[s[i][p]] = p - 1
  <2> DEFINE l == s[i][p]
  <2>1. l \in Cluster /\ i \in of(l)
    BY <1>1
  <2>2. \A j \in of(l) : j = i
    BY DEF Apart
  <2>3. own[l] = i
    <3> HIDE DEF of, l
    <3> QED
      BY <2>1, <2>2
  <2>4. at(l) \in 1 .. Len(s[own[l]]) /\ s[own[l]][at(l)] = l
    <3> HIDE DEF own
    <3>1. \E q \in 1 .. Len(s[own[l]]) : s[own[l]][q] = l
      BY <2>3
    <3> QED
      BY <3>1
  <2>5. at(l) = p
    <3> HIDE DEF at, own
    <3> QED
      BY <1>1, <2>3, <2>4
  <2>6. pos[l] = at(l) - 1
    <3> HIDE DEF at, own, of, l
    <3> QED
      BY <2>1
  <2> HIDE DEF at, own, of, pos
  <2> QED
    BY <2>3, <2>5, <2>6
<1>4. ASSUME NEW l \in Cluster, own[l] # 0
      PROVE  own[l] \in kept /\ \E p \in 1 .. Len(s[own[l]]) : s[own[l]][p] = l
  <2>1. of(l) # {}
    BY <1>4
  <2>2. own[l] \in of(l)
    <3> HIDE DEF of
    <3> QED
      BY <2>1
  <2> HIDE DEF own
  <2> QED
    BY <2>2
<1>5. own \in [Cluster -> Label \cup {0}]
  <2>1. \A l \in Cluster : own[l] # 0 => own[l] \in Label
    <3> HIDE DEF own
    <3> QED
      BY <1>4
  <2>2. own = [l \in Cluster |-> own[l]]
    <3> HIDE DEF of
    <3> QED
      OBVIOUS
  <2> HIDE DEF own
  <2> QED
    BY <2>1, <2>2
<1>6. pos \in [Cluster -> Nat]
  <2>1. \A l \in Cluster : own[l] = 0 => of(l) = {}
    <3> SUFFICES ASSUME NEW l \in Cluster, own[l] = 0, of(l) # {} PROVE FALSE
      OBVIOUS
    <3>1. own[l] \in of(l)
      <4> HIDE DEF of
      <4> QED
        OBVIOUS
    <3> HIDE DEF own
    <3> QED
      BY <1>2, <3>1
  <2>2. \A l \in Cluster : pos[l] \in Nat
    <3> SUFFICES ASSUME NEW l \in Cluster PROVE pos[l] \in Nat
      OBVIOUS
    <3>1. CASE own[l] = 0
      <4> HIDE DEF of, own, at
      <4> QED
        BY <2>1, <3>1
    <3>2. CASE own[l] # 0
      <4> HIDE DEF pos, own
      <4>1. PICK p \in 1 .. Len(s[own[l]]) : s[own[l]][p] = l
        BY <1>4, <3>2
      <4>2. own[l] \in kept
        BY <1>4, <3>2
      <4>3. pos[l] = p - 1 /\ Len(s[own[l]]) \in Nat
        BY <1>1, <1>3, <4>1, <4>2
      <4> QED
        BY <4>1, <4>3
    <3> QED
      BY <3>1, <3>2
  <2>3. pos = [l \in Cluster |-> pos[l]]
    <3> HIDE DEF of, at
    <3> QED
      OBVIOUS
  <2> HIDE DEF pos
  <2> QED
    BY <2>2, <2>3
<1> HIDE DEF own, pos, of, at
<1>7. hd \in [Label -> Cluster \cup {0}]
  <2>1. ASSUME NEW i \in kept, s[i] # <<>> PROVE k[i] \in Cluster
    <3>1. 1 \in 1 .. Len(s[i])
      BY <1>1, <2>1
    <3> QED
      BY <1>1, <2>1, <3>1
  <2> QED
    BY <2>1
<1>8. /\ \A i \in kept : hd[i] = IF s[i] = <<>> THEN 0 ELSE k[i]
      /\ \A i \in Label : hd[i] # 0 => i \in kept /\ s[i] # <<>> /\ hd[i] = k[i]
  OBVIOUS
<1> HIDE DEF hd
<1>9. m \in Chart /\ m.hd = hd /\ m.own = own /\ m.pos = pos
  BY <1>5, <1>6, <1>7 DEF Chart
<1> HIDE DEF m
<1>10. ASSUME NEW l \in Cluster, own[l] # 0
       PROVE  hd[own[l]] # 0 /\ (LastOf(fat, m, l) \/ Onto(fat, m, l))
  <2> DEFINE i == own[l]
  <2>1. i \in kept
    BY <1>4, <1>10
  <2>2. PICK p \in 1 .. Len(s[i]) : s[i][p] = l
    BY <1>4, <1>10
  <2> HIDE DEF i
  <2>3. Len(s[i]) \in Nat /\ s[i] # <<>> /\ pos[l] = p - 1
    BY <1>1, <1>3, <2>1, <2>2
  <2>4. hd[i] # 0
    <3>1. k[i] \in Cluster
      <4>1. 1 \in 1 .. Len(s[i])
        BY <2>2, <2>3
      <4> QED
        BY <1>1, <2>1, <2>3, <4>1
    <3> QED
      BY <1>2, <1>8, <2>1, <2>3, <3>1
  <2>5. CASE p = Len(s[i])
    <3>1. fat[l] = EOC
      BY <1>1, <2>1, <2>2, <2>3, <2>5
    <3>2. ASSUME NEW h \in Cluster, own[h] = i PROVE pos[h] <= pos[l]
      <4>1. PICK q \in 1 .. Len(s[i]) : s[i][q] = h
        BY <1>2, <1>4, <2>1, <3>2
      <4>2. pos[h] = q - 1
        BY <1>3, <2>1, <4>1
      <4> QED
        BY <2>3, <2>5, <4>1, <4>2
    <3>3. own[l] = i
      BY DEF i
    <3> QED
      BY <1>9, <2>4, <3>1, <3>2, <3>3 DEF LastOf
  <2>6. CASE p # Len(s[i])
    <3>1. p \in 1 .. Len(s[i]) - 1 /\ p + 1 \in 1 .. Len(s[i])
      BY <2>3, <2>6
    <3>2. s[i][p + 1] = fat[l] /\ s[i][p + 1] \in Cluster
      BY <1>1, <2>1, <2>2, <3>1
    <3>3. own[fat[l]] = i /\ pos[fat[l]] = (p + 1) - 1
      BY <1>3, <2>1, <3>1, <3>2
    <3>4. own[l] = i /\ (p + 1) - 1 = (p - 1) + 1
      BY <2>3 DEF i
    <3> QED
      BY <1>9, <2>3, <2>4, <3>2, <3>3, <3>4 DEF Onto
  <2> QED
    BY <2>5, <2>6
<1>11. ASSUME NEW i \in Label, hd[i] # 0 PROVE own[hd[i]] = i /\ pos[hd[i]] = 0
  <2>1. i \in kept /\ s[i] # <<>> /\ hd[i] = k[i]
    BY <1>8, <1>11
  <2>2. 1 \in 1 .. Len(s[i]) /\ s[i][1] = hd[i]
    BY <1>1, <2>1
  <2>3. own[hd[i]] = i /\ pos[hd[i]] = 1 - 1
    BY <1>3, <2>1, <2>2
  <2> QED
    BY <2>3
<1>12. ASSUME NEW l \in Cluster, NEW h \in Cluster, own[l] # 0, own[l] = own[h], pos[l] = pos[h]
       PROVE  l = h
  <2>1. PICK p \in 1 .. Len(s[own[l]]) : s[own[l]][p] = l
    BY <1>4, <1>12
  <2>2. PICK q \in 1 .. Len(s[own[l]]) : s[own[l]][q] = h
    BY <1>4, <1>12
  <2>3. own[l] \in kept /\ Len(s[own[l]]) \in Nat
    BY <1>1, <1>4, <1>12
  <2>4. pos[l] = p - 1 /\ pos[h] = q - 1
    BY <1>3, <2>1, <2>2, <2>3
  <2>5. p = q
    <3>1. p - 1 = q - 1
      BY <1>12, <2>4, Zenon
    <3>2. p \in Nat /\ q \in Nat
      BY <2>3
    <3> QED
      BY <3>1, <3>2
  <2> QED
    BY <2>1, <2>2, <2>5
<1>13. Charted(fat, m)
  BY <1>9, <1>10, <1>11, <1>12 DEF Charted
<1>14. Lays(m, kept, k, s)
  BY <1>3, <1>8, <1>9 DEF Lays
<1> QED
  BY <1>9, <1>13, <1>14

\* A card that is sound has a sound table.
LEMMA CardHasTable ==
  ASSUME NEW s \in Sectors, SoundCard(s, {})
  PROVE  SoundTable(Table(s), {})
<1> DEFINE fat == [k \in Cluster |-> s[Fat(k)][k]]
           entry == [i \in 1 .. n_rootdir |-> s[Dir(i)][i]]
           kept == {i \in 1 .. n_rootdir : entry[i].name \in Name}
           k == [i \in kept |-> entry[i].clust]
           S == [i \in kept |-> Chain(fat, k[i])]
<1>1. Table(s).fat = fat /\ Table(s).dir = entry
  BY DEF Table, Label
<1>2. fat \in [Cluster -> FatEntry] /\ entry \in [Label -> Entry]
  <2>1. Table(s) \in Tables
    BY TablesOf
  <2> QED
    BY <1>1, <2>1 DEF Tables
<1>3. /\ \A i \in kept : Sound(fat, entry[i].clust, entry[i].size)
      /\ \A i, j \in kept :
           i # j => ClustersOf(fat, entry[i].clust) \cap ClustersOf(fat, entry[j].clust) = {}
  BY DEF SoundCard
<1> HIDE DEF fat, entry
<1>4. /\ \A i \in kept : k[i] = entry[i].clust /\ S[i] = Chain(fat, k[i])
      /\ kept \in SUBSET Label
  BY DEF Label
<1>5. kept = {i \in Label : entry[i].name \in Name}
  BY DEF Label
<1> HIDE DEF kept, k, S
<1>6. ASSUME NEW i \in kept PROVE Straight(fat, k[i], S[i])
  BY <1>3, <1>4, SoundIsStraight
<1>7. ASSUME NEW i \in kept, NEW j \in kept, NEW p \in 1 .. Len(S[i]), NEW q \in 1 .. Len(S[j]),
             S[i][p] = S[j][q]
      PROVE  i = j
  <2>1. DOMAIN S[i] = 1 .. Len(S[i]) /\ DOMAIN S[j] = 1 .. Len(S[j])
    BY <1>6 DEF Straight
  <2>2. S[i][p] \in ClustersOf(fat, entry[i].clust) /\ S[j][q] \in ClustersOf(fat, entry[j].clust)
    BY <1>4, <2>1 DEF ClustersOf, Range
  <2> QED
    BY <1>3, <1>7, <2>2
<1>8. PICK m \in Chart : Charted(fat, m) /\ Lays(m, kept, k, S)
  <2>1. Apart(kept, S)
    BY <1>7 DEF Apart
  <2> QED
    BY <1>2, <1>4, <1>6, <2>1, StraightCharts
<1>9. ASSUME NEW i \in kept PROVE Right(m, i, entry[i])
  <2> DEFINE c == S[i]
             e == entry[i]
             L == Len(c)
             N == L * bcs
  <2>1. Straight(fat, e.clust, c) /\ Sound(fat, e.clust, e.size) /\ c = Chain(fat, e.clust)
    BY <1>3, <1>4, <1>6
  <2>2. e.clust \in Cluster \cup {0} /\ e.size \in Nat
    BY <1>2, <1>4 DEF Entry
  <2>3. m.hd[i] = IF c = <<>> THEN 0 ELSE e.clust
    BY <1>4, <1>8 DEF Lays
  <2>4. \A p \in 1 .. L : c[p] \in Cluster /\ m.own[c[p]] = i /\ m.pos[c[p]] = p - 1
    BY <1>8, <2>1 DEF Straight, Lays
  <2>5. N >= e.size /\ (c = <<>> <=> L = 0) /\ L \in Nat
    BY <2>1 DEF Sound, Straight
  <2>6. (c = <<>> => e.clust \notin Cluster) /\ (c # <<>> => c[1] = e.clust)
    BY <2>1 DEF Straight
  <2> HIDE DEF c, e, L
  <2>7. e.clust \in {0, m.hd[i]}
    BY <2>2, <2>3, <2>6
  <2>8. bcs \in Nat \ {0}
    <3>1. SS \in Nat \ {0} /\ csize \in Nat \ {0}
      BY FatFsAssumption
    <3> QED
      BY <3>1, SMTT(30) DEF bcs
  <2>9. e.size > 0 => L > 0
    <3> SUFFICES ASSUME L = 0, e.size > 0 PROVE FALSE
      BY <2>5
    <3>1. N = 0
      BY <2>8, SMTT(30)
    <3> HIDE DEF N
    <3> QED
      BY <2>2, <2>5, <3>1
  <2>10. e.size > 0 => e.clust # 0
    <3> SUFFICES ASSUME e.size > 0 PROVE e.clust \in Cluster
      BY OnesNoCluster
    <3>1. 1 \in 1 .. L
      BY <2>5, <2>9
    <3> QED
      BY <2>4, <2>5, <2>6, <2>9, <3>1
  <2>11. Holds(m, i, e.size)
    <3> SUFFICES ASSUME e.size > 0
                 PROVE  \E l \in Cluster : m.own[l] = i /\ m.pos[l] = (e.size - 1) \div bcs
      BY DEF Holds
    <3> DEFINE q == (e.size - 1) \div bcs
    <3>1. e.size - 1 \in Nat
      BY <2>2
    <3>2. N \in Nat
      BY <2>5, <2>8, SMTT(30)
    <3>3. q < L
      <4>1. e.size - 1 < N
        <5> HIDE DEF N
        <5> QED
          BY <2>2, <2>5, <3>2
      <4> QED
        BY <2>5, <2>8, <3>1, <4>1, Quotient
    <3>4. q \in Nat
      BY <2>8, <3>1, Division
    <3> HIDE DEF q
    <3>5. q + 1 \in 1 .. L /\ (q + 1) - 1 = q
      BY <2>5, <3>3, <3>4
    <3>6. c[q + 1] \in Cluster /\ m.own[c[q + 1]] = i /\ m.pos[c[q + 1]] = q
      BY <2>4, <3>5
    <3> QED
      BY <3>6 DEF q
  <2> QED
    BY <2>7, <2>10, <2>11 DEF Right, e
<1>10. DirRight(m, entry, {})
  BY <1>5, <1>9 DEF DirRight
<1> QED
  BY <1>1, <1>8, <1>10 DEF SoundTable

---------------------------------------------------------------------------
(* The chains between two calls.                                           *)

\* An open file of the volume that is mounted; g is a FATFS structure.
LiveIn(g, f) == f.fs /\ g.fs_type # 0 /\ f.id = g.id

\* The handles of such files,
Lives(g, fils) == {h \in Handle : LiveIn(g, fils[h])}

\* ... and those of files no call failed on.
Sure(g, fils, owners, u) == {h \in Lives(g, fils) : owners[h] \notin u}

\* The entries of the files that are to be written, with their names.
Pairs(g, fils, owners) ==
  {<<fils[h].dir_ptr, owners[h]>> : h \in {l \in Lives(g, fils) : fils[l].written}}

\* The entries that may be wrong: of files that were cut and are still to be written, or that
\* were cut and a call failed on.
Exempt(k, u, P) == {p \in Label \X Name : p[2] \in k /\ (p[2] \in u \/ p \in P)}

\* An open file is at its place in its chain, which is long enough.
Fitted(m, f, exact) == Fits(m, f.dir_ptr, f, exact, 0) /\ Holds(m, f.dir_ptr, f.fsize)

\* There is a chart of the FAT by which the entries not in X are right and the files of the
\* handles L are at their places, those of S at some cluster of theirs.
Held(t, X, fils, L, S) ==
  \E m \in Chart : /\ Charted(t.fat, m) /\ DirRight(m, t.dir, X)
                   /\ \A h \in L : Fitted(m, fils[h], h \notin S)

\* The entries of open files have the names the files were opened by.
Titled(t, fils, owners, L) == \A h \in L : t.dir[fils[h].dir_ptr].name = owners[h]

\* The tables of a context, k being the files cut and u those a call failed on.
Upright(c, fils, owners, S, k, u) ==
  u # Name =>
    /\ SoundTable(TableC(c), Exempt(k, u, Pairs(c, fils, owners)))
    /\ Held(TableV(c), Exempt(k, u, Pairs(c, fils, owners)), fils, Sure(c, fils, owners, u), S)
    /\ Titled(TableV(c), fils, owners, Lives(c, fils))

\* The handles: none is newer than the volume, no two are of one file, a file that is to be
\* written and was not opened for it is empty, and only a writer is between two positions.
Orderly(c, fils, owners, S) ==
  /\ \A h \in Handle : fils[h].fs => fils[h].id <= c.id
  /\ \A h, l \in Lives(c, fils) : owners[h] = owners[l] => h = l
  /\ \A h \in Lives(c, fils) : ~fils[h].wr /\ fils[h].written =>
       fils[h].sclust = 0 /\ fils[h].fsize = 0 /\ fils[h].fptr = 0
  /\ \A h \in S : fils[h].fs /\ fils[h].wr

\* The inductive invariant of the chains: the volume's tables, the handles, the cards whose
\* volumes are not mounted; and a card that was pulled took what was to be written along.
SoundInv ==
  /\ Upright(AtRest, fil, owner, stray, cut[volume], unsure[volume])
  /\ Orderly(AtRest, fil, owner, stray)
  /\ \A c \in Card : c # volume /\ unsure[c] # Name =>
       SoundTable(Table(sec[c]), Exempt(cut[c], unsure[c], {}))
  /\ stat = "STA_NOINIT" =>
       \A h \in Lives(AtRest, fil) : fil[h].written => owner[h] \in unsure[volume]

\* More entries may be wrong.
LEMMA SoundTableMore ==
  ASSUME NEW t, NEW X, NEW Y, X \subseteq Y, SoundTable(t, X)
  PROVE  SoundTable(t, Y)
BY DEF SoundTable, DirRight

\* Fewer files are asked for, and more entries may be wrong.
LEMMA HeldMore ==
  ASSUME NEW t, NEW X, NEW Y, X \subseteq Y, NEW fils, NEW L, NEW M, M \subseteq L, NEW S,
         Held(t, X, fils, L, S)
  PROVE  Held(t, Y, fils, M, S)
<1>1. PICK m \in Chart : /\ Charted(t.fat, m) /\ DirRight(m, t.dir, X)
                         /\ \A h \in L : Fitted(m, fils[h], h \notin S)
  BY DEF Held
<1>2. DirRight(m, t.dir, Y)
  BY <1>1 DEF DirRight
<1> QED
  BY <1>1, <1>2 DEF Held

\* A set of names that grows was not all of them if it is not afterwards.
LEMMA UprightMore ==
  ASSUME NEW c, NEW fils, NEW owners, NEW S, NEW k, NEW l, k \subseteq l,
         NEW u, NEW v \in SUBSET Name, u \subseteq v, Upright(c, fils, owners, S, k, u)
  PROVE  Upright(c, fils, owners, S, l, v)
<1> SUFFICES ASSUME v # Name PROVE Upright(c, fils, owners, S, l, v)
  BY DEF Upright
<1>1. u # Name
  OBVIOUS
<1>2. Exempt(k, u, Pairs(c, fils, owners)) \subseteq Exempt(l, v, Pairs(c, fils, owners))
  BY DEF Exempt
<1>3. Sure(c, fils, owners, v) \subseteq Sure(c, fils, owners, u)
  BY DEF Sure
<1> QED
  BY <1>1, <1>2, <1>3, SoundTableMore, HeldMore DEF Upright

\* ... when no entry becomes one that must be right.
LEMMA UprightWider ==
  ASSUME NEW c, NEW fils, NEW owners, NEW S, NEW k, NEW l,
         NEW u, NEW v \in SUBSET Name, u \subseteq v,
         Exempt(k, u, Pairs(c, fils, owners)) \subseteq Exempt(l, v, Pairs(c, fils, owners)),
         Upright(c, fils, owners, S, k, u)
  PROVE  Upright(c, fils, owners, S, l, v)
<1>1. Sure(c, fils, owners, v) \subseteq Sure(c, fils, owners, u)
  BY DEF Sure
<1>2. u = Name => v = Name
  OBVIOUS
<1> QED
  BY <1>1, <1>2, SoundTableMore, HeldMore DEF Upright

\* Contexts that agree on the volume.
Alike(c, d) ==
  /\ d.fs_type = c.fs_type /\ d.id = c.id /\ d.winsect = c.winsect /\ d.win = c.win
  /\ d.wflag = c.wflag /\ d.sec = c.sec

\* They have the same tables and files.
LEMMA AlikeUpright ==
  ASSUME NEW c, NEW d, Alike(c, d), NEW fils, NEW owners, NEW S
  PROVE  /\ TableV(d) = TableV(c) /\ TableC(d) = TableC(c) /\ Lives(d, fils) = Lives(c, fils)
         /\ \A k, u : Upright(c, fils, owners, S, k, u) => Upright(d, fils, owners, S, k, u)
         /\ Orderly(c, fils, owners, S) => Orderly(d, fils, owners, S)
<1>1. TableV(d) = TableV(c) /\ TableC(d) = TableC(c)
  BY DEF Alike, TableV, TableC, Over
<1>2. Lives(d, fils) = Lives(c, fils)
  BY DEF Alike, Lives, LiveIn
<1>3. /\ Pairs(d, fils, owners) = Pairs(c, fils, owners)
      /\ \A u : Sure(d, fils, owners, u) = Sure(c, fils, owners, u)
  BY <1>2 DEF Pairs, Sure
<1>4. Orderly(c, fils, owners, S) => Orderly(d, fils, owners, S)
  BY <1>2 DEF Orderly, Alike
<1> QED
  BY <1>1, <1>2, <1>3, <1>4 DEF Upright

\* When the files that are to be written are ones a call failed on, it does not matter that
\* they are.
LEMMA LostExempt ==
  ASSUME NEW g, NEW fils, NEW owners, NEW k, NEW u,
         \A h \in Lives(g, fils) : fils[h].written => owners[h] \in u
  PROVE  Exempt(k, u, Pairs(g, fils, owners)) \subseteq Exempt(k, u, {})
<1> SUFFICES ASSUME NEW p \in Label \X Name, p[2] \in k, p[2] \notin u,
                    p \in Pairs(g, fils, owners)
             PROVE  FALSE
  BY DEF Exempt
<1>1. PICK h \in Lives(g, fils) : fils[h].written /\ p = <<fils[h].dir_ptr, owners[h]>>
  BY DEF Pairs
<1> QED
  BY <1>1

\* A volume that is not mounted has no open files.
LEMMA NoLives ==
  ASSUME NEW g, g.fs_type = 0, NEW fils
  PROVE  Lives(g, fils) = {}
BY DEF Lives, LiveIn

\* When the volume is not the one of the card in the slot, or not mounted, what was to be
\* written does not matter.
LEMMA CardsAlone ==
  ASSUME TypeInv, SoundInv, fs.fs_type = 0 \/ stat = "STA_NOINIT",
         NEW c \in Card, unsure[c] # Name
  PROVE  SoundTable(Table(sec[c]), Exempt(cut[c], unsure[c], {}))
<1>1. CASE c # volume
  BY <1>1 DEF SoundInv
<1>2. CASE c = volume
  <2>1. SoundTable(TableC(AtRest), Exempt(cut[c], unsure[c], Pairs(AtRest, fil, owner)))
    BY <1>2 DEF SoundInv, Upright
  <2>2. TableC(AtRest) = Table(sec[c])
    BY <1>2, AtRestFields DEF TableC
  <2>3. \A h \in Lives(AtRest, fil) : fil[h].written => owner[h] \in unsure[c]
    <3>1. CASE fs.fs_type = 0
      BY <3>1, AtRestFields, NoLives
    <3>2. CASE stat = "STA_NOINIT"
      BY <1>2, <3>2 DEF SoundInv
    <3> QED
      BY <3>1, <3>2
  <2> QED
    BY <2>1, <2>2, <2>3, LostExempt, SoundTableMore
<1> QED
  BY <1>1, <1>2

\* What a call leaves, the variables hold.
LEMMA ReturnedAlike ==
  ASSUME TypeInv, NEW c, Returned(c), c.stat # "STA_NOINIT"
  PROVE  /\ Alike(c, AtRest') /\ volume' = card /\ card' = card /\ stat' # "STA_NOINIT"
         /\ \A d \in Card : d # card => sec'[d] = sec[d]
<1>1. /\ fs'.fs_type = c.fs_type /\ fs'.id = c.id /\ fs'.winsect = c.winsect
      /\ fs'.win = c.win /\ fs'.wflag = c.wflag
  BY ReturnedFields
<1>2. /\ volume' = card /\ card' = card /\ stat' # "STA_NOINIT"
      /\ sec' = [sec EXCEPT ![card] = c.sec]
  BY DEF Returned
<1>3. sec \in [Card -> Sectors] /\ card \in Card
  BY DEF TypeInv
<1>4. sec'[volume'] = c.sec /\ \A d \in Card : d # card => sec'[d] = sec[d]
  BY <1>2, <1>3
<1>5. AtRest' = Resting(fs', sec'[volume'], stat')
  BY DEF AtRest
<1>6. Alike(c, AtRest')
  BY <1>1, <1>4, <1>5 DEF Alike, Resting
<1> QED
  BY <1>2, <1>4, <1>6

\* What a call says of files goes for the card.
Marks(k, u) ==
  /\ unsure' = [unsure EXCEPT ![card] = u]
  /\ cut' = [cut EXCEPT ![card] = k]

\* The invariant holds after a call that initialized the card, or found it initialized, if the
\* context it ends in is upright.
LEMMA SoundEnds ==
  ASSUME TypeInv, SoundInv, NEW c, Returned(c), c.stat # "STA_NOINIT",
         NEW k, NEW u, Marks(k, u), fil' \in [Handle -> FIL],
         Upright(c, fil', owner', stray', k, u), Orderly(c, fil', owner', stray')
  PROVE  SoundInv'
<1>1. /\ Alike(c, AtRest') /\ volume' = card /\ card' = card /\ stat' # "STA_NOINIT"
      /\ \A d \in Card : d # card => sec'[d] = sec[d]
  BY ReturnedAlike
<1>2. card \in Card /\ unsure \in [Card -> SUBSET Name] /\ cut \in [Card -> SUBSET Name]
  BY DEF TypeInv
<1>3. /\ unsure'[card] = u /\ cut'[card] = k
      /\ \A d \in Card : d # card => unsure'[d] = unsure[d] /\ cut'[d] = cut[d]
  BY <1>2 DEF Marks
<1>4. /\ Upright(AtRest', fil', owner', stray', cut'[volume'], unsure'[volume'])
      /\ Orderly(AtRest', fil', owner', stray')
  BY <1>1, <1>3, AlikeUpright
<1>5. ASSUME NEW d \in Card, d # card, unsure[d] # Name
      PROVE  SoundTable(Table(sec[d]), Exempt(cut[d], unsure[d], {}))
  <2>1. CASE d # volume
    BY <1>5, <2>1 DEF SoundInv
  <2>2. CASE d = volume
    <3>1. stat = "STA_NOINIT"
      BY <1>5, <2>2 DEF TypeInv
    <3> QED
      BY <1>5, <3>1, CardsAlone
  <2> QED
    BY <2>1, <2>2
<1>6. \A d \in Card : d # volume' /\ unsure'[d] # Name =>
        SoundTable(Table(sec'[d]), Exempt(cut'[d], unsure'[d], {}))
  BY <1>1, <1>3, <1>5
<1> QED
  BY <1>1, <1>4, <1>6 DEF SoundInv

\* A call on an open file finds the tables upright.
LEMMA HandleUpright ==
  ASSUME TypeInv, SoundInv, stat # "STA_NOINIT", NEW f \in FIL, NEW x, Begins(f, x)
  PROVE  /\ Upright(x, fil, owner, stray, cut[card], unsure[card])
         /\ Orderly(x, fil, owner, stray)
<1>1. volume = card
  BY DEF TypeInv
<1>2. Alike(AtRest, x)
  BY <1>1, BeginsType, AtRestFields DEF Alike
<1> QED
  BY <1>1, <1>2, AlikeUpright DEF SoundInv

\* So does a call by name, once it has mounted the volume.
LEMMA MountUpright ==
  ASSUME TypeInv, SoundInv, NEW f \in FIL, NEW x, Begins(f, x), NEW v, v = find_volume(x)
  PROVE  /\ Upright(v, fil, owner, stray, cut[card], unsure[card])
         /\ Orderly(v, fil, owner, stray)
<1>1. /\ x \in Fair /\ x.stat = stat /\ x.sec = sec[card]
      /\ x.fs_type = fs.fs_type /\ x.id = fs.id
  BY BeginsType
<1>2. CASE x.fs_type # 0 /\ x.stat # "STA_NOINIT"
  <2>1. v = Ok(x)
    BY <1>1, <1>2, MountedAlready
  <2>2. Alike(x, v)
    BY <1>1, <2>1 DEF Fair, Ctx, Ok, Alike
  <2>3. /\ Upright(x, fil, owner, stray, cut[card], unsure[card])
        /\ Orderly(x, fil, owner, stray)
    BY <1>1, <1>2, HandleUpright
  <2> QED
    BY <2>2, <2>3, AlikeUpright
<1>3. CASE ~(x.fs_type # 0 /\ x.stat # "STA_NOINIT")
  <2>1. /\ v.sec = x.sec /\ TableV(v) = TableC(v) /\ TableC(v) = TableC(x)
        /\ IsOk(v) => v.id = x.id + 1
        /\ ~IsOk(v) => v.fs_type = 0
    BY <1>1, <1>3, MountedAnew
  <2>2. fs.id \in Nat /\ fil \in [Handle -> FIL] /\ \A h \in Handle : fil[h].id \in Nat
    BY FsType DEF TypeInv, Filled, FIL
  <2>3. \A h \in Handle : fil[h].fs => fil[h].id <= fs.id
    BY AtRestFields DEF SoundInv, Orderly
  <2>4. Lives(v, fil) = {}
    BY <1>1, <2>1, <2>2, <2>3 DEF Lives, LiveIn
  <2>5. Orderly(v, fil, owner, stray)
    <3>1. \A h \in stray : fil[h].fs /\ fil[h].wr
      BY DEF Orderly, SoundInv
    <3>2. v.id \in {fs.id, fs.id + 1}
      BY <1>1, <1>3, MountedAnew
    <3>3. \A h \in Handle : fil[h].fs => fil[h].id <= v.id
      BY <2>2, <2>3, <3>2
    <3> QED
      BY <2>4, <3>1, <3>3 DEF Orderly
  <2>6. /\ Pairs(v, fil, owner) = {} /\ Sure(v, fil, owner, unsure[card]) = {}
    BY <2>4 DEF Pairs, Sure
  <2>7. ASSUME unsure[card] # Name
        PROVE  SoundTable(TableC(v), Exempt(cut[card], unsure[card], {}))
    <3>1. card \in Card
      BY DEF TypeInv
    <3>2. TableC(v) = Table(sec[card])
      BY <1>1, <2>1 DEF TableC
    <3> QED
      BY <1>1, <1>3, <2>7, <3>1, <3>2, CardsAlone
  <2>8. ASSUME NEW X, SoundTable(TableC(v), X) PROVE Held(TableV(v), X, fil, {}, stray)
    BY <2>1, <2>8 DEF SoundTable, Held
  <2> QED
    BY <2>4, <2>5, <2>6, <2>7, <2>8 DEF Upright, Titled
<1> QED
  BY <1>2, <1>3

\* When a call failed on every file nothing is asked for.
LEMMA UprightLost ==
  ASSUME NEW c, NEW fils, NEW owners, NEW S, NEW k
  PROVE  Upright(c, fils, owners, S, k, Name)
BY DEF Upright

\* Some of the handles, on the same files.
Fewer(g, fils, owners, S, gils, pwners, R) ==
  /\ \A h \in Lives(g, gils) : /\ h \in Lives(g, fils) /\ gils[h] = fils[h]
                               /\ pwners[h] = owners[h] /\ (h \in S <=> h \in R)
  /\ \A h \in Handle : gils[h].fs => gils[h] = fils[h]
  /\ R \subseteq S /\ \A h \in R : gils[h] = fils[h]

\* They keep what was kept for all, if no entry becomes one that must be right.
LEMMA FewerUpright ==
  ASSUME NEW c, NEW fils, NEW owners, NEW S, NEW gils, NEW pwners, NEW R,
         Fewer(c, fils, owners, S, gils, pwners, R), NEW k, NEW u,
         Exempt(k, u, Pairs(c, fils, owners)) \subseteq Exempt(k, u, Pairs(c, gils, pwners)),
         Upright(c, fils, owners, S, k, u)
  PROVE  Upright(c, gils, pwners, R, k, u)
<1> DEFINE X == Exempt(k, u, Pairs(c, fils, owners))
           Y == Exempt(k, u, Pairs(c, gils, pwners))
           L == Sure(c, fils, owners, u)
           M == Sure(c, gils, pwners, u)
<1> SUFFICES ASSUME u # Name
             PROVE  /\ SoundTable(TableC(c), Y) /\ Held(TableV(c), Y, gils, M, R)
                    /\ Titled(TableV(c), gils, pwners, Lives(c, gils))
  BY DEF Upright
<1>1. /\ SoundTable(TableC(c), X) /\ Held(TableV(c), X, fils, L, S)
      /\ Titled(TableV(c), fils, owners, Lives(c, fils))
  BY DEF Upright
<1>2. X \subseteq Y
  OBVIOUS
<1>3. M \subseteq L /\ \A h \in M : gils[h] = fils[h] /\ (h \in S <=> h \in R)
  BY DEF Fewer, Sure
<1>4. Titled(TableV(c), gils, pwners, Lives(c, gils))
  BY <1>1 DEF Titled, Fewer
<1> HIDE DEF X, Y, L, M
<1>5. SoundTable(TableC(c), Y)
  BY <1>1, <1>2, SoundTableMore
<1>6. Held(TableV(c), Y, fils, M, S)
  BY <1>1, <1>2, <1>3, HeldMore
<1>7. Held(TableV(c), Y, gils, M, R)
  BY <1>3, <1>6 DEF Held
<1> QED
  BY <1>4, <1>5, <1>7

\* They are as orderly.
LEMMA FewerOrderly ==
  ASSUME NEW c, NEW fils, NEW owners, NEW S, NEW gils, NEW pwners, NEW R,
         Fewer(c, fils, owners, S, gils, pwners, R), Orderly(c, fils, owners, S)
  PROVE  Orderly(c, gils, pwners, R)
<1>1. \A h \in Handle : gils[h].fs => gils[h].id <= c.id
  BY DEF Fewer, Orderly
<1>2. \A h, l \in Lives(c, gils) : pwners[h] = pwners[l] => h = l
  BY DEF Fewer, Orderly
<1>3. \A h \in Lives(c, gils) : ~gils[h].wr /\ gils[h].written =>
        gils[h].sclust = 0 /\ gils[h].fsize = 0 /\ gils[h].fptr = 0
  BY DEF Fewer, Orderly
<1>4. \A h \in R : gils[h].fs /\ gils[h].wr
  BY DEF Fewer, Orderly
<1> QED
  BY <1>1, <1>2, <1>3, <1>4 DEF Orderly

\* A file keeps its place when other chains become longer ...
LEMMA GrowsFitted ==
  ASSUME NEW m \in Chart, NEW n, NEW i, Grows(m, n, i), NEW f, f.dir_ptr \in Label,
         f.dir_ptr # i, NEW exact, Fitted(m, f, exact)
  PROVE  Fitted(n, f, exact)
<1> DEFINE j == f.dir_ptr
<1>1. j # 0
  BY FatFsAssumption DEF Label
<1>2. Holds(n, j, f.fsize) /\ (exact => Holds(n, j, f.fsize))
  BY GrowsHolds DEF Fitted
<1>3. n.hd[j] = m.hd[j]
  BY DEF Grows
<1>4. Fits(n, j, f, exact, 0)
  BY <1>1, <1>2, <1>3 DEF Fits, Fitted, Grows
<1> QED
  BY <1>2, <1>4 DEF Fitted

\* ... or change.
LEMMA SparesFitted ==
  ASSUME NEW m, NEW n, NEW I, Spares(m, n, I), NEW f, f.dir_ptr \in Label \ I,
         NEW exact, Fitted(m, f, exact)
  PROVE  Fitted(n, f, exact)
<1> DEFINE j == f.dir_ptr
<1>1. j # 0 /\ n.hd[j] = m.hd[j]
  BY FatFsAssumption DEF Label, Spares
<1>2. Holds(n, j, f.fsize)
  <2>1. SUFFICES ASSUME f.fsize > 0
                 PROVE  \E k \in Cluster : n.own[k] = j /\ n.pos[k] = (f.fsize - 1) \div bcs
    BY DEF Holds
  <2>2. PICK k \in Cluster : m.own[k] = j /\ m.pos[k] = (f.fsize - 1) \div bcs
    BY <2>1 DEF Fitted, Holds
  <2>3. n.own[k] = j /\ n.pos[k] = m.pos[k]
    BY <1>1, <2>2 DEF Spares
  <2> QED
    BY <2>2, <2>3
<1>3. Fits(n, j, f, exact, 0)
  BY <1>1, <1>2 DEF Fits, Fitted, Spares
<1> QED
  BY <1>2, <1>3 DEF Fitted

---------------------------------------------------------------------------
(* Calls on an open file.                                                  *)

\* A call that is refused changes nothing; one that is not has a file of the volume.
LEMMA ValidateLive ==
  ASSUME NEW c \in Fair, IsOk(Reject(c))
  PROVE  LiveIn(c, c.fp) /\ c.stat # "STA_NOINIT" /\ c \in Good
<1>1. c.fp.fs /\ c.fs_type # 0 /\ c.stat # "STA_NOINIT" /\ c \in Good
  BY RejectType DEF Fair
<1>2. c.fp.id = c.id
  BY DEF Reject, Then, validate, Failed, IsOk, Fair, Ctx
<1> QED
  BY <1>1, <1>2 DEF LiveIn

\* ... nothing.
LEMMA RejectAlike ==
  ASSUME NEW c \in Fair
  PROVE  Alike(c, Reject(c)) /\ Reject(c).fp = c.fp /\ Reject(c).hit = c.hit
BY DEF Fair, Ctx, Reject, Then, validate, Failed, Ok, IsOk, Alike

\* Open files have entries of their own.
LEMMA OwnEntry ==
  ASSUME NEW c, NEW fils, NEW owners, NEW S, NEW t, Orderly(c, fils, owners, S),
         Titled(t, fils, owners, Lives(c, fils)), NEW h \in Lives(c, fils),
         NEW l \in Lives(c, fils), fils[h].dir_ptr = fils[l].dir_ptr
  PROVE  h = l
BY DEF Orderly, Titled

\* A handle's file object changes, but the handle stays on the same file.
Rebound(c, d, f, p) ==
  /\ d.fs_type = c.fs_type /\ d.id = c.id
  /\ p.fs = f.fs /\ p.id = f.id /\ p.dir_ptr = f.dir_ptr /\ p.wr = f.wr

\* The handle h has another file object.
Binds(fils, h, p, gils) == gils = [fils EXCEPT ![h] = p]

\* It is to be written if it was.
Still(f, p) == f.written => p.written

\* The same files are open, and only that of h changed.
StayOpen(c, d, fils, gils, h, p) ==
  /\ Lives(d, gils) = Lives(c, fils) /\ gils[h] = p /\ gils \in [Handle -> FIL]
  /\ \A l \in Handle : l # h => gils[l] = fils[l]
  /\ \A l \in Handle : gils[l].dir_ptr = fils[l].dir_ptr

\* The files that are open stay.
LEMMA ReboundLives ==
  ASSUME NEW fils \in [Handle -> FIL], NEW h \in Handle, NEW p \in FIL, NEW c, NEW d,
         Rebound(c, d, fils[h], p), NEW gils, Binds(fils, h, p, gils)
  PROVE  StayOpen(c, d, fils, gils, h, p)
<1>1. /\ gils[h] = p /\ gils \in [Handle -> FIL] /\ \A l \in Handle : l # h => gils[l] = fils[l]
  BY DEF Binds
<1>2. \A l \in Handle : /\ gils[l].dir_ptr = fils[l].dir_ptr
                        /\ LiveIn(d, gils[l]) <=> LiveIn(c, fils[l])
  BY <1>1 DEF Rebound, LiveIn
<1>3. Lives(d, gils) = Lives(c, fils)
  BY <1>2 DEF Lives
<1> QED
  BY <1>1, <1>2, <1>3 DEF StayOpen

\* ... so do those no call failed on, and the entries to be written.
LEMMA ReboundPairs ==
  ASSUME NEW fils \in [Handle -> FIL], NEW h \in Handle, NEW p \in FIL, NEW c, NEW d,
         Rebound(c, d, fils[h], p), NEW gils, Binds(fils, h, p, gils), NEW owners
  PROVE  /\ \A u : Sure(d, gils, owners, u) = Sure(c, fils, owners, u)
         /\ Still(fils[h], p) => Pairs(c, fils, owners) \subseteq Pairs(d, gils, owners)
<1>1. /\ Lives(d, gils) = Lives(c, fils) /\ gils[h] = p
      /\ \A l \in Handle : l # h => gils[l] = fils[l]
      /\ \A l \in Handle : gils[l].dir_ptr = fils[l].dir_ptr
  <2>1. StayOpen(c, d, fils, gils, h, p)
    BY ReboundLives
  <2> QED
    BY <2>1 DEF StayOpen
<1>4. \A u : Sure(d, gils, owners, u) = Sure(c, fils, owners, u)
  BY <1>1 DEF Sure
<1>5. ASSUME Still(fils[h], p)
      PROVE  Pairs(c, fils, owners) \subseteq Pairs(d, gils, owners)
  <2> SUFFICES ASSUME NEW l \in Lives(c, fils), fils[l].written
               PROVE  <<fils[l].dir_ptr, owners[l]>> \in Pairs(d, gils, owners)
    BY DEF Pairs
  <2>1. l \in Lives(d, gils) /\ gils[l].written /\ gils[l].dir_ptr = fils[l].dir_ptr
    BY <1>1, <1>5 DEF Lives, Still
  <2> QED
    BY <2>1 DEF Pairs
<1> QED
  BY <1>4, <1>5

\* A file that is to be written and was not opened for it is empty.
Bare(p) == ~p.wr /\ p.written => p.sclust = 0 /\ p.fsize = 0 /\ p.fptr = 0

\* The handles stay as orderly, if an empty file that was not opened for writing stays so.
LEMMA ReboundOrderly ==
  ASSUME NEW fils \in [Handle -> FIL], NEW h \in Handle, NEW p \in FIL, NEW c, NEW d,
         Rebound(c, d, fils[h], p), NEW gils, Binds(fils, h, p, gils), NEW owners,
         NEW S, S \subseteq Handle, Orderly(c, fils, owners, S),
         h \in Lives(c, fils) => Bare(p)
  PROVE  Orderly(d, gils, owners, S)
<1>1. /\ Lives(d, gils) = Lives(c, fils) /\ gils[h] = p
      /\ \A l \in Handle : l # h => gils[l] = fils[l]
  <2>1. StayOpen(c, d, fils, gils, h, p)
    BY ReboundLives
  <2> QED
    BY <2>1 DEF StayOpen
<1>2. \A l \in Handle : gils[l].fs => gils[l].id <= d.id
  BY <1>1 DEF Orderly, Rebound
<1>3. \A l \in S : gils[l].fs /\ gils[l].wr
  BY <1>1 DEF Orderly, Rebound
<1>4. \A l \in Lives(d, gils) : ~gils[l].wr /\ gils[l].written =>
        gils[l].sclust = 0 /\ gils[l].fsize = 0 /\ gils[l].fptr = 0
  BY <1>1 DEF Orderly, Lives, Bare
<1>5. \A l, q \in Lives(d, gils) : owners[l] = owners[q] => l = q
  BY <1>1 DEF Orderly
<1> QED
  BY <1>2, <1>3, <1>4, <1>5 DEF Orderly

\* Entries stay right when chains become longer.
LEMMA DirGrown ==
  ASSUME NEW m \in Chart, NEW n, NEW i, Grows(m, n, i), NEW dir, NEW X, DirRight(m, dir, X)
  PROVE  DirRight(n, dir, X)
BY RightGrown DEF DirRight

\* A call that only makes chains longer leaves the tables upright; the file h is at its place
\* again, if it was, or a call failed on it.
LEMMA ExtendsUpright ==
  ASSUME NEW fils \in [Handle -> FIL], NEW h \in Handle, NEW c \in Good, NEW d \in Good,
         NEW gils, Binds(fils, h, d.fp, gils), NEW owners, NEW S,
         c.fp = fils[h], d.fp \in FIL, Filed(c, d), Extends(c, 0, d, 0),
         \A l \in Lives(c, fils) : fils[l].dir_ptr \in Label,
         Still(c.fp, d.fp), h \in Lives(c, fils),
         NEW k, NEW u, h \in S => owners[h] \in u,
         Upright(c, fils, owners, S, k, u), Orderly(c, fils, owners, S)
  PROVE  Upright(d, gils, owners, S, k, u)
<1> DEFINE X == Exempt(k, u, Pairs(c, fils, owners))
           Y == Exempt(k, u, Pairs(d, gils, owners))
           L == Sure(c, fils, owners, u)
           i == IF h \in L THEN c.fp.dir_ptr ELSE 0
           dir == TableV(c).dir
<1> SUFFICES ASSUME u # Name
             PROVE  /\ SoundTable(TableC(d), Y)
                    /\ Held(TableV(d), Y, gils, Sure(d, gils, owners, u), S)
                    /\ Titled(TableV(d), gils, owners, Lives(d, gils))
  BY DEF Upright
<1>1. /\ SoundTable(TableC(c), X) /\ Held(TableV(c), X, fils, L, S)
      /\ Titled(TableV(c), fils, owners, Lives(c, fils))
  BY DEF Upright
<1>2. Rebound(c, d, fils[h], d.fp)
  BY DEF Rebound, Filed
<1>3. /\ Lives(d, gils) = Lives(c, fils) /\ gils[h] = d.fp
      /\ \A l \in Handle : l # h => gils[l] = fils[l]
      /\ \A l \in Handle : gils[l].dir_ptr = fils[l].dir_ptr
  <2>1. StayOpen(c, d, fils, gils, h, d.fp)
    BY <1>2, ReboundLives
  <2> QED
    BY <2>1 DEF StayOpen
<1>30. Sure(d, gils, owners, u) = L /\ Pairs(c, fils, owners) \subseteq Pairs(d, gils, owners)
  BY <1>2, ReboundPairs, SMTT(60)
<1>4. X \subseteq Y
  BY <1>30 DEF Exempt
<1>5. /\ TableV(c).fat = FatV(c) /\ dir = DirV(c) /\ TableV(d).fat = FatV(d)
      /\ TableV(d).dir = DirV(d) /\ TableV(c) \in Tables
  BY TableType
<1>6. L \subseteq Lives(c, fils) /\ (h \in L => h \notin S) /\ Lives(c, fils) \subseteq Handle
  BY DEF Sure, Lives
<1>7. i \in 0 .. n_rootdir /\ (h \in L => i \in Label)
  BY FatFsAssumption DEF Label
<1> HIDE DEF X, Y, L, dir, i
<1>8. PICK m \in Chart : /\ Charted(TableV(c).fat, m) /\ DirRight(m, dir, X)
                         /\ \A l \in L : Fitted(m, fils[l], l \notin S)
  BY <1>1 DEF Held, dir
<1>9. Fits(m, i, c.fp, TRUE, 0)
  <2>1. CASE h \in L
    BY <1>6, <1>8, <2>1 DEF Fitted, i
  <2>2. CASE h \notin L
    BY <2>2 DEF Fits, i
  <2> QED
    BY <2>1, <2>2
<1>10. /\ Through(c, d, Grown(m, i, dir))
       /\ \E n \in Chart : Charted(FatV(d), n) /\ Grows(m, n, i) /\ Fits(n, i, d.fp, TRUE, 0)
  BY <1>5, <1>7, <1>8, <1>9 DEF Extends
<1>11. PICK n \in Chart : Charted(FatV(d), n) /\ Grows(m, n, i) /\ Fits(n, i, d.fp, TRUE, 0)
  BY <1>10
<1>12. TableV(d).dir = dir /\ (TableC(d) = TableC(c) \/ TableC(d) \in Grown(m, i, dir))
  BY <1>10 DEF Through, Grown
<1>13. SoundTable(TableC(d), Y)
  <2>1. CASE TableC(d) = TableC(c)
    BY <1>1, <1>4, <2>1, SoundTableMore
  <2>2. CASE TableC(d) \in Grown(m, i, dir)
    <3>1. PICK o \in Chart : Charted(TableC(d).fat, o) /\ Grows(m, o, i)
      BY <2>2 DEF Grown
    <3>2. TableC(d).dir = dir /\ DirRight(o, dir, X)
      BY <1>8, <2>2, <3>1, DirGrown DEF Grown
    <3>3. SoundTable(TableC(d), X)
      BY <3>1, <3>2 DEF SoundTable
    <3> QED
      BY <1>4, <3>3, SoundTableMore
  <2> QED
    BY <1>12, <2>1, <2>2
<1>14. ASSUME NEW l \in L PROVE Fitted(n, gils[l], l \notin S)
  <2>1. CASE l = h
    <3>1. i # 0 /\ i = d.fp.dir_ptr /\ l \notin S
      BY <1>6, <1>7, <2>1, FatFsAssumption DEF i, Label, Filed
    <3>2. Holds(n, i, d.fp.fsize)
      BY <1>11, <3>1 DEF Fits
    <3>3. Fits(n, d.fp.dir_ptr, d.fp, TRUE, 0) /\ Holds(n, d.fp.dir_ptr, d.fp.fsize)
      BY <1>11, <3>1, <3>2
    <3>4. (l \notin S) = TRUE /\ gils[l] = d.fp
      BY <1>3, <2>1, <3>1
    <3> QED
      BY <3>3, <3>4 DEF Fitted
  <2>2. CASE l # h
    <3>1. gils[l] = fils[l] /\ l \in Lives(c, fils) /\ fils[l].dir_ptr \in Label
      BY <1>3, <1>6, <2>2
    <3>2. fils[l].dir_ptr # i
      <4>1. CASE h \in L
        BY <1>1, <1>6, <2>2, <3>1, <4>1, OwnEntry DEF i
      <4>2. CASE h \notin L
        BY <3>1, <4>2, FatFsAssumption DEF i, Label
      <4> QED
        BY <4>1, <4>2
    <3>3. Fitted(m, fils[l], l \notin S)
      BY <1>8
    <3>4. Fitted(n, fils[l], l \notin S)
      BY <1>11, <3>1, <3>2, <3>3, GrowsFitted
    <3> QED
      BY <3>1, <3>4
  <2> QED
    BY <2>1, <2>2
<1>15. Held(TableV(d), Y, gils, Sure(d, gils, owners, u), S)
  <2>1. DirRight(n, dir, X)
    BY <1>8, <1>11, DirGrown
  <2>2. DirRight(n, dir, Y)
    BY <1>4, <2>1 DEF DirRight
  <2> QED
    BY <1>5, <1>11, <1>12, <1>14, <1>30, <2>2 DEF Held
<1>16. Titled(TableV(d), gils, owners, Lives(d, gils))
  BY <1>1, <1>3, <1>6, <1>12 DEF Titled, dir
<1> QED
  BY <1>13, <1>15, <1>16

\* So does a read, a write or a seek.
LEMMA WorkedUpright ==
  ASSUME NEW fils \in [Handle -> FIL], NEW h \in Handle, NEW c \in Fair, NEW d \in Worked(c),
         NEW gils, Binds(fils, h, d.fp, gils), NEW owners, NEW S, S \subseteq Handle,
         c.fp = fils[h], \A l \in Handle : Listed(fils[l]),
         NEW k, NEW u, h \in S /\ h \in Lives(c, fils) => owners[h] \in u,
         Upright(c, fils, owners, S, k, u), Orderly(c, fils, owners, S)
  PROVE  Upright(d, gils, owners, S, k, u) /\ Orderly(d, gils, owners, S)
<1>1. d \in Fair /\ Filed(c, d) /\ d.fp \in FIL
  BY DEF Worked, Result, Fair, Ctx
<1>2. CASE ~IsOk(Reject(c))
  <2>1. d = Reject(c)
    BY <1>2 DEF Worked
  <2>2. Alike(c, d) /\ d.fp = c.fp
    BY <2>1, RejectAlike
  <2>3. gils = fils
    BY <2>2 DEF Binds
  <2> QED
    BY <2>2, <2>3, AlikeUpright
<1>3. CASE IsOk(Reject(c))
  <2>1. /\ c \in Good /\ d \in Good /\ Extends(c, 0, d, 0) /\ (c.fp.written => d.fp.written)
        /\ ~c.fp.wr =>
             /\ d.fp.written = c.fp.written /\ d.fp.fsize = c.fp.fsize
             /\ c.fp.fptr = 0 /\ c.fp.fsize = 0 => d.fp.fptr = 0 /\ d.fp.sclust = c.fp.sclust
    BY <1>3 DEF Worked
  <2>2. h \in Lives(c, fils)
    BY <1>3, ValidateLive DEF Lives
  <2>3. \A l \in Lives(c, fils) : fils[l].dir_ptr \in Label
    BY DEF Lives, LiveIn, Listed, Label
  <2>4. Upright(d, gils, owners, S, k, u)
    BY <1>1, <2>1, <2>2, <2>3, ExtendsUpright DEF Still
  <2>5. Orderly(d, gils, owners, S)
    <3>1. Rebound(c, d, fils[h], d.fp)
      BY <1>1 DEF Rebound, Filed
    <3>2. Bare(d.fp)
      BY <1>1, <2>1, <2>2 DEF Orderly, Filed, Bare
    <3> QED
      BY <1>1, <3>1, <3>2, ReboundOrderly
  <2> QED
    BY <2>4, <2>5
<1> QED
  BY <1>2, <1>3

---------------------------------------------------------------------------
(* What a call says of files.                                              *)

\* The files a call may have changed, for the card's sake.
Touched(h, names) ==
  IF h = 0 \/ ~fil[h].fs THEN names
  ELSE IF Live(h) /\ fil[h].wr THEN {owner[h]} ELSE {}

\* ... those it failed on,
Doubted(c, h, names) ==
  IF Touched(h, names) \cap unsure[card] # {} THEN Name
  ELSE IF h \in stray THEN Touched(h, names)
  ELSE IF c.hit /\ ~IsOk(c) THEN names ELSE {}

\* ... and those that are cut.
CutBy(c, names, request) ==
  CASE request.how.trunc /\ ~request.how.creat -> cut[card] \cup names
    [] request.op = "ftruncate" -> cut[card] \cup names
    [] request.op = "rename" /\ c.hit -> cut[card] \cup names
    [] request.op \in {"fsync", "close"} /\ IsOk(c) -> cut[card] \ (names \ unsure[card])
    [] OTHER -> cut[card]

\* A call returns so.
LEMMA ReturnMarks ==
  ASSUME NEW c, NEW names, NEW request, NEW fils, NEW owners,
         Return(c, names, request, fils, owners)
  PROVE  /\ Marks(CutBy(c, names, request), unsure[card] \cup Doubted(c, request.h, names))
         /\ Returned(c) /\ fil' = fils /\ owner' = owners
<1>1. Returned(c) /\ fil' = fils /\ owner' = owners
  BY DEF Return, Returned
<1>2. unsure' = [unsure EXCEPT ![card] = unsure[card] \cup Doubted(c, request.h, names)]
  BY DEF Return, Doubted, Touched
<1>3. cut' = [cut EXCEPT ![card] = CutBy(c, names, request)]
  BY DEF Return, CutBy
<1> QED
  BY <1>1, <1>2, <1>3 DEF Marks

\* Requests that cut nothing.
LEMMA CutNothing ==
  ASSUME NEW c, NEW names, NEW request, request.how = NoFlags,
         request.op \notin {"ftruncate", "rename", "fsync", "close"}
  PROVE  CutBy(c, names, request) = cut[card]
BY DEF CutBy, NoFlags

\* A call on an open file doubts a file with a name, and the one ftruncate left between two
\* positions.
LEMMA HandleDoubts ==
  ASSUME TypeInv, SoundInv, stat # "STA_NOINIT", NEW h \in Handle, fil[h].fs,
         NEW x, Begins(fil[h], x), NEW c, NEW names \in SUBSET Name
  PROVE  /\ Doubted(c, h, names) \subseteq Name
         /\ h \in stray /\ h \in Lives(x, fil) => owner[h] \in Doubted(c, h, names)
<1>1. owner[h] \in Name /\ h # 0
  BY Owned, FatDevAssumption
<1>2. Touched(h, names) \subseteq Name
  BY <1>1 DEF Touched
<1>3. Doubted(c, h, names) \subseteq Name
  BY <1>2 DEF Doubted
<1>4. ASSUME h \in stray, h \in Lives(x, fil) PROVE owner[h] \in Doubted(c, h, names)
  <2>1. fil[h].wr
    BY <1>4 DEF SoundInv, Orderly
  <2>2. x.fs_type = fs.fs_type /\ x.id = fs.id /\ fil[h] \in FIL
    BY BeginsType DEF TypeInv, Filled
  <2>3. LiveIn(x, fil[h])
    BY <1>4 DEF Lives
  <2>4. Live(h)
    <3>1. Here.fs_type = fs.fs_type /\ Here.id = fs.id /\ Here.stat = stat
      BY DEF Here, Context
    <3> QED
      BY <2>2, <2>3, <3>1 DEF Live, Valid, Mounted, LiveIn
  <2>5. Touched(h, names) = {owner[h]}
    BY <1>1, <2>1, <2>4 DEF Touched
  <2> QED
    BY <1>1, <1>4, <2>5 DEF Doubted
<1> QED
  BY <1>3, <1>4

\* While the card in the slot is not initialized, calls on open files are refused; what was
\* said of files before stays.
LEMMA SoundIdle ==
  ASSUME TypeInv, SoundInv, stat = "STA_NOINIT", Alike(AtRest, AtRest'), volume' = volume,
         stat' = stat, sec' = sec, unsure' = unsure, \A c \in Card : cut[c] \subseteq cut'[c],
         Fewer(AtRest, fil, owner, stray, fil', owner', stray')
  PROVE  SoundInv'
<1> DEFINE k == cut[volume]
           u == unsure[volume]
<1>1. volume \in Card /\ u \in SUBSET Name
  BY DEF TypeInv
<1>2. \A h \in Lives(AtRest, fil) : fil[h].written => owner[h] \in u
  BY DEF SoundInv
<1>3. /\ Upright(AtRest, fil, owner, stray, k, u) /\ Orderly(AtRest, fil, owner, stray)
  BY DEF SoundInv
<1>4. Exempt(k, u, Pairs(AtRest, fil, owner)) \subseteq Exempt(k, u, {})
  BY <1>2, LostExempt
<1>5. Exempt(k, u, {}) \subseteq Exempt(k, u, Pairs(AtRest, fil', owner'))
  BY DEF Exempt
<1>6. Upright(AtRest, fil', owner', stray', k, u) /\ Orderly(AtRest, fil', owner', stray')
  BY <1>3, <1>4, <1>5, FewerUpright, FewerOrderly
<1>7. /\ Upright(AtRest', fil', owner', stray', k, u) /\ Orderly(AtRest', fil', owner', stray')
      /\ Lives(AtRest', fil') = Lives(AtRest, fil')
  BY <1>6, AlikeUpright
<1>8. Upright(AtRest', fil', owner', stray', cut'[volume'], unsure'[volume'])
  BY <1>1, <1>7, UprightMore
<1>9. \A c \in Card : c # volume' /\ unsure'[c] # Name =>
        SoundTable(Table(sec'[c]), Exempt(cut'[c], unsure'[c], {}))
  <2> SUFFICES ASSUME NEW c \in Card, c # volume, unsure[c] # Name
               PROVE  SoundTable(Table(sec[c]), Exempt(cut'[c], unsure[c], {}))
    OBVIOUS
  <2>1. SoundTable(Table(sec[c]), Exempt(cut[c], unsure[c], {}))
    BY DEF SoundInv
  <2>2. Exempt(cut[c], unsure[c], {}) \subseteq Exempt(cut'[c], unsure[c], {})
    BY DEF Exempt
  <2> QED
    BY <2>1, <2>2, SoundTableMore
<1>10. \A h \in Lives(AtRest', fil') : fil'[h].written => owner'[h] \in unsure'[volume']
  BY <1>2, <1>7 DEF Fewer
<1> QED
  BY <1>7, <1>8, <1>9, <1>10 DEF SoundInv

\* A call that is refused so keeps the invariant.
LEMMA IdleCall ==
  ASSUME TypeInv, SoundInv, stat = "STA_NOINIT", NEW h \in Handle, fil[h].fs,
         NEW x, Begins(fil[h], x), NEW c, c = Failed(x, "FR_INVALID_OBJECT"),
         NEW names, NEW request, request.h = h, NEW fils, NEW owners,
         Return(c, names, request, fils, owners), cut[card] \subseteq CutBy(c, names, request),
         Fewer(AtRest, fil, owner, stray, fils, owners, stray')
  PROVE  SoundInv'
<1>1. /\ Marks(CutBy(c, names, request), unsure[card] \cup Doubted(c, h, names))
      /\ Returned(c) /\ fil' = fils /\ owner' = owners
  BY ReturnMarks
<1>2. h # 0 /\ fil[h] \in FIL /\ card \in Card /\ sec \in [Card -> Sectors]
      /\ unsure \in [Card -> SUBSET Name] /\ cut \in [Card -> SUBSET Name]
  BY FatDevAssumption DEF TypeInv, Filled
<1>3. /\ x \in Fair /\ x.stat = stat /\ ~x.hit /\ x.sec = sec[card] /\ x.winsect = fs.winsect
      /\ x.win = fs.win /\ x.wflag = fs.wflag /\ x.fs_type = fs.fs_type /\ x.id = fs.id
  BY <1>2, BeginsType
<1>4. /\ c.stat = stat /\ ~c.hit /\ c.sec = sec[card] /\ c.winsect = fs.winsect
      /\ c.win = fs.win /\ c.wflag = fs.wflag /\ c.fs_type = fs.fs_type /\ c.id = fs.id
  BY <1>3 DEF Failed, Fair, Ctx
<1>5. ~Live(h)
  BY DEF Live, Valid, Mounted, Here, Context
<1>6. Doubted(c, h, names) = {}
  BY <1>2, <1>4, <1>5 DEF Doubted, Touched
<1>7. unsure' = unsure /\ cut' = [cut EXCEPT ![card] = CutBy(c, names, request)]
  BY <1>1, <1>2, <1>6 DEF Marks
<1>8. \A d \in Card : cut[d] \subseteq cut'[d]
  BY <1>2, <1>7
<1>9. /\ fs'.fs_type = fs.fs_type /\ fs'.id = fs.id /\ fs'.winsect = fs.winsect
      /\ fs'.win = fs.win /\ fs'.wflag = fs.wflag
  BY <1>1, <1>4, ReturnedFields
<1>10. sec' = sec /\ stat' = stat /\ volume' = volume
  BY <1>1, <1>2, <1>4 DEF Returned
<1>11. Alike(AtRest, AtRest')
  BY <1>9, <1>10 DEF Alike, AtRest, Resting
<1> QED
  BY <1>1, <1>7, <1>8, <1>10, <1>11, SoundIdle

\* The same handles.
LEMMA FewerSame ==
  ASSUME NEW g, NEW fils, NEW owners, NEW S
  PROVE  Fewer(g, fils, owners, S, fils, owners, S)
BY DEF Fewer

\* A read, a write or a seek keeps the invariant.
LEMMA SoundWorked ==
  ASSUME TypeInv, SoundInv, NEW h \in Handle, fil[h].fs, NEW x, Begins(fil[h], x),
         NEW c \in Worked(x), x.stat = "STA_NOINIT" => c = Failed(x, "FR_INVALID_OBJECT"),
         NEW names \in SUBSET Name, NEW request, request.h = h, request.how = NoFlags,
         request.op \notin {"ftruncate", "rename", "fsync", "close"},
         Return(c, names, request, [fil EXCEPT ![h] = c.fp], owner), stray' = stray
  PROVE  SoundInv'
<1> DEFINE gils == [fil EXCEPT ![h] = c.fp]
<1>1. CutBy(c, names, request) = cut[card]
  BY CutNothing
<1>2. /\ x \in Fair /\ x.fp = fil[h] /\ x.stat = stat /\ fil[h] \in FIL
      /\ fil \in [Handle -> FIL] /\ stray \subseteq Handle /\ \A l \in Handle : Listed(fil[l])
      /\ card \in Card /\ unsure \in [Card -> SUBSET Name]
  BY BeginsType DEF TypeInv, Filled
<1>3. CASE stat = "STA_NOINIT"
  <2>1. c = Failed(x, "FR_INVALID_OBJECT") /\ c.fp = fil[h]
    BY <1>2, <1>3 DEF Failed, Fair, Ctx
  <2>2. gils = fil
    BY <1>2, <2>1
  <2>3. Fewer(AtRest, fil, owner, stray, fil, owner, stray')
    BY FewerSame
  <2> QED
    BY <1>1, <1>3, <2>1, <2>2, <2>3, IdleCall
<1>4. CASE stat # "STA_NOINIT"
  <2> DEFINE k == cut[card]
             u == unsure[card] \cup Doubted(c, h, names)
  <2>1. Marks(k, u) /\ Returned(c) /\ fil' = gils /\ owner' = owner
    BY <1>1, ReturnMarks
  <2>2. /\ Upright(x, fil, owner, stray, k, unsure[card]) /\ Orderly(x, fil, owner, stray)
    BY <1>2, <1>4, HandleUpright
  <2>3. /\ u \in SUBSET Name /\ unsure[card] \subseteq u
        /\ h \in stray /\ h \in Lives(x, fil) => owner[h] \in u
    BY <1>2, <1>4, HandleDoubts
  <2>4. c.fp \in FIL /\ c.stat # "STA_NOINIT"
    BY <1>2, <1>4 DEF Worked, Result, Fair, Ctx, Filed
  <2>5. Binds(fil, h, c.fp, gils) /\ gils \in [Handle -> FIL]
    BY <1>2, <2>4 DEF Binds
  <2> HIDE DEF k, u, gils
  <2>6. Upright(x, fil, owner, stray, k, u)
    BY <2>2, <2>3, UprightMore
  <2>7. Upright(c, gils, owner, stray, k, u) /\ Orderly(c, gils, owner, stray)
    BY <1>2, <2>2, <2>3, <2>5, <2>6, WorkedUpright
  <2> QED
    BY <2>1, <2>4, <2>5, <2>7, SoundEnds
<1> QED
  BY <1>3, <1>4

\* Read keeps the invariant.
LEMMA SoundRead ==
  ASSUME TypeInv, SoundInv, NEW h \in Handle, NEW n \in Nat, Read(h, n)
  PROVE  SoundInv'
<1> DEFINE r == [Request("read", h) EXCEPT !.n = n]
           names == {}
<1>1. PICK x : /\ Begins(fil[h], x) /\ ops < MaxOps /\ stray' = stray
               /\ LET c == f_read(x, n)
                  IN Return(c, names, r, [fil EXCEPT ![h] = c.fp], owner)
  BY ReadStep
<1> DEFINE c == f_read(x, n)
<1>2. c \in Worked(x)
  BY <1>1, HandleBegins, ReadFileType
<1>3. x.stat = "STA_NOINIT" => c = Failed(x, "FR_INVALID_OBJECT")
  BY <1>1, HandleBegins, Untouched
<1>4. /\ r.h = h /\ names \in SUBSET Name /\ r.how = NoFlags
      /\ r.op \notin {"ftruncate", "rename", "fsync", "close"}
  BY DEF Request
<1>5. fil[h].fs
  BY DEF Read, OnHandle
<1>6. Return(c, names, r, [fil EXCEPT ![h] = c.fp], owner)
  BY <1>1
<1> HIDE DEF c, r, names
<1> QED
  BY <1>1, <1>2, <1>3, <1>4, <1>5, <1>6, SoundWorked

\* Write keeps the invariant.
LEMMA SoundWrite ==
  ASSUME TypeInv, SoundInv, NEW h \in Handle, NEW n \in Nat, Write(h, n)
  PROVE  SoundInv'
<1> DEFINE data == [i \in 1 .. n |-> 10 * (ops + 1) + i]
           names == {owner[h]}
           r == [Request("write", h) EXCEPT !.data = data]
<1>1. PICK x : /\ Begins(fil[h], x) /\ ops < MaxOps /\ stray' = stray /\ fil[h].fs
               /\ LET c == f_write(x, data)
                  IN Return(c, names, r, [fil EXCEPT ![h] = c.fp], owner)
  BY WriteStep
<1> DEFINE c == f_write(x, data)
<1>2. data \in Seq(Int)
  <2>1. ops \in Nat
    BY DEF TypeInv
  <2> QED
    BY <2>1
<1>3. /\ r.h = h /\ names \in SUBSET Name /\ r.how = NoFlags
      /\ r.op \notin {"ftruncate", "rename", "fsync", "close"}
  BY <1>1, Owned DEF Request
<1>4. Return(c, names, r, [fil EXCEPT ![h] = c.fp], owner)
  BY <1>1
<1> HIDE DEF data, r, names
<1>5. c \in Worked(x)
  BY <1>1, <1>2, HandleBegins, WriteFileType
<1>6. x.stat = "STA_NOINIT" => c = Failed(x, "FR_INVALID_OBJECT")
  BY <1>1, HandleBegins, Untouched, SMTT(60)
<1> HIDE DEF c
<1> QED
  BY <1>1, <1>3, <1>4, <1>5, <1>6, SoundWorked

\* Seek keeps the invariant.
LEMMA SoundSeek ==
  ASSUME TypeInv, SoundInv, NEW h \in Handle, NEW pos \in Int,
         NEW dir \in {"SET", "CUR", "END"}, Seek(h, pos, dir)
  PROVE  SoundInv'
<1> DEFINE dword == SeekOff(h, pos, dir) % Wrap
           names == IF fil[h].wr THEN {owner[h]} ELSE {}
           r == [Request("seek", h) EXCEPT !.n = dword]
<1>1. PICK x : /\ Begins(fil[h], x) /\ ops < MaxOps /\ stray' = stray /\ fil[h].fs
               /\ LET c == f_lseek(x, dword)
                  IN Return(c, names, r, [fil EXCEPT ![h] = c.fp], owner)
  BY SeekStep
<1> DEFINE c == f_lseek(x, dword)
<1>2. dword \in Nat
  BY SeekStep
<1>3. /\ r.h = h /\ names \in SUBSET Name /\ r.how = NoFlags
      /\ r.op \notin {"ftruncate", "rename", "fsync", "close"}
  BY <1>1, Owned DEF Request
<1>4. Return(c, names, r, [fil EXCEPT ![h] = c.fp], owner)
  BY <1>1
<1> HIDE DEF dword, r, names
<1>5. c \in Worked(x)
  BY <1>1, <1>2, HandleBegins, LseekType
<1>6. x.stat = "STA_NOINIT" => c = Failed(x, "FR_INVALID_OBJECT")
  BY <1>1, HandleBegins, Untouched
<1> HIDE DEF c
<1> QED
  BY <1>1, <1>3, <1>4, <1>5, <1>6, SoundWorked

---------------------------------------------------------------------------
(* The card is pulled, or another inserted.                                *)

\* The volume stays when the card goes.
LEMMA SoundPull ==
  ASSUME TypeInv, SoundInv, Pull
  PROVE  SoundInv'
<1>1. /\ fs' = fs /\ sec' = sec /\ volume' = volume /\ fil' = fil /\ owner' = owner
      /\ stray' = stray /\ unsure' = unsure /\ cut' = cut /\ stat' = "STA_NODISK"
  BY DEF Pull
<1>2. Alike(AtRest, AtRest')
  BY <1>1 DEF Alike, AtRest, Resting
<1>3. /\ Upright(AtRest, fil, owner, stray, cut[volume], unsure[volume])
      /\ Orderly(AtRest, fil, owner, stray)
  BY DEF SoundInv
<1>4. /\ Upright(AtRest', fil, owner, stray, cut[volume], unsure[volume])
      /\ Orderly(AtRest', fil, owner, stray)
  BY <1>2, <1>3, AlikeUpright
<1> QED
  BY <1>1, <1>4 DEF SoundInv

\* The volume that is mounted has open files, as a call on them sees it.
LEMMA LiveHere ==
  ASSUME TypeInv, stat # "STA_NOINIT", NEW h \in Handle
  PROVE  Live(h) <=> LiveIn(AtRest, fil[h])
BY DEF Live, Valid, Mounted, Here, Context, LiveIn, AtRest, Resting

\* What was to be written to the card that was pulled is lost.
LEMMA SoundInsert ==
  ASSUME TypeInv, SoundInv, NEW c \in Card, Insert(c)
  PROVE  SoundInv'
<1>1. /\ fs' = fs /\ sec' = sec /\ volume' = volume /\ fil' = fil /\ owner' = owner
      /\ stray' = stray /\ cut' = cut /\ stat = "STA_NODISK" /\ stat' = "STA_NOINIT"
      /\ unsure' = [unsure EXCEPT ![card] = unsure[card] \cup Unsynced]
  BY DEF Insert
<1>2. /\ volume = card /\ card \in Card /\ unsure \in [Card -> SUBSET Name]
  BY <1>1 DEF TypeInv
<1>3. Unsynced \subseteq Name
  BY UnsyncedType
<1> DEFINE u == unsure[volume] \cup Unsynced
<1>4. /\ unsure'[volume] = u /\ \A d \in Card : d # volume => unsure'[d] = unsure[d]
  BY <1>1, <1>2
<1>5. Alike(AtRest, AtRest')
  BY <1>1 DEF Alike, AtRest, Resting
<1>6. /\ Upright(AtRest, fil, owner, stray, cut[volume], unsure[volume])
      /\ Orderly(AtRest, fil, owner, stray)
  BY DEF SoundInv
<1>7. u \in SUBSET Name /\ unsure[volume] \subseteq u
  BY <1>2, <1>3
<1>8. \A h \in Lives(AtRest, fil) : fil[h].written => owner[h] \in u
  <2> SUFFICES ASSUME NEW h \in Lives(AtRest, fil), fil[h].written PROVE owner[h] \in Unsynced
    OBVIOUS
  <2>1. h \in Handle /\ Live(h)
    BY <1>1, LiveHere DEF Lives
  <2> QED
    BY <2>1 DEF Unsynced
<1> HIDE DEF u
<1>9. Upright(AtRest, fil, owner, stray, cut[volume], u)
  BY <1>6, <1>7, UprightMore
<1>10. /\ Upright(AtRest', fil, owner, stray, cut[volume], u)
       /\ Orderly(AtRest', fil, owner, stray)
       /\ Lives(AtRest', fil) = Lives(AtRest, fil)
  BY <1>5, <1>6, <1>9, AlikeUpright
<1>11. \A d \in Card : d # volume' /\ unsure'[d] # Name =>
         SoundTable(Table(sec'[d]), Exempt(cut'[d], unsure'[d], {}))
  BY <1>1, <1>4 DEF SoundInv
<1>12. \A h \in Lives(AtRest', fil') : fil'[h].written => owner'[h] \in unsure'[volume']
  BY <1>1, <1>4, <1>8, <1>10
<1> QED
  BY <1>1, <1>4, <1>10, <1>11, <1>12 DEF SoundInv

\* A step that changes nothing keeps the invariant.
LEMMA SoundStutter ==
  ASSUME SoundInv, UNCHANGED vars
  PROVE  SoundInv'
BY DEF SoundInv, vars, AtRest

---------------------------------------------------------------------------
(* A file is synchronized.                                                 *)

\* What leaves the tables leaves them upright.
LEMMA QuietUpright ==
  ASSUME NEW c, NEW d, Quiet(c, d), SameVolume(c, d), NEW fils, NEW owners, NEW S
  PROVE  /\ \A k, u : Upright(c, fils, owners, S, k, u) => Upright(d, fils, owners, S, k, u)
         /\ Orderly(c, fils, owners, S) => Orderly(d, fils, owners, S)
<1>1. Lives(d, fils) = Lives(c, fils)
  BY DEF SameVolume, Lives, LiveIn
<1>2. /\ Pairs(d, fils, owners) = Pairs(c, fils, owners)
      /\ \A u : Sure(d, fils, owners, u) = Sure(c, fils, owners, u)
  BY <1>1 DEF Pairs, Sure
<1>3. ASSUME NEW k, NEW u, Upright(c, fils, owners, S, k, u)
      PROVE  Upright(d, fils, owners, S, k, u)
  <2> DEFINE X == Exempt(k, u, Pairs(c, fils, owners))
  <2>1. ASSUME u # Name
        PROVE  /\ SoundTable(TableC(c), X)
               /\ Held(TableV(c), X, fils, Sure(c, fils, owners, u), S)
               /\ Titled(TableV(c), fils, owners, Lives(c, fils))
    BY <1>3, <2>1 DEF Upright
  <2>2. ASSUME u # Name PROVE SoundTable(TableV(c), X)
    BY <2>1, <2>2 DEF Held, SoundTable
  <2>3. ASSUME u # Name PROVE SoundTable(TableC(d), X)
    BY <2>1, <2>2, <2>3 DEF Quiet
  <2> HIDE DEF X
  <2>4. X = Exempt(k, u, Pairs(d, fils, owners))
    BY <1>2 DEF X
  <2> QED
    BY <1>1, <1>2, <2>1, <2>3, <2>4 DEF Upright, Quiet
<1>4. Orderly(c, fils, owners, S) => Orderly(d, fils, owners, S)
  BY <1>1 DEF Orderly, SameVolume
<1> QED
  BY <1>3, <1>4

\* What a call that ends so with d says of the file n of a handle; u are the files calls
\* failed on before, v and l are those and the ones cut afterwards.
SyncMarks(n, wr, d, k, u, l, v) ==
  /\ v \in SUBSET Name /\ u \subseteq v
  /\ ~IsOk(d) /\ d.hit => l = k /\ n \in v
  /\ IsOk(d) => l = k \ ({n} \ u)
  /\ wr /\ n \in u => v = Name

\* The entries that may be wrong after a file was synchronized are fewer at most by its own.
LEMMA SyncExempt ==
  ASSUME NEW c, NEW d, NEW fils \in [Handle -> FIL], NEW h \in Handle, NEW p \in FIL,
         Rebound(c, d, fils[h], p), NEW gils, Binds(fils, h, p, gils), NEW owners, NEW S,
         Orderly(c, fils, owners, S), h \in Lives(c, fils),
         NEW k, NEW u, NEW l, NEW v, SyncMarks(owners[h], fils[h].wr, d, k, u, l, v),
         IsOk(d) \/ d.hit,
         NEW e \in Exempt(k, u, Pairs(c, fils, owners)),
         e \notin Exempt(l, v, Pairs(d, gils, owners))
  PROVE  e = <<fils[h].dir_ptr, owners[h]>> /\ fils[h].written /\ IsOk(d) /\ owners[h] \notin u
<1> DEFINE i == fils[h].dir_ptr
           n == owners[h]
<1>1. StayOpen(c, d, fils, gils, h, p)
  BY ReboundLives
<1>2. /\ Lives(d, gils) = Lives(c, fils) /\ gils[h] = p
      /\ \A q \in Handle : q # h => gils[q] = fils[q]
  BY <1>1 DEF StayOpen
<1>3. e \in Label \X Name /\ e[2] \in k /\ (e[2] \in u \/ e \in Pairs(c, fils, owners))
  BY DEF Exempt
<1>4. ASSUME NEW q \in Lives(c, fils), fils[q].written, q # h
      PROVE  <<fils[q].dir_ptr, owners[q]>> \in Pairs(d, gils, owners)
  BY <1>2, <1>4 DEF Pairs, Lives
<1>5. e[2] \in l => e[2] \notin v /\ e \notin Pairs(d, gils, owners)
  BY <1>3 DEF Exempt
<1>6. e[2] \notin l => IsOk(d) /\ e[2] = n /\ n \notin u
  BY <1>3 DEF SyncMarks
<1>7. e[2] \notin u
  BY <1>3, <1>5, <1>6 DEF SyncMarks
<1>8. PICK q \in Lives(c, fils) : fils[q].written /\ e = <<fils[q].dir_ptr, owners[q]>>
  BY <1>3, <1>7 DEF Pairs
<1>9. q = h
  <2>1. SUFFICES ASSUME q # h PROVE FALSE
    OBVIOUS
  <2>2. e[2] \notin l
    BY <1>4, <1>5, <1>8, <2>1
  <2>3. owners[q] = owners[h]
    BY <1>6, <1>8, <2>2
  <2> QED
    BY <1>8, <2>1, <2>3 DEF Orderly
<1>10. e = <<i, n>> /\ fils[h].written
  BY <1>8, <1>9
<1>11. n \notin u
  BY <1>7, <1>10
<1>12. IsOk(d)
  <2>1. SUFFICES ASSUME ~IsOk(d) PROVE FALSE
    OBVIOUS
  <2>2. l = k /\ n \in v
    BY <2>1 DEF SyncMarks
  <2> QED
    BY <1>3, <1>5, <1>10, <2>2
<1> QED
  BY <1>10, <1>11, <1>12

\* The entry of a file gets what the file object says, or does not, since the card fails.
LEMMA StampUpright ==
  ASSUME NEW fils \in [Handle -> FIL], NEW h \in Handle, NEW c \in Good, NEW d \in Good,
         NEW gils, Binds(fils, h, d.fp, gils), NEW owners, NEW S,
         c.fp = fils[h], d.fp \in FIL, c.fp.written, h \in Lives(c, fils),
         \A q \in Handle : Listed(fils[q]),
         Syncs(c, d, c.fp.dir_ptr,
               EntryFor(TableV(c).dir[c.fp.dir_ptr], c.fp.sclust, c.fp.fsize)),
         NEW k, NEW u, NEW l, NEW v, SyncMarks(owners[h], fils[h].wr, d, k, u, l, v),
         Upright(c, fils, owners, S, k, u), Orderly(c, fils, owners, S)
  PROVE  Upright(d, gils, owners, S, l, v)
<1> DEFINE X == Exempt(k, u, Pairs(c, fils, owners))
           Y == Exempt(l, v, Pairs(d, gils, owners))
           L == Sure(c, fils, owners, u)
           M == Sure(d, gils, owners, v)
           i == c.fp.dir_ptr
           n == owners[h]
           dir == TableV(c).dir
           x == EntryFor(dir[i], c.fp.sclust, c.fp.fsize)
<1> SUFFICES ASSUME v # Name
             PROVE  /\ SoundTable(TableC(d), Y) /\ Held(TableV(d), Y, gils, M, S)
                    /\ Titled(TableV(d), gils, owners, Lives(d, gils))
  BY DEF Upright
<1>1. u # Name /\ u \subseteq v
  BY DEF SyncMarks
<1>2. /\ SoundTable(TableC(c), X) /\ Held(TableV(c), X, fils, L, S)
      /\ Titled(TableV(c), fils, owners, Lives(c, fils))
  BY <1>1 DEF Upright
<1>3. /\ SameFile(c, d) /\ Rebound(c, d, fils[h], d.fp) /\ (~IsOk(d) => d.hit)
      /\ IsOk(d) => Differs(TableV(c), TableV(d), i, x) /\ TableC(d) = TableV(d)
      /\ \/ Quiet(c, d)
         \/ Differs(TableV(c), TableV(d), i, x) /\ TableC(d) \in {TableC(c), TableV(c), TableV(d)}
  BY DEF Syncs, SameFile, Filed, Rebound
<1>4. StayOpen(c, d, fils, gils, h, d.fp)
  BY <1>3, ReboundLives
<1>5. /\ Lives(d, gils) = Lives(c, fils) /\ gils[h] = d.fp
      /\ \A q \in Handle : q # h => gils[q] = fils[q]
  BY <1>4 DEF StayOpen
<1>6. /\ i \in Label /\ TableV(c) \in Tables /\ dir \in [Label -> Entry]
  BY TableType DEF Lives, LiveIn, Listed, Label, Tables
<1>7. dir[i].name = n /\ x.name = n /\ x.clust = c.fp.sclust /\ x.size = c.fp.fsize
  BY <1>2, <1>6 DEF Titled, EntryFor, Entry
<1>8. ASSUME NEW e \in X, e \notin Y PROVE e = <<i, n>> /\ IsOk(d) /\ n \notin u
  BY <1>3, <1>8, SyncExempt
<1>9. M \subseteq L
  BY <1>1, <1>5 DEF Sure
<1>10. \A q \in M : Lives(d, gils) \subseteq Handle /\ q \in Handle
  BY DEF Sure, Lives
<1> HIDE DEF X, Y, L, M, i, n, dir, x
<1>11. PICK m \in Chart : /\ Charted(TableV(c).fat, m) /\ DirRight(m, dir, X)
                          /\ \A q \in L : Fitted(m, fils[q], q \notin S)
  BY <1>2 DEF Held, dir
<1>12. <<i, n>> \in Y \/ Right(m, i, x)
  <2>1. CASE n \notin u
    <3>1. h \in L
      BY <2>1 DEF L, n, Sure
    <3>2. m.hd[i] = c.fp.sclust /\ Holds(m, i, c.fp.fsize)
      BY <1>6, <1>11, <3>1, FatFsAssumption DEF Fitted, Fits, i, Label
    <3> QED
      BY <1>6, <1>7, <1>11, <3>2, RightEntry
  <2>2. CASE n \in u
    <3>1. ~fils[h].wr
      BY <2>2 DEF SyncMarks, n
    <3>2. c.fp.sclust = 0 /\ c.fp.fsize = 0
      BY <3>1 DEF Orderly
    <3> QED
      BY <1>7, <3>2, RightEmpty
  <2> QED
    BY <2>1, <2>2
<1>13. ASSUME Differs(TableV(c), TableV(d), i, x)
       PROVE  TableV(d).fat = TableV(c).fat /\ DirRight(m, TableV(d).dir, Y)
  <2>1. TableV(d).fat = TableV(c).fat /\ TableV(d).dir = [dir EXCEPT ![i] = x]
    BY <1>13 DEF Differs, dir
  <2>2. ASSUME NEW j \in Label, TableV(d).dir[j].name \in Name,
               <<j, TableV(d).dir[j].name>> \notin Y
        PROVE  Right(m, j, TableV(d).dir[j])
    <3>1. CASE j = i
      BY <1>6, <1>7, <1>12, <2>1, <2>2, <3>1
    <3>2. CASE j # i
      <4>1. TableV(d).dir[j] = dir[j]
        BY <1>6, <2>1, <3>2
      <4>2. <<j, dir[j].name>> \notin X
        BY <1>8, <2>2, <3>2, <4>1
      <4> QED
        BY <1>11, <2>2, <4>1, <4>2 DEF DirRight
    <3> QED
      BY <3>1, <3>2
  <2> QED
    BY <2>1, <2>2 DEF DirRight
<1>14. ASSUME ~IsOk(d) PROVE X \subseteq Y
  BY <1>8, <1>14
<1>15. ASSUME ~IsOk(d)
       PROVE  SoundTable(TableC(c), Y) /\ SoundTable(TableV(c), Y) /\ DirRight(m, dir, Y)
  <2>1. SoundTable(TableV(c), X)
    BY <1>2 DEF Held, SoundTable
  <2>2. SoundTable(TableC(c), Y) /\ SoundTable(TableV(c), Y)
    BY <1>2, <1>14, <1>15, <2>1, SoundTableMore
  <2>3. DirRight(m, dir, Y)
    BY <1>11, <1>14, <1>15 DEF DirRight
  <2> QED
    BY <2>2, <2>3
<1>16. Charted(TableV(d).fat, m) /\ DirRight(m, TableV(d).dir, Y)
  BY <1>3, <1>11, <1>13, <1>15 DEF Quiet, dir
<1>17. SoundTable(TableV(d), Y)
  BY <1>16 DEF SoundTable
<1>18. SoundTable(TableC(d), Y)
  BY <1>3, <1>15, <1>17 DEF Quiet
<1>19. ASSUME NEW q \in M PROVE Fitted(m, gils[q], q \notin S)
  <2>1. Fitted(m, fils[q], q \notin S)
    BY <1>9, <1>11
  <2>2. CASE q = h
    <3>1. gils[q] = d.fp /\ fils[q] = c.fp
      BY <1>5, <2>2
    <3> QED
      BY <1>3, <2>1, <3>1 DEF Fitted, Fits, SameFile, Filed
  <2>3. CASE q # h
    BY <1>5, <1>10, <2>1, <2>3
  <2> QED
    BY <2>2, <2>3
<1>20. Held(TableV(d), Y, gils, M, S)
  BY <1>16, <1>19 DEF Held
<1>21. Titled(TableV(d), gils, owners, Lives(d, gils))
  <2> SUFFICES ASSUME NEW q \in Lives(c, fils)
               PROVE  TableV(d).dir[gils[q].dir_ptr].name = owners[q]
    BY <1>5 DEF Titled
  <2>1. gils[q].dir_ptr = fils[q].dir_ptr /\ dir[fils[q].dir_ptr].name = owners[q]
    BY <1>2, <1>4 DEF Titled, StayOpen, Lives, dir
  <2>2. \A j \in Label : TableV(d).dir[j].name = dir[j].name \/ j = i
    <3>1. CASE Quiet(c, d)
      BY <3>1 DEF Quiet, dir
    <3>2. CASE Differs(TableV(c), TableV(d), i, x)
      BY <1>6, <3>2 DEF Differs, dir
    <3> QED
      BY <1>3, <3>1, <3>2
  <2>4. fils[q].dir_ptr \in Label
    BY DEF Lives, LiveIn, Listed, Label
  <2>3. TableV(d).dir[i].name = n
    BY <1>3, <1>6, <1>7 DEF Quiet, Differs, dir
  <2> QED
    BY <1>7, <2>1, <2>2, <2>3, <2>4
<1> QED
  BY <1>18, <1>20, <1>21

\* f_sync leaves the tables upright.
LEMMA SyncUpright ==
  ASSUME NEW fils \in [Handle -> FIL], NEW h \in Handle, NEW c \in Fair, IsOk(validate(c)),
         NEW d, d = f_sync(c), NEW gils, Binds(fils, h, d.fp, gils), NEW owners,
         NEW S, S \subseteq Handle,
         c.fp = fils[h], h \in Lives(c, fils), \A q \in Handle : Listed(fils[q]),
         NEW k, NEW u, NEW l, NEW v, SyncMarks(owners[h], fils[h].wr, d, k, u, l, v),
         Upright(c, fils, owners, S, k, u), Orderly(c, fils, owners, S)
  PROVE  /\ Upright(d, gils, owners, S, l, v) /\ Orderly(d, gils, owners, S)
         /\ d \in Good /\ Rebound(c, d, fils[h], d.fp) /\ d.fp \in FIL
         /\ IsOk(d) => ~d.fp.written
<1> DEFINE i == c.fp.dir_ptr
           x == EntryFor(TableV(c).dir[i], c.fp.sclust, c.fp.fsize)
<1>1. i \in Label
  BY DEF Lives, LiveIn, Listed, Label
<1>2. /\ c \in Good
      /\ c.fp.written => Syncs(c, d, i, x)
      /\ ~c.fp.written => d \in Good /\ IsOk(d) /\ Quiet(c, d) /\ d.fp = c.fp /\ SameVolume(c, d)
  BY <1>1, SyncKeeps
<1>3. CASE c.fp.written
  <2>1. Syncs(c, d, i, x) /\ d \in Good /\ SameFile(c, d) /\ (IsOk(d) => ~d.fp.written)
    BY <1>2, <1>3 DEF Syncs
  <2>2. d.fp \in FIL
    BY <2>1 DEF Good, Ctx
  <2>3. Rebound(c, d, fils[h], d.fp)
    BY <2>1 DEF SameFile, Filed, Rebound
  <2>4. Bare(d.fp)
    BY <1>3, <2>1 DEF Bare, Orderly, SameFile, Filed
  <2>5. Upright(d, gils, owners, S, l, v)
    BY <1>2, <1>3, <2>1, <2>2, StampUpright
  <2>6. Orderly(d, gils, owners, S)
    BY <2>2, <2>3, <2>4, ReboundOrderly
  <2> QED
    BY <2>1, <2>2, <2>3, <2>5, <2>6
<1>4. CASE ~c.fp.written
  <2>1. d \in Good /\ IsOk(d) /\ Quiet(c, d) /\ d.fp = c.fp /\ SameVolume(c, d)
    BY <1>2, <1>4
  <2>2. d.fp \in FIL /\ gils = fils
    BY <2>1 DEF Good, Ctx, Binds
  <2>3. Rebound(c, d, fils[h], d.fp)
    BY <2>1 DEF Rebound, SameVolume
  <2>4. Exempt(k, u, Pairs(c, fils, owners)) \subseteq Exempt(l, v, Pairs(d, fils, owners))
    <3> SUFFICES ASSUME NEW e \in Exempt(k, u, Pairs(c, fils, owners)),
                        e \notin Exempt(l, v, Pairs(d, gils, owners))
                 PROVE  FALSE
      BY <2>2
    <3>1. fils[h].written
      BY <2>1, <2>2, <2>3, SyncExempt
    <3> QED
      BY <1>4, <3>1
  <2>5. /\ Upright(d, fils, owners, S, k, u) /\ Orderly(d, fils, owners, S)
    BY <2>1, QuietUpright
  <2>6. u \subseteq v /\ v \in SUBSET Name
    BY DEF SyncMarks
  <2>8. Pairs(d, fils, owners) = Pairs(c, fils, owners)
    <3>1. Lives(d, fils) = Lives(c, fils)
      BY <2>1 DEF SameVolume, Lives, LiveIn
    <3> QED
      BY <3>1 DEF Pairs
  <2>7. Upright(d, fils, owners, S, l, v)
    BY <2>4, <2>5, <2>6, <2>8, UprightWider
  <2> QED
    BY <1>4, <2>1, <2>2, <2>3, <2>5, <2>7
<1> QED
  BY <1>3, <1>4

\* A call on the file of a handle says so of it.
LEMMA SyncDoubts ==
  ASSUME TypeInv, SoundInv, stat # "STA_NOINIT", NEW h \in Handle, fil[h].fs,
         NEW x, Begins(fil[h], x), h \in Lives(x, fil), NEW d, NEW c,
         c.hit = d.hit, IsOk(c) <=> IsOk(d),
         NEW request, request.how = NoFlags, request.op \in {"fsync", "close"}
  PROVE  SyncMarks(owner[h], fil[h].wr, d, cut[card], unsure[card],
                   CutBy(c, {owner[h]}, request), unsure[card] \cup Doubted(c, h, {owner[h]}))
<1> DEFINE n == owner[h]
           names == {n}
           k == cut[card]
           u == unsure[card]
           l == CutBy(c, names, request)
           w == Doubted(c, h, names)
<1>1. n \in Name /\ h # 0 /\ card \in Card /\ u \in SUBSET Name
  BY Owned, FatDevAssumption DEF TypeInv
<1>2. w \subseteq Name /\ (h \in stray => n \in w)
  BY <1>1, HandleDoubts
<1>3. Live(h)
  <2>1. Here.fs_type = fs.fs_type /\ Here.id = fs.id /\ Here.stat = stat
    BY DEF Here, Context
  <2>2. x.fs_type = fs.fs_type /\ x.id = fs.id /\ fil[h] \in FIL
    BY BeginsType DEF TypeInv, Filled
  <2>3. LiveIn(x, fil[h])
    BY DEF Lives
  <2> QED
    BY <2>1, <2>2, <2>3 DEF Live, Valid, Mounted, LiveIn
<1>4. fil[h].wr => Touched(h, names) = names
  BY <1>1, <1>3 DEF Touched
<1>5. ASSUME ~IsOk(d), d.hit PROVE l = k /\ n \in w
  <2>1. ~IsOk(c) /\ c.hit
    BY <1>5
  <2>2. l = k
    BY <2>1 DEF CutBy, NoFlags
  <2>3. n \in w
    BY <1>1, <1>2, <2>1 DEF Doubted
  <2> QED
    BY <2>2, <2>3
<1>6. ASSUME IsOk(d) PROVE l = k \ (names \ u)
  BY <1>6 DEF CutBy, NoFlags
<1>7. ASSUME fil[h].wr, n \in u PROVE w = Name
  BY <1>4, <1>7 DEF Doubted
<1> HIDE DEF n, names, k, u, l, w
<1>8. IsOk(d) => l = k \ ({n} \ u)
  BY <1>6 DEF names
<1>9. SyncMarks(n, fil[h].wr, d, k, u, l, u \cup w)
  <2>1. u \cup w \in SUBSET Name /\ u \subseteq u \cup w
    BY <1>1, <1>2
  <2>2. ~IsOk(d) /\ d.hit => l = k /\ n \in u \cup w
    BY <1>5
  <2>3. fil[h].wr /\ n \in u => u \cup w = Name
    BY <1>1, <1>7, SMTT(60)
  <2> QED
    BY <1>8, <2>1, <2>2, <2>3 DEF SyncMarks
<1> QED
  BY <1>9 DEF n, names, k, u, l, w

\* A call on a file that is not of the volume is refused.
LEMMA SyncRefused ==
  ASSUME NEW x \in Fair, ~IsOk(validate(x))
  PROVE  LET c == Failed(x, "FR_INVALID_OBJECT")
         IN f_sync(x) = c /\ f_close(x) = c /\ ~IsOk(c) /\ Alike(x, c) /\ c.fp = x.fp
            /\ c.stat = x.stat /\ c.hit = x.hit
BY DEF f_sync, f_close, Then, validate, Failed, IsOk, Ok, Alike, Fair, Ctx

\* A file that is valid is of the volume.
LEMMA SyncLive ==
  ASSUME NEW x \in Fair, IsOk(validate(x))
  PROVE  LiveIn(x, x.fp) /\ x.stat # "STA_NOINIT"
BY DEF validate, Failed, IsOk, Ok, LiveIn, Fair, Ctx

\* Fsync keeps the invariant.
LEMMA SoundFsync ==
  ASSUME TypeInv, SoundInv, NEW h \in Handle, Fsync(h)
  PROVE  SoundInv'
<1> DEFINE r == Request("fsync", h)
           names == {owner[h]}
<1>1. PICK x : /\ Begins(fil[h], x) /\ stray' = stray /\ fil[h].fs
               /\ LET c == f_sync(x)
                  IN Return(c, names, r, [fil EXCEPT ![h] = c.fp], owner)
  BY FsyncStep
<1> DEFINE c == f_sync(x)
           gils == [fil EXCEPT ![h] = c.fp]
           k == cut[card]
           u == unsure[card]
           l == CutBy(c, names, r)
           v == u \cup Doubted(c, h, names)
<1>2. r.h = h /\ r.how = NoFlags /\ r.op = "fsync"
  BY DEF Request
<1>3. Return(c, names, r, gils, owner)
  BY <1>1
<1>4. /\ x \in Fair /\ x.fp = fil[h] /\ x.stat = stat /\ fil[h] \in FIL
      /\ fil \in [Handle -> FIL] /\ stray \subseteq Handle /\ \A q \in Handle : Listed(fil[q])
      /\ owner[h] \in Name
  BY <1>1, BeginsType, Owned DEF TypeInv, Filled
<1> HIDE DEF r, c, l, v
<1>5. ~IsOk(c) => l = k
  BY <1>2 DEF l, CutBy, NoFlags
<1>6. Marks(l, v) /\ Returned(c) /\ fil' = gils /\ owner' = owner
  BY <1>2, <1>3, ReturnMarks DEF l, v
<1>7. CASE ~IsOk(validate(x))
  <2>1. c = Failed(x, "FR_INVALID_OBJECT") /\ ~IsOk(c) /\ Alike(x, c) /\ c.fp = fil[h]
        /\ c.stat = stat
    BY <1>4, <1>7, SyncRefused DEF c
  <2>2. gils = fil
    BY <1>4, <2>1
  <2>3. CASE stat = "STA_NOINIT"
    <3>1. Fewer(AtRest, fil, owner, stray, gils, owner, stray')
      BY <1>1, <2>2, FewerSame
    <3> QED
      BY <1>1, <1>2, <1>3, <1>5, <2>1, <2>3, <3>1, IdleCall DEF l
  <2>4. CASE stat # "STA_NOINIT"
    <3>1. Upright(x, fil, owner, stray, k, u) /\ Orderly(x, fil, owner, stray)
      BY <1>1, <1>4, <2>4, HandleUpright
    <3>2. v \in SUBSET Name /\ u \subseteq v
      BY <1>1, <1>4, <2>4, HandleDoubts DEF v, TypeInv
    <3>3. Upright(x, fil, owner, stray, l, v)
      BY <1>5, <2>1, <3>1, <3>2, UprightMore
    <3>4. Upright(c, gils, owner, stray, l, v) /\ Orderly(c, gils, owner, stray)
      BY <2>1, <2>2, <3>1, <3>3, AlikeUpright
    <3> QED
      BY <1>1, <1>4, <1>6, <2>1, <2>2, <2>4, <3>4, SoundEnds
  <2> QED
    BY <2>3, <2>4
<1>8. CASE IsOk(validate(x))
  <2>1. h \in Lives(x, fil) /\ stat # "STA_NOINIT"
    BY <1>4, <1>8, SyncLive DEF Lives
  <2>2. Upright(x, fil, owner, stray, k, u) /\ Orderly(x, fil, owner, stray)
    BY <1>1, <1>4, <2>1, HandleUpright
  <2>3. SyncMarks(owner[h], fil[h].wr, c, k, u, l, v)
    BY <1>1, <1>2, <2>1, SyncDoubts DEF l, v
  <2>4. Binds(fil, h, c.fp, gils)
    BY DEF Binds
  <2> HIDE DEF gils
  <2>5. /\ Upright(c, gils, owner, stray, l, v) /\ Orderly(c, gils, owner, stray)
        /\ c \in Good /\ c.fp \in FIL
    BY <1>4, <1>8, <2>1, <2>2, <2>3, <2>4, SyncUpright DEF c
  <2>6. c.stat = stat
    <3>1. c \in Result(x)
      BY <1>1, HandleBegins, FsyncType DEF c
    <3> QED
      BY <1>4, <3>1 DEF Result, Filed
  <2>7. gils \in [Handle -> FIL]
    BY <1>4, <2>4, <2>5 DEF Binds
  <2> QED
    BY <1>1, <1>6, <2>1, <2>5, <2>6, <2>7, SoundEnds
<1> QED
  BY <1>7, <1>8

\* The handle h is closed.
Shuts(fils, owners, h, gils, pwners) ==
  gils = [fils EXCEPT ![h] = Closed] /\ pwners = [owners EXCEPT ![h] = NoName]

\* What was to be written is to be written still, but for the file of h.
Drops(c, fils, owners, h, gils, pwners) ==
  \A e \in Pairs(c, fils, owners) :
    \/ e \in Pairs(c, gils, pwners)
    \/ h \in Lives(c, fils) /\ fils[h].written /\ e[2] = owners[h]

\* The others stay.
LEMMA ShutFewer ==
  ASSUME NEW fils \in [Handle -> FIL], NEW owners \in [Handle -> Name \cup {NoName}],
         NEW h \in Handle, NEW gils, NEW pwners, Shuts(fils, owners, h, gils, pwners),
         NEW S, S \subseteq Handle, NEW c
  PROVE  /\ Fewer(c, fils, owners, S, gils, pwners, S \ {h}) /\ gils \in [Handle -> FIL]
         /\ Drops(c, fils, owners, h, gils, pwners)
<1>1. ~Closed.fs /\ Closed \in FIL
  BY ClosedGiven DEF Closed
<1>2. /\ gils[h] = Closed /\ \A q \in Handle : q # h => gils[q] = fils[q] /\ pwners[q] = owners[q]
      /\ gils \in [Handle -> FIL]
  BY <1>1 DEF Shuts
<1>3. h \notin Lives(c, gils)
  BY <1>1, <1>2 DEF Lives, LiveIn
<1>4. \A q \in Handle : q # h => (q \in Lives(c, gils) <=> q \in Lives(c, fils))
  BY <1>2 DEF Lives
<1>5. Lives(c, gils) \subseteq Handle
  BY DEF Lives
<1>6. Fewer(c, fils, owners, S, gils, pwners, S \ {h})
  <2>1. \A q \in Lives(c, gils) : q \in Handle /\ q # h
    BY <1>3, <1>5
  <2>2. \A q \in Handle : gils[q].fs => q # h
    BY <1>1, <1>2
  <2> QED
    BY <1>2, <1>4, <2>1, <2>2 DEF Fewer
<1>7. ASSUME NEW q \in Lives(c, fils), fils[q].written, q # h
      PROVE  <<fils[q].dir_ptr, owners[q]>> \in Pairs(c, gils, pwners)
  <2>1. q \in Lives(c, gils) /\ gils[q] = fils[q] /\ pwners[q] = owners[q]
    BY <1>2, <1>4, <1>7 DEF Lives
  <2> QED
    BY <1>7, <2>1 DEF Pairs
<1>8. ASSUME NEW e \in Pairs(c, fils, owners), e \notin Pairs(c, gils, pwners)
      PROVE  h \in Lives(c, fils) /\ fils[h].written /\ e[2] = owners[h]
  <2>1. PICK q \in Lives(c, fils) : fils[q].written /\ e = <<fils[q].dir_ptr, owners[q]>>
    BY DEF Pairs
  <2>2. q = h
    BY <1>7, <1>8, <2>1
  <2> QED
    BY <2>1, <2>2
<1> QED
  BY <1>2, <1>6, <1>8 DEF Drops

\* A handle that is closed leaves the tables upright, if its file is not to be written any more or
\* a call failed on it.
LEMMA ShutUpright ==
  ASSUME NEW fils \in [Handle -> FIL], NEW owners \in [Handle -> Name \cup {NoName}],
         NEW h \in Handle, NEW gils, NEW pwners, Shuts(fils, owners, h, gils, pwners),
         NEW S, S \subseteq Handle, NEW c, NEW k, NEW u,
         h \in Lives(c, fils) => ~fils[h].written \/ owners[h] \in u,
         Upright(c, fils, owners, S, k, u), Orderly(c, fils, owners, S)
  PROVE  /\ Upright(c, gils, pwners, S \ {h}, k, u) /\ Orderly(c, gils, pwners, S \ {h})
         /\ gils \in [Handle -> FIL]
<1>1. /\ Fewer(c, fils, owners, S, gils, pwners, S \ {h}) /\ gils \in [Handle -> FIL]
      /\ Drops(c, fils, owners, h, gils, pwners)
  BY ShutFewer
<1>2. Exempt(k, u, Pairs(c, fils, owners)) \subseteq Exempt(k, u, Pairs(c, gils, pwners))
  BY <1>1 DEF Exempt, Drops
<1> QED
  BY <1>1, <1>2, FewerUpright, FewerOrderly

\* Close keeps the invariant.
LEMMA SoundClose ==
  ASSUME TypeInv, SoundInv, NEW h \in Handle, Close(h)
  PROVE  SoundInv'
<1> DEFINE r == Request("close", h)
           names == {owner[h]}
           g == [fil EXCEPT ![h] = Closed]
           w == [owner EXCEPT ![h] = NoName]
<1>1. PICK x : /\ Begins(fil[h], x) /\ fil[h].fs /\ stray' = stray \ {h}
               /\ Return(f_close(x), names, r, g, w)
  BY CloseStep
<1> DEFINE d == f_sync(x)
           c == f_close(x)
           fils == [fil EXCEPT ![h] = d.fp]
           k == cut[card]
           u == unsure[card]
           l == CutBy(c, names, r)
           v == u \cup Doubted(c, h, names)
<1>2. r.h = h /\ r.how = NoFlags /\ r.op = "close"
  BY DEF Request
<1>3. Return(c, names, r, g, w)
  BY <1>1
<1>4. /\ x \in Fair /\ x.fp = fil[h] /\ x.stat = stat /\ fil[h] \in FIL
      /\ fil \in [Handle -> FIL] /\ stray \subseteq Handle /\ \A q \in Handle : Listed(fil[q])
      /\ owner[h] \in Name /\ owner \in [Handle -> Name \cup {NoName}]
  BY <1>1, BeginsType, Owned DEF TypeInv, Filled
<1>5. Shuts(fil, owner, h, g, w)
  BY DEF Shuts
<1> HIDE DEF r, c, l, v, g, w, d
<1>6. ~IsOk(c) => l = k
  BY <1>2 DEF l, CutBy, NoFlags
<1>7. Marks(l, v) /\ Returned(c) /\ fil' = g /\ owner' = w
  BY <1>2, <1>3, ReturnMarks DEF l, v
<1>8. CASE ~IsOk(validate(x))
  <2>1. c = Failed(x, "FR_INVALID_OBJECT") /\ ~IsOk(c) /\ Alike(x, c) /\ c.stat = stat
    BY <1>4, <1>8, SyncRefused DEF c
  <2>2. CASE stat = "STA_NOINIT"
    <3>1. Fewer(AtRest, fil, owner, stray, g, w, stray')
      BY <1>1, <1>4, <1>5, ShutFewer
    <3> QED
      BY <1>1, <1>2, <1>3, <1>6, <2>1, <2>2, <3>1, IdleCall DEF l
  <2>3. CASE stat # "STA_NOINIT"
    <3>1. Upright(x, fil, owner, stray, k, u) /\ Orderly(x, fil, owner, stray)
      BY <1>1, <1>4, <2>3, HandleUpright
    <3>2. v \in SUBSET Name /\ u \subseteq v
      BY <1>1, <1>4, <2>3, HandleDoubts DEF v, TypeInv
    <3>3. Upright(x, fil, owner, stray, l, v)
      BY <1>6, <2>1, <3>1, <3>2, UprightMore
    <3>4. h \notin Lives(x, fil)
      BY <1>4, <1>8, <2>3 DEF Lives, LiveIn, validate, IsOk, Ok, Fair, Ctx
    <3>5. /\ Upright(x, g, w, stray \ {h}, l, v) /\ Orderly(x, g, w, stray \ {h})
          /\ g \in [Handle -> FIL]
      BY <1>4, <1>5, <3>1, <3>3, <3>4, ShutUpright
    <3>6. Upright(c, g, w, stray \ {h}, l, v) /\ Orderly(c, g, w, stray \ {h})
      BY <2>1, <3>5, AlikeUpright
    <3> QED
      BY <1>1, <1>7, <2>1, <2>3, <3>5, <3>6, SoundEnds
  <2> QED
    BY <2>2, <2>3
<1>9. CASE IsOk(validate(x))
  <2>1. h \in Lives(x, fil) /\ stat # "STA_NOINIT"
    BY <1>4, <1>9, SyncLive DEF Lives
  <2>2. Upright(x, fil, owner, stray, k, u) /\ Orderly(x, fil, owner, stray)
    BY <1>1, <1>4, <2>1, HandleUpright
  <2>3. d \in Ctx /\ d.stat = stat
    <3>1. d \in Result(x)
      BY <1>1, HandleBegins, FsyncType DEF d
    <3> QED
      BY <1>4, <3>1 DEF Result, Filed, Fair
  <2>4. c = IF IsOk(d) THEN [d EXCEPT !.fp = Closed] ELSE d
    BY DEF c, d, f_close, Then
  <2>5. /\ c.hit = d.hit /\ (IsOk(c) <=> IsOk(d)) /\ Alike(d, c) /\ c.stat = stat
    BY <2>3, <2>4 DEF Alike, IsOk, Ctx
  <2>6. SyncMarks(owner[h], fil[h].wr, d, k, u, l, v)
    BY <1>1, <1>2, <2>1, <2>5, SyncDoubts DEF l, v
  <2>7. Binds(fil, h, d.fp, fils)
    BY DEF Binds
  <2> HIDE DEF fils
  <2>8. /\ Upright(d, fils, owner, stray, l, v) /\ Orderly(d, fils, owner, stray)
        /\ d \in Good /\ d.fp \in FIL /\ (IsOk(d) => ~d.fp.written)
        /\ (d.fp.written => fil[h].written)
    <3>1. ~fil[h].written => d.fp = fil[h]
      BY <1>1, <1>4, <1>9, HandleBegins, SyncKeeps DEF d, Listed, Label
    <3>2. /\ Upright(d, fils, owner, stray, l, v) /\ Orderly(d, fils, owner, stray)
          /\ d \in Good /\ Rebound(x, d, fil[h], d.fp) /\ d.fp \in FIL
          /\ IsOk(d) => ~d.fp.written
      BY <1>4, <1>9, <2>1, <2>2, <2>6, <2>7, SyncUpright, ZenonT(60) DEF d
    <3> QED
      BY <3>1, <3>2
  <2>9. fils \in [Handle -> FIL] /\ fils[h] = d.fp
    BY <1>4, <2>7, <2>8 DEF Binds
  <2>10. Shuts(fils, owner, h, g, w)
    BY <1>4, <1>5, <2>7 DEF Shuts, Binds
  <2>11. ~fils[h].written \/ owner[h] \in v
    <3>1. ~IsOk(d) => d.hit
      BY <1>1, <1>4, <1>9, HandleBegins, SyncKeeps DEF d, Listed, Label, Syncs
    <3> QED
      BY <2>6, <2>8, <2>9, <3>1 DEF SyncMarks
  <2>12. /\ Upright(d, g, w, stray \ {h}, l, v) /\ Orderly(d, g, w, stray \ {h})
         /\ g \in [Handle -> FIL]
    BY <1>4, <2>8, <2>9, <2>10, <2>11, ShutUpright
  <2>13. Upright(c, g, w, stray \ {h}, l, v) /\ Orderly(c, g, w, stray \ {h})
    BY <2>5, <2>12, AlikeUpright
  <2> QED
    BY <1>1, <1>7, <2>1, <2>5, <2>12, <2>13, SoundEnds
<1> QED
  BY <1>8, <1>9

---------------------------------------------------------------------------
(* Calls by name.                                                          *)

\* No open file has one of these names.
Clear(g, fils, owners, names) == \A h \in Lives(g, fils) : owners[h] \notin names

\* The handles have names and entries.
Named(g, fils, owners) ==
  \A h \in Lives(g, fils) : owners[h] \in Name /\ fils[h].dir_ptr \in Label

\* The entries a call for these names may change are right, or of no file.
LEMMA SaneSlots ==
  ASSUME NEW g, NEW fils, NEW owners, NEW names \in SUBSET Name, Clear(g, fils, owners, names),
         NEW k, NEW u, names \cap u = {}, NEW m, NEW dir,
         DirRight(m, dir, Exempt(k, u, Pairs(g, fils, owners)))
  PROVE  Sane(m, Slots(dir, names), dir)
<1> SUFFICES ASSUME NEW j \in Label, dir[j].name \in names PROVE Right(m, j, dir[j])
  BY DEF Sane, Slots
<1>1. <<j, dir[j].name>> \notin Pairs(g, fils, owners)
  BY DEF Pairs, Clear
<1>2. dir[j].name \in Name /\ dir[j].name \notin u
  OBVIOUS
<1>3. <<j, dir[j].name>> \notin Exempt(k, u, Pairs(g, fils, owners))
  BY <1>1, <1>2 DEF Exempt
<1> QED
  BY <1>2, <1>3 DEF DirRight

\* ... and the open files have others.
LEMMA OtherSlots ==
  ASSUME NEW g, NEW fils, NEW owners, NEW names \in SUBSET Name, Clear(g, fils, owners, names),
         Named(g, fils, owners), NEW t, Titled(t, fils, owners, Lives(g, fils)),
         NEW h \in Lives(g, fils)
  PROVE  fils[h].dir_ptr \in Label \ Slots(t.dir, names)
<1>1. t.dir[fils[h].dir_ptr].name = owners[h] /\ owners[h] \in Name /\ owners[h] \notin names
  BY DEF Titled, Clear, Named
<1>2. fils[h].dir_ptr \in Label
  BY DEF Named
<1>3. ~Void(t.dir[fils[h].dir_ptr])
  BY <1>1, FatDevAssumption DEF Void, Removed
<1> QED
  BY <1>1, <1>2, <1>3 DEF Slots

\* What a call for these names makes of the tables: the other chains stay, and the entries it
\* changed are right.
Tidies(v, d, names) ==
  LET dir == TableV(v).dir
      I == Slots(dir, names)
  IN \A m \in Chart :
       Charted(TableV(v).fat, m) /\ Sane(m, I, dir) => Through(v, d, Near(m, I, dir))

\* Such tables are right where the others were.
LEMMA NearRight ==
  ASSUME NEW dir, NEW names, NEW I \in SUBSET Label, NEW m \in Chart, NEW X,
         DirRight(m, dir, X), NEW t \in Near(m, I, dir)
  PROVE  \E n \in Chart : Charted(t.fat, n) /\ DirRight(n, t.dir, X) /\ Spares(m, n, I)
<1>1. PICK n \in Chart : Charted(t.fat, n) /\ Spares(m, n, I) /\ Sane(n, I, t.dir)
  BY DEF Near
<1>2. \A j \in Label \ I : t.dir[j] = dir[j]
  BY DEF Near
<1>3. ASSUME NEW j \in Label, t.dir[j].name \in Name, <<j, t.dir[j].name>> \notin X
      PROVE  Right(n, j, t.dir[j])
  <2>1. CASE j \in I
    <3>1. ~Void(t.dir[j])
      BY <1>3, FatDevAssumption DEF Void, Removed
    <3> QED
      BY <1>1, <2>1, <3>1 DEF Sane
  <2>2. CASE j \notin I
    <3>1. t.dir[j] = dir[j] /\ Right(m, j, dir[j])
      BY <1>2, <1>3, <2>2 DEF DirRight
    <3> QED
      BY <1>1, <2>2, <3>1, RightSpared
  <2> QED
    BY <2>1, <2>2
<1>4. DirRight(n, t.dir, X)
  BY <1>3 DEF DirRight
<1> QED
  BY <1>1, <1>4

\* A call that makes no other tables leaves them upright.
LEMMA TidyUpright ==
  ASSUME NEW v, NEW d, SameVolume(v, d), NEW fils, NEW owners, NEW S, NEW names \in SUBSET Name,
         Tidies(v, d, names), Clear(v, fils, owners, names), Named(v, fils, owners),
         NEW k, NEW u, names \cap u = {}, Upright(v, fils, owners, S, k, u)
  PROVE  Upright(d, fils, owners, S, k, u)
<1> DEFINE X == Exempt(k, u, Pairs(v, fils, owners))
           dir == TableV(v).dir
           I == Slots(dir, names)
           L == Sure(v, fils, owners, u)
<1> SUFFICES ASSUME u # Name PROVE Upright(d, fils, owners, S, k, u)
  BY DEF Upright
<1>1. /\ SoundTable(TableC(v), X) /\ Held(TableV(v), X, fils, L, S)
      /\ Titled(TableV(v), fils, owners, Lives(v, fils))
  BY DEF Upright
<1>2. Lives(d, fils) = Lives(v, fils)
  BY DEF SameVolume, Lives, LiveIn
<1>3. /\ Exempt(k, u, Pairs(d, fils, owners)) = X /\ Sure(d, fils, owners, u) = L
  BY <1>2 DEF Pairs, Sure
<1>4. \A h \in Lives(v, fils) : fils[h].dir_ptr \in Label \ I
  BY <1>1, OtherSlots
<1>5. I \in SUBSET Label /\ L \subseteq Lives(v, fils)
  BY DEF Slots, Sure
<1>6. PICK m \in Chart : /\ Charted(TableV(v).fat, m) /\ DirRight(m, dir, X)
                         /\ \A h \in L : Fitted(m, fils[h], h \notin S)
  BY <1>1 DEF Held
<1>7. Sane(m, I, dir)
  BY <1>6, SaneSlots
<1>8. Through(v, d, Near(m, I, dir))
  BY <1>6, <1>7 DEF Tidies
<1> HIDE DEF X, dir, I, L
<1>9. ASSUME NEW t \in Near(m, I, dir)
      PROVE  SoundTable(t, X) /\ Held(t, X, fils, L, S) /\ Titled(t, fils, owners, Lives(v, fils))
  <2>1. PICK n \in Chart : Charted(t.fat, n) /\ DirRight(n, t.dir, X) /\ Spares(m, n, I)
    BY <1>5, <1>6, NearRight
  <2>2. \A h \in L : Fitted(n, fils[h], h \notin S)
    BY <1>4, <1>5, <1>6, <2>1, SparesFitted
  <2>3. \A j \in Label \ I : t.dir[j] = dir[j]
    BY DEF Near
  <2>4. Titled(t, fils, owners, Lives(v, fils))
    BY <1>1, <1>4, <2>3 DEF Titled, dir
  <2> QED
    BY <2>1, <2>2, <2>4 DEF SoundTable, Held
<1>10. /\ SoundTable(TableC(d), X) /\ Held(TableV(d), X, fils, L, S)
       /\ Titled(TableV(d), fils, owners, Lives(v, fils))
  BY <1>1, <1>8, <1>9 DEF Through
<1> QED
  BY <1>2, <1>3, <1>10 DEF Upright

\* When the card fails in the middle of f_rename, the entries of the two names may be wrong.
LEMMA LooseUpright ==
  ASSUME NEW v, NEW d, SameVolume(v, d), NEW fils, NEW owners, NEW S, NEW names \in SUBSET Name,
         Through(v, d, Loose(TableV(v), Slots(TableV(v).dir, names), names)),
         Clear(v, fils, owners, names), Named(v, fils, owners),
         NEW k, NEW u, NEW l, NEW w \in SUBSET Name, k \subseteq l, u \subseteq w,
         names \subseteq l \cap w, Upright(v, fils, owners, S, k, u)
  PROVE  Upright(d, fils, owners, S, l, w)
<1> DEFINE Y == Exempt(l, w, Pairs(v, fils, owners))
           dir == TableV(v).dir
           I == Slots(dir, names)
           L == Sure(v, fils, owners, w)
           T == Loose(TableV(v), I, names)
<1> SUFFICES ASSUME w # Name PROVE Upright(d, fils, owners, S, l, w)
  BY DEF Upright
<1>1. /\ SoundTable(TableC(v), Y) /\ Held(TableV(v), Y, fils, L, S)
      /\ Titled(TableV(v), fils, owners, Lives(v, fils))
  <2>1. Upright(v, fils, owners, S, l, w)
    BY UprightMore
  <2> QED
    BY <2>1 DEF Upright
<1>2. Lives(d, fils) = Lives(v, fils)
  BY DEF SameVolume, Lives, LiveIn
<1>3. /\ Exempt(l, w, Pairs(d, fils, owners)) = Y /\ Sure(d, fils, owners, w) = L
  BY <1>2 DEF Pairs, Sure
<1>4. \A h \in Lives(v, fils) : fils[h].dir_ptr \in Label \ I
  BY <1>1, OtherSlots
<1>5. I \in SUBSET Label /\ \A n \in names, j \in I : <<j, n>> \in Y
  BY DEF Slots, Exempt
<1>6. PICK m \in Chart : /\ Charted(TableV(v).fat, m) /\ DirRight(m, dir, Y)
                         /\ \A h \in L : Fitted(m, fils[h], h \notin S)
  BY <1>1 DEF Held
<1>7. Through(v, d, T)
  OBVIOUS
<1> HIDE DEF Y, dir, I, L
<1>8. ASSUME NEW t \in T
      PROVE  SoundTable(t, Y) /\ Held(t, Y, fils, L, S) /\ Titled(t, fils, owners, Lives(v, fils))
  <2>1. /\ t.fat = TableV(v).fat /\ \A j \in Label \ I : t.dir[j] = dir[j]
        /\ \A j \in I : Void(t.dir[j]) \/ t.dir[j].name \in names
    BY DEF Loose, dir
  <2>2. ASSUME NEW j \in Label, t.dir[j].name \in Name, <<j, t.dir[j].name>> \notin Y
        PROVE  Right(m, j, t.dir[j])
    <3>1. CASE j \in I
      <4>1. ~Void(t.dir[j])
        BY <2>2, FatDevAssumption DEF Void, Removed
      <4> QED
        BY <1>5, <2>1, <2>2, <3>1, <4>1
    <3>2. CASE j \notin I
      BY <1>6, <2>1, <2>2, <3>2 DEF DirRight
    <3> QED
      BY <3>1, <3>2
  <2>3. DirRight(m, t.dir, Y)
    BY <2>2 DEF DirRight
  <2>4. Titled(t, fils, owners, Lives(v, fils))
    BY <1>1, <1>4, <2>1 DEF Titled, dir
  <2> QED
    BY <1>6, <2>1, <2>3, <2>4 DEF SoundTable, Held
<1>9. /\ SoundTable(TableC(d), Y) /\ Held(TableV(d), Y, fils, L, S)
      /\ Titled(TableV(d), fils, owners, Lives(v, fils))
  BY <1>1, <1>7, <1>8 DEF Through
<1> QED
  BY <1>2, <1>3, <1>9 DEF Upright

\* Once the volume is mounted no open file has a name that is not busy.
LEMMA MountClear ==
  ASSUME TypeInv, SoundInv, NEW f \in FIL, NEW x, Begins(f, x), NEW v, v = find_volume(x),
         NEW names, \A n \in names : ~Busy(n)
  PROVE  Clear(v, fil, owner, names) /\ Named(v, fil, owner)
<1>1. /\ x \in Fair /\ x.stat = stat /\ x.fs_type = fs.fs_type /\ x.id = fs.id
  BY BeginsType
<1>2. Named(v, fil, owner)
  BY Owned DEF Named, Lives, LiveIn, TypeInv, Filled, Listed, Label
<1>3. CASE x.fs_type # 0 /\ x.stat # "STA_NOINIT"
  <2>1. v = Ok(x)
    BY <1>1, <1>3, MountedAlready
  <2>2. v.fs_type = fs.fs_type /\ v.id = fs.id
    BY <1>1, <2>1 DEF Ok, Fair, Ctx
  <2>3. ASSUME NEW h \in Lives(v, fil) PROVE h \in Handle /\ Live(h)
    <3>1. h \in Handle /\ LiveIn(AtRest, fil[h])
      BY <2>2, AtRestFields DEF Lives, LiveIn
    <3> QED
      BY <1>1, <1>3, <3>1, LiveHere
  <2>4. Clear(v, fil, owner, names)
    BY <2>3 DEF Clear, Busy
  <2> QED
    BY <1>2, <2>4
<1>4. CASE ~(x.fs_type # 0 /\ x.stat # "STA_NOINIT")
  <2>1. /\ IsOk(v) => v.id = x.id + 1
        /\ ~IsOk(v) => v.fs_type = 0
    BY <1>1, <1>4, MountedAnew
  <2>2. fs.id \in Nat /\ fil \in [Handle -> FIL] /\ \A h \in Handle : fil[h].id \in Nat
    BY FsType DEF TypeInv, Filled, FIL
  <2>3. \A h \in Handle : fil[h].fs => fil[h].id <= fs.id
    BY AtRestFields DEF SoundInv, Orderly
  <2>4. Lives(v, fil) = {}
    BY <1>1, <2>1, <2>2, <2>3 DEF Lives, LiveIn
  <2> QED
    BY <1>2, <2>4 DEF Clear
<1> QED
  BY <1>3, <1>4

\* A call by name doubts files it was made for, or all of them.
LEMMA NameDoubts ==
  ASSUME TypeInv, NEW c, NEW names \in SUBSET Name
  PROVE  LET w == unsure[card] \cup Doubted(c, 0, names)
         IN /\ w \in SUBSET Name /\ unsure[card] \subseteq w
            /\ names \cap unsure[card] # {} => w = Name
            /\ c.hit /\ ~IsOk(c) => names \subseteq w
<1>1. 0 \notin stray /\ Touched(0, names) = names /\ unsure[card] \in SUBSET Name
  BY FatDevAssumption DEF TypeInv, Touched
<1> QED
  BY <1>1 DEF Doubted

\* The clusters have a chart that is right for the entries a call for these names may change.
Sensible(v, names) ==
  \E m \in Chart : /\ Charted(TableV(v).fat, m)
                   /\ Sane(m, Slots(TableV(v).dir, names), TableV(v).dir)

\* What a call for these names leaves behind the mount.
Passes(v, c, names, l) ==
  /\ SameVolume(v, c)
  /\ \/ Quiet(v, c)
     \/ Tidies(v, c, names)
     \/ Sensible(v, names) =>
          /\ c.hit /\ ~IsOk(c) /\ names \subseteq l
          /\ Through(v, c, Loose(TableV(v), Slots(TableV(v).dir, names), names))

\* A call by name keeps the invariant.
LEMMA SoundNamed ==
  ASSUME TypeInv, SoundInv, NEW x, Begins(Closed, x), NEW v, v = find_volume(x),
         NEW names \in SUBSET Name, \A n \in names : ~Busy(n),
         NEW c, c.stat # "STA_NOINIT", NEW request, request.h = 0,
         cut[card] \subseteq CutBy(c, names, request),
         Passes(v, c, names, CutBy(c, names, request)),
         Return(c, names, request, fil, owner), stray' = stray
  PROVE  SoundInv'
<1> DEFINE k == cut[card]
           u == unsure[card]
           l == CutBy(c, names, request)
           w == u \cup Doubted(c, 0, names)
<1>1. Marks(l, w) /\ Returned(c) /\ fil' = fil /\ owner' = owner
  BY ReturnMarks
<1>2. fil \in [Handle -> FIL] /\ Closed \in FIL
  BY ClosedType DEF TypeInv, Filled
<1>3. /\ w \in SUBSET Name /\ u \subseteq w
      /\ names \cap u # {} => w = Name
      /\ c.hit /\ ~IsOk(c) => names \subseteq w
  BY NameDoubts
<1>4. Upright(v, fil, owner, stray, k, u) /\ Orderly(v, fil, owner, stray)
  BY <1>2, MountUpright
<1>5. Clear(v, fil, owner, names) /\ Named(v, fil, owner)
  BY <1>2, MountClear
<1>6. SameVolume(v, c)
  BY DEF Passes
<1>7. Orderly(c, fil, owner, stray)
  <2>1. Lives(c, fil) = Lives(v, fil)
    BY <1>6 DEF SameVolume, Lives, LiveIn
  <2> QED
    BY <1>4, <1>6, <2>1 DEF Orderly, SameVolume
<1> HIDE DEF k, u, l, w
<1>8. Upright(c, fil, owner, stray, l, w)
  <2>1. CASE w = Name
    BY <2>1, UprightLost
  <2>2. CASE Quiet(v, c)
    <3>1. Upright(c, fil, owner, stray, k, u)
      BY <1>4, <1>6, <2>2, QuietUpright
    <3> QED
      BY <1>3, <3>1, UprightMore DEF k, l
  <2>3. CASE w # Name /\ Tidies(v, c, names)
    <3>1. Upright(c, fil, owner, stray, k, u)
      BY <1>3, <1>4, <1>5, <1>6, <2>3, TidyUpright
    <3> QED
      BY <1>3, <3>1, UprightMore DEF k, l
  <2>4. ASSUME w # Name PROVE Sensible(v, names)
    <3>1. u # Name /\ names \cap u = {}
      BY <1>3, <2>4
    <3>2. PICK m \in Chart : /\ Charted(TableV(v).fat, m)
                             /\ DirRight(m, TableV(v).dir, Exempt(k, u, Pairs(v, fil, owner)))
      BY <1>4, <3>1 DEF Upright, Held
    <3>3. Sane(m, Slots(TableV(v).dir, names), TableV(v).dir)
      BY <1>5, <3>1, <3>2, SaneSlots
    <3> QED
      BY <3>2, <3>3 DEF Sensible
  <2>5. CASE /\ c.hit /\ ~IsOk(c) /\ names \subseteq l
             /\ Through(v, c, Loose(TableV(v), Slots(TableV(v).dir, names), names))
    <3>1. k \subseteq l /\ names \subseteq l \cap w
      BY <1>3, <2>5 DEF k, l
    <3> QED
      BY <1>3, <1>4, <1>5, <1>6, <2>5, <3>1, LooseUpright
  <2> QED
    BY <2>1, <2>2, <2>3, <2>4, <2>5 DEF Passes, l
<1> QED
  BY <1>1, <1>2, <1>7, <1>8, SoundEnds

\* A call that could not mount the volume leaves it so.
LEMMA PassesNone ==
  ASSUME NEW v, NEW names, NEW l
  PROVE  Passes(v, v, names, l)
BY DEF Passes, SameVolume, Quiet

\* f_unlink mounts the volume and then leaves it as it is.
LEMMA UnlinkSame ==
  ASSUME NEW c \in Fair, NEW name, NEW v, v = find_volume(c), IsOk(v)
  PROVE  Steady(v, f_unlink(c, name))
<1> DEFINE d == dir_find(v, name)
           m == dir_remove(d, d.val)
           cl == d.win[d.val].clust
           g == remove_chain(m, cl)
           f == IF cl = 0 THEN m ELSE g
           s == sync_fs(f)
           r == f_unlink(c, name)
<1>1. r = IF IsOk(d) THEN IF IsOk(m) THEN IF IsOk(f) THEN s ELSE f ELSE m ELSE d
  BY DEF f_unlink, Then
<1> HIDE DEF r
<1>2. v \in Good
  BY FoundVolume
<1>3. d \in Good /\ Steady(v, d) /\ (IsOk(d) => At(d, d.val))
  BY <1>2, ScanType DEF dir_find, Moved, Kept
<1> HIDE DEF d
<1>4. CASE ~IsOk(d)
  BY <1>1, <1>3, <1>4 DEF r
<1>5. CASE IsOk(d)
  <2>1. d.val \in 1 .. n_rootdir /\ cl \in Cluster \cup {0}
    BY <1>3, <1>5, FieldsType DEF At
  <2>2. cl \in Nat
    BY <2>1 DEF Cluster
  <2> HIDE DEF cl
  <2>3. m \in Good /\ Steady(d, m)
    BY <1>3, <2>1, DirRemoveType DEF Kept
  <2> HIDE DEF m
  <2>4. Steady(v, m)
    BY <1>3, <2>3, SteadyTransitive
  <2>5. g \in Good /\ Steady(m, g)
    BY <2>2, <2>3, RemoveChainType
  <2> HIDE DEF g
  <2>6. Steady(v, g)
    BY <2>4, <2>5, SteadyTransitive
  <2>7. f \in Good /\ Steady(v, f)
    BY <2>3, <2>4, <2>5, <2>6
  <2> HIDE DEF f
  <2>8. s \in Good /\ Steady(f, s)
    BY <2>7, SyncFsType
  <2> HIDE DEF s
  <2>9. Steady(v, s)
    BY <2>7, <2>8, SteadyTransitive
  <2> QED
    BY <1>1, <1>5, <2>4, <2>7, <2>9 DEF r
<1> QED
  BY <1>4, <1>5

\* So does f_rename.
LEMMA RenameSame ==
  ASSUME NEW c \in Fair, NEW old, NEW name \in Name, NEW v, v = find_volume(c), IsOk(v)
  PROVE  Steady(v, f_rename(c, old, name))
<1> DEFINE d == dir_find(v, old)
           i == d.val
           x == d.win[i]
           e == dir_find(d, name)
           y == Failed(e, "FR_EXIST")
           o == Ok(e)
           g == dir_register(o, name)
           m == Move(g, i, x)
           s == sync_fs(m)
           r == f_rename(c, old, name)
<1>1. r = IF IsOk(d) THEN CASE IsOk(e) -> y
                            [] e.res = "FR_NO_FILE" ->
                                 IF IsOk(g) THEN IF IsOk(m) THEN s ELSE m ELSE g
                            [] OTHER -> e
          ELSE d
  BY DEF f_rename, Then
<1> HIDE DEF r
<1>2. v \in Good
  BY FoundVolume
<1>3. d \in Good /\ Steady(v, d) /\ (IsOk(d) => At(d, i))
  BY <1>2, ScanType DEF dir_find, Moved, Kept
<1>4. CASE ~IsOk(d)
  <2> HIDE DEF d
  <2> QED
    BY <1>1, <1>3, <1>4 DEF r
<1>5. CASE IsOk(d)
  <2>1. i \in 1 .. n_rootdir /\ x \in Entry
    <3> HIDE DEF i
    <3> QED
      BY <1>3, <1>5, EntryType DEF At
  <2> HIDE DEF d, i, x
  <2>2. e \in Good /\ Steady(d, e)
    BY <1>3, <1>5, ScanType DEF dir_find, Moved, Kept
  <2> HIDE DEF e
  <2>3. Steady(v, e)
    BY <1>3, <2>2, SteadyTransitive
  <2>4. "FR_EXIST" \in Res /\ e \in Ctx
    BY <2>2 DEF Res, Good
  <2>5. y \in Good /\ Steady(e, y)
    BY <2>2, <2>4, FailedType DEF Kept
  <2> HIDE DEF y
  <2>6. Steady(v, y)
    BY <2>3, <2>5, SteadyTransitive
  <2>7. o \in Good /\ Steady(e, o) /\ IsOk(o)
    BY <2>2, <2>4, OkType DEF Kept
  <2> HIDE DEF o
  <2>8. Steady(v, o)
    BY <2>3, <2>7, SteadyTransitive
  <2>9. g \in Good /\ Steady(o, g) /\ (IsOk(g) => At(g, g.val) /\ g.wflag)
    BY <2>7, DirRegisterType DEF Kept
  <2> HIDE DEF g
  <2>10. Steady(v, g)
    BY <2>8, <2>9, SteadyTransitive
  <2>11. IsOk(g) => m \in Good /\ Steady(g, m)
    BY <2>1, <2>9, MoveType
  <2> HIDE DEF m
  <2>12. IsOk(g) => Steady(v, m)
    BY <2>10, <2>11, SteadyTransitive
  <2>13. IsOk(g) => s \in Good /\ Steady(m, s)
    BY <2>11, SyncFsType
  <2> HIDE DEF s
  <2>14. IsOk(g) => Steady(v, s)
    BY <2>12, <2>13, SteadyTransitive
  <2>15. r \in {y, e, g} \/ (IsOk(g) /\ r \in {m, s})
    BY <1>1, <1>5 DEF IsOk
  <2> QED
    BY <2>3, <2>6, <2>10, <2>12, <2>14, <2>15 DEF r
<1> QED
  BY <1>4, <1>5

\* Unlink keeps the invariant.
LEMMA SoundUnlink ==
  ASSUME TypeInv, SoundInv, NEW name \in Name, Unlink(name)
  PROVE  SoundInv'
<1> DEFINE r == [Request("unlink", 0) EXCEPT !.name = name]
           names == {name}
<1>1. PICK x : Begins(Closed, x) /\ Return(f_unlink(x, name), names, r, fil, owner)
  BY UnlinkStep
<1> DEFINE c == f_unlink(x, name)
           v == find_volume(x)
<1>2. x \in Fair
  BY <1>1, ClosedType, BeginsType
<1>3. c.stat # "STA_NOINIT"
  BY <1>2, UnlinkType DEF Settled, Goes
<1>4. r.h = 0 /\ names \in SUBSET Name /\ stray' = stray /\ \A n \in names : ~Busy(n)
  BY UnlinkStep DEF Request, Unlink, OnName
<1>5. CutBy(c, names, r) = cut[card]
  BY DEF CutBy, Request, NoFlags
<1> HIDE DEF r
<1>6. Passes(v, c, names, CutBy(c, names, r))
  <2>1. CASE ~IsOk(v)
    <3>1. c = v
      BY <2>1 DEF f_unlink, Then
    <3> QED
      BY <3>1, PassesNone
  <2>2. CASE IsOk(v)
    <3> DEFINE I == Slots(TableV(v).dir, names)
    <3>1. ASSUME NEW m \in Chart, Charted(TableV(v).fat, m), Sane(m, I, TableV(v).dir)
          PROVE  Leaves(v, c, Near(m, I, TableV(v).dir))
      BY <1>2, <2>2, <3>1, UnlinkKeeps
    <3>2. Tidies(v, c, names)
      BY <3>1 DEF Leaves, Tidies
    <3>3. SameVolume(v, c)
      BY <1>2, <2>2, UnlinkSame DEF Steady, SameVolume
    <3> QED
      BY <3>2, <3>3 DEF Passes
  <2> QED
    BY <2>1, <2>2
<1> HIDE DEF c, v, names
<1> QED
  BY <1>1, <1>3, <1>4, <1>5, <1>6, SoundNamed DEF c, v

\* f_rename leaves the entries and chains of the other names, and when it succeeds the new
\* name has the chain of the old one.
LEMMA RenamePasses ==
  ASSUME NEW x \in Fair, NEW old \in Name, NEW name \in Name, NEW c, c = f_rename(x, old, name),
         NEW v, v = find_volume(x), NEW l, c.hit => {old, name} \subseteq l
  PROVE  Passes(v, c, {old, name}, l)
<1> DEFINE names == {old, name}
           I == Slots(TableV(v).dir, names)
           L == Loose(TableV(v), I, names)
<1>1. CASE ~IsOk(v)
  <2>1. c = v
    BY <1>1 DEF f_rename, Then
  <2> QED
    BY <2>1, PassesNone
<1>2. CASE IsOk(v)
  <2>1. ASSUME NEW m \in Chart, Charted(TableV(v).fat, m), Sane(m, I, TableV(v).dir)
        PROVE  Renames(v, c, Near(m, I, TableV(v).dir), L)
    BY <1>2, <2>1, RenameKeeps
  <2>2. SameVolume(v, c)
    BY <1>2, RenameSame DEF Steady, SameVolume
  <2> HIDE DEF I
  <2>3. CASE IsOk(c)
    <3>1. Tidies(v, c, names)
      BY <2>1, <2>3 DEF Renames, Tidies, I
    <3> QED
      BY <2>2, <3>1 DEF Passes
  <2>4. CASE ~IsOk(c) /\ ~Quiet(v, c)
    <3>1. Sensible(v, names) => c.hit /\ Through(v, c, L)
      BY <2>1, <2>4 DEF Renames, Sensible, I
    <3> QED
      BY <2>2, <2>4, <3>1 DEF Passes, I
  <2> QED
    BY <2>2, <2>3, <2>4 DEF Passes
<1> QED
  BY <1>1, <1>2

\* Rename keeps the invariant.
LEMMA SoundRename ==
  ASSUME TypeInv, SoundInv, NEW old \in Name, NEW name \in Name, Rename(old, name)
  PROVE  SoundInv'
<1> DEFINE r == [Request("rename", 0) EXCEPT !.name = old, !.to = name]
           names == {old, name}
<1>1. PICK x : Begins(Closed, x) /\ Return(f_rename(x, old, name), names, r, fil, owner)
  BY RenameStep
<1> DEFINE c == f_rename(x, old, name)
           v == find_volume(x)
           l == CutBy(c, names, r)
<1>2. x \in Fair
  BY <1>1, ClosedType, BeginsType
<1>3. c.stat # "STA_NOINIT"
  BY <1>2, RenameType DEF Settled, Goes
<1>4. r.h = 0 /\ names \in SUBSET Name /\ stray' = stray /\ \A n \in names : ~Busy(n)
  BY RenameStep DEF Request, Rename, OnName
<1>5. cut[card] \subseteq l /\ (c.hit => names \subseteq l)
  BY DEF CutBy, Request, NoFlags
<1> HIDE DEF r
<1>6. Passes(v, c, names, l)
  BY <1>2, <1>5, RenamePasses
<1> HIDE DEF c, v, names, l
<1> QED
  BY <1>1, <1>3, <1>4, <1>5, <1>6, SoundNamed DEF c, v, l

\* GetFree keeps the invariant.
LEMMA SoundGetFree ==
  ASSUME TypeInv, SoundInv, GetFree
  PROVE  SoundInv'
<1> DEFINE r == Request("getfree", 0)
<1>1. PICK x : Begins(Closed, x) /\ Return(f_getfree(x), {}, r, fil, owner)
  BY GetFreeStep
<1> DEFINE c == f_getfree(x)
           v == find_volume(x)
<1>2. x \in Fair
  BY <1>1, ClosedType, BeginsType
<1>3. c.stat # "STA_NOINIT"
  BY <1>2, GetFreeType DEF Settled, Goes
<1>4. r.h = 0 /\ stray' = stray
  BY GetFreeStep DEF Request
<1>5. CutBy(c, {}, r) = cut[card]
  BY DEF CutBy, Request, NoFlags
<1> HIDE DEF r
<1>6. Passes(v, c, {}, CutBy(c, {}, r))
  <2>1. CASE ~IsOk(v)
    <3>1. c = v
      BY <2>1 DEF f_getfree, Then
    <3> QED
      BY <3>1, PassesNone
  <2>2. CASE IsOk(v)
    BY <1>2, <2>2, GetFreeKeeps DEF Passes
  <2> QED
    BY <2>1, <2>2
<1> HIDE DEF c, v
<1> QED
  BY <1>1, <1>3, <1>4, <1>5, <1>6, SoundNamed DEF c, v

---------------------------------------------------------------------------
(* A file is cut.                                                          *)

\* f_truncate fails for a reader, and leaves everything.
LEMMA TruncateReader ==
  ASSUME NEW c \in Fair, IsOk(Reject(c)), ~c.fp.wr, NEW d, d = f_truncate(c)
  PROVE  d \in Good /\ ~IsOk(d) /\ Quiet(c, d) /\ d.fp = c.fp /\ SameVolume(c, d)
<1> DEFINE v == Reject(c)
           e == Failed(v, "FR_DENIED")
<1>1. c \in Ctx /\ c \in Good /\ v \in Good /\ Kept(c, v) /\ v.sec = c.sec /\ Over(v) = Over(c)
  BY RejectType DEF Fair
<1>2. v.fp = c.fp /\ v \in Ctx /\ Quiet(c, v) /\ v.fs_type = c.fs_type /\ v.id = c.id
  BY <1>1, BesideQuiet DEF Kept, Steady, Good
<1>3. d = e
  BY <1>2 DEF f_truncate, Then
<1>4. "FR_DENIED" \in Res
  BY DEF Res
<1> HIDE DEF v
<1>5. e \in Good /\ Kept(v, e) /\ ~IsOk(e) /\ e.sec = v.sec /\ Over(e) = Over(v)
  BY <1>1, <1>2, <1>4, FailedType
<1> HIDE DEF e
<1>6. Quiet(c, e) /\ e.fp = c.fp /\ e.fs_type = v.fs_type /\ e.id = v.id
  BY <1>1, <1>2, <1>5, BesideQuiet, QuietTransitive DEF Kept, Steady
<1> QED
  BY <1>2, <1>3, <1>5, <1>6 DEF SameVolume

\* There is a chart as in Held, but by which the chain of the file of h may be too short.
HeldBut(t, X, fils, L, S, h) ==
  \E m \in Chart : /\ Charted(t.fat, m) /\ DirRight(m, t.dir, X)
                   /\ \A l \in L \ {h} : Fitted(m, fils[l], l \notin S)
                   /\ Fits(m, fils[h].dir_ptr, fils[h], h \notin S, 0)

\* The tables of a context are upright but for that.
Leaning(c, fils, owners, S, h, k, u) ==
  LET X == Exempt(k, u, Pairs(c, fils, owners))
  IN /\ SoundTable(TableC(c), X)
     /\ HeldBut(TableV(c), X, fils, Sure(c, fils, owners, u), S, h)
     /\ Titled(TableV(c), fils, owners, Lives(c, fils))

\* A call that only makes chains longer leaves the tables so.
LEMMA ExtendsLeaning ==
  ASSUME NEW fils \in [Handle -> FIL], NEW h \in Handle, NEW c \in Good, NEW d \in Good,
         NEW gils, Binds(fils, h, d.fp, gils), NEW owners, NEW S,
         c.fp = fils[h], d.fp \in FIL, Filed(c, d), Extends(c, 0, d, 0),
         \A l \in Lives(c, fils) : fils[l].dir_ptr \in Label,
         Still(c.fp, d.fp), h \in Lives(c, fils),
         NEW k, NEW u, u # Name, owners[h] \notin u,
         Upright(c, fils, owners, S, k, u), Orderly(c, fils, owners, S)
  PROVE  Leaning(d, gils, owners, S, h, k, u)
<1> DEFINE X == Exempt(k, u, Pairs(c, fils, owners))
           Y == Exempt(k, u, Pairs(d, gils, owners))
           L == Sure(c, fils, owners, u)
           i == c.fp.dir_ptr
           dir == TableV(c).dir
           exact == h \notin S
<1>1. /\ SoundTable(TableC(c), X) /\ Held(TableV(c), X, fils, L, S)
      /\ Titled(TableV(c), fils, owners, Lives(c, fils))
  BY DEF Upright
<1>2. Rebound(c, d, fils[h], d.fp)
  BY DEF Rebound, Filed
<1>3. /\ Lives(d, gils) = Lives(c, fils) /\ gils[h] = d.fp
      /\ \A l \in Handle : l # h => gils[l] = fils[l]
      /\ \A l \in Handle : gils[l].dir_ptr = fils[l].dir_ptr
  <2>1. StayOpen(c, d, fils, gils, h, d.fp)
    BY <1>2, ReboundLives
  <2> QED
    BY <2>1 DEF StayOpen
<1>30. Sure(d, gils, owners, u) = L /\ Pairs(c, fils, owners) \subseteq Pairs(d, gils, owners)
  <2>1. Still(fils[h], d.fp)
    OBVIOUS
  <2>2. /\ \A q : Sure(d, gils, owners, q) = Sure(c, fils, owners, q)
        /\ Still(fils[h], d.fp) => Pairs(c, fils, owners) \subseteq Pairs(d, gils, owners)
    BY <1>2, ReboundPairs
  <2> QED
    BY <2>1, <2>2 DEF L
<1>4. X \subseteq Y
  BY <1>30 DEF Exempt
<1>5. /\ TableV(c).fat = FatV(c) /\ dir = DirV(c) /\ TableV(d).fat = FatV(d)
      /\ TableV(d).dir = DirV(d) /\ TableV(c) \in Tables
  BY TableType
<1>6. L \subseteq Lives(c, fils) /\ h \in L /\ Lives(c, fils) \subseteq Handle
  BY DEF Sure, Lives
<1>7. i \in 0 .. n_rootdir /\ i \in Label /\ d.fp.dir_ptr = i
  BY FatFsAssumption DEF Label, Filed
<1> HIDE DEF X, Y, L, dir, i
<1>8. PICK m \in Chart : /\ Charted(TableV(c).fat, m) /\ DirRight(m, dir, X)
                         /\ \A l \in L : Fitted(m, fils[l], l \notin S)
  BY <1>1 DEF Held, dir
<1>9. Fits(m, i, c.fp, exact, 0) /\ exact \in BOOLEAN
  BY <1>6, <1>8 DEF Fitted, i
<1> HIDE DEF exact
<1>10. /\ Through(c, d, Grown(m, i, dir))
       /\ \E n \in Chart : Charted(FatV(d), n) /\ Grows(m, n, i) /\ Fits(n, i, d.fp, exact, 0)
  BY <1>5, <1>7, <1>8, <1>9 DEF Extends
<1>11. PICK n \in Chart : Charted(FatV(d), n) /\ Grows(m, n, i) /\ Fits(n, i, d.fp, exact, 0)
  BY <1>10
<1>12. TableV(d).dir = dir /\ (TableC(d) = TableC(c) \/ TableC(d) \in Grown(m, i, dir))
  BY <1>10 DEF Through, Grown
<1>13. SoundTable(TableC(d), Y)
  <2>1. CASE TableC(d) = TableC(c)
    BY <1>1, <1>4, <2>1, SoundTableMore
  <2>2. CASE TableC(d) \in Grown(m, i, dir)
    <3>1. PICK o \in Chart : Charted(TableC(d).fat, o) /\ Grows(m, o, i)
      BY <2>2 DEF Grown
    <3>2. TableC(d).dir = dir /\ DirRight(o, dir, X)
      BY <1>8, <2>2, <3>1, DirGrown DEF Grown
    <3>3. SoundTable(TableC(d), X)
      BY <3>1, <3>2 DEF SoundTable
    <3> QED
      BY <1>4, <3>3, SoundTableMore
  <2> QED
    BY <1>12, <2>1, <2>2
<1>14. ASSUME NEW l \in L \ {h} PROVE Fitted(n, gils[l], l \notin S)
  <2>1. gils[l] = fils[l] /\ l \in Lives(c, fils) /\ fils[l].dir_ptr \in Label
    BY <1>3, <1>6
  <2>2. fils[l].dir_ptr # i
    BY <1>1, <2>1, OwnEntry DEF i
  <2>3. Fitted(m, fils[l], l \notin S)
    BY <1>8
  <2>4. Fitted(n, fils[l], l \notin S)
    BY <1>11, <2>1, <2>2, <2>3, GrowsFitted
  <2> QED
    BY <2>1, <2>4
<1>15. HeldBut(TableV(d), Y, gils, L, S, h)
  <2>1. DirRight(n, dir, X)
    BY <1>8, <1>11, DirGrown
  <2>2. DirRight(n, dir, Y)
    BY <1>4, <2>1 DEF DirRight
  <2>3. Fits(n, gils[h].dir_ptr, gils[h], h \notin S, 0)
    BY <1>3, <1>7, <1>11 DEF exact
  <2> QED
    BY <1>5, <1>11, <1>12, <1>14, <2>2, <2>3 DEF HeldBut
<1>16. Titled(TableV(d), gils, owners, Lives(d, gils))
  BY <1>1, <1>3, <1>6, <1>12 DEF Titled, dir
<1> QED
  BY <1>13, <1>15, <1>16, <1>30 DEF Leaning, Y

\* A file at its place, in a chain that is long enough, has p for its file object.
Placing(f, p, exact) == \A m \in Chart : Fits(m, f.dir_ptr, f, TRUE, 0) => Fitted(m, p, exact)

\* The same handles are between two positions, but perhaps for h.
SameBut(S, R, h) == \A q \in Handle : q # h => (q \in S <=> q \in R)

\* f_truncate leaves the tables upright, the file being cut.
LEMMA CutUpright ==
  ASSUME NEW fils \in [Handle -> FIL], NEW h \in Handle, NEW c \in Fair, IsOk(Reject(c)),
         Headed(c.fp), c.fp = fils[h], c.fp.wr, h \in Lives(c, fils),
         \A q \in Handle : Listed(fils[q]), NEW owners, owners[h] \in Name,
         NEW S, NEW R, SameBut(S, R, h), NEW d, d = f_truncate(c),
         NEW p \in FIL, Rebound(c, d, fils[h], p), p.written = d.fp.written,
         NEW gils, Binds(fils, h, p, gils),
         NEW k, NEW u, NEW l, NEW w \in SUBSET Name, k \subseteq l, u \subseteq w,
         owners[h] \in l, h \in S \/ (~IsOk(d) /\ d.hit) => owners[h] \in w,
         IsOk(d) /\ owners[h] \notin w => Placing(d.fp, p, h \notin R),
         Leaning(c, fils, owners, S, h, k, u), Orderly(c, fils, owners, S)
  PROVE  Upright(d, gils, owners, R, l, w)
<1> DEFINE X == Exempt(k, u, Pairs(c, fils, owners))
           Y == Exempt(l, w, Pairs(d, gils, owners))
           L == Sure(c, fils, owners, u)
           M == Sure(d, gils, owners, w)
           i == c.fp.dir_ptr
           n == owners[h]
           dir == TableV(c).dir
           exact == h \notin S
<1>1. /\ SoundTable(TableC(c), X) /\ HeldBut(TableV(c), X, fils, L, S, h)
      /\ Titled(TableV(c), fils, owners, Lives(c, fils))
  BY DEF Leaning
<1>2. StayOpen(c, d, fils, gils, h, p)
  BY ReboundLives
<1>3. /\ Lives(d, gils) = Lives(c, fils) /\ gils[h] = p
      /\ \A q \in Handle : q # h => gils[q] = fils[q]
      /\ \A q \in Handle : gils[q].dir_ptr = fils[q].dir_ptr
  BY <1>2 DEF StayOpen
<1>4. /\ c \in Good /\ i \in Label /\ n \in Name /\ exact \in BOOLEAN
      /\ \A q \in Lives(c, fils) : fils[q].dir_ptr \in Label /\ q \in Handle
  BY ValidateLive DEF Lives, LiveIn, Listed, Label
<1>5. /\ TableV(c).fat = FatV(c) /\ dir = DirV(c) /\ TableV(c) \in Tables
  BY <1>4, TableType
<1>6. M \subseteq L /\ M \subseteq Handle /\ L \subseteq Lives(c, fils) /\ (h \in M => n \notin w)
  BY <1>3 DEF Sure, Lives
<1> HIDE DEF X, Y, L, M, i, n, dir, exact
<1>7. PICK m \in Chart : /\ Charted(TableV(c).fat, m) /\ DirRight(m, dir, X)
                         /\ \A q \in L \ {h} : Fitted(m, fils[q], q \notin S)
                         /\ Fits(m, i, c.fp, exact, 0)
  BY <1>1 DEF HeldBut, dir, i, exact
<1>8. /\ d \in Good /\ Cuts(c, d, m, i, exact)
      /\ exact /\ ~IsOk(d) => d.hit
      /\ \/ d.fp.written /\ d.fp.fsize = c.fp.fptr
         \/ d.fp = c.fp /\ Quiet(c, d)
  BY <1>4, <1>5, <1>7, TruncateCuts
<1>9. d.fp.dir_ptr = i
  BY TruncateType DEF Result, Filed, i
<1>10. n \notin w => IsOk(d) /\ exact /\ Placing(d.fp, p, h \notin R)
  BY <1>8 DEF n, exact
<1>11. X \subseteq Y
  <2>1. Still(fils[h], p)
    BY <1>8 DEF Still
  <2>2. Pairs(c, fils, owners) \subseteq Pairs(d, gils, owners)
    BY <2>1, ReboundPairs
  <2> QED
    BY <2>2 DEF Exempt, X, Y
<1>12. /\ TableV(d).fat = FatV(d) /\ TableV(d).dir = DirV(d)
  BY <1>8, TableType
<1>13. ASSUME NEW o \in Chart, \A q \in L \ {h} : Fitted(o, fils[q], q \notin S),
              Fits(o, i, d.fp, exact, 0), NEW q \in M
       PROVE  Fitted(o, gils[q], q \notin R)
  <2>1. CASE q = h
    <3>1. n \notin w /\ exact
      BY <1>6, <1>10, <2>1
    <3>2. Fits(o, d.fp.dir_ptr, d.fp, TRUE, 0)
      BY <1>9, <1>13, <3>1
    <3>3. Fitted(o, p, h \notin R)
      BY <1>10, <3>1, <3>2 DEF Placing
    <3> QED
      BY <1>3, <2>1, <3>3
  <2>2. CASE q # h
    <3>1. (q \notin S) = (q \notin R) /\ q \in L \ {h} /\ gils[q] = fils[q]
      BY <1>3, <1>6, <2>2 DEF SameBut
    <3> QED
      BY <1>13, <3>1
  <2> QED
    BY <2>1, <2>2
<1>14. Titled(TableV(c), gils, owners, Lives(d, gils))
  BY <1>1, <1>3, <1>4 DEF Titled
<1>15. CASE Quiet(c, d) /\ d.fp = c.fp
  <2>1. TableV(d) = TableV(c) /\ TableC(d) \in {TableC(c), TableV(c)}
    BY <1>15 DEF Quiet
  <2>2. SoundTable(TableV(c), X)
    BY <1>1 DEF HeldBut, SoundTable
  <2>3. SoundTable(TableC(d), Y)
    BY <1>1, <1>11, <2>1, <2>2, SoundTableMore
  <2>4. Held(TableV(d), Y, gils, M, R)
    <3>1. DirRight(m, dir, Y)
      BY <1>7, <1>11 DEF DirRight
    <3>2. \A q \in M : Fitted(m, gils[q], q \notin R)
      BY <1>7, <1>13, <1>15
    <3> QED
      BY <1>7, <2>1, <3>1, <3>2 DEF Held, dir
  <2>5. Titled(TableV(d), gils, owners, Lives(d, gils))
    BY <1>14, <2>1
  <2> QED
    BY <2>3, <2>4, <2>5 DEF Upright, Y, M
<1>16. CASE d.fp.written
  <2>1. <<i, n>> \in Y
    <3>1. <<gils[h].dir_ptr, owners[h]>> \in Pairs(d, gils, owners)
      BY <1>3, <1>16 DEF Pairs
    <3>2. gils[h].dir_ptr = i
      BY <1>3 DEF i
    <3> QED
      BY <1>4, <3>1, <3>2 DEF Exempt, Y, n
  <2>2. ASSUME NEW o \in Chart, Spares(m, o, {i}) PROVE DirRight(o, dir, Y)
    <3> SUFFICES ASSUME NEW j \in Label, dir[j].name \in Name, <<j, dir[j].name>> \notin Y
                 PROVE  Right(o, j, dir[j])
      BY DEF DirRight
    <3>1. dir[i].name = n
      BY <1>1 DEF Titled, dir, i, n
    <3>2. j # i
      BY <2>1, <3>1
    <3>3. Right(m, j, dir[j])
      BY <1>7, <1>11 DEF DirRight
    <3> QED
      BY <2>2, <3>2, <3>3, RightSpared
  <2>3. ASSUME NEW t \in Kin(m, i, dir) PROVE SoundTable(t, Y)
    BY <2>2 DEF Kin, SoundTable
  <2>4. TableV(d) \in Kin(m, i, dir) /\ TableC(d) \in Kin(m, i, dir) \cup {TableC(c)}
    BY <1>5, <1>8 DEF Cuts, Through
  <2>5. SoundTable(TableC(d), Y)
    <3>1. SoundTable(TableC(c), Y)
      BY <1>1, <1>11, SoundTableMore
    <3> QED
      BY <2>3, <2>4, <3>1
  <2>6. TableV(d).dir = dir
    BY <2>4 DEF Kin
  <2>7. PICK o \in Chart : /\ Charted(FatV(d), o) /\ Spares(m, o, {i})
                           /\ Fits(o, i, d.fp, exact, 0)
    BY <1>8 DEF Cuts
  <2>8. ASSUME NEW q \in L \ {h} PROVE Fitted(o, fils[q], q \notin S)
    <3>1. q \in Lives(c, fils) /\ q # h /\ fils[q].dir_ptr \in Label
      BY <1>4, <1>6
    <3>2. fils[q].dir_ptr # i
      BY <1>1, <3>1, OwnEntry DEF i
    <3>3. Fitted(m, fils[q], q \notin S)
      BY <1>7
    <3>4. fils[q].dir_ptr \in Label \ {i}
      BY <3>1, <3>2
    <3> QED
      BY <2>7, <3>3, <3>4, SparesFitted
  <2>9. Held(TableV(d), Y, gils, M, R)
    <3>1. \A q \in M : Fitted(o, gils[q], q \notin R)
      BY <1>13, <2>7, <2>8
    <3>2. DirRight(o, dir, Y)
      BY <2>2, <2>7
    <3> QED
      BY <1>12, <2>6, <2>7, <3>1, <3>2 DEF Held
  <2>10. Titled(TableV(d), gils, owners, Lives(d, gils))
    BY <1>14, <2>6 DEF Titled, dir
  <2> QED
    BY <2>5, <2>9, <2>10 DEF Upright, Y, M
<1> QED
  BY <1>8, <1>15, <1>16

\* A chain that is long enough for some bytes is so for fewer.
LEMMA HoldsLess ==
  ASSUME NEW fat \in [Cluster -> FatEntry], NEW m \in Chart, Charted(fat, m), NEW i \in Label,
         NEW p \in Nat, Holds(m, i, p), NEW q \in Nat, q <= p
  PROVE  Holds(m, i, q)
<1> SUFFICES ASSUME q > 0 PROVE Holds(m, i, q)
  BY DEF Holds
<1> DEFINE s == Chain(fat, m.hd[i])
           a == (p - 1) \div bcs
           b == (q - 1) \div bcs
<1>1. bcs \in Nat \ {0} /\ p > 0 /\ i # 0
  BY ClusterSize, FatFsAssumption DEF Label
<1>2. PICK k \in Cluster : m.own[k] = i /\ m.pos[k] = a
  BY <1>1 DEF Holds
<1>3. m.hd[i] # 0
  BY <1>1, <1>2 DEF Charted
<1>4. /\ s \in Seq(Cluster) /\ Charts(fat, m, i, s)
      /\ \A l \in Cluster : m.own[l] = i => m.pos[l] < Len(s) /\ s[m.pos[l] + 1] = l
  BY <1>3, ChartedChain
<1> HIDE DEF s
<1>5. a < Len(s)
  BY <1>2, <1>4
<1>6. a \in Nat /\ b \in Nat /\ b <= a
  <2>1. p - 1 \in Nat /\ q - 1 \in Nat
    BY <1>1
  <2>2. a \in Nat /\ b \in Nat
    BY <1>1, <2>1, Division
  <2>3. q - 1 < (a + 1) * bcs
    <3>1. /\ p - 1 = bcs * a + ((p - 1) % bcs) /\ (p - 1) % bcs \in 0 .. bcs - 1
      BY <1>1, <2>1, Division
    <3> DEFINE r == (p - 1) % bcs
    <3> HIDE DEF a
    <3>2. (a + 1) * bcs = bcs * a + bcs /\ bcs * a \in Nat
      BY <1>1, <2>2, SMTT(60)
    <3>3. p - 1 = bcs * a + r /\ r \in 0 .. bcs - 1
      BY <3>1
    <3> DEFINE y == bcs * a
               z == (a + 1) * bcs
    <3>4. z = y + bcs /\ y \in Nat /\ p - 1 = y + r
      BY <3>2, <3>3
    <3> HIDE DEF r, y, z
    <3>5. q - 1 < z
      BY <1>1, <3>3, <3>4
    <3> QED
      BY <3>5 DEF z
  <2> HIDE DEF a
  <2>4. b < a + 1
    BY <1>1, <2>1, <2>2, <2>3, Quotient
  <2> QED
    BY <2>2, <2>4
<1> HIDE DEF a, b
<1>7. b + 1 \in 1 .. Len(s)
  BY <1>4, <1>5, <1>6
<1>8. s[b + 1] \in Cluster /\ m.own[s[b + 1]] = i /\ m.pos[s[b + 1]] = b
  BY <1>4, <1>6, <1>7 DEF Charts
<1> QED
  BY <1>8 DEF Holds, b

\* A seek back finds its way along the chain.
LEMMA ReachingBack ==
  ASSUME NEW c \in Good, NEW m \in Chart, Charted(FatV(c), m), NEW i \in Label,
         Fits(m, i, c.fp, TRUE, 0), c.fp.err = "FR_OK", NEW ofs \in Nat, ofs <= c.fp.fptr
  PROVE  Reaching(c, ofs)
<1>1. c.fp.fptr \in Nat /\ i # 0 /\ FatV(c) \in [Cluster -> FatEntry]
  <2>1. TableV(c) \in Tables /\ TableV(c).fat = FatV(c)
    BY TableType
  <2>2. c.fp.fptr \in Nat
    BY DEF Good, Ctx, FIL
  <2> QED
    BY <2>1, <2>2, FatFsAssumption DEF Label, Tables
<1>2. Holds(m, i, c.fp.fptr)
  <2>1. CASE c.fp.fptr = 0
    BY <2>1 DEF Holds
  <2>2. CASE c.fp.fptr # 0
    <3>1. c.fp.clust \in Cluster /\ m.own[c.fp.clust] = i /\ m.pos[c.fp.clust] = Behind(c.fp.fptr)
      BY <1>1, <2>2 DEF Fits
    <3> QED
      BY <3>1 DEF Holds, Behind
  <2> QED
    BY <2>1, <2>2
<1>3. Holds(m, i, ofs)
  BY <1>1, <1>2, HoldsLess
<1> QED
  BY <1>3 DEF Reaching

\* A file object with another position; at its place only if that is the beginning.
LEMMA PlacingBack ==
  ASSUME NEW f \in FIL, f.dir_ptr \in Label, NEW pos \in Nat, NEW exact \in BOOLEAN,
         NEW p, p = [f EXCEPT !.fptr = pos], pos > 0 => f.fptr > 0,
         exact => pos \in {0, f.fptr}
  PROVE  Placing(f, p, exact)
<1> SUFFICES ASSUME NEW m \in Chart, Fits(m, f.dir_ptr, f, TRUE, 0) PROVE Fitted(m, p, exact)
  BY DEF Placing
<1>1. /\ p.dir_ptr = f.dir_ptr /\ p.fptr = pos /\ p.sclust = f.sclust /\ p.clust = f.clust
      /\ p.fsize = f.fsize /\ p.err = f.err /\ f.fptr \in Nat
  BY DEF FIL
<1>2. f.dir_ptr # 0
  BY FatFsAssumption DEF Label
<1>3. m.hd[p.dir_ptr] = p.sclust /\ Holds(m, p.dir_ptr, p.fsize)
  BY <1>1, <1>2 DEF Fits
<1>4. p.err = "FR_OK" /\ p.fptr > 0 =>
        /\ p.clust \in Cluster /\ m.own[p.clust] = p.dir_ptr
        /\ exact => m.pos[p.clust] = Behind(p.fptr)
  <2> SUFFICES ASSUME p.err = "FR_OK", p.fptr > 0
               PROVE  /\ p.clust \in Cluster /\ m.own[p.clust] = p.dir_ptr
                      /\ exact => m.pos[p.clust] = Behind(p.fptr)
    OBVIOUS
  <2>1. f.fptr > 0
    BY <1>1
  <2>2. f.clust \in Cluster /\ m.own[f.clust] = f.dir_ptr /\ m.pos[f.clust] = Behind(f.fptr)
    BY <1>1, <1>2, <2>1 DEF Fits
  <2>3. exact => pos = f.fptr
    BY <1>1
  <2> QED
    BY <1>1, <2>2, <2>3
<1>5. Fits(m, p.dir_ptr, p, exact, 0)
  BY <1>3, <1>4 DEF Fits
<1> QED
  BY <1>3, <1>5 DEF Fitted

\* What ftruncate says of the file n of a handle: u and k are the files calls failed on and
\* those that were cut before, w and l those afterwards.
CutMarks(n, S, h, c, k, u, l, w) ==
  /\ w \in SUBSET Name /\ k \subseteq l /\ u \subseteq w
  /\ n \in l /\ (n \in u => w = Name)
  /\ h \in S \/ (~IsOk(c) /\ c.hit) => n \in w

\* A position ftruncate put back is the one it cut at, or the beginning; but for the handles
\* it left between two positions.
Strays(S, h, c, len) == IF IsOk(c) /\ c.fp.fptr \notin {0, len} THEN S \cup {h} ELSE S

\* ftruncate's second half, for a file that was opened for writing.
LEMMA CutWriter ==
  ASSUME NEW fils \in [Handle -> FIL], NEW h \in Handle, NEW x \in Good, NEW d \in Fair,
         d \in Good, IsOk(Reject(d)), Headed(d.fp), NEW len \in Nat,
         LseekEnds(x, d, len), IsOk(d),
         IsOk(d) /\ x.fp.wr /\ Reaching(x, len) => d.fp.fptr = len,
         Filed(x, d), Extends(x, 0, d, 0), Still(x.fp, d.fp), Headed(x.fp), x.fp.err = "FR_OK",
         x.fp = fils[h], x.fp.wr, h \in Lives(x, fils), \A q \in Handle : Listed(fils[q]),
         NEW owners, owners[h] \in Name, NEW S, S \subseteq Handle,
         NEW e, e = f_truncate(d), NEW c, NEW p \in FIL, c = WithFp(e, p), IsOk(c) <=> IsOk(e),
         p = IF IsOk(e) THEN [e.fp EXCEPT !.fptr = Least(x.fp.fptr, len)] ELSE e.fp,
         NEW gils, Binds(fils, h, p, gils),
         NEW k, NEW u, owners[h] \notin u, NEW l, NEW w, CutMarks(owners[h], S, h, e, k, u, l, w),
         Upright(x, fils, owners, S, k, u), Orderly(x, fils, owners, S)
  PROVE  Upright(e, gils, owners, Strays(S, h, c, len), l, w)
<1> DEFINE hils == [fils EXCEPT ![h] = d.fp]
           pos == Least(x.fp.fptr, len)
           R == Strays(S, h, c, len)
           n == owners[h]
<1>1. d.fp \in FIL /\ x.fp \in FIL /\ x.fp.fptr \in Nat /\ u # Name
  BY DEF Good, Ctx, FIL
<1>2. Binds(fils, h, d.fp, hils)
  BY DEF Binds
<1>3. \A q \in Lives(x, fils) : fils[q].dir_ptr \in Label
  BY DEF Lives, LiveIn, Listed, Label
<1>4. Rebound(x, d, fils[h], d.fp)
  BY DEF Rebound, Filed
<1>5. StayOpen(x, d, fils, hils, h, d.fp)
  BY <1>1, <1>2, <1>4, ReboundLives
<1>6. /\ hils \in [Handle -> FIL] /\ d.fp = hils[h] /\ h \in Lives(d, hils) /\ d.fp.wr
      /\ \A q \in Handle : q # h => hils[q] = fils[q]
  BY <1>4, <1>5 DEF StayOpen, Rebound
<1>7. Leaning(d, hils, owners, S, h, k, u)
  BY <1>1, <1>2, <1>3, ExtendsLeaning
<1>8. Orderly(d, hils, owners, S)
  BY <1>1, <1>2, <1>4, <1>6, ReboundOrderly DEF Bare
<1>9. \A q \in Handle : Listed(hils[q])
  <2>1. Listed(d.fp)
    <3>1. Listed(fils[h])
      OBVIOUS
    <3> QED
      BY <3>1, <1>4 DEF Listed, Rebound
  <2> QED
    BY <1>6, <2>1
<1>10. Binds(hils, h, p, gils)
  BY DEF Binds
<1> HIDE DEF hils, pos, R
<1>11. /\ e \in Result(d)
       /\ IsOk(e) => e \in Good
  BY TruncateType
<1>12. e \in Fair /\ Filed(d, e) /\ e.fp \in FIL /\ e.fp.fs = d.fp.fs /\ e.fp.id = d.fp.id
       /\ e.fp.dir_ptr = d.fp.dir_ptr /\ e.fp.wr = d.fp.wr /\ e.fs_type = d.fs_type /\ e.id = d.id
  BY <1>11 DEF Result, Fair, Ctx, Filed
<1>13. pos \in Nat /\ (pos > 0 => x.fp.fptr > 0 /\ len > 0) /\ pos \in {x.fp.fptr, len}
       /\ pos <= x.fp.fptr /\ pos <= len
  BY <1>1 DEF Least, pos
<1>14. p.fs = e.fp.fs /\ p.id = e.fp.id /\ p.dir_ptr = e.fp.dir_ptr /\ p.wr = e.fp.wr
       /\ p.written = e.fp.written
  BY <1>12, <1>13 DEF FIL, pos
<1>15. Rebound(d, e, hils[h], p)
  BY <1>6, <1>12, <1>14 DEF Rebound
<1>16. SameBut(S, R, h)
  BY DEF SameBut, R, Strays
<1>17. c.fp = p
  BY <1>12 DEF WithFp, Fair, Ctx
<1>18. IsOk(e) /\ n \notin w => Placing(e.fp, p, h \notin R)
  <2> SUFFICES ASSUME IsOk(e), n \notin w PROVE Placing(e.fp, p, h \notin R)
    OBVIOUS
  <2>1. h \notin S /\ p = [e.fp EXCEPT !.fptr = pos] /\ p.fptr = pos
    BY <1>12, <1>13 DEF CutMarks, pos, FIL
  <2>2. HeldBut(TableV(d), Exempt(k, u, Pairs(d, hils, owners)), hils,
                Sure(d, hils, owners, u), S, h)
    BY <1>7 DEF Leaning
  <2>3. PICK m \in Chart : /\ Charted(TableV(d).fat, m)
                           /\ Fits(m, hils[h].dir_ptr, hils[h], h \notin S, 0)
    BY <2>2 DEF HeldBut
  <2>4. Charted(FatV(d), m) /\ Fits(m, d.fp.dir_ptr, d.fp, TRUE, 0) /\ d.fp.dir_ptr \in Label
    <3>1. TableV(d).fat = FatV(d)
      BY TableType
    <3>2. d.fp.dir_ptr \in Label
      BY <1>3, <1>4 DEF Rebound
    <3> QED
      BY <1>6, <2>1, <2>3, <3>1, <3>2
  <2>5. e.fp.fptr = d.fp.fptr
    BY <2>4, TruncateCuts
  <2>6. pos > 0 => e.fp.fptr > 0
    <3>1. ASSUME pos > 0 PROVE d.fp.fptr > 0
      <4>1. Rooted(x.fp)
        BY <1>13, <3>1 DEF Headed
      <4> QED
        BY <1>13, <3>1, <4>1 DEF LseekEnds
    <3> QED
      BY <2>5, <3>1
  <2>7. pos = len => e.fp.fptr = len
    <3> SUFFICES ASSUME pos = len PROVE d.fp.fptr = len
      BY <2>5
    <3>1. Held(TableV(x), Exempt(k, u, Pairs(x, fils, owners)), fils, Sure(x, fils, owners, u), S)
      BY <1>1 DEF Upright
    <3>2. PICK o \in Chart : /\ Charted(TableV(x).fat, o)
                             /\ \A q \in Sure(x, fils, owners, u) : Fitted(o, fils[q], q \notin S)
      BY <3>1 DEF Held
    <3>3. h \in Sure(x, fils, owners, u)
      BY DEF Sure
    <3>4. Fits(o, x.fp.dir_ptr, x.fp, TRUE, 0) /\ x.fp.dir_ptr \in Label
      BY <1>3, <2>1, <3>2, <3>3 DEF Fitted
    <3>5. Charted(FatV(x), o)
      BY <3>2, TableType
    <3>6. Reaching(x, len)
      BY <1>13, <3>4, <3>5, ReachingBack
    <3> QED
      BY <3>6
  <2>8. h \notin R => pos \in {0, e.fp.fptr}
    <3> SUFFICES ASSUME h \notin R PROVE pos \in {0, e.fp.fptr}
      OBVIOUS
    <3>1. pos \in {0, len}
      BY <1>17, <2>1 DEF R, Strays
    <3> QED
      BY <2>7, <3>1
  <2>9. e.fp.dir_ptr \in Label
    BY <1>12, <2>4
  <2> DEFINE exact == h \notin R
  <2>10. exact \in BOOLEAN /\ (exact => pos \in {0, e.fp.fptr})
    BY <2>8
  <2> HIDE DEF exact
  <2>11. Placing(e.fp, p, exact)
    BY <1>12, <1>13, <2>1, <2>6, <2>9, <2>10, PlacingBack
  <2> QED
    BY <2>11 DEF exact
<1>19. w \in SUBSET Name /\ k \subseteq l /\ u \subseteq w /\ n \in l
       /\ (h \in S \/ (~IsOk(e) /\ e.hit) => n \in w)
  BY DEF CutMarks
<1>20. Upright(e, gils, owners, R, l, w)
  BY <1>6, <1>7, <1>8, <1>9, <1>10, <1>14, <1>15, <1>16, <1>18, <1>19, CutUpright, ZenonT(60)
<1> QED
  BY <1>20 DEF R

\* A seek that succeeds leaves a file that can be gone on with.
LEMMA SeekGoesOn ==
  ASSUME NEW x \in Fair, Headed(x.fp), NEW len \in Nat, NEW d, d = f_lseek(x, len), IsOk(d)
  PROVE  /\ IsOk(Reject(x)) /\ x \in Good /\ d \in Good /\ d \in Fair /\ IsOk(Reject(d))
         /\ Filed(x, d) /\ Headed(d.fp) /\ d.fp \in FIL /\ LiveIn(x, x.fp) /\ x.fp.err = "FR_OK"
<1>1. d \in Result(x) /\ LseekEnds(x, d, len)
  BY LseekType
<1>2. IsOk(Reject(x))
  <2>1. f_lseek(x, len) = IF IsOk(Reject(x)) THEN f_lseek(x, len) ELSE Reject(x)
    BY ZenonT(60) DEF f_lseek, Then
  <2> QED
    BY <2>1
<1>3. /\ LiveIn(x, x.fp) /\ x.stat # "STA_NOINIT" /\ x \in Good /\ x.fp.err = "FR_OK"
      /\ x.fs_type # 0
  BY <1>2, ValidateLive, RejectType
<1>4. /\ d \in Good /\ d \in Fair /\ Filed(x, d) /\ Headed(d.fp) /\ d.fp.err = "FR_OK"
      /\ d.fp \in FIL
  BY <1>1 DEF LseekEnds, Result, Good, Ctx
<1>5. d.fp.fs /\ d.fs_type # 0 /\ d.fp.id = d.id /\ d.stat # "STA_NOINIT"
  BY <1>3, <1>4 DEF Filed, LiveIn
<1>6. validate(d) = Ok(d)
  BY <1>5 DEF validate
<1>7. Ok(d).fp = d.fp /\ IsOk(Ok(d))
  BY <1>4, OkType DEF Good, Kept, Steady
<1>8. Reject(d) = Ok(d)
  BY <1>4, <1>6, <1>7 DEF Reject, Then
<1> QED
  BY <1>2, <1>3, <1>4, <1>7, <1>8

\* What ftruncate comes to.
LEMMA ElmFtruncateIs ==
  ASSUME NEW x \in Fair, Headed(x.fp), NEW len \in Nat, NEW d, d = f_lseek(x, len),
         NEW e, e = f_truncate(d), NEW c, c = elm_ftruncate(x, len)
  PROVE  /\ ~IsOk(d) => c = d
         /\ IsOk(d) /\ ~IsOk(e) => c = e
         /\ IsOk(d) /\ IsOk(e) =>
              LET p == [e.fp EXCEPT !.fptr = Least(x.fp.fptr, len)]
              IN c = WithFp(e, p) /\ p \in FIL /\ e \in Ctx
<1>1. ~IsOk(d) => c = d
  BY DEF elm_ftruncate, Then
<1>2. IsOk(d) /\ ~IsOk(e) => c = e
  BY DEF elm_ftruncate, Then
<1>3. ASSUME IsOk(d), IsOk(e)
      PROVE  LET p == [e.fp EXCEPT !.fptr = Least(x.fp.fptr, len)]
             IN c = WithFp(e, p) /\ p \in FIL /\ e \in Ctx
  <2> DEFINE pos == Least(x.fp.fptr, len)
             p == [e.fp EXCEPT !.fptr = pos]
  <2>1. c = [e EXCEPT !.fp.fptr = pos]
    BY <1>3 DEF elm_ftruncate, Then
  <2>2. d \in Fair /\ Headed(d.fp)
    BY <1>3, SeekGoesOn
  <2>3. e \in Good
    BY <1>3, <2>2, TruncateType
  <2>4. pos \in Nat /\ e \in Ctx /\ e.fp \in FIL
    BY <2>3 DEF Least, Fair, Good, Ctx, FIL
  <2> HIDE DEF pos
  <2>5. p \in FIL
    BY <2>4 DEF FIL
  <2>6. c = WithFp(e, p)
    BY <2>1, <2>4 DEF Ctx, WithFp
  <2>7. c = WithFp(e, p) /\ p \in FIL /\ e \in Ctx
    BY <2>4, <2>5, <2>6
  <2> QED
    BY <2>7 DEF pos
<1> QED
  BY <1>1, <1>2, <1>3

\* ... of a file that was opened for writing.
MayCut(f, n, S, h, c, k, u, l, w) == f.wr => CutMarks(n, S, h, c, k, u, l, w)

\* An ftruncate whose seek succeeds.
Ftruncates(x, len, c) == c = elm_ftruncate(x, len) /\ IsOk(f_lseek(x, len))

\* Handles of entries.
Enrolled(fils) == fils \in [Handle -> FIL] /\ \A q \in Handle : Listed(fils[q])

\* ftruncate leaves the tables upright.
LEMMA FtruncateUpright ==
  ASSUME NEW fils, Enrolled(fils), NEW h \in Handle, NEW x \in Fair, Headed(x.fp),
         x.fp = fils[h], NEW len \in Nat,
         NEW c, Ftruncates(x, len, c),
         NEW owners, owners[h] \in Name, NEW S, S \subseteq Handle,
         NEW gils, Binds(fils, h, c.fp, gils), NEW k, NEW u, NEW l, NEW w \in SUBSET Name,
         k \subseteq l, u \subseteq w, MayCut(fils[h], owners[h], S, h, c, k, u, l, w),
         Upright(x, fils, owners, S, k, u), Orderly(x, fils, owners, S)
  PROVE  /\ Upright(c, gils, owners, Strays(S, h, c, len), l, w)
         /\ Orderly(c, gils, owners, Strays(S, h, c, len))
<1>0. /\ c = elm_ftruncate(x, len) /\ IsOk(f_lseek(x, len)) /\ fils \in [Handle -> FIL]
      /\ \A q \in Handle : Listed(fils[q])
  BY DEF Ftruncates, Enrolled
<1> USE <1>0
<1> DEFINE d == f_lseek(x, len)
           e == f_truncate(d)
           p == IF IsOk(e) THEN [e.fp EXCEPT !.fptr = Least(x.fp.fptr, len)] ELSE e.fp
           R == Strays(S, h, c, len)
<1>1. /\ IsOk(Reject(x)) /\ x \in Good /\ d \in Good /\ d \in Fair /\ IsOk(Reject(d))
      /\ Filed(x, d) /\ Headed(d.fp) /\ d.fp \in FIL /\ LiveIn(x, x.fp) /\ x.fp.err = "FR_OK"
  BY SeekGoesOn
<1>2. /\ d \in Worked(x) /\ LseekEnds(x, d, len)
      /\ IsOk(d) /\ x.fp.wr /\ Reaching(x, len) => d.fp.fptr = len
  BY LseekType
<1>3. Extends(x, 0, d, 0) /\ Still(x.fp, d.fp) /\ h \in Lives(x, fils)
  BY <1>1, <1>2 DEF Worked, Still, Lives
<1>4. e \in Result(d)
  BY <1>1, TruncateType
<1>5. /\ e \in Ctx /\ e.fp \in FIL /\ Filed(d, e)
  BY <1>4 DEF Result, Fair, Ctx
<1>6. c = WithFp(e, p) /\ p \in FIL /\ e \in Ctx
  <2>1. CASE IsOk(e)
    BY <2>1, ElmFtruncateIs
  <2>2. CASE ~IsOk(e)
    <3>1. c = e
      BY <2>2, ElmFtruncateIs, ZenonT(60)
    <3>2. WithFp(e, e.fp) = e
      BY <1>5 DEF WithFp, Ctx
    <3> QED
      BY <1>5, <2>2, <3>1, <3>2
  <2> QED
    BY <2>1, <2>2
<1>7. /\ p.fs = e.fp.fs /\ p.id = e.fp.id /\ p.dir_ptr = e.fp.dir_ptr /\ p.wr = e.fp.wr
      /\ p.written = e.fp.written
  BY <1>5 DEF FIL
<1>8. e = f_truncate(d)
  OBVIOUS
<1> HIDE DEF p, e
<1>9. c.fp = p /\ Alike(e, c) /\ c.hit = e.hit /\ (IsOk(c) <=> IsOk(e))
  BY <1>6 DEF WithFp, Ctx, Alike, IsOk
<1>10. Rebound(x, c, fils[h], p)
  BY <1>1, <1>5, <1>7, <1>9 DEF Rebound, Filed, Alike
<1>11. R \subseteq Handle /\ S \subseteq R
  BY DEF Strays
<1>12. CASE ~fils[h].wr
  <2>1. ~d.fp.wr
    BY <1>1, <1>12 DEF Filed
  <2>2. ~IsOk(e) /\ Quiet(d, e) /\ e.fp = d.fp /\ SameVolume(d, e)
    BY <1>1, <1>8, <2>1, TruncateReader
  <2>3. c = e /\ R = S
    BY <1>9, <2>2, ElmFtruncateIs, ZenonT(60) DEF Strays, e
  <2>4. Binds(fils, h, d.fp, gils)
    BY <2>2, <2>3
  <2>5. h \notin S
    BY <1>12 DEF Orderly
  <2>6. Upright(x, fils, owners, S, l, w)
    BY UprightMore
  <2>7. Upright(d, gils, owners, S, l, w) /\ Orderly(d, gils, owners, S)
    BY <1>2, <2>4, <2>5, <2>6, WorkedUpright
  <2>8. Upright(e, gils, owners, S, l, w) /\ Orderly(e, gils, owners, S)
    BY <2>2, <2>7, QuietUpright
  <2> QED
    BY <2>3, <2>8
<1>13. CASE fils[h].wr
  <2>1. CutMarks(owners[h], S, h, c, k, u, l, w)
    BY <1>13 DEF MayCut
  <2>2. CutMarks(owners[h], S, h, e, k, u, l, w)
    BY <1>9, <2>1 DEF CutMarks
  <2>3. Binds(fils, h, p, gils)
    BY <1>9
  <2>4. Orderly(c, gils, owners, R)
    <3>1. p.wr /\ Bare(p) /\ p.fs
      BY <1>1, <1>10, <1>13 DEF Rebound, Bare, LiveIn
    <3>2. Orderly(c, gils, owners, S)
      BY <1>6, <1>10, <2>3, <3>1, ReboundOrderly
    <3>3. gils[h] = p
      BY <2>3 DEF Binds
    <3>4. R \subseteq S \cup {h}
      BY DEF Strays
    <3> HIDE DEF R
    <3> QED
      BY <3>1, <3>2, <3>3, <3>4 DEF Orderly
  <2>5. CASE owners[h] \in u
    <3>1. w = Name
      BY <2>1, <2>5 DEF CutMarks
    <3> QED
      BY <2>4, <3>1, UprightLost
  <2>6. CASE owners[h] \notin u
    <3>1. p = IF IsOk(e) THEN [e.fp EXCEPT !.fptr = Least(x.fp.fptr, len)] ELSE e.fp
      BY DEF p
    <3> HIDE DEF d
    <3>2. IsOk(d)
      BY DEF d
    <3>3. Upright(e, gils, owners, Strays(S, h, c, len), l, w)
      BY <1>1, <1>2, <1>3, <1>6, <1>8, <1>9, <1>13, <2>2, <2>3, <2>6, <3>1, <3>2, CutWriter
    <3>4. Upright(c, gils, owners, Strays(S, h, c, len), l, w)
      BY <1>9, <3>3, AlikeUpright
    <3> QED
      BY <2>4, <3>4
  <2> QED
    BY <2>5, <2>6
<1> QED
  BY <1>12, <1>13

\* An ftruncate on the file of a handle that was opened for writing says so of it.
LEMMA CutDoubts ==
  ASSUME TypeInv, SoundInv, stat # "STA_NOINIT", NEW h \in Handle, fil[h].fs, fil[h].wr,
         NEW x, Begins(fil[h], x), h \in Lives(x, fil), NEW c,
         NEW request, request.how = NoFlags, request.op = "ftruncate"
  PROVE  CutMarks(owner[h], stray, h, c, cut[card], unsure[card],
                  CutBy(c, {owner[h]}, request), unsure[card] \cup Doubted(c, h, {owner[h]}))
<1> DEFINE n == owner[h]
           names == {n}
           k == cut[card]
           u == unsure[card]
           l == CutBy(c, names, request)
           w == Doubted(c, h, names)
<1>1. n \in Name /\ h # 0 /\ card \in Card /\ u \in SUBSET Name
  BY Owned, FatDevAssumption DEF TypeInv
<1>2. w \subseteq Name /\ (h \in stray => n \in w)
  BY <1>1, HandleDoubts
<1>3. Live(h)
  <2>1. Here.fs_type = fs.fs_type /\ Here.id = fs.id /\ Here.stat = stat
    BY DEF Here, Context
  <2>2. x.fs_type = fs.fs_type /\ x.id = fs.id /\ fil[h] \in FIL
    BY BeginsType DEF TypeInv, Filled
  <2>3. LiveIn(x, fil[h])
    BY DEF Lives
  <2> QED
    BY <2>1, <2>2, <2>3 DEF Live, Valid, Mounted, LiveIn
<1>4. Touched(h, names) = names
  BY <1>1, <1>3 DEF Touched
<1>5. l = k \cup names
  BY DEF CutBy, NoFlags
<1>6. n \in u => w = Name
  BY <1>4 DEF Doubted
<1>7. ~IsOk(c) /\ c.hit => n \in w
  BY <1>1, <1>2 DEF Doubted
<1> HIDE DEF k, u, l, w
<1>8. CutMarks(n, stray, h, c, k, u, l, u \cup w)
  <2>1. u \cup w \in SUBSET Name /\ u \subseteq u \cup w /\ (n \in u => u \cup w = Name)
    BY <1>1, <1>2, <1>6
  <2>2. k \subseteq l /\ n \in l
    BY <1>5
  <2>3. (h \in stray) \/ (~IsOk(c) /\ c.hit) => n \in u \cup w
    BY <1>2, <1>7
  <2> QED
    BY <2>1, <2>2, <2>3 DEF CutMarks
<1> QED
  BY <1>8 DEF k, u, l, w

\* ... on one that was not, what was said stays.
LEMMA CutReader ==
  ASSUME TypeInv, SoundInv, stat # "STA_NOINIT", NEW h \in Handle, fil[h].fs,
         NEW x, Begins(fil[h], x), NEW c, NEW names \in SUBSET Name,
         NEW w, w = unsure[card] \cup Doubted(c, h, names)
  PROVE  unsure[card] \subseteq w /\ w \in SUBSET Name
<1>1. /\ Doubted(c, h, names) \subseteq Name
      /\ h \in stray /\ h \in Lives(x, fil) => owner[h] \in Doubted(c, h, names)
  BY HandleDoubts
<1>2. unsure[card] \subseteq Name
  BY DEF TypeInv
<1> QED
  BY <1>1, <1>2

\* Ftruncate keeps the invariant.
LEMMA SoundFtruncate ==
  ASSUME TypeInv, SoundInv, NEW h \in Handle, NEW len \in Nat, Ftruncate(h, len)
  PROVE  SoundInv'
<1> DEFINE names == IF fil[h].wr THEN {owner[h]} ELSE {}
           r == [Request("ftruncate", h) EXCEPT !.n = len]
<1>1. PICK x : /\ Begins(fil[h], x) /\ ops < MaxOps /\ fil[h].fs
               /\ LET c == elm_ftruncate(x, len)
                  IN /\ Return(c, names, r, [fil EXCEPT ![h] = c.fp], owner)
                     /\ stray' = IF IsOk(c) /\ c.fp.fptr \notin {0, len}
                                 THEN stray \cup {h} ELSE stray
  BY FtruncateStep
<1> DEFINE c == elm_ftruncate(x, len)
           d == f_lseek(x, len)
           gils == [fil EXCEPT ![h] = c.fp]
           k == cut[card]
           u == unsure[card]
           l == CutBy(c, names, r)
           w == u \cup Doubted(c, h, names)
<1>2. r.h = h /\ r.how = NoFlags /\ r.op = "ftruncate"
  BY DEF Request
<1>3. Return(c, names, r, gils, owner)
  BY <1>1
<1>4. stray' = Strays(stray, h, c, len)
  BY <1>1 DEF Strays
<1>5. /\ x \in Fair /\ x.fp = fil[h] /\ x.stat = stat /\ fil[h] \in FIL
      /\ fil \in [Handle -> FIL] /\ stray \subseteq Handle /\ \A q \in Handle : Listed(fil[q])
      /\ owner[h] \in Name /\ card \in Card /\ unsure \in [Card -> SUBSET Name]
  BY <1>1, BeginsType, Owned DEF TypeInv, Filled
<1>6. Headed(x.fp)
  BY <1>1, HandleBegins
<1>7. names \in SUBSET Name /\ (fil[h].wr => names = {owner[h]})
  BY <1>5
<1>8. c \in Result(x)
  BY <1>5, <1>6, ElmFtruncateType
<1> HIDE DEF r, names
<1>9. Marks(l, w) /\ Returned(c) /\ fil' = gils /\ owner' = owner
  BY <1>2, <1>3, ReturnMarks
<1>10. k \subseteq l
  BY <1>2 DEF CutBy, NoFlags
<1> HIDE DEF l, w
<1>11. c.fp \in FIL /\ c.stat = stat
  BY <1>5, <1>8 DEF Result, Fair, Ctx, Filed
<1>12. Binds(fil, h, c.fp, gils) /\ gils \in [Handle -> FIL]
  BY <1>5, <1>11 DEF Binds
<1>13. c = elm_ftruncate(x, len) /\ d = f_lseek(x, len)
  OBVIOUS
<1>14. d \in Worked(x)
  BY <1>5, <1>6, LseekType
<1>15. ~IsOk(d) => c = d
  BY <1>5, <1>6, ElmFtruncateIs
<1>16. stat = "STA_NOINIT" => d = Failed(x, "FR_INVALID_OBJECT")
  BY <1>1, <1>5, HandleBegins, Untouched
<1> HIDE DEF c, d
<1>17. CASE stat = "STA_NOINIT"
  <2>1. x \in Ctx /\ "FR_INVALID_OBJECT" # "FR_OK"
    BY <1>5 DEF Fair
  <2>2. ~IsOk(d) /\ d.fp = x.fp
    BY <1>16, <1>17, <2>1 DEF Failed, IsOk, Ctx
  <2>3. c = Failed(x, "FR_INVALID_OBJECT") /\ gils = fil /\ stray' = stray
    BY <1>4, <1>5, <1>15, <1>16, <1>17, <2>2 DEF Strays
  <2>4. Fewer(AtRest, fil, owner, stray, gils, owner, stray')
    BY <2>3, FewerSame
  <2> QED
    BY <1>1, <1>2, <1>3, <1>10, <1>17, <2>3, <2>4, IdleCall DEF l
<1>18. CASE stat # "STA_NOINIT"
  <2>1. Upright(x, fil, owner, stray, k, u) /\ Orderly(x, fil, owner, stray)
    BY <1>1, <1>5, <1>18, HandleUpright
  <2>2. w \in SUBSET Name /\ u \subseteq w
    <3>1. w = unsure[card] \cup Doubted(c, h, names)
      BY DEF w
    <3> QED
      BY <1>1, <1>7, <1>18, <3>1, CutReader
  <2>3. Upright(c, gils, owner, stray', l, w) /\ Orderly(c, gils, owner, stray')
    <3>1. CASE ~IsOk(d)
      <4>1. c = d /\ stray' = stray
        BY <1>4, <1>15, <3>1 DEF Strays
      <4>2. h \in stray /\ h \in Lives(x, fil) => owner[h] \in w
        BY <1>1, <1>7, <1>18, HandleDoubts DEF w
      <4>3. Upright(x, fil, owner, stray, l, w)
        BY <1>10, <2>1, <2>2, UprightMore
      <4>4. Binds(fil, h, d.fp, gils)
        BY <1>12, <4>1
      <4>5. Upright(d, gils, owner, stray, l, w) /\ Orderly(d, gils, owner, stray)
        BY <1>5, <1>14, <2>1, <4>2, <4>3, <4>4, WorkedUpright
      <4> QED
        BY <4>1, <4>5
    <3>2. CASE IsOk(d)
      <4> HIDE DEF k, u, gils
      <4>1. LiveIn(x, x.fp)
        BY <1>5, <1>6, <1>13, <3>2, SeekGoesOn
      <4>2. h \in Lives(x, fil)
        BY <1>5, <4>1 DEF Lives
      <4>3. MayCut(fil[h], owner[h], stray, h, c, k, u, l, w)
        BY <1>1, <1>2, <1>7, <1>18, <4>2, CutDoubts DEF l, w, k, u, MayCut
      <4>4. IsOk(f_lseek(x, len))
        BY <1>13, <3>2
      <4>5. /\ Upright(c, gils, owner, Strays(stray, h, c, len), l, w)
            /\ Orderly(c, gils, owner, Strays(stray, h, c, len))
        <5>1. Ftruncates(x, len, c)
          BY <1>13, <4>4 DEF Ftruncates
        <5>2. x.fp = fil[h] /\ x \in Fair
          BY <1>5
        <5>3. Enrolled(fil)
          BY <1>5 DEF Enrolled
        <5>4. owner[h] \in Name /\ stray \subseteq Handle
          BY <1>5
        <5>5. Binds(fil, h, c.fp, gils)
          BY <1>12
        <5> QED
          BY <1>6, <1>10, <2>1, <2>2, <4>3, <5>1, <5>2, <5>3, <5>4, <5>5,
             FtruncateUpright, ZenonT(60)
      <4> QED
        BY <1>4, <4>5
    <3> QED
      BY <3>1, <3>2
  <2> QED
    BY <1>9, <1>11, <1>12, <1>18, <2>3, SoundEnds
<1> QED
  BY <1>17, <1>18

---------------------------------------------------------------------------
(* A file is opened.                                                       *)

\* After Overwrite the entry has no chain.
LEMMA OverwriteHollow ==
  ASSUME NEW c \in Good, IsOk(c), NEW i, At(c, i), NEW d, d = Overwrite(c, i), IsOk(d)
  PROVE  Hollow(TableV(d).dir[i])
<1> DEFINE cl == c.win[i].clust
           w == [c EXCEPT !.win[i].clust = 0, !.win[i].size = 0, !.wflag = TRUE]
           o == Ok(w)
           r == remove_chain(w, cl)
           l == [r EXCEPT !.last_clust = cl - 1]
           b == move_window(l, Dir(i))
           x == EntryFor(TableV(c).dir[i], 0, 0)
<1>1. d = IF cl = 0 THEN o ELSE IF IsOk(r) THEN b ELSE r
  BY DEF Overwrite, Then
<1>2. cl \in Cluster \cup {0} /\ i \in Label
  BY FieldsType, WindowEntry
<1>3. TableV(c).dir \in [Label -> Entry]
  BY TableType DEF Tables
<1>4. Hollow(x)
  <2>1. TableV(c).dir[i] \in Entry
    BY <1>2, <1>3
  <2> QED
    BY <2>1 DEF EntryFor, Entry, Hollow
<1>5. Emptied(c, w, i)
  BY EmptiedType, ZenonT(60)
<1> HIDE DEF cl, w, x
<1>6. w \in Good /\ IsOk(w) /\ TableV(w).dir[i] = x
  BY <1>2, <1>3, <1>5 DEF Emptied, Puts, Differs, IsOk, x
<1>7. CASE cl = 0
  <2>1. Over(o) = Over(w)
    BY <1>6, OkType DEF Good
  <2> QED
    BY <1>1, <1>4, <1>6, <1>7, <2>1 DEF TableV
<1>8. CASE cl # 0
  <2>1. cl \in Cluster /\ cl \in Nat /\ cl - 1 \in Nat
    BY <1>2, <1>8 DEF Cluster
  <2>2. r \in Good /\ GivesUp(w, r, cl)
    BY <1>6, <2>1, RemoveChainType
  <2>3. Inner(FatV(w), Cluster)
    <3>1. FatV(w) \in [Cluster -> FatEntry]
      BY <1>6, TableType DEF Tables
    <3>2. \A e \in FatEntry : e \in Cluster \cup {0} \/ e >= n_fatent
      BY FatFsAssumption DEF FatEntry, Cluster, n_fatent
    <3> QED
      BY <3>1, <3>2 DEF Inner
  <2>4. Through(w, r, Freed(Cluster, TableV(w)))
    BY <1>6, <2>1, <2>2, <2>3 DEF GivesUp
  <2> HIDE DEF r
  <2>5. TableV(r).dir = TableV(w).dir
    BY <2>4 DEF Through, Freed
  <2>6. l \in Ctx /\ l.sec = r.sec /\ Over(l) = Over(r)
    BY <2>1, <2>2 DEF Good, Ctx, Over
  <2>7. l \in Good
    BY <2>2, <2>6 DEF Good, Coherent, Ctx
  <2> HIDE DEF l
  <2>8. Dir(i) \in Sector
    BY SectorFacts DEF At
  <2>9. b \in Good /\ Flushed(l, b)
    BY <2>7, <2>8, MoveWindowType
  <2> HIDE DEF b
  <2>10. TableV(b) = TableV(r)
    BY <2>6, <2>9 DEF Flushed, Moved, TableV
  <2> QED
    BY <1>1, <1>4, <1>6, <1>8, <2>5, <2>10
<1> QED
  BY <1>7, <1>8

\* A file that was opened for this mode, at its beginning.
AsObject(d, mode) ==
  /\ d.fp.fs /\ d.fp.id = d.id /\ d.fp.wr = mode.wr /\ d.fp.fptr = 0 /\ d.fp.err = "FR_OK"
  /\ d.fp.dir_ptr \in Label
  /\ d.fp.written => d.fp.sclust = 0 /\ d.fp.fsize = 0

\* What f_open leaves, behind the mount.
Opening(v, d, mode) == d \in Good /\ SameVolume(v, d) /\ (IsOk(d) => AsObject(d, mode))

\* FileObject makes such a file.
LEMMA FileObjectOpens ==
  ASSUME NEW v, NEW c \in Good, SameVolume(v, c), IsOk(c), NEW i, At(c, i),
         NEW mode, Modal(mode), NEW written \in BOOLEAN, written => Hollow(TableV(c).dir[i])
  PROVE  Opening(v, FileObject(c, i, mode, written), mode)
<1> DEFINE d == FileObject(c, i, mode, written)
<1>1. Objected(c, d, i, mode)
  BY FileObjectIs
<1> HIDE DEF d
<1>2. Opening(v, d, mode)
  BY <1>1 DEF Objected, AsFile, AsObject, Opening, SameVolume
<1> QED
  BY <1>2 DEF d

\* f_open makes such a file.
LEMMA OpenObject ==
  ASSUME NEW c \in Fair, c.fp = Closed, NEW name \in Name, NEW mode, Modal(mode),
         NEW v, v = find_volume(c), IsOk(v)
  PROVE  Opening(v, f_open(c, name, mode), mode)
<1> DEFINE s == dir_find(v, name)
           o == Ok(s)
           g == dir_register(o, name)
           r == IF IsOk(g) THEN FileObject(g, g.val, mode, TRUE) ELSE g
           e == OpenEntry(s, mode)
           w == Overwrite(s, s.val)
           f == FileObject(w, s.val, mode, TRUE)
           d == f_open(c, name, mode)
<1>1. d = IF s.res = "FR_NO_FILE" /\ mode.create # "EXISTING" THEN r
          ELSE IF IsOk(s) THEN e ELSE s
  BY OpenSteps
<1>2. e = IF mode.create = "ALWAYS" THEN IF IsOk(w) THEN f ELSE w ELSE e
  BY DEF OpenEntry, Then
<1> HIDE DEF d
<1>3. v \in Good
  BY FoundVolume
<1>4. s \in Good /\ Moved(v, s) /\ (IsOk(s) => At(s, s.val))
  BY <1>3, ScanFinds DEF dir_find
<1> HIDE DEF s
<1>5. SameVolume(v, s)
  BY <1>4 DEF SameVolume, Moved, Kept, Steady
<1>6. Opening(v, r, mode)
  <2>1. o \in Good /\ Kept(s, o) /\ IsOk(o)
    BY <1>4, OkType DEF Good
  <2> HIDE DEF o
  <2>2. /\ g \in Good
        /\ IsOk(g) => At(g, g.val) /\ g.val \in Label
                      /\ Puts(o, g, g.val, [Unused EXCEPT !.name = name])
    BY <2>1, RegisterPuts
  <2>3. Kept(o, g)
    BY <2>1, DirRegisterType
  <2> HIDE DEF g
  <2>4. SameVolume(v, g)
    BY <1>5, <2>1, <2>3 DEF SameVolume, Kept, Steady
  <2>5. ASSUME IsOk(g) PROVE Hollow(TableV(g).dir[g.val])
    <3> DEFINE x == [Unused EXCEPT !.name = name]
    <3>1. Hollow(x)
      BY DEF Unused, Hollow
    <3> HIDE DEF x
    <3>2. Differs(TableV(o), TableV(g), g.val, x) /\ g.val \in Label
      BY <2>2, <2>5 DEF Puts, x
    <3>3. TableV(o).dir \in [Label -> Entry]
      BY <2>1, TableType DEF Tables
    <3>4. TableV(g).dir[g.val] = x
      BY <3>2, <3>3 DEF Differs
    <3> QED
      BY <3>1, <3>4
  <2>6. CASE IsOk(g)
    <3>1. Opening(v, FileObject(g, g.val, mode, TRUE), mode)
      BY <2>2, <2>4, <2>5, <2>6, FileObjectOpens
    <3> QED
      BY <2>6, <3>1
  <2>7. CASE ~IsOk(g)
    BY <2>2, <2>4, <2>7 DEF Opening
  <2> QED
    BY <2>6, <2>7
<1> HIDE DEF r
<1>7. ASSUME IsOk(s) PROVE Opening(v, e, mode)
  <2>1. CASE mode.create # "ALWAYS"
    <3> HIDE DEF e
    <3>1. LET q == OpenEntry(s, mode)
          IN /\ q \in Good /\ Quiet(s, q) /\ SameVolume(s, q)
             /\ IsOk(q) => /\ AsFile(q, TableV(s).dir[s.val].name, mode) /\ q.fp.dir_ptr = s.val
                           /\ ~q.fp.written
      BY <1>4, <1>7, <2>1, OpenEntryQuiet
    <3>2. /\ e \in Good /\ SameVolume(s, e)
          /\ IsOk(e) => AsFile(e, TableV(s).dir[s.val].name, mode)
      BY <3>1 DEF e
    <3> QED
      BY <1>5, <3>2 DEF Opening, SameVolume, AsFile, AsObject
  <2>2. CASE mode.create = "ALWAYS"
    <3>1. w \in Good /\ Steady(s, w) /\ (IsOk(w) => At(w, s.val))
      BY <1>4, <1>7, OverwriteType
    <3>2. IsOk(w) => Hollow(TableV(w).dir[s.val])
      BY <1>4, <1>7, OverwriteHollow
    <3> HIDE DEF w, e
    <3>3. SameVolume(v, w)
      BY <1>5, <3>1 DEF SameVolume, Steady
    <3>4. CASE IsOk(w)
      <4>1. Opening(v, f, mode)
        BY <3>1, <3>2, <3>3, <3>4, FileObjectOpens
      <4> QED
        BY <1>2, <2>2, <3>4, <4>1
    <3>5. CASE ~IsOk(w)
      BY <1>2, <2>2, <3>1, <3>3, <3>5 DEF Opening
    <3> QED
      BY <3>4, <3>5
  <2> QED
    BY <2>1, <2>2
<1> HIDE DEF e
<1>8. Opening(v, d, mode)
  <2>1. ~IsOk(s) => Opening(v, s, mode)
    BY <1>4, <1>5 DEF Opening
  <2> QED
    BY <1>1, <1>6, <1>7, <2>1
<1> QED
  BY <1>8 DEF d

\* The handle h is given to the file `name'.
Gives(fils, owners, h, p, name, gils, pwners) ==
  gils = [fils EXCEPT ![h] = p] /\ pwners = [owners EXCEPT ![h] = name]

\* The other handles stay.
GivenBut(fils, owners, h, gils, pwners) ==
  \A l \in Handle \ {h} : gils[l] = fils[l] /\ pwners[l] = owners[l]

\* A file more is open, at most.
GivenMore(d, fils, owners, h, name, gils, pwners) ==
  /\ Lives(d, gils) \subseteq Lives(d, fils) \cup {h}
  /\ Lives(d, fils) \subseteq Lives(d, gils) \ {h}
  /\ \A u : /\ Sure(d, gils, pwners, u) \subseteq Sure(d, fils, owners, u) \cup {h}
            /\ name \in u => Sure(d, gils, pwners, u) \subseteq Sure(d, fils, owners, u)
  /\ Pairs(d, fils, owners) \subseteq Pairs(d, gils, pwners)

\* That is what giving a handle comes to.
LEMMA GivenLives ==
  ASSUME NEW fils \in [Handle -> FIL], NEW owners \in [Handle -> Name \cup {NoName}],
         NEW h \in Handle, ~fils[h].fs, NEW p \in FIL, NEW name \in Name,
         NEW gils, NEW pwners, Gives(fils, owners, h, p, name, gils, pwners), NEW d
  PROVE  /\ gils \in [Handle -> FIL] /\ gils[h] = p /\ pwners[h] = name
         /\ GivenBut(fils, owners, h, gils, pwners)
         /\ GivenMore(d, fils, owners, h, name, gils, pwners)
<1>1. /\ gils \in [Handle -> FIL] /\ gils[h] = p /\ pwners[h] = name
      /\ GivenBut(fils, owners, h, gils, pwners)
  BY DEF Gives, GivenBut
<1>2. Lives(d, gils) \subseteq Lives(d, fils) \cup {h}
  BY <1>1 DEF Lives, LiveIn, GivenBut
<1>3. Lives(d, fils) \subseteq Lives(d, gils) \ {h}
  BY <1>1 DEF Lives, LiveIn, GivenBut
<1>4. ASSUME NEW u
      PROVE  /\ Sure(d, gils, pwners, u) \subseteq Sure(d, fils, owners, u) \cup {h}
             /\ name \in u => Sure(d, gils, pwners, u) \subseteq Sure(d, fils, owners, u)
  <2>1. \A l \in Sure(d, gils, pwners, u) : l = h \/ l \in Sure(d, fils, owners, u)
    BY <1>1, <1>2 DEF Sure, Lives, GivenBut
  <2>2. name \in u => h \notin Sure(d, gils, pwners, u)
    BY <1>1 DEF Sure
  <2> QED
    BY <2>1, <2>2
<1>5. Pairs(d, fils, owners) \subseteq Pairs(d, gils, pwners)
  <2>1. ASSUME NEW e \in Pairs(d, fils, owners) PROVE e \in Pairs(d, gils, pwners)
    <3>1. PICK l \in Lives(d, fils) : fils[l].written /\ e = <<fils[l].dir_ptr, owners[l]>>
      BY <2>1 DEF Pairs
    <3>2. l \in Lives(d, gils) /\ gils[l] = fils[l] /\ pwners[l] = owners[l]
      BY <1>1, <1>3, <3>1 DEF Lives, GivenBut
    <3> QED
      BY <3>1, <3>2 DEF Pairs
  <2> QED
    BY <2>1
<1> QED
  BY <1>1, <1>2, <1>3, <1>4, <1>5 DEF GivenMore

\* Entries stay right when the chain of one of them changes and that one is right.
LEMMA DirSpared ==
  ASSUME NEW m \in Chart, NEW n, NEW i \in Label, Spares(m, n, {i}), NEW dir, NEW X,
         DirRight(m, dir, X), Right(n, i, dir[i])
  PROVE  DirRight(n, dir, X)
<1>1. ASSUME NEW j \in Label, dir[j].name \in Name, <<j, dir[j].name>> \notin X
      PROVE  Right(n, j, dir[j])
  <2>1. CASE j = i
    BY <2>1
  <2>2. CASE j # i
    <3>1. Right(m, j, dir[j])
      BY <1>1 DEF DirRight
    <3> QED
      BY <2>2, <3>1, RightSpared
  <2> QED
    BY <2>1, <2>2
<1> QED
  BY <1>1 DEF DirRight

\* A file that was opened leaves the handles orderly.
LEMMA OpenedOrderly ==
  ASSUME NEW fils \in [Handle -> FIL], NEW owners \in [Handle -> Name \cup {NoName}],
         NEW h \in Handle, ~fils[h].fs, NEW d \in Good, NEW name \in Name,
         NEW mode, AsObject(d, mode),
         NEW gils, NEW pwners, Gives(fils, owners, h, d.fp, name, gils, pwners),
         NEW S, S \subseteq Handle, Clear(d, fils, owners, {name}), Orderly(d, fils, owners, S)
  PROVE  Orderly(d, gils, pwners, S)
<1>1. d.fp \in FIL /\ d.id \in Nat
  BY DEF Good, Ctx
<1>2. /\ gils \in [Handle -> FIL] /\ gils[h] = d.fp /\ pwners[h] = name
      /\ GivenBut(fils, owners, h, gils, pwners)
      /\ GivenMore(d, fils, owners, h, name, gils, pwners)
  BY <1>1, GivenLives
<1>3. ASSUME NEW l \in Handle, gils[l].fs PROVE gils[l].id <= d.id
  <2>1. CASE l = h
    BY <1>1, <1>2, <2>1 DEF AsObject
  <2>2. CASE l # h
    BY <1>2, <1>3, <2>2 DEF Orderly, GivenBut
  <2> QED
    BY <2>1, <2>2
<1>4. ASSUME NEW l \in Lives(d, gils), l # h
      PROVE  /\ l \in Lives(d, fils) /\ gils[l] = fils[l]
             /\ pwners[l] = owners[l] /\ pwners[l] # name
  <2>1. l \in Lives(d, fils) /\ l \in Handle
    BY <1>2, <1>4 DEF GivenMore, Lives
  <2> QED
    BY <1>2, <1>4, <2>1 DEF GivenBut, Clear
<1>5. ASSUME NEW l \in Lives(d, gils), NEW q \in Lives(d, gils), pwners[l] = pwners[q]
      PROVE  l = q
  BY <1>2, <1>4, <1>5 DEF Orderly
<1>6. ASSUME NEW l \in Lives(d, gils), ~gils[l].wr, gils[l].written
      PROVE  gils[l].sclust = 0 /\ gils[l].fsize = 0 /\ gils[l].fptr = 0
  <2>1. CASE l = h
    BY <1>2, <1>6, <2>1 DEF AsObject
  <2>2. CASE l # h
    BY <1>4, <1>6, <2>2 DEF Orderly
  <2> QED
    BY <2>1, <2>2
<1>7. ASSUME NEW l \in S PROVE gils[l].fs /\ gils[l].wr
  <2>1. fils[l].fs /\ fils[l].wr /\ l \in Handle
    BY <1>7 DEF Orderly
  <2> QED
    BY <1>2, <2>1 DEF GivenBut
<1> QED
  BY <1>3, <1>5, <1>6, <1>7 DEF Orderly

\* ... and the tables upright.
LEMMA OpenedUpright ==
  ASSUME NEW fils \in [Handle -> FIL], NEW owners \in [Handle -> Name \cup {NoName}],
         NEW h \in Handle, ~fils[h].fs, NEW d \in Good, NEW name \in Name,
         NEW mode, AsFile(d, name, mode),
         NEW gils, NEW pwners, Gives(fils, owners, h, d.fp, name, gils, pwners), NEW S,
         Clear(d, fils, owners, {name}), Named(d, fils, owners),
         NEW k, NEW u, Upright(d, fils, owners, S, k, u), h \notin S
  PROVE  Upright(d, gils, pwners, S, k, u)
<1> DEFINE X == Exempt(k, u, Pairs(d, fils, owners))
           Y == Exempt(k, u, Pairs(d, gils, pwners))
           L == Sure(d, fils, owners, u)
           M == Sure(d, gils, pwners, u)
           t == TableV(d)
           i == d.fp.dir_ptr
<1> SUFFICES ASSUME u # Name PROVE Upright(d, gils, pwners, S, k, u)
  BY DEF Upright
<1>1. /\ SoundTable(TableC(d), X) /\ Held(t, X, fils, L, S)
      /\ Titled(t, fils, owners, Lives(d, fils))
  BY DEF Upright
<1>2. d.fp \in FIL
  BY DEF Good, Ctx
<1>3. /\ gils \in [Handle -> FIL] /\ gils[h] = d.fp /\ pwners[h] = name
      /\ GivenBut(fils, owners, h, gils, pwners)
      /\ GivenMore(d, fils, owners, h, name, gils, pwners)
  BY <1>2, GivenLives
<1>4. X \subseteq Y
  BY <1>3 DEF Exempt, GivenMore
<1>5. SoundTable(TableC(d), Y)
  BY <1>1, <1>4, SoundTableMore
<1>6. /\ i \in Label /\ t.dir[i].name = name
      /\ t.dir[i].clust = d.fp.sclust /\ t.dir[i].size = d.fp.fsize
      /\ d.fp.fptr = 0
  BY DEF AsFile
<1>7. ASSUME NEW l \in Lives(d, fils)
      PROVE  /\ l # h /\ l \in Handle /\ gils[l] = fils[l]
             /\ pwners[l] = owners[l] /\ owners[l] # name
             /\ fils[l].dir_ptr \in Label \ {i}
  <2>1. l # h /\ l \in Handle /\ owners[l] # name /\ fils[l].dir_ptr \in Label
    BY <1>7 DEF Lives, LiveIn, Clear, Named
  <2>2. t.dir[fils[l].dir_ptr].name = owners[l]
    BY <1>1 DEF Titled
  <2> QED
    BY <1>3, <1>6, <2>1, <2>2 DEF GivenBut
<1>8. Titled(t, gils, pwners, Lives(d, gils))
  <2>1. ASSUME NEW l \in Lives(d, gils) PROVE t.dir[gils[l].dir_ptr].name = pwners[l]
    <3>1. CASE l = h
      BY <1>3, <1>6, <3>1
    <3>2. CASE l # h
      <4>1. l \in Lives(d, fils)
        BY <1>3, <3>2 DEF GivenMore
      <4> QED
        BY <1>1, <1>7, <4>1 DEF Titled
    <3> QED
      BY <3>1, <3>2
  <2> QED
    BY <2>1 DEF Titled
<1>9. L \subseteq Lives(d, fils) /\ M \subseteq L \cup {h} /\ (name \in u => M \subseteq L)
  BY <1>3 DEF GivenMore, Sure
<1>10. PICK m \in Chart : /\ Charted(t.fat, m) /\ DirRight(m, t.dir, X)
                          /\ \A l \in L : Fitted(m, fils[l], l \notin S)
  BY <1>1 DEF Held
<1>11. Right(m, i, t.dir[i]) \/ name \in u
  <2>1. SUFFICES ASSUME name \notin u PROVE <<i, t.dir[i].name>> \notin X
    BY <1>6, <1>10 DEF DirRight
  <2>2. <<i, name>> \notin Pairs(d, fils, owners)
    BY <1>7 DEF Pairs
  <2> QED
    BY <1>6, <2>1, <2>2 DEF Exempt
<1> HIDE DEF X, Y, L, M, t, i
<1>12. Held(t, Y, gils, M, S)
  <2>1. CASE name \in u
    <3>1. \A l \in M : Fitted(m, gils[l], l \notin S)
      BY <1>7, <1>9, <1>10, <2>1
    <3>2. DirRight(m, t.dir, Y)
      BY <1>4, <1>10 DEF DirRight
    <3> QED
      BY <1>10, <3>1, <3>2 DEF Held
  <2>2. CASE name \notin u
    <3>1. PICK n \in Chart : /\ Charted(t.fat, n) /\ Spares(m, n, {i})
                             /\ n.hd[i] = t.dir[i].clust /\ Holds(n, i, t.dir[i].size)
      BY <1>6, <1>10, <1>11, <2>2, RightHead
    <3>2. Right(n, i, t.dir[i])
      BY <1>11, <2>2, <3>1 DEF Right
    <3>3. DirRight(n, t.dir, Y)
      <4>1. DirRight(n, t.dir, X)
        BY <1>6, <1>10, <3>1, <3>2, DirSpared
      <4> QED
        BY <1>4, <4>1 DEF DirRight
    <3>4. ASSUME NEW l \in L PROVE Fitted(n, gils[l], l \notin S)
      <4>1. /\ Fitted(m, fils[l], l \notin S) /\ gils[l] = fils[l]
            /\ fils[l].dir_ptr \in Label \ {i}
        BY <1>7, <1>9, <1>10
      <4> QED
        BY <3>1, <4>1, SparesFitted
    <3>5. Fitted(n, gils[h], h \notin S)
      BY <1>3, <1>6, <3>1 DEF Fitted, Fits, i
    <3>6. \A l \in M : Fitted(n, gils[l], l \notin S)
      BY <1>9, <3>4, <3>5
    <3> QED
      BY <3>1, <3>3, <3>6 DEF Held
  <2> QED
    BY <2>1, <2>2
<1> QED
  BY <1>5, <1>8, <1>12 DEF Upright, Y, M, t

\* A volume that could be mounted is.
LEMMA VolumeThere ==
  ASSUME NEW c \in Fair, NEW v, v = find_volume(c), IsOk(v)
  PROVE  v.fs_type # 0
<1> DEFINE r == disk_read(Reopened(c))
           m == move_window(r, FSInfo)
<1>1. CASE c.fs_type # 0 /\ c.stat # "STA_NOINIT"
  <2>1. v = Ok(c) /\ SameVolume(c, Ok(c))
    BY <1>1, MountedAlready
  <2> QED
    BY <1>1, <2>1 DEF SameVolume
<1>2. CASE ~(c.fs_type # 0 /\ c.stat # "STA_NOINIT")
  <2>1. v = IF IsOk(r) THEN IF Fat32 THEN Mount(m, IsOk(m)) ELSE Mount(r, FALSE) ELSE r
    BY <1>2 DEF find_volume, Then
  <2>2. r \in Good
    <3> DEFINE o == Reopened(c)
    <3>1. o \in Good
      BY ReopenedType DEF Fair
    <3> HIDE DEF o
    <3>2. LET z == disk_read(o)
          IN /\ z \in Ctx /\ z.sec = o.sec /\ z.winsect = o.winsect /\ z.win = o.win
             /\ z.wflag = o.wflag /\ Kept(o, z)
      BY <3>1, ReadType DEF Good
    <3> QED
      BY <3>1, <3>2 DEF Good, Coherent, Kept, Steady, o
  <2>3. m \in Good
    BY <2>2, MoveWindowType, SectorFacts
  <2> HIDE DEF r, m
  <2>4. r \in Ctx /\ m \in Ctx
    BY <2>2, <2>3 DEF Good
  <2>5. ASSUME NEW b, NEW z \in Ctx PROVE Mount(z, b).fs_type = 1
    BY DEF Mount, Ok, Ctx
  <2>6. Mount(m, IsOk(m)).fs_type = 1
    BY <2>4, <2>5
  <2>7. Mount(r, FALSE).fs_type = 1
    BY <2>4, <2>5
  <2>8. v = Mount(m, IsOk(m)) \/ v = Mount(r, FALSE)
    BY <2>1, Zenon
  <2>9. v.fs_type = 1
    BY <2>6, <2>7, <2>8, Zenon
  <2> QED
    BY <2>9
<1> QED
  BY <1>1, <1>2

\* A file of the volume that can be gone on with.
LEMMA GoesOn ==
  ASSUME NEW d \in Good, LiveIn(d, d.fp), d.stat # "STA_NOINIT", d.fp.err = "FR_OK"
  PROVE  IsOk(Reject(d)) /\ d \in Fair
<1>1. validate(d) = Ok(d)
  BY DEF validate, LiveIn
<1>2. Ok(d).fp = d.fp /\ IsOk(Ok(d)) /\ d \in Fair
  BY OkType DEF Good, Kept, Steady, Fair
<1>3. Reject(d) = Ok(d)
  BY <1>1, <1>2 DEF Reject, Then
<1> QED
  BY <1>2, <1>3

\* f_open leaves the tables upright, and the file object says what the entry says.
LEMMA OpenFirst ==
  ASSUME NEW x \in Fair, x.fp = Closed, NEW name \in Name, NEW mode, Modal(mode),
         NEW v, v = find_volume(x), IsOk(v), NEW d, d = f_open(x, name, mode),
         NEW fils, NEW owners, NEW S, Clear(v, fils, owners, {name}), Named(v, fils, owners),
         NEW k, NEW u, u # Name, name \in u => mode.create = "EXISTING",
         Upright(v, fils, owners, S, k, u)
  PROVE  Upright(d, fils, owners, S, k, u) /\ (IsOk(d) => AsFile(d, name, mode))
<1> DEFINE dir == TableV(v).dir
           I == Slots(dir, {name})
           X == Exempt(k, u, Pairs(v, fils, owners))
<1>1. CASE mode.create = "EXISTING"
  <2>1. /\ d \in Good /\ Quiet(v, d) /\ SameVolume(v, d)
        /\ IsOk(d) => AsFile(d, name, mode) /\ ~d.fp.written
    BY <1>1, OpenExisting
  <2> QED
    BY <2>1, QuietUpright
<1>2. CASE mode.create # "EXISTING"
  <2>1. name \notin u /\ {name} \cap u = {} /\ {name} \in SUBSET Name
    BY <1>2
  <2>2. PICK m \in Chart : Charted(TableV(v).fat, m) /\ DirRight(m, dir, X)
    BY DEF Upright, Held
  <2>3. Sane(m, I, dir)
    BY <2>1, <2>2, SaneSlots
  <2>4. ASSUME NEW n \in Chart, Charted(TableV(v).fat, n), Sane(n, I, dir)
        PROVE  Opens(v, d, Near(n, I, dir), I, name, mode)
    BY <2>4, OpenKeeps
  <2>5. Opens(v, d, Near(m, I, dir), I, name, mode)
    BY <2>2, <2>3, <2>4
  <2>6. Tidies(v, d, {name})
    BY <2>4 DEF Opens, Tidies
  <2>7. SameVolume(v, d) /\ (IsOk(d) => AsFile(d, name, mode))
    BY <2>5 DEF Opens
  <2>8. Upright(d, fils, owners, S, k, u)
    BY <2>1, <2>6, <2>7, TidyUpright
  <2> QED
    BY <2>7, <2>8
<1> QED
  BY <1>1, <1>2

\* What open's f_truncate says of the file n; e is how it ends.
EmptyMarks(n, e, k, u, l, w) ==
  /\ w \in SUBSET Name /\ k \subseteq l /\ u \subseteq w /\ n \in l
  /\ n \in u => w = Name
  /\ e.hit /\ ~IsOk(e) => n \in w

\* A file is empty if it is to be written, unless a call failed on it.
EmptyOr(e, n, w) == e.fp.written => e.fp.fsize = 0 \/ n \in w

\* When a call failed, its file is not to be written, or it is one of w.
SpentOr(c, n, w) == ~IsOk(c) => ~c.fp.written \/ n \in w

\* The tables are upright, unless a call failed on every file.
UprightOr(c, fils, owners, S, k, u, w) == w = Name \/ Upright(c, fils, owners, S, k, u)

\* A file that can be gone on with, unless the call failed.
GoneOn(e) == IsOk(e) => e.fp.err = "FR_OK"

\* A file that was opened is cut to nothing.
LEMMA OpenTruncates ==
  ASSUME NEW gils, Enrolled(gils), NEW h \in Handle, NEW d \in Good, NEW mode, AsObject(d, mode),
         d.fs_type # 0, d.stat # "STA_NOINIT", gils[h] = d.fp, ~d.fp.written,
         NEW S, S \subseteq Handle, h \notin S, NEW owners, owners[h] \in Name,
         NEW e, e = f_truncate(d), NEW hils, Binds(gils, h, e.fp, hils),
         NEW k, NEW u, NEW l, NEW w, EmptyMarks(owners[h], e, k, u, l, w),
         UprightOr(d, gils, owners, S, k, u, w), Orderly(d, gils, owners, S)
  PROVE  /\ Upright(e, hils, owners, S, l, w) /\ Orderly(e, hils, owners, S)
         /\ e \in Good /\ Filed(d, e) /\ Headed(e.fp)
         /\ GoneOn(e) /\ EmptyOr(e, owners[h], w) /\ SpentOr(e, owners[h], w)
<1> DEFINE i == d.fp.dir_ptr
           n == owners[h]
<1>1. /\ d.fp.fs /\ d.fp.id = d.id /\ d.fp.fptr = 0 /\ d.fp.err = "FR_OK" /\ i \in Label
      /\ LiveIn(d, d.fp) /\ Headed(d.fp) /\ h \in Lives(d, gils)
  BY DEF AsObject, LiveIn, Headed, Lives
<1>2. IsOk(Reject(d)) /\ d \in Fair
  BY <1>1, GoesOn
<1>3. gils \in [Handle -> FIL] /\ \A q \in Handle : Listed(gils[q])
  BY DEF Enrolled
<1>4. /\ w \in SUBSET Name /\ k \subseteq l /\ u \subseteq w /\ n \in l /\ (n \in u => w = Name)
      /\ e.hit /\ ~IsOk(e) => n \in w
  BY DEF EmptyMarks
<1>5. e \in Result(d) /\ (IsOk(e) => e.fp.err = "FR_OK")
  BY <1>1, <1>2, TruncateType
<1>6. e \in Good /\ Filed(d, e) /\ e.fp \in FIL /\ Headed(e.fp) /\ SameVolume(d, e)
  BY <1>5 DEF Result, Fair, Filed, Good, Ctx, SameVolume
<1>7. Rebound(d, e, gils[h], e.fp)
  BY <1>6 DEF Filed, Rebound
<1>8. CASE ~d.fp.wr
  <2>1. ~IsOk(e) /\ Quiet(d, e) /\ e.fp = d.fp
    BY <1>2, <1>8, TruncateReader
  <2>2. hils = gils
    BY <1>3, <2>1 DEF Binds
  <2>3. Upright(d, gils, owners, S, l, w)
    BY <1>4, UprightMore, UprightLost DEF UprightOr
  <2>4. Upright(e, gils, owners, S, l, w) /\ Orderly(e, gils, owners, S)
    BY <1>6, <2>1, <2>3, QuietUpright
  <2> QED
    BY <1>5, <1>6, <2>1, <2>2, <2>4 DEF EmptyOr, SpentOr, GoneOn
<1>9. CASE d.fp.wr
  <2>1. Orderly(e, hils, owners, S)
    <3>1. Bare(e.fp)
      BY <1>6, <1>9 DEF Filed, Bare
    <3> QED
      BY <1>3, <1>6, <1>7, <3>1, ReboundOrderly
  <2>2. CASE w = Name
    <3>1. Upright(e, hils, owners, S, l, w)
      BY <2>2, UprightLost
    <3> QED
      BY <1>5, <1>6, <2>1, <2>2, <3>1 DEF EmptyOr, SpentOr, GoneOn
  <2>3. CASE w # Name
    <3> DEFINE X == Exempt(k, u, Pairs(d, gils, owners))
               L == Sure(d, gils, owners, u)
    <3>1. n \notin u /\ u # Name /\ Upright(d, gils, owners, S, k, u) /\ h \in L
      BY <1>1, <1>4, <2>3 DEF UprightOr, Sure
    <3>2. /\ SoundTable(TableC(d), X) /\ Held(TableV(d), X, gils, L, S)
          /\ Titled(TableV(d), gils, owners, Lives(d, gils))
      BY <3>1 DEF Upright
    <3> HIDE DEF X, L
    <3>3. PICK m \in Chart : /\ Charted(TableV(d).fat, m) /\ DirRight(m, TableV(d).dir, X)
                             /\ \A q \in L : Fitted(m, gils[q], q \notin S)
      BY <3>2 DEF Held
    <3>4. Fits(m, i, d.fp, TRUE, 0)
      <4>1. Fitted(m, gils[h], h \notin S) /\ (h \notin S) = TRUE
        BY <3>1, <3>3
      <4> QED
        BY <4>1 DEF Fitted
    <3>5. Leaning(d, gils, owners, S, h, k, u)
      <4>1. \A q \in L \ {h} : Fitted(m, gils[q], q \notin S)
        BY <3>3
      <4>2. Fits(m, gils[h].dir_ptr, gils[h], h \notin S, 0)
        BY <3>1, <3>3 DEF Fitted
      <4> QED
        BY <3>2, <3>3, <4>1, <4>2 DEF Leaning, HeldBut, X, L
    <3>6. Placing(e.fp, e.fp, h \notin S)
      <4>1. e.fp.dir_ptr # 0
        BY <1>1, <1>6, FatFsAssumption DEF Filed, Label
      <4>2. (h \notin S) = TRUE
        OBVIOUS
      <4> QED
        BY <4>1, <4>2 DEF Placing, Fitted, Fits
    <3>7. SameBut(S, S, h)
      BY DEF SameBut
    <3>8. Upright(e, hils, owners, S, l, w)
      BY <1>1, <1>2, <1>3, <1>4, <1>6, <1>7, <1>9, <3>5, <3>6, <3>7, CutUpright
    <3>9. ASSUME n \notin w
          PROVE  IsOk(e) /\ e.fp.fsize = 0
      <4>1. Charted(FatV(d), m)
        BY <3>3, TableType
      <4>2. LET z == f_truncate(d)
            IN /\ z \in Good /\ Cuts(d, z, m, i, TRUE) /\ z.fp.fptr = d.fp.fptr
               /\ TRUE /\ d.fp.wr /\ ~IsOk(z) => z.hit
               /\ d.fp.wr => \/ z.fp.written /\ z.fp.fsize = d.fp.fptr
                             \/ z.fp = d.fp /\ Quiet(d, z)
               /\ ~d.fp.wr => z.fp = d.fp
               /\ IsOk(z) =>
                     z.fp.fsize = IF d.fp.fsize <= d.fp.fptr THEN d.fp.fsize ELSE d.fp.fptr
        BY <1>1, <1>2, <3>4, <4>1, TruncateCuts
      <4>3. IsOk(e)
        BY <1>4, <1>9, <3>9, <4>2
      <4>4. d.fp.fsize \in Nat
        BY DEF Good, Ctx, FIL
      <4> QED
        BY <1>1, <4>2, <4>3, <4>4
    <3> QED
      BY <1>5, <1>6, <2>1, <3>8, <3>9 DEF EmptyOr, SpentOr, GoneOn
  <2> QED
    BY <2>2, <2>3
<1> QED
  BY <1>8, <1>9

\* ... and its position set to its end.
LEMMA OpenSeeks ==
  ASSUME NEW gils, Enrolled(gils), NEW h \in Handle, NEW e \in Good, gils[h] = e.fp,
         Headed(e.fp), IsOk(Reject(e)), NEW S, S \subseteq Handle, h \notin S,
         NEW owners, NEW c, c = f_lseek(e, e.fp.fsize), NEW hils, Binds(gils, h, c.fp, hils),
         NEW k, NEW w, EmptyOr(e, owners[h], w),
         Upright(e, gils, owners, S, k, w), Orderly(e, gils, owners, S)
  PROVE  /\ Upright(c, hils, owners, S, k, w) /\ Orderly(c, hils, owners, S)
         /\ SpentOr(c, owners[h], w) /\ Filed(e, c)
<1>1. e \in Fair /\ e.fp.fsize \in Nat /\ e.fp.fsize <= e.fp.fsize
  BY DEF Good, Fair, Ctx, FIL
<1>2. gils \in [Handle -> FIL] /\ \A q \in Handle : Listed(gils[q])
  BY DEF Enrolled
<1>3. /\ c \in Result(e) /\ c \in Worked(e)
      /\ e.fp.fsize = 0 => IsOk(c)
      /\ c.fp.written = e.fp.written
  BY <1>1, LseekType
<1>4. Upright(c, hils, owners, S, k, w) /\ Orderly(c, hils, owners, S)
  BY <1>1, <1>2, <1>3, WorkedUpright
<1>5. SpentOr(c, owners[h], w) /\ Filed(e, c)
  BY <1>3 DEF SpentOr, EmptyOr, Result
<1> QED
  BY <1>4, <1>5

\* What open says of the file `name' when it ends with c.
OpenMarks(name, how, c, k, u, l, w) ==
  /\ w \in SUBSET Name /\ k \subseteq l /\ u \subseteq w
  /\ how.trunc \/ how.creat => (name \in u => w = Name) /\ (c.hit /\ ~IsOk(c) => name \in w)
  /\ how.trunc /\ ~how.creat => name \in l

\* The handle is taken if the file was opened.
Takes(fils, owners, h, c, name, gils, pwners) ==
  /\ gils = [fils EXCEPT ![h] = IF IsOk(c) THEN c.fp ELSE Closed]
  /\ pwners = [owners EXCEPT ![h] = IF IsOk(c) THEN name ELSE NoName]

\* The handles of another context of the same volume.
LEMMA SameHandles ==
  ASSUME NEW v, NEW d, SameVolume(v, d), NEW fils, NEW owners, NEW S, NEW names
  PROVE  /\ Orderly(v, fils, owners, S) => Orderly(d, fils, owners, S)
         /\ Clear(v, fils, owners, names) => Clear(d, fils, owners, names)
         /\ Named(v, fils, owners) => Named(d, fils, owners)
<1>1. Lives(d, fils) = Lives(v, fils) /\ d.id = v.id
  BY DEF SameVolume, Lives, LiveIn
<1>2. Orderly(v, fils, owners, S) => Orderly(d, fils, owners, S)
  BY <1>1 DEF Orderly
<1>3. Clear(v, fils, owners, names) => Clear(d, fils, owners, names)
  BY <1>1 DEF Clear
<1>4. Named(v, fils, owners) => Named(d, fils, owners)
  BY <1>1 DEF Named
<1> QED
  BY <1>2, <1>3, <1>4

\* A call that creates or cuts a file doubts all files if one failed on it before.
DoubtsAll(name, how, u, w) == (how.trunc \/ how.creat) /\ name \in u => w = Name

\* A handle that is free, beside the others and those who stay unwritten.
FreeHandle(fils, owners, h, S) ==
  /\ Enrolled(fils) /\ owners \in [Handle -> Name \cup {NoName}]
  /\ h \in Handle /\ ~fils[h].fs /\ S \subseteq Handle /\ h \notin S

\* f_open is called on a volume that is there, and it succeeds.
OpensFile(x, name, how, v, d) ==
  /\ x \in Fair /\ x.fp = Closed /\ name \in Name /\ how \in Flags
  /\ v = find_volume(x) /\ IsOk(v) /\ d = f_open(x, name, Mode(how)) /\ IsOk(d)

\* What holds of the volume before the call.
Before(v, fils, owners, S, name, k, u) ==
  /\ Clear(v, fils, owners, {name}) /\ Named(v, fils, owners)
  /\ Upright(v, fils, owners, S, k, u) /\ Orderly(v, fils, owners, S)

\* What holds of the file object that f_open filled.
FileOpen(d, gils, pwners, h, S, name, how, k, u, w) ==
  /\ UprightOr(d, gils, pwners, S, k, u, w) /\ Orderly(d, gils, pwners, S)
  /\ d \in Good /\ AsObject(d, Mode(how)) /\ Enrolled(gils) /\ gils[h] = d.fp
  /\ pwners[h] = name /\ d.fs_type # 0 /\ d.stat # "STA_NOINIT"
  /\ pwners \in [Handle -> Name \cup {NoName}]

\* f_open, for a handle that is free.
LEMMA OpensUpright ==
  ASSUME NEW fils, NEW owners, NEW h, NEW S, FreeHandle(fils, owners, h, S),
         NEW x, NEW name, NEW how, NEW v, NEW d, OpensFile(x, name, how, v, d),
         NEW gils, NEW pwners, Gives(fils, owners, h, d.fp, name, gils, pwners),
         NEW k, NEW u, NEW w, u \subseteq w, w \in SUBSET Name,
         DoubtsAll(name, how, u, w), Before(v, fils, owners, S, name, k, u)
  PROVE  FileOpen(d, gils, pwners, h, S, name, how, k, u, w)
<1> /\ Enrolled(fils) /\ owners \in [Handle -> Name \cup {NoName}]
    /\ h \in Handle /\ ~fils[h].fs /\ S \subseteq Handle /\ h \notin S
  BY DEF FreeHandle
<1> /\ x \in Fair /\ x.fp = Closed /\ name \in Name /\ how \in Flags
    /\ v = find_volume(x) /\ IsOk(v) /\ d = f_open(x, name, Mode(how)) /\ IsOk(d)
  BY DEF OpensFile
<1> /\ Clear(v, fils, owners, {name}) /\ Named(v, fils, owners)
    /\ Upright(v, fils, owners, S, k, u) /\ Orderly(v, fils, owners, S)
  BY DEF Before
<1> DEFINE mode == Mode(how)
<1>0. (how.trunc \/ how.creat) /\ name \in u => w = Name
  BY DEF DoubtsAll
<1>1. Modal(mode) /\ (~how.creat => mode.create = "EXISTING")
  BY FatDevAssumption DEF Modal, Mode
<1> HIDE DEF mode
<1>2. d = f_open(x, name, mode)
  BY DEF mode
<1>3. d \in Good /\ SameVolume(v, d) /\ AsObject(d, mode)
  BY <1>1, <1>2, OpenObject DEF Opening
<1>4. v.fs_type # 0 /\ d.fs_type # 0
  BY <1>3, VolumeThere DEF SameVolume
<1>5. d.stat # "STA_NOINIT"
  BY <1>1, <1>2, OpenType DEF Opened, Goes
<1>6. /\ Orderly(d, fils, owners, S) /\ Clear(d, fils, owners, {name})
      /\ Named(d, fils, owners)
  BY <1>3, SameHandles
<1>7. fils \in [Handle -> FIL] /\ \A q \in Handle : Listed(fils[q])
  BY DEF Enrolled
<1>8. d.fp \in FIL /\ Listed(d.fp)
  BY <1>3 DEF Good, Ctx, AsObject, Listed, Label
<1>9. gils \in [Handle -> FIL] /\ gils[h] = d.fp /\ pwners[h] = name /\ Enrolled(gils)
      /\ pwners \in [Handle -> Name \cup {NoName}]
  BY <1>7, <1>8 DEF Gives, Enrolled
<1>10. Orderly(d, gils, pwners, S)
  BY <1>3, <1>6, <1>7, OpenedOrderly
<1>11. UprightOr(d, gils, pwners, S, k, u, w)
  <2>1. SUFFICES ASSUME w # Name PROVE Upright(d, gils, pwners, S, k, u)
    BY DEF UprightOr
  <2>2. u # Name /\ (name \in u => mode.create = "EXISTING")
    BY <1>0, <1>1, <2>1
  <2>3. Upright(d, fils, owners, S, k, u) /\ AsFile(d, name, mode)
    BY <1>1, <1>2, <2>2, OpenFirst
  <2> QED
    BY <1>3, <1>6, <1>7, <2>3, OpenedUpright
<1> QED
  BY <1>3, <1>4, <1>5, <1>9, <1>10, <1>11 DEF mode, FileOpen

\* The file of h is not to be written any more, or a call failed on it.
SpentAt(c, fils, h, name, w) == h \in Lives(c, fils) => ~fils[h].written \/ name \in w

\* A free handle stays free, or a file that could not be gone on with is closed.
LEMMA OpenShuts ==
  ASSUME NEW fils \in [Handle -> FIL], NEW owners \in [Handle -> Name \cup {NoName}],
         NEW h \in Handle, NEW name, owners[h] = name, NEW S, S \subseteq Handle, h \notin S,
         NEW c, ~IsOk(c), NEW gils, NEW pwners, Takes(fils, owners, h, c, name, gils, pwners),
         NEW k, NEW w, SpentAt(c, fils, h, name, w),
         Upright(c, fils, owners, S, k, w), Orderly(c, fils, owners, S)
  PROVE  Upright(c, gils, pwners, S, k, w) /\ Orderly(c, gils, pwners, S)
<1>1. Shuts(fils, owners, h, gils, pwners)
  BY DEF Takes, Shuts
<1>2. S \ {h} = S
  OBVIOUS
<1>3. /\ Upright(c, gils, pwners, S \ {h}, k, w) /\ Orderly(c, gils, pwners, S \ {h})
      /\ gils \in [Handle -> FIL]
  BY <1>1, ShutUpright DEF SpentAt
<1> QED
  BY <1>2, <1>3

\* _ELM_open_r is called on a volume that is there.
ElmOpens(x, name, how, v, c) ==
  /\ x \in Fair /\ x.fp = Closed /\ name \in Name /\ how \in Flags
  /\ v = find_volume(x) /\ IsOk(v) /\ c = elm_open(x, name, how)

\* _ELM_open_r leaves the tables upright.
LEMMA ElmOpenUpright ==
  ASSUME NEW fils, NEW owners, NEW h, NEW S, FreeHandle(fils, owners, h, S),
         NEW x, NEW name, NEW how, NEW v, NEW c, ElmOpens(x, name, how, v, c),
         NEW gils, NEW pwners, Takes(fils, owners, h, c, name, gils, pwners),
         NEW k, NEW u, NEW l, NEW w, OpenMarks(name, how, c, k, u, l, w),
         Before(v, fils, owners, S, name, k, u)
  PROVE  Upright(c, gils, pwners, S, l, w) /\ Orderly(c, gils, pwners, S)
<1> /\ Enrolled(fils) /\ owners \in [Handle -> Name \cup {NoName}]
    /\ h \in Handle /\ ~fils[h].fs /\ S \subseteq Handle /\ h \notin S
  BY DEF FreeHandle
<1> /\ x \in Fair /\ x.fp = Closed /\ name \in Name /\ how \in Flags
    /\ v = find_volume(x) /\ IsOk(v) /\ c = elm_open(x, name, how)
  BY DEF ElmOpens
<1> /\ Clear(v, fils, owners, {name}) /\ Named(v, fils, owners)
    /\ Upright(v, fils, owners, S, k, u) /\ Orderly(v, fils, owners, S)
  BY DEF Before
<1> DEFINE d == f_open(x, name, Mode(how))
           e == IF how.trunc /\ ~how.creat THEN f_truncate(d) ELSE d
           g == IF how.app THEN f_lseek(e, e.fp.fsize) ELSE e
           f1 == [fils EXCEPT ![h] = d.fp]
           f2 == [fils EXCEPT ![h] = e.fp]
           f3 == [fils EXCEPT ![h] = c.fp]
           ow == [owners EXCEPT ![h] = name]
<1>1. c = IF IsOk(d) THEN IF IsOk(e) THEN g ELSE e ELSE d
  BY DEF elm_open, Then
<1>2. /\ w \in SUBSET Name /\ k \subseteq l /\ u \subseteq w
      /\ how.trunc \/ how.creat => (name \in u => w = Name) /\ (c.hit /\ ~IsOk(c) => name \in w)
      /\ how.trunc /\ ~how.creat => name \in l
  BY DEF OpenMarks
<1>3. d = f_open(x, name, Mode(how))
  OBVIOUS
<1>4. fils \in [Handle -> FIL]
  BY DEF Enrolled
<1>5. Modal(Mode(how)) /\ (~how.creat => Mode(how).create = "EXISTING")
  BY FatDevAssumption DEF Modal, Mode
<1> HIDE DEF d
<1>6. CASE ~IsOk(d)
  <2>1. c = d
    BY <1>1, <1>6
  <2>2. SameVolume(v, d)
    BY <1>3, <1>5, OpenObject DEF Opening
  <2>3. Orderly(d, fils, owners, S)
    BY <2>2, SameHandles
  <2>4. Upright(d, fils, owners, S, l, w)
    <3>1. CASE w = Name
      BY <3>1, UprightLost
    <3>2. CASE w # Name
      <4>1. u # Name /\ (name \in u => Mode(how).create = "EXISTING")
        BY <1>2, <1>5, <3>2
      <4>2. Upright(d, fils, owners, S, k, u)
        BY <1>3, <1>5, <4>1, OpenFirst
      <4> QED
        BY <1>2, <4>2, UprightMore
    <3> QED
      BY <3>1, <3>2
  <2>5. h \notin Lives(d, fils)
    BY DEF Lives, LiveIn
  <2>6. Shuts(fils, owners, h, gils, pwners)
    BY <1>6, <2>1 DEF Takes, Shuts
  <2>7. S \ {h} = S
    OBVIOUS
  <2>8. /\ Upright(d, gils, pwners, S \ {h}, l, w) /\ Orderly(d, gils, pwners, S \ {h})
        /\ gils \in [Handle -> FIL]
    BY <1>4, <2>3, <2>4, <2>5, <2>6, ShutUpright
  <2> QED
    BY <2>1, <2>7, <2>8
<1>7. CASE IsOk(d)
  <2>1. Gives(fils, owners, h, d.fp, name, f1, ow)
    BY DEF Gives
  <2> HIDE DEF f1, ow
  <2>2. DoubtsAll(name, how, u, w) /\ u \subseteq w /\ w \in SUBSET Name
    BY <1>2 DEF DoubtsAll
  <2>3. /\ UprightOr(d, f1, ow, S, k, u, w) /\ Orderly(d, f1, ow, S)
        /\ d \in Good /\ AsObject(d, Mode(how)) /\ Enrolled(f1) /\ f1[h] = d.fp
        /\ ow[h] = name /\ d.fs_type # 0 /\ d.stat # "STA_NOINIT"
        /\ ow \in [Handle -> Name \cup {NoName}]
    <3>1. OpensFile(x, name, how, v, d)
      BY <1>3, <1>7 DEF OpensFile
    <3>2. FileOpen(d, f1, ow, h, S, name, how, k, u, w)
      BY <2>1, <2>2, <3>1, OpensUpright
    <3> QED
      BY <3>2 DEF FileOpen
  <2>4. /\ Upright(e, f2, ow, S, l, w) /\ Orderly(e, f2, ow, S)
        /\ e \in Good /\ Filed(d, e) /\ Headed(e.fp)
        /\ GoneOn(e) /\ EmptyOr(e, ow[h], w) /\ SpentOr(e, ow[h], w)
    <3>1. CASE how.trunc /\ ~how.creat
      <4>1. e = f_truncate(d)
        BY <3>1
      <4>2. ~d.fp.written
        BY <1>3, <1>5, <1>7, <3>1, OpenExisting
      <4>3. EmptyMarks(ow[h], e, k, u, l, w)
        <5>1. e.hit /\ ~IsOk(e) => name \in w
          BY <1>1, <1>2, <1>7, <3>1
        <5> QED
          BY <1>2, <2>3, <3>1, <5>1 DEF EmptyMarks
      <4>4. Binds(f1, h, e.fp, f2)
        BY <1>4 DEF Binds, f1
      <4> HIDE DEF e, f2
      <4>5. ow[h] \in Name
        BY <2>3
      <4> QED
        BY <2>3, <4>1, <4>2, <4>3, <4>4, <4>5, OpenTruncates
    <3>2. CASE ~(how.trunc /\ ~how.creat)
      <4>1. e = d /\ f2 = f1
        BY <3>2 DEF f1
      <4>2. Upright(d, f1, ow, S, l, w)
        BY <1>2, <2>3, UprightMore, UprightLost DEF UprightOr
      <4> HIDE DEF e, f2
      <4>3. Filed(d, d)
        BY DEF Filed, Met
      <4>4. Headed(d.fp) /\ GoneOn(d) /\ EmptyOr(d, ow[h], w) /\ SpentOr(d, ow[h], w)
        BY <1>7, <2>3 DEF AsObject, Headed, EmptyOr, SpentOr, GoneOn
      <4> QED
        BY <2>3, <4>1, <4>2, <4>3, <4>4
    <3> QED
      BY <3>1, <3>2
  <2> HIDE DEF e
  <2>5. e.fp \in FIL /\ Listed(e.fp) /\ LiveIn(e, e.fp) /\ e.stat # "STA_NOINIT"
    BY <2>3, <2>4 DEF Filed, AsObject, LiveIn, Listed, Label, Good, Ctx
  <2>6. Enrolled(f2) /\ f2[h] = e.fp
    BY <1>4, <2>5 DEF Enrolled
  <2>7. /\ Upright(c, f3, ow, S, l, w) /\ Orderly(c, f3, ow, S)
        /\ SpentOr(c, ow[h], w) /\ Filed(e, c)
    <3>1. CASE IsOk(e) /\ how.app
      <4>1. c = f_lseek(e, e.fp.fsize)
        BY <1>1, <1>7, <3>1
      <4>2. IsOk(Reject(e))
        BY <2>4, <2>5, <3>1, GoesOn DEF GoneOn
      <4>3. Binds(f2, h, c.fp, f3)
        BY <1>4 DEF Binds
      <4> HIDE DEF f2, f3
      <4> QED
        BY <2>4, <2>6, <4>1, <4>2, <4>3, OpenSeeks
    <3>2. CASE ~(IsOk(e) /\ how.app)
      <4>1. c = e /\ f3 = f2
        BY <1>1, <1>7, <3>2
      <4>2. Filed(e, e)
        BY DEF Filed, Met
      <4> HIDE DEF f2, f3
      <4> QED
        BY <2>4, <4>1, <4>2
    <3> QED
      BY <3>1, <3>2
  <2>8. c.fp \in FIL
    <3>1. c \in Owns(x)
      BY ElmOpenType
    <3> QED
      BY <3>1 DEF Owns, Good, Ctx
  <2>9. f3 \in [Handle -> FIL] /\ f3[h] = c.fp
    BY <1>4, <2>8
  <2>10. CASE IsOk(c)
    <3>1. gils = f3 /\ pwners = ow
      BY <2>10 DEF Takes, ow
    <3> HIDE DEF f3
    <3> QED
      BY <2>7, <3>1
  <2>11. CASE ~IsOk(c)
    <3>1. Takes(f3, ow, h, c, name, gils, pwners)
      BY <1>4, <2>11 DEF Takes, ow
    <3> HIDE DEF f3
    <3>2. SpentAt(c, f3, h, name, w)
      BY <2>3, <2>7, <2>9, <2>11 DEF SpentOr, SpentAt
    <3>3. f3 \in [Handle -> FIL] /\ ow \in [Handle -> Name \cup {NoName}] /\ ow[h] = name
      BY <2>3, <2>9
    <3> QED
      BY <2>7, <2>11, <3>1, <3>2, <3>3, OpenShuts
  <2> QED
    BY <2>10, <2>11
<1> QED
  BY <1>6, <1>7

\* What open says of files.
LEMMA OpenDoubts ==
  ASSUME TypeInv, NEW name \in Name, NEW how, NEW h \in Handle, ~fil[h].fs, h \notin stray,
         NEW names, names = IF how.trunc \/ how.creat THEN {name} ELSE {},
         NEW r, r.h = h, r.op = "open", r.how = how, NEW c
  PROVE  OpenMarks(name, how, c, cut[card], unsure[card], CutBy(c, names, r),
                   unsure[card] \cup Doubted(c, h, names))
<1>1. Touched(h, names) = names /\ names \subseteq Name
  BY DEF Touched
<1>2. Doubted(c, h, names) = IF names \cap unsure[card] # {} THEN Name
                             ELSE IF c.hit /\ ~IsOk(c) THEN names ELSE {}
  BY <1>1 DEF Doubted
<1>3. card \in Card /\ unsure[card] \in SUBSET Name
  BY DEF TypeInv
<1>4. /\ cut[card] \subseteq CutBy(c, names, r)
      /\ how.trunc /\ ~how.creat => name \in CutBy(c, names, r)
  BY DEF CutBy
<1>5. how.trunc \/ how.creat => names = {name}
  OBVIOUS
<1> QED
  BY <1>1, <1>2, <1>3, <1>4, <1>5 DEF OpenMarks

\* Open keeps the invariant.
LEMMA SoundOpen ==
  ASSUME TypeInv, SoundInv, NEW name \in Name, NEW how \in Flags, Open(name, how)
  PROVE  SoundInv'
<1> DEFINE h == Slot
           names == IF how.trunc \/ how.creat THEN {name} ELSE {}
           r == [Request("open", h) EXCEPT !.name = name, !.how = how]
<1>1. PICK x : /\ Begins(Closed, x)
               /\ LET c == elm_open(x, name, how)
                  IN Return(c, names, r, [fil EXCEPT ![h] = IF IsOk(c) THEN c.fp ELSE Closed],
                            [owner EXCEPT ![h] = IF IsOk(c) THEN name ELSE NoName])
  BY OpenStep
<1>2. h \in Handle /\ ~fil[h].fs /\ ~Busy(name) /\ stray' = stray
  BY OpenStep
<1> DEFINE c == elm_open(x, name, how)
           v == find_volume(x)
           g == [fil EXCEPT ![h] = IF IsOk(c) THEN c.fp ELSE Closed]
           o == [owner EXCEPT ![h] = IF IsOk(c) THEN name ELSE NoName]
           k == cut[card]
           u == unsure[card]
           l == CutBy(c, names, r)
           w == u \cup Doubted(c, h, names)
<1>3. r.h = h /\ r.op = "open" /\ r.how = how
  BY DEF Request
<1>4. Return(c, names, r, g, o)
  BY <1>1
<1>5. /\ x \in Fair /\ x.fp = Closed /\ Closed \in FIL
  BY <1>1, ClosedType, BeginsType
<1>6. Takes(fil, owner, h, c, name, g, o)
  BY DEF Takes
<1>7. names = IF how.trunc \/ how.creat THEN {name} ELSE {}
  OBVIOUS
<1>8. /\ fil \in [Handle -> FIL] /\ owner \in [Handle -> Name \cup {NoName}]
      /\ \A q \in Handle : Listed(fil[q])
  BY DEF TypeInv, Filled
<1>9. stray \subseteq Handle /\ h \notin stray
  BY <1>2 DEF TypeInv, SoundInv, Orderly
<1>10. c \in Owns(x)
  BY <1>5, ElmOpenType
<1> HIDE DEF h, r, names, c, g, o
<1>11. c.stat # "STA_NOINIT" /\ c.fp \in FIL
  BY <1>10 DEF Owns, Goes, Good, Ctx
<1>12. OpenMarks(name, how, c, k, u, l, w)
  BY <1>2, <1>3, <1>7, <1>9, OpenDoubts
<1>13. Marks(l, w) /\ Returned(c) /\ fil' = g /\ owner' = o
  BY <1>3, <1>4, ReturnMarks
<1>14. Upright(v, fil, owner, stray, k, u) /\ Orderly(v, fil, owner, stray)
  BY <1>1, <1>5, MountUpright
<1>15. Clear(v, fil, owner, {name}) /\ Named(v, fil, owner)
  <2>1. \A n \in {name} : ~Busy(n)
    BY <1>2
  <2> QED
    BY <1>1, <1>5, <2>1, MountClear
<1> HIDE DEF k, u, l, w, v
<1>16. g \in [Handle -> FIL]
  BY <1>5, <1>6, <1>8, <1>11 DEF Takes
<1>17. Upright(c, g, o, stray, l, w) /\ Orderly(c, g, o, stray)
  <2>1. CASE ~IsOk(v)
    <3>1. c = v
      <4>1. [x EXCEPT !.fp = Closed] = x
        BY <1>5 DEF Fair, Ctx
      <4>2. f_open(x, name, Mode(how)) = v
        BY <2>1, <4>1 DEF v, f_open, Then
      <4> QED
        BY <2>1, <4>2 DEF c, elm_open, Then
    <3>2. Shuts(fil, owner, h, g, o)
      BY <1>6, <2>1, <3>1 DEF Takes, Shuts
    <3>3. Upright(v, fil, owner, stray, l, w)
      BY <1>12, <1>14, UprightMore DEF OpenMarks
    <3>4. h \notin Lives(v, fil)
      BY <1>2 DEF Lives, LiveIn
    <3>5. /\ Upright(v, g, o, stray \ {h}, l, w) /\ Orderly(v, g, o, stray \ {h})
          /\ g \in [Handle -> FIL]
      BY <1>2, <1>8, <1>9, <1>14, <3>2, <3>3, <3>4, ShutUpright
    <3>6. stray \ {h} = stray
      BY <1>9
    <3> QED
      BY <3>1, <3>5, <3>6
  <2>2. CASE IsOk(v)
    <3>1. FreeHandle(fil, owner, h, stray)
      BY <1>2, <1>8, <1>9 DEF FreeHandle, Enrolled
    <3>2. ElmOpens(x, name, how, v, c)
      BY <1>5, <2>2 DEF ElmOpens, c, v
    <3>3. Before(v, fil, owner, stray, name, k, u)
      BY <1>14, <1>15 DEF Before
    <3> QED
      BY <1>6, <1>12, <3>1, <3>2, <3>3, ElmOpenUpright
  <2> QED
    BY <2>1, <2>2
<1> QED
  BY <1>2, <1>11, <1>13, <1>16, <1>17, SoundEnds

---------------------------------------------------------------------------
(* Every step keeps the chains, and what follows.                          *)

\* When ELM_Mount has mounted the volume its tables are those of the card.
LEMMA InitTables ==
  ASSUME Init
  PROVE  TableV(AtRest) = Table(sec[volume]) /\ TableC(AtRest) = Table(sec[volume])
<1> DEFINE i == [fs_type |-> 0, id |-> 0, winsect |-> NoSector, win |-> <<>>, wflag |-> FALSE,
                 last_clust |-> 0, free_clust |-> 0, fsi |-> "off", sec |-> sec[card],
                 stat |-> "STA_NOINIT", fp |-> Closed, made |-> 0, bad |-> 0, gone |-> FALSE,
                 hit |-> FALSE, res |-> "FR_OK", val |-> 0, out |-> <<>>]
           c == find_volume(i)
<1>1. TypeInv /\ volume = card
  BY InitType DEF Init
<1>2. i \in Fair /\ i.fs_type = 0
  <2>1. /\ 0 \in Nat /\ 0 \in Int /\ NoSector \in Sector \cup {NoSector} /\ <<>> \in Anything
        /\ "off" \in Fsi /\ "STA_NOINIT" \in Stat /\ Closed \in FIL /\ "FR_OK" \in Res
        /\ <<>> \in Seq(Int)
    <3>1. <<>> \in Anything
      BY DEF Anything
    <3>2. <<>> \in Seq(Int)
      OBVIOUS
    <3> QED
      BY <3>1, <3>2, ClosedType DEF Fsi, Stat, Res
  <2>2. sec[card] \in Sectors
    BY <1>1 DEF TypeInv
  <2>3. i \in Ctx
    BY <2>1, <2>2 DEF Ctx
  <2>4. i.stat = "STA_NOINIT" /\ i.fs_type = 0
    OBVIOUS
  <2> HIDE DEF i
  <2> QED
    BY <2>3, <2>4 DEF Fair
<1>3. fs = [x \in {"fs_type", "id", "winsect", "win", "wflag", "last_clust", "free_clust",
                   "fsi"} |-> c[x]]
  BY DEF Init
<1> HIDE DEF i
<1>4. ~c.wflag
  BY <1>2, MountedAnew
<1> HIDE DEF c
<1>5. ~AtRest.wflag /\ AtRest.sec = sec[volume]
  BY <1>3, <1>4, AtRestFields
<1> QED
  BY <1>5 DEF TableV, TableC, Over

\* The cards are sound at first, and no file is open.
LEMMA SoundInit ==
  ASSUME Init
  PROVE  SoundInv
<1>1. TypeInv
  BY InitType
<1>2. /\ stat = "0" /\ fil = [h \in Handle |-> Closed] /\ stray = {}
      /\ unsure = [c \in Card |-> {}] /\ cut = [c \in Card |-> {}]
      /\ \A c \in Card : sec[c] \in Blank[c]
  BY DEF Init
<1>3. ASSUME NEW c \in Card PROVE SoundTable(Table(sec[c]), {})
  <2>1. SoundCard(sec[c], {})
    BY <1>2, FatDevSound
  <2>2. sec[c] \in Sectors
    BY <1>1 DEF TypeInv
  <2> QED
    BY <2>1, <2>2, CardHasTable
<1>4. /\ TableV(AtRest) = Table(sec[volume]) /\ TableC(AtRest) = Table(sec[volume])
      /\ volume \in Card
  BY <1>1, InitTables DEF TypeInv
<1>5. \A h \in Handle : ~fil[h].fs
  BY <1>2, ClosedType
<1>6. Lives(AtRest, fil) = {}
  BY <1>5 DEF Lives, LiveIn
<1>7. Orderly(AtRest, fil, owner, stray)
  BY <1>2, <1>5, <1>6 DEF Orderly
<1>8. \A X : SoundTable(TableC(AtRest), X)
  <2> TAKE X
  <2>1. SoundTable(TableC(AtRest), {}) /\ {} \subseteq X
    BY <1>3, <1>4
  <2> QED
    BY <2>1, SoundTableMore
<1>9. \A X : Held(TableV(AtRest), X, fil, {}, stray)
  <2> TAKE X
  <2>1. SoundTable(TableV(AtRest), X)
    BY <1>4, <1>8
  <2> QED
    BY <2>1 DEF Held, SoundTable
<1>10. \A u : Sure(AtRest, fil, owner, u) = {}
  BY <1>6 DEF Sure
<1>11. Upright(AtRest, fil, owner, stray, cut[volume], unsure[volume])
  BY <1>6, <1>8, <1>9, <1>10 DEF Upright, Titled
<1>12. \A c \in Card : c # volume /\ unsure[c] # Name =>
         SoundTable(Table(sec[c]), Exempt(cut[c], unsure[c], {}))
  <2> TAKE c \in Card
  <2>1. SoundTable(Table(sec[c]), {}) /\ {} \subseteq Exempt(cut[c], unsure[c], {})
    BY <1>3
  <2> QED
    BY <2>1, SoundTableMore
<1> QED
  BY <1>2, <1>7, <1>11, <1>12 DEF SoundInv

\* Every step keeps the chains.
LEMMA NextSound ==
  ASSUME TypeInv, SoundInv, [Next]_vars
  PROVE  SoundInv'
<1>1. CASE \E n \in Used, how \in Flags : Open(n, how)
  BY <1>1, FatDevAssumption, SoundOpen
<1>2. CASE \E h \in Handle : Close(h) \/ Fsync(h)
  BY <1>2, SoundClose, SoundFsync
<1>3. CASE \E h \in Handle, n \in Reads : Read(h, n)
  BY <1>3, FatDevAssumption, SoundRead
<1>4. CASE \E h \in Handle, n \in Writes : Write(h, n)
  BY <1>4, FatDevAssumption, SoundWrite
<1>5. CASE \E h \in Handle, p \in Seeks : Seek(h, p[1], p[2])
  <2>1. PICK h \in Handle, p \in Seeks : Seek(h, p[1], p[2])
    BY <1>5
  <2>2. p[1] \in Int /\ p[2] \in {"SET", "CUR", "END"}
    BY FatDevAssumption
  <2> QED
    BY <2>1, <2>2, SoundSeek
<1>6. CASE \E h \in Handle, len \in Lengths : Ftruncate(h, len)
  BY <1>6, FatDevAssumption, SoundFtruncate
<1>7. CASE \E n \in Used : Unlink(n)
  BY <1>7, FatDevAssumption, SoundUnlink
<1>8. CASE \E n, m \in Used : Rename(n, m)
  BY <1>8, FatDevAssumption, SoundRename
<1>9. CASE GetFree
  BY <1>9, SoundGetFree
<1>10. CASE Pull
  BY <1>10, SoundPull
<1>11. CASE \E c \in Card : Insert(c)
  BY <1>11, SoundInsert
<1>12. CASE UNCHANGED vars
  BY <1>12, SoundStutter
<1> QED
  BY <1>1, <1>2, <1>3, <1>4, <1>5, <1>6, <1>7, <1>8, <1>9, <1>10, <1>11, <1>12 DEF Next

\* The invariant of the chains always holds.
LEMMA AlwaysSoundInv == Spec => []SoundInv
<1>1. Init => SoundInv
  BY SoundInit
<1>2. TypeInv /\ SoundInv /\ [Next]_vars => SoundInv'
  BY NextSound
<1> QED
  BY <1>1, <1>2, AlwaysTypeInv, PTL DEF Spec

\* The cards are sound by it.
LEMMA SoundInvCards ==
  ASSUME TypeInv, SoundInv
  PROVE  CardIsSound
<1> SUFFICES ASSUME NEW c \in Card, unsure[c] # Name PROVE SoundCard(sec[c], cut[c])
  BY DEF CardIsSound
<1>1. sec[c] \in Sectors
  BY DEF TypeInv
<1>2. PICK P : SoundTable(Table(sec[c]), Exempt(cut[c], unsure[c], P))
  <2>1. CASE c = volume
    <3>1. SoundTable(TableC(AtRest), Exempt(cut[c], unsure[c], Pairs(AtRest, fil, owner)))
      BY <2>1 DEF SoundInv, Upright
    <3>2. TableC(AtRest) = Table(sec[c])
      BY <2>1, AtRestFields DEF TableC
    <3> QED
      BY <3>1, <3>2
  <2>2. CASE c # volume
    BY <2>2 DEF SoundInv
  <2> QED
    BY <2>1, <2>2
<1>3. \A i \in Label : \A n \in Name :
        <<i, n>> \in Exempt(cut[c], unsure[c], P) => n \in cut[c]
  BY DEF Exempt
<1> QED
  BY <1>1, <1>2, <1>3, TableIsSound

\* The FAT of the volume, as a call finds it.
LEMMA FatHere ==
  ASSUME TypeInv, fs.fs_type # 0, stat # "STA_NOINIT"
  PROVE  FatOf(Here) = TableV(AtRest).fat
<1> DEFINE x == Here
<1>1. /\ x.fs_type # 0 /\ x.stat # "STA_NOINIT" /\ x.wflag = AtRest.wflag
      /\ x.winsect = AtRest.winsect /\ x.win = AtRest.win /\ x.sec = AtRest.sec
  BY AtRestFields DEF Here, Context, TypeInv
<1> HIDE DEF x
<1>2. AtRest.sec \in [Sector -> Anything]
  BY DEF TypeInv, Good, Ctx, Sectors
<1>3. ASSUME NEW k \in Cluster PROVE Seen(x, Fat(k))[k] = Over(AtRest)[Fat(k)][k]
  <2>1. Fat(k) \in Sector
    BY SectorFacts
  <2> QED
    BY <1>1, <1>2, <2>1 DEF Seen, Mounted, Over
<1>4. FatOf(x) = TableV(AtRest).fat
  BY <1>3 DEF FatOf, TableV, Table
<1> QED
  BY <1>4 DEF x

\* The files are at their places by it.
LEMMA SoundInvPlaces ==
  ASSUME TypeInv, SoundInv, NEW h \in Handle, h \notin stray
  PROVE  Placed(h)
<1> DEFINE f == fil[h]
           fat == TableV(AtRest).fat
<1> SUFFICES ASSUME Live(h), f.fptr > 0, f.err = "FR_OK", owner[h] \notin unsure[card]
             PROVE  LET chain == Chain(FatOf(Here), f.sclust)
                    IN /\ f.fptr <= Len(chain) * bcs
                       /\ f.clust = chain[(f.fptr - 1) \div bcs + 1]
  BY DEF Placed
<1>1. f.fs /\ fs.fs_type # 0 /\ stat # "STA_NOINIT"
  BY DEF Live, Valid, Mounted, Here, Context
<1>2. volume = card /\ AtRest \in Good
  BY <1>1 DEF TypeInv
<1>3. FatOf(Here) = fat
  BY <1>1, FatHere
<1>4. f \in FIL /\ f.dir_ptr \in Label /\ owner[h] \in Name
  BY <1>1, Owned DEF TypeInv, Filled, Listed, Label
<1>5. h \in Sure(AtRest, fil, owner, unsure[card])
  BY <1>1, LiveHere DEF Sure, Lives
<1>6. unsure[card] # Name
  BY <1>4
<1>7. PICK m \in Chart : /\ Charted(fat, m)
                         /\ \A l \in Sure(AtRest, fil, owner, unsure[card]) :
                              Fitted(m, fil[l], l \notin stray)
  BY <1>2, <1>6 DEF SoundInv, Upright, Held
<1>8. Fitted(m, f, h \notin stray)
  BY <1>5, <1>7
<1>9. Fits(m, f.dir_ptr, f, TRUE, 0)
  <2>1. (h \notin stray) = TRUE
    OBVIOUS
  <2> QED
    BY <1>8, <2>1 DEF Fitted
<1>10. fat \in [Cluster -> FatEntry]
  <2>1. TableV(AtRest) \in Tables
    BY <1>2, TableType
  <2> QED
    BY <2>1 DEF Tables
<1> HIDE DEF f, fat
<1>11. LET chain == Chain(fat, f.sclust)
       IN /\ f.fptr <= Len(chain) * bcs
          /\ f.clust = chain[(f.fptr - 1) \div bcs + 1]
  BY <1>4, <1>7, <1>9, <1>10, FitsIsPlaced
<1> QED
  BY <1>3, <1>11 DEF f

\* The chains on a card are sound whatever was called, whatever disk accesses failed, and
\* also when a card was pulled with files open: but for the files f_truncate and f_rename
\* may cost (ff.c marks clusters before it links them, and links them before the entry says
\* so), the entries' chains end, are long enough and share no cluster.
THEOREM CardsStaySound == Spec => []CardIsSound
BY AlwaysTypeInv, AlwaysSoundInv, SoundInvCards, PTL

\* fp->clust is the cluster of the byte before the position after every call but ftruncate,
\* whose f_lseek elm.c undoes in the position alone.
THEOREM PositionsStayPlaced == Spec => []PositionIsPlaced
<1>1. TypeInv /\ SoundInv => PositionIsPlaced
  BY TypeInvImplies, SoundInvPlaces DEF PositionIsPlaced
<1> QED
  BY <1>1, AlwaysTypeInv, AlwaysSoundInv, PTL

=============================================================================
