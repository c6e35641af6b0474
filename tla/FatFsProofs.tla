----------------------------- MODULE FatFsProofs -----------------------------
(***************************************************************************)
(* Proofs about FatFs: each function of ff.c takes a context of the right  *)
(* types to one of the right types, whatever sector is in the window and   *)
(* whichever disk access fails, and says what it leaves of the volume and  *)
(* of the file.                                                            *)
(*                                                                         *)
(* The functions on sectors keep what the sectors hold as long as the      *)
(* window and the card are taken together (Over): the window holds what    *)
(* its sector would, and differs from it only when it is to be written     *)
(* (Coherent).  The functions on files keep that a file at a position has  *)
(* clusters (Headed).  The loops are functions of their turn; that these   *)
(* functions exist, and what holds after every turn, is LoopExists.        *)
(***************************************************************************)
EXTENDS FatFs, WellFoundedInduction, FiniteSetTheorems, TLAPS

---------------------------------------------------------------------------
(* Induction and loops.                                                    *)

\* A nonempty set of naturals has a least element: what stands in for induction below.
LEMMA LeastExists ==
  ASSUME NEW T, T \subseteq Nat, T # {}
  PROVE  \E x \in T : \A y \in T : x <= y
<1> DEFINE R == {ss \in Nat \X Nat : ss[1] < ss[2]}
<1>1. PICK x \in T : \A y \in T : ~ (<<y, x>> \in R)
  <2>1. IsWellFoundedOn(R, Nat)
    BY NatLessThanWellFounded DEF OpToRel
  <2> HIDE DEF R
  <2> QED
    BY <2>1, WFMin
<1>2. \A y \in T : ~(y < x)
  BY <1>1
<1> QED
  BY <1>1, <1>2

\* Induction over the naturals, for a set instead of a predicate.
LEMMA SetInduction ==
  ASSUME NEW T, 0 \in T, \A n \in Nat : n \in T => n + 1 \in T
  PROVE  Nat \subseteq T
<1> SUFFICES ASSUME Nat \ T # {} PROVE FALSE
  OBVIOUS
<1>1. PICK x \in Nat \ T : \A y \in Nat \ T : x <= y
  BY LeastExists
<1>2. x # 0 /\ x - 1 \in Nat
  BY <1>1
<1>3. x - 1 \in T
  BY <1>1, <1>2
<1> QED
  BY <1>1, <1>2, <1>3

\* Step is the body of a recursive function on D with values in V, and what it asks of
\* the function at x is only what the function returns where the rank is lower.
Descends(D, V, rank, Step) ==
  /\ V # {} /\ rank \in [D -> Nat] /\ Step \in [[D -> V] -> [D -> V]]
  /\ \A g, h \in [D -> V] : \A x \in D :
       (\A y \in D : rank[y] < rank[x] => g[y] = h[y]) => Step[g][x] = Step[h][x]

\* Such a recursion has a solution: the function the definition describes exists.
LEMMA RecursionExists ==
  ASSUME NEW D, NEW V, NEW rank, NEW Step, Descends(D, V, rank, Step)
  PROVE  \E g \in [D -> V] : g = Step[g]
<1> USE DEF Descends
<1> DEFINE Upto(g, n) == \A x \in D : rank[x] < n => g[x] = Step[g][x]
           Reached == {n \in Nat : \E g \in [D -> V] : Upto(g, n)}
<1>1. 0 \in Reached
  <2>1. [x \in D |-> CHOOSE w \in V : TRUE] \in [D -> V]
    OBVIOUS
  <2>2. \A g : Upto(g, 0)
    OBVIOUS
  <2> QED
    BY <2>1, <2>2
<1>2. ASSUME NEW n \in Nat, n \in Reached
      PROVE  n + 1 \in Reached
  <2>1. PICK g \in [D -> V] : Upto(g, n)
    BY <1>2
  <2>2. Step[g] \in [D -> V]
    OBVIOUS
  <2>3. ASSUME NEW x \in D, rank[x] < n + 1
        PROVE  Step[g][x] = Step[Step[g]][x]
    <3>1. \A y \in D : rank[y] < rank[x] => g[y] = Step[g][y]
      BY <2>1, <2>3
    <3> QED
      BY <2>2, <3>1
  <2>4. Upto(Step[g], n + 1)
    BY <2>3
  <2> QED
    BY <2>2, <2>4
<1>3. \A n \in Nat : \E g \in [D -> V] : Upto(g, n)
  <2>1. Nat \subseteq Reached
    <3> HIDE DEF Reached
    <3> QED
      BY <1>1, <1>2, SetInduction
  <2> QED
    BY <2>1
<1>4. ASSUME NEW n \in Nat, NEW g \in [D -> V], Upto(g, n), NEW h \in [D -> V], Upto(h, n)
      PROVE  \A x \in D : rank[x] < n => g[x] = h[x]
  <2> DEFINE Differ == {k \in Nat : k < n /\ \E x \in D : rank[x] = k /\ g[x] # h[x]}
  <2> SUFFICES ASSUME Differ # {} PROVE FALSE
    OBVIOUS
  <2>1. PICK k \in Differ : \A l \in Differ : k <= l
    <3>1. Differ \subseteq Nat
      OBVIOUS
    <3> HIDE DEF Differ
    <3> QED
      BY <3>1, LeastExists
  <2>2. PICK x \in D : rank[x] = k /\ g[x] # h[x]
    OBVIOUS
  <2>3. \A y \in D : rank[y] < rank[x] => g[y] = h[y]
    BY <2>1, <2>2
  <2>4. Step[g][x] = Step[h][x]
    BY <2>3
  <2> QED
    BY <1>4, <2>1, <2>2, <2>4
<1> DEFINE To(n) == CHOOSE g \in [D -> V] : Upto(g, n)
           All == [x \in D |-> To(rank[x] + 1)[x]]
<1>5. \A n \in Nat : To(n) \in [D -> V] /\ Upto(To(n), n)
  BY <1>3
<1>6. All \in [D -> V]
  <2> HIDE DEF To
  <2> QED
    BY <1>5
<1>7. ASSUME NEW x \in D
      PROVE  All[x] = Step[All][x]
  <2> DEFINE g == To(rank[x] + 1)
  <2>1. /\ rank[x] \in Nat /\ rank[x] + 1 \in Nat
        /\ g \in [D -> V] /\ Upto(g, rank[x] + 1)
    <3> HIDE DEF To, Upto
    <3> QED
      BY <1>5
  <2>2. All[x] = g[x]
    OBVIOUS
  <2> HIDE DEF g
  <2>3. ASSUME NEW y \in D, rank[y] < rank[x]
        PROVE  g[y] = All[y]
    <3>1. rank[y] \in Nat /\ rank[y] + 1 \in Nat
      OBVIOUS
    <3>2. Upto(g, rank[y] + 1)
      BY <2>1, <2>3, <3>1
    <3>3. All[y] = To(rank[y] + 1)[y]
      OBVIOUS
    <3>4. To(rank[y] + 1) \in [D -> V] /\ Upto(To(rank[y] + 1), rank[y] + 1)
      BY <1>5, <3>1
    <3> HIDE DEF To, All, Upto
    <3>5. g[y] = To(rank[y] + 1)[y]
      BY <1>4, <2>1, <3>1, <3>2, <3>4
    <3> QED
      BY <3>3, <3>5
  <2>4. g[x] = Step[g][x]
    BY <2>1
  <2> HIDE DEF All
  <2>5. Step[g][x] = Step[All][x]
    BY <1>6, <2>1, <2>3
  <2> QED
    BY <2>2, <2>4, <2>5
<1>8. All = Step[All]
  <2> HIDE DEF All
  <2>1. Step[All] \in [D -> V]
    BY <1>6
  <2> QED
    BY <1>6, <1>7, <2>1
<1> QED
  BY <1>6, <1>8

\* Induction up to N.
LEMMA UptoInduction ==
  ASSUME NEW N \in Nat, NEW T, 0 \in T, \A n \in 0 .. N : n \in T /\ n < N => n + 1 \in T
  PROVE  0 .. N \subseteq T
<1> DEFINE U == {n \in Nat : n <= N => n \in T}
<1>1. 0 \in U
  OBVIOUS
<1>2. \A n \in Nat : n \in U => n + 1 \in U
  OBVIOUS
<1>3. Nat \subseteq U
  <2> HIDE DEF U
  <2> QED
    BY <1>1, <1>2, SetInduction
<1> QED
  BY <1>3

\* A loop of N turns: from c on, turn n makes of a value of S[n - 1] one of S[n].
Turns(N, S, turn) == \A n \in 0 .. N : n < N => \A v \in S[n] : turn[<<n + 1, v>>] \in S[n + 1]

\* The loop has a value after each of its turns, and it is where it should be.
Runs(N, S, c, turn) ==
  \E f : /\ f = [n \in 0 .. N |-> IF n = 0 THEN c ELSE turn[<<n, f[n - 1]>>]]
         /\ \A n \in 0 .. N : f[n] \in S[n]

\* A loop runs: the function that describes it exists, and its values stay in S.
LEMMA LoopExists ==
  ASSUME NEW N \in Nat, NEW S, NEW c \in S[0], NEW turn, Turns(N, S, turn)
  PROVE  Runs(N, S, c, turn)
<1> USE DEF Turns
<1> DEFINE D == 0 .. N
           V == UNION {S[n] : n \in D}
           rank == [n \in D |-> n]
           Next(g, n) == IF n = 0 THEN c
                         ELSE IF g[n - 1] \in S[n - 1] THEN turn[<<n, g[n - 1]>>] ELSE c
           Step == [g \in [D -> V] |-> [n \in D |-> Next(g, n)]]
<1>1. ASSUME NEW g, NEW n \in D PROVE Next(g, n) \in V
  <2>1. c \in V
    OBVIOUS
  <2>2. CASE n # 0 /\ g[n - 1] \in S[n - 1]
    <3>1. n - 1 \in D /\ n - 1 + 1 = n /\ n - 1 < N
      BY <2>2
    <3>2. turn[<<n, g[n - 1]>>] \in S[n]
      BY <2>2, <3>1
    <3> QED
      BY <2>2, <3>2
  <2> HIDE DEF V
  <2> QED
    BY <2>1, <2>2
<1>2. Descends(D, V, rank, Step)
  <2>1. Step \in [[D -> V] -> [D -> V]]
    <3>1. ASSUME NEW g \in [D -> V] PROVE [n \in D |-> Next(g, n)] \in [D -> V]
      <4> HIDE DEF V, Next, D
      <4> QED
        BY <1>1
    <3> HIDE DEF V, Next, D
    <3> QED
      BY <3>1
  <2>2. ASSUME NEW g \in [D -> V], NEW h \in [D -> V], NEW n \in D,
               \A m \in D : rank[m] < rank[n] => g[m] = h[m]
        PROVE  Step[g][n] = Step[h][n]
    <3>1. n # 0 => g[n - 1] = h[n - 1]
      BY <2>2
    <3>2. Next(g, n) = Next(h, n)
      BY <3>1
    <3> HIDE DEF V, Next, D
    <3> QED
      BY <3>2
  <2>3. V # {} /\ rank \in [D -> Nat]
    OBVIOUS
  <2> HIDE DEF D, V, rank, Step
  <2> QED
    BY <2>1, <2>2, <2>3 DEF Descends
<1>3. PICK f \in [D -> V] : f = Step[f]
  <2> HIDE DEF D, V, rank, Step
  <2> QED
    BY <1>2, RecursionExists
<1>4. f = [n \in D |-> Next(f, n)]
  <2> HIDE DEF D, V, Next
  <2> QED
    BY <1>3
<1>5. \A n \in D : f[n] = Next(f, n)
  <2> HIDE DEF Next
  <2> QED
    BY <1>4
<1> DEFINE T == {n \in D : f[n] \in S[n]}
<1>6. 0 \in T
  <2>1. 0 \in D /\ Next(f, 0) = c
    OBVIOUS
  <2> HIDE DEF Next, D
  <2> QED
    BY <1>5, <2>1
<1>7. ASSUME NEW n \in D, n \in T, n < N PROVE n + 1 \in T
  <2>1. n + 1 \in D /\ n + 1 # 0 /\ (n + 1) - 1 = n
    BY <1>7
  <2>2. f[n] \in S[n]
    BY <1>7
  <2>3. Next(f, n + 1) = turn[<<n + 1, f[n]>>]
    BY <2>1, <2>2
  <2>4. turn[<<n + 1, f[n]>>] \in S[n + 1]
    BY <1>7, <2>2
  <2> HIDE DEF Next, D
  <2> QED
    BY <1>5, <2>1, <2>3, <2>4
<1>8. \A n \in D : f[n] \in S[n]
  <2> HIDE DEF T
  <2>1. D \subseteq T
    BY <1>6, <1>7, UptoInduction
  <2> QED
    BY <2>1 DEF T
<1>9. ASSUME NEW n \in D
      PROVE  Next(f, n) = IF n = 0 THEN c ELSE turn[<<n, f[n - 1]>>]
  <2>1. n # 0 => n - 1 \in D
    OBVIOUS
  <2> HIDE DEF D
  <2> QED
    BY <1>8, <2>1
<1>10. f = [n \in D |-> IF n = 0 THEN c ELSE turn[<<n, f[n - 1]>>]]
  <2> HIDE DEF Next
  <2> QED
    BY <1>4, <1>9
<1> QED
  BY <1>8, <1>10 DEF Runs
---------------------------------------------------------------------------
(* Types.                                                                  *)

\* The results of the functions, and the kinds of FSInfo and of the card's state.
Res == {"FR_OK", "FR_DISK_ERR", "FR_INT_ERR", "FR_NO_FILE", "FR_DENIED", "FR_EXIST",
        "FR_INVALID_OBJECT", "full"}
Fsi == {"off", "clean", "dirty"}
Stat == {"0", "STA_NOINIT", "STA_NODISK"}

\* What a window may hold, and what the sectors of a volume do.
Anything == (UNION {Content(s) : s \in Sector}) \cup {<<>>}

\* What a volume's sectors hold.
Sectors == {f \in [Sector -> Anything] : \A s \in Sector : f[s] \in Content(s)}

\* A file object, and a context: a FATFS with the card it is on, the file in use and
\* the result so far.
FIL == [fs : BOOLEAN, id : Nat, rd : BOOLEAN, wr : BOOLEAN, err : Res, written : BOOLEAN,
        dirty : BOOLEAN, fptr : Nat, fsize : Nat, sclust : Cluster \cup {0}, clust : 0 .. EOC,
        dsect : Nat, buf : [0 .. SS - 1 -> Int], dir_ptr : 0 .. n_rootdir]

Ctx == [fs_type : {0, 1}, id : Nat, winsect : Sector \cup {NoSector}, win : Anything,
        wflag : BOOLEAN, last_clust : Nat, free_clust : Nat, fsi : Fsi, sec : Sectors,
        stat : Stat, fp : FIL, made : Nat, bad : Nat, gone : BOOLEAN, hit : BOOLEAN,
        res : Res, val : Int, out : Seq(Int)]

\* Sectors the window may change: those of the FAT and of the directory.
Changing == {Fat(c) : c \in Cluster} \cup {Dir(i) : i \in 1 .. n_rootdir}

\* The window holds what its sector would, and differs from it only if it is to be written.
Coherent(c) ==
  /\ c.winsect # NoSector => c.win \in Content(c.winsect)
  /\ c.wflag => c.winsect \in Changing
  /\ ~c.wflag /\ c.winsect \in Changing => c.win = c.sec[c.winsect]

\* The contexts on a volume that is mounted.
Good == {c \in Ctx : Coherent(c)}

\* The sectors as the functions of ff.c see them.
Over(c) == IF c.wflag THEN [c.sec EXCEPT ![c.winsect] = c.win] ELSE c.sec

\* What a function on sectors leaves alone; a disk error is not forgotten.
Steady(c, d) ==
  /\ d.fs_type = c.fs_type /\ d.id = c.id /\ d.stat = c.stat /\ d.fp = c.fp
  /\ d.bad = c.bad /\ d.gone = c.gone /\ d.out = c.out
  /\ (c.hit => d.hit) /\ (d.hit => c.hit \/ c.bad # 0)

\* ... and the cluster allocation data stays.
Kept(c, d) ==
  Steady(c, d) /\ d.last_clust = c.last_clust /\ d.free_clust = c.free_clust /\ d.fsi = c.fsi

\* Nothing but the window, the card and the result changes; the window stands for the
\* same sectors, and the card is what it was or what the window stood for.
Moved(c, d) ==
  /\ Kept(c, d) /\ Over(d) = Over(c)
  /\ d.sec = c.sec \/ d.sec = Over(c)

\* ... and what fails is a disk access.
Flushed(c, d) ==
  /\ Moved(c, d) /\ d.val = c.val
  /\ ~IsOk(d) => d.hit /\ d.res = "FR_DISK_ERR"

---------------------------------------------------------------------------
(* Sectors.                                                                *)

\* The FAT, the directory, FSInfo and the data lie on different sectors.
LEMMA SectorFacts ==
  /\ \A k \in Cluster : Fat(k) \in Sector /\ Fat(k) \in Changing
  /\ \A i \in 1 .. n_rootdir : Dir(i) \in Sector /\ Dir(i) \in Changing
  /\ FSInfo \in Sector /\ FSInfo \notin Changing /\ FSInfo # NoSector
  /\ \A s \in 1 .. Clusters * csize : Data(s) \in Sector
  /\ \A s : Data(s) \notin Changing /\ Data(s) # FSInfo
  /\ NoSector \notin Sector /\ Changing \subseteq Sector
  /\ \A k, i : Fat(k) # Dir(i)
<1> QED
  BY DEF Sector, Changing, Fat, Dir, FSInfo, Data, NoSector

\* What each kind of sector holds.
LEMMA Contents ==
  /\ \A k : Content(Fat(k)) = [{l \in Cluster : Fat(l) = Fat(k)} -> FatEntry]
  /\ \A i : Content(Dir(i)) = [{j \in 1 .. n_rootdir : Dir(j) = Dir(i)} -> Entry]
  /\ Content(FSInfo) = [free : Nat, next : Nat]
  /\ \A s : Content(Data(s)) = [0 .. SS - 1 -> Int]
<1>1. /\ \A k : Fat(k)[1] = "fat"
      /\ \A i : Dir(i)[1] = "dir"
      /\ FSInfo[1] = "info"
      /\ \A s : Data(s)[1] = "data"
  BY DEF Fat, Dir, FSInfo, Data
<1> HIDE DEF Fat, Dir, FSInfo, Data
<1> QED
  BY <1>1 DEF Content

\* A sector is replaced.
LEMMA InSectors ==
  ASSUME NEW f \in Sectors, NEW s \in Sector, NEW x \in Content(s)
  PROVE  /\ [f EXCEPT ![s] = x] \in Sectors
         /\ f[s] \in Content(s) /\ f[s] \in Anything /\ x \in Anything
<1>1. x \in Anything
  BY DEF Anything
<1>2. [f EXCEPT ![s] = x] \in [Sector -> Anything]
  BY <1>1 DEF Sectors
<1>3. \A t \in Sector : [f EXCEPT ![s] = x][t] \in Content(t)
  BY DEF Sectors
<1> QED
  BY <1>1, <1>2, <1>3 DEF Sectors

---------------------------------------------------------------------------
(* Results and disk accesses.                                              *)

\* Success leaves everything but the result alone.
LEMMA OkType ==
  ASSUME NEW c \in Ctx
  PROVE  /\ Ok(c) \in Ctx /\ IsOk(Ok(c)) /\ Ok(c).res = "FR_OK"
         /\ Kept(c, Ok(c)) /\ Ok(c).val = c.val /\ Ok(c).hit = c.hit
         /\ Ok(c).sec = c.sec /\ Ok(c).winsect = c.winsect /\ Ok(c).win = c.win
         /\ Ok(c).wflag = c.wflag /\ Over(Ok(c)) = Over(c)
         /\ c \in Good => Ok(c) \in Good
<1> QED
  BY DEF Ok, Ctx, IsOk, Res, Kept, Steady, Over, Good, Coherent

\* So does a failure.
LEMMA FailedType ==
  ASSUME NEW c \in Ctx, NEW r \in Res
  PROVE  /\ Failed(c, r) \in Ctx /\ Failed(c, r).res = r /\ (IsOk(Failed(c, r)) <=> r = "FR_OK")
         /\ Kept(c, Failed(c, r)) /\ Failed(c, r).val = c.val /\ Failed(c, r).hit = c.hit
         /\ Failed(c, r).sec = c.sec /\ Failed(c, r).winsect = c.winsect
         /\ Failed(c, r).win = c.win
         /\ Failed(c, r).wflag = c.wflag /\ Over(Failed(c, r)) = Over(c)
         /\ c \in Good => Failed(c, r) \in Good
<1> QED
  BY SMTT(60) DEF Failed, Ctx, IsOk, Res, Kept, Steady, Over, Good, Coherent

\* A disk access is counted; one that fails is noted in hit.
LEMMA AccessType ==
  ASSUME NEW c \in Ctx
  PROVE  /\ Access(c) \in Ctx /\ Kept(c, Access(c)) /\ Access(c).val = c.val
         /\ Access(c).sec = c.sec /\ Access(c).winsect = c.winsect /\ Access(c).win = c.win
         /\ Access(c).wflag = c.wflag /\ Access(c).res = c.res
         /\ Fails(c) => Access(c).hit
<1> DEFINE h == c.hit \/ Fails(c)
           m == c.made + 1
<1>1. /\ h \in BOOLEAN /\ (c.hit => h) /\ (Fails(c) => h) /\ m \in Nat
      /\ h => c.hit \/ c.bad # 0
  <2>1. Fails(c) => c.bad # 0
    BY DEF Fails
  <2> HIDE DEF Fails
  <2> QED
    BY <2>1 DEF Ctx
<1>2. Access(c) = [c EXCEPT !.made = m, !.hit = h]
  BY DEF Access
<1> HIDE DEF h, m
<1>3. /\ Access(c) \in Ctx /\ Access(c).hit = h /\ Access(c).val = c.val
      /\ Access(c).sec = c.sec /\ Access(c).winsect = c.winsect /\ Access(c).win = c.win
      /\ Access(c).wflag = c.wflag /\ Access(c).res = c.res
  BY <1>1, <1>2, ZenonT(60) DEF Ctx
<1>4. Kept(c, Access(c))
  BY <1>1, <1>2 DEF Ctx, Kept, Steady
<1> QED
  BY <1>1, <1>3, <1>4

\* A sector is written, or not.
LEMMA WriteType ==
  ASSUME NEW c \in Ctx, NEW s \in Sector, NEW x \in Content(s)
  PROVE  LET d == disk_write(c, s, x)
         IN /\ d \in Ctx /\ Kept(c, d) /\ d.val = c.val
            /\ d.winsect = c.winsect /\ d.win = c.win /\ d.wflag = c.wflag
            /\ IsOk(d) => d.sec = [c.sec EXCEPT ![s] = x]
            /\ ~IsOk(d) => d.sec = c.sec /\ d.hit /\ d.res = "FR_DISK_ERR"
<1> DEFINE a == Access(c)
           b == [a EXCEPT !.sec[s] = x]
<1>1. /\ a \in Ctx /\ Kept(c, a) /\ a.val = c.val /\ a.sec = c.sec /\ a.winsect = c.winsect
      /\ a.win = c.win /\ a.wflag = c.wflag /\ (Fails(c) => a.hit)
  BY AccessType
<1> HIDE DEF a
<1>2. CASE Fails(c)
  <2>1. disk_write(c, s, x) = Failed(a, "FR_DISK_ERR")
    BY <1>2 DEF disk_write, a
  <2>2. "FR_DISK_ERR" \in Res /\ "FR_DISK_ERR" # "FR_OK"
    BY DEF Res
  <2> QED
    BY <1>1, <1>2, <2>1, <2>2, FailedType DEF Kept, Steady
<1>3. CASE ~Fails(c)
  <2>1. disk_write(c, s, x) = Ok(b)
    BY <1>3 DEF disk_write, a, b
  <2>2. c.sec \in Sectors
    BY DEF Ctx
  <2>3. [c.sec EXCEPT ![s] = x] \in Sectors
    BY <2>2, InSectors
  <2>4. /\ b \in Ctx /\ Kept(a, b) /\ b.val = a.val /\ b.sec = [c.sec EXCEPT ![s] = x]
        /\ b.winsect = a.winsect /\ b.win = a.win /\ b.wflag = a.wflag
    BY <1>1, <2>3 DEF Ctx, Kept, Steady
  <2> HIDE DEF b
  <2> QED
    BY <1>1, <2>1, <2>4, OkType DEF Kept, Steady
<1> QED
  BY <1>2, <1>3

\* A sector is read, or not: nothing of the volume changes.
LEMMA ReadType ==
  ASSUME NEW c \in Ctx
  PROVE  LET d == disk_read(c)
         IN /\ d \in Ctx /\ Kept(c, d) /\ d.val = c.val /\ d.sec = c.sec
            /\ d.winsect = c.winsect /\ d.win = c.win /\ d.wflag = c.wflag
            /\ ~IsOk(d) => d.hit /\ d.res = "FR_DISK_ERR"
<1> DEFINE a == Access(c)
           r == IF Fails(c) THEN "FR_DISK_ERR" ELSE "FR_OK"
<1>1. /\ a \in Ctx /\ Kept(c, a) /\ a.val = c.val /\ a.sec = c.sec /\ a.winsect = c.winsect
      /\ a.win = c.win /\ a.wflag = c.wflag /\ (Fails(c) => a.hit)
  BY AccessType
<1>2. disk_read(c) = Failed(a, r)
  BY DEF disk_read
<1>3. r \in Res /\ (r # "FR_OK" => Fails(c) /\ r = "FR_DISK_ERR")
  BY DEF Res
<1> HIDE DEF a, r
<1> QED
  BY <1>1, <1>2, <1>3, FailedType DEF Kept, Steady

---------------------------------------------------------------------------
(* The window.                                                             *)

\* What two functions leave alone their sequence does.
LEMMA KeptTransitive ==
  ASSUME NEW c, NEW d, NEW e, Kept(c, d), Kept(d, e)
  PROVE  Kept(c, e)
<1> QED
  BY DEF Kept, Steady

\* sync_window writes the window to the card: the volume, seen through the window, stays,
\* and the window is clean unless the disk fails.
LEMMA SyncWindowType ==
  ASSUME NEW c \in Good
  PROVE  LET d == sync_window(c)
         IN /\ d \in Good /\ Flushed(c, d) /\ d.winsect = c.winsect /\ d.win = c.win
            /\ IsOk(d) => ~d.wflag
<1> DEFINE d == sync_window(c)
           w == disk_write(c, c.winsect, c.win)
           u == [w EXCEPT !.wflag = FALSE]
<1>1. c \in Ctx /\ Coherent(c)
  BY DEF Good
<1>2. CASE ~c.wflag
  <2>1. d = Ok(c)
    BY <1>2 DEF sync_window
  <2> QED
    BY <1>1, <1>2, <2>1, OkType DEF Flushed, Moved
<1>3. CASE c.wflag
  <2>1. c.winsect \in Sector /\ c.win \in Content(c.winsect) /\ c.winsect \in Changing
    BY <1>1, <1>3, SectorFacts DEF Coherent
  <2>2. /\ w \in Ctx /\ Kept(c, w) /\ w.val = c.val
        /\ w.winsect = c.winsect /\ w.win = c.win /\ w.wflag = c.wflag
        /\ IsOk(w) => w.sec = [c.sec EXCEPT ![c.winsect] = c.win]
        /\ ~IsOk(w) => w.sec = c.sec /\ w.hit /\ w.res = "FR_DISK_ERR"
    BY <1>1, <2>1, WriteType
  <2>3. Over(c) = [c.sec EXCEPT ![c.winsect] = c.win]
    BY <1>3 DEF Over
  <2>4. d = IF IsOk(w) THEN u ELSE w
    BY <1>3 DEF sync_window, Then
  <2>5. CASE IsOk(w)
    <3> HIDE DEF w
    <3>1. /\ u \in Ctx /\ Kept(w, u) /\ u.val = w.val /\ u.winsect = w.winsect /\ u.win = w.win
          /\ u.wflag = FALSE /\ u.sec = w.sec /\ u.res = w.res
      BY <2>2 DEF Ctx, Kept, Steady
    <3> HIDE DEF u
    <3>2. c.sec \in [Sector -> Anything]
      BY <1>1 DEF Ctx, Sectors
    <3>3. u.sec[u.winsect] = u.win
      BY <2>1, <2>2, <2>5, <3>1, <3>2
    <3>4. Coherent(u)
      BY <2>1, <2>2, <3>1, <3>3 DEF Coherent
    <3>5. Over(u) = Over(c) /\ u.sec = Over(c) /\ IsOk(u)
      BY <2>2, <2>3, <2>5, <3>1 DEF Over, IsOk
    <3>6. d = u
      BY <2>4, <2>5
    <3> QED
      BY <2>2, <3>1, <3>4, <3>5, <3>6, KeptTransitive DEF Good, Flushed, Moved
  <2>6. CASE ~IsOk(w)
    <3>1. d = w
      BY <2>4, <2>6
    <3> HIDE DEF w
    <3>2. Coherent(w) /\ Over(w) = Over(c)
      BY <1>1, <2>2, <2>6 DEF Coherent, Over
    <3> QED
      BY <2>2, <2>6, <3>1, <3>2 DEF Good, Flushed, Moved
  <2> QED
    BY <2>5, <2>6
<1> QED
  BY <1>2, <1>3

\* The window moves to a sector, or nowhere.
LEMMA MoveWindowType ==
  ASSUME NEW c \in Good, NEW s \in Sector
  PROVE  LET d == move_window(c, s)
         IN /\ d \in Good /\ Flushed(c, d)
            /\ IsOk(d) => /\ d.winsect = s /\ d.win \in Content(s)
                          /\ s \in Changing => d.win = Over(c)[s]
<1> DEFINE d == move_window(c, s)
           y == sync_window(c)
           r == disk_read(y)
           m == [r EXCEPT !.winsect = s, !.win = r.sec[s]]
           n == [r EXCEPT !.winsect = NoSector]
<1>1. c \in Ctx /\ Coherent(c) /\ s # NoSector /\ c.sec \in [Sector -> Anything]
  BY SectorFacts DEF Good, Ctx, Sectors
<1>2. CASE s = c.winsect
  <2>1. d = Ok(c)
    BY <1>2 DEF move_window
  <2>2. c.win \in Content(s) /\ (s \in Changing => c.win = Over(c)[s])
    BY <1>1, <1>2 DEF Coherent, Over
  <2> QED
    BY <1>1, <1>2, <2>1, <2>2, OkType DEF Flushed, Moved
<1>3. CASE s # c.winsect
  <2>1. /\ y \in Good /\ Flushed(c, y) /\ y.winsect = c.winsect /\ y.win = c.win
        /\ IsOk(y) => ~y.wflag
    BY SyncWindowType
  <2>2. d = IF IsOk(y) THEN IF IsOk(r) THEN m ELSE n ELSE y
    BY <1>3 DEF move_window, Then
  <2> HIDE DEF y
  <2>3. CASE ~IsOk(y)
    <3>1. d = y
      BY <2>2, <2>3
    <3> QED
      BY <2>1, <2>3, <3>1
  <2>4. CASE IsOk(y)
    <3>1. y \in Ctx
      BY <2>1 DEF Good
    <3>2. /\ r \in Ctx /\ Kept(y, r) /\ r.val = y.val /\ r.sec = y.sec
          /\ r.winsect = y.winsect /\ r.win = y.win /\ r.wflag = y.wflag
          /\ ~IsOk(r) => r.hit /\ r.res = "FR_DISK_ERR"
      BY <3>1, ReadType
    <3> HIDE DEF r
    <3>3. r.wflag = FALSE /\ Over(c) = r.sec
      BY <2>1, <2>4, <3>1, <3>2 DEF Over, Flushed, Moved, Ctx
    <3>4. r.sec[s] \in Content(s) /\ r.sec[s] \in Anything
      BY <3>2, InSectors DEF Ctx, Sectors
    <3>5. CASE IsOk(r)
      <4>1. /\ m \in Ctx /\ Kept(r, m) /\ m.val = r.val /\ m.winsect = s /\ m.win = r.sec[s]
            /\ m.wflag = r.wflag /\ m.sec = r.sec /\ m.res = r.res
        <5> DEFINE x == r.sec[s]
        <5>1. x \in Anything
          BY <3>4
        <5> HIDE DEF x
        <5>2. m = [r EXCEPT !.winsect = s, !.win = x]
          BY DEF x
        <5> HIDE DEF m
        <5>3. x = r.sec[s]
          BY DEF x
        <5> QED
          BY <3>2, <5>1, <5>2, <5>3 DEF Ctx, Kept, Steady
      <4>2. d = m
        BY <2>2, <2>4, <3>5
      <4> HIDE DEF m
      <4>3. Coherent(m) /\ IsOk(m) /\ Over(m) = Over(c) /\ (m.sec = c.sec \/ m.sec = Over(c))
        BY <2>1, <3>2, <3>3, <3>4, <3>5, <4>1 DEF Coherent, Over, IsOk, Flushed, Moved
      <4>4. Kept(c, m)
        BY <2>1, <3>2, <4>1, KeptTransitive DEF Flushed, Moved
      <4>5. m.val = c.val /\ m.win = Over(c)[s] /\ m.win \in Content(s)
        BY <2>1, <3>2, <3>3, <3>4, <4>1 DEF Flushed, Moved
      <4> QED
        BY <4>1, <4>2, <4>3, <4>4, <4>5 DEF Good, Flushed, Moved
    <3>6. CASE ~IsOk(r)
      <4>1. /\ n \in Ctx /\ Kept(r, n) /\ n.val = r.val /\ n.winsect = NoSector
            /\ n.wflag = r.wflag /\ n.sec = r.sec /\ n.res = r.res /\ n.hit = r.hit
        BY <3>2 DEF Ctx, Kept, Steady
      <4>2. d = n
        BY <2>2, <2>4, <3>6
      <4> HIDE DEF n
      <4>3. Coherent(n) /\ ~IsOk(n) /\ Over(n) = Over(c) /\ (n.sec = c.sec \/ n.sec = Over(c))
        BY <2>1, <3>2, <3>3, <3>6, <4>1, SectorFacts DEF Coherent, Over, IsOk, Flushed, Moved
      <4>4. Kept(c, n)
        BY <2>1, <3>2, <4>1, KeptTransitive DEF Flushed, Moved
      <4> QED
        BY <2>1, <3>2, <3>6, <4>1, <4>2, <4>3, <4>4 DEF Good, Flushed, Moved
    <3> QED
      BY <3>5, <3>6
  <2> QED
    BY <2>3, <2>4
<1> QED
  BY <1>2, <1>3

---------------------------------------------------------------------------
(* The FAT and the directory, as the functions of ff.c see them.           *)

\* The FAT and the directory as the functions of ff.c see them.
FatV(c) == [k \in Cluster |-> Over(c)[Fat(k)][k]]
DirV(c) == [i \in 1 .. n_rootdir |-> Over(c)[Dir(i)][i]]

\* They have their types.
LEMMA OverType ==
  ASSUME NEW c \in Good
  PROVE  /\ Over(c) \in Sectors
         /\ FatV(c) \in [Cluster -> FatEntry] /\ DirV(c) \in [1 .. n_rootdir -> Entry]
<1>1. Over(c) \in Sectors
  <2>1. c.sec \in Sectors /\ Coherent(c)
    BY DEF Good, Ctx
  <2>2. CASE c.wflag
    <3>1. c.winsect \in Sector /\ c.win \in Content(c.winsect)
      BY <2>1, <2>2, SectorFacts DEF Coherent
    <3> QED
      BY <2>1, <2>2, <3>1, InSectors DEF Over
  <2> QED
    BY <2>1, <2>2 DEF Over
<1>2. ASSUME NEW k \in Cluster PROVE Over(c)[Fat(k)][k] \in FatEntry
  <2>1. Fat(k) \in Sector
    BY SectorFacts
  <2>2. Over(c)[Fat(k)] \in Content(Fat(k))
    BY <1>1, <2>1 DEF Sectors
  <2>3. Over(c)[Fat(k)] \in [{l \in Cluster : Fat(l) = Fat(k)} -> FatEntry]
    BY <2>2, Contents
  <2> QED
    BY <2>3
<1>3. ASSUME NEW i \in 1 .. n_rootdir PROVE Over(c)[Dir(i)][i] \in Entry
  <2>1. Dir(i) \in Sector
    BY SectorFacts
  <2>2. Over(c)[Dir(i)] \in Content(Dir(i))
    BY <1>1, <2>1 DEF Sectors
  <2>3. Over(c)[Dir(i)] \in [{j \in 1 .. n_rootdir : Dir(j) = Dir(i)} -> Entry]
    BY <2>2, Contents
  <2> QED
    BY <2>3
<1> QED
  BY <1>1, <1>2, <1>3 DEF FatV, DirV

\* The window's move changes neither.
LEMMA ViewsMoved ==
  ASSUME NEW c, NEW d, Over(d) = Over(c)
  PROVE  FatV(d) = FatV(c) /\ DirV(d) = DirV(c)
<1> QED
  BY DEF FatV, DirV

\* Two moves of the window make one.
LEMMA MovedTransitive ==
  ASSUME NEW c, NEW d, NEW e, Moved(c, d), Moved(d, e)
  PROVE  Moved(c, e)
<1> QED
  BY DEF Moved, Kept, Steady

\* Another value is returned.
LEMMA ValType ==
  ASSUME NEW c \in Good, NEW v \in Int
  PROVE  LET d == [c EXCEPT !.val = v]
         IN /\ d \in Good /\ Moved(c, d) /\ d.val = v /\ d.res = c.res /\ (IsOk(d) <=> IsOk(c))
            /\ d.winsect = c.winsect /\ d.win = c.win /\ d.wflag = c.wflag /\ d.hit = c.hit
            /\ d.sec = c.sec
<1> DEFINE d == [c EXCEPT !.val = v]
<1>1. /\ d \in Ctx /\ Kept(c, d) /\ d.val = v /\ d.res = c.res /\ d.winsect = c.winsect
      /\ d.win = c.win /\ d.wflag = c.wflag /\ d.sec = c.sec /\ d.hit = c.hit
  BY DEF Good, Ctx, Kept, Steady
<1> HIDE DEF d
<1>2. Coherent(d) /\ Over(d) = Over(c) /\ (IsOk(d) <=> IsOk(c))
  BY <1>1 DEF Good, Coherent, Over, IsOk
<1> QED
  BY <1>1, <1>2 DEF Good, Moved, d

\* An entry of the FAT, Ones if it could not be read, 1 if there is none.
LEMMA GetFatType ==
  ASSUME NEW c \in Good, NEW clst
  PROVE  LET d == get_fat(c, clst)
         IN /\ d \in Good /\ Moved(c, d) /\ d.val \in Nat
            /\ clst \notin Cluster => d.val = 1 /\ d.res = c.res
            /\ clst \in Cluster /\ IsOk(d) => d.val = FatV(c)[clst] /\ d.val \in FatEntry
            /\ clst \in Cluster /\ ~IsOk(d) => d.val = Ones /\ d.hit /\ d.res = "FR_DISK_ERR"
<1> DEFINE m == move_window(c, Fat(clst))
           v == IF IsOk(m) THEN m.win[clst] ELSE Ones
<1>1. CASE clst \notin Cluster
  <2>1. get_fat(c, clst) = [c EXCEPT !.val = 1]
    BY <1>1 DEF get_fat
  <2> QED
    BY <1>1, <2>1, ValType
<1>2. CASE clst \in Cluster
  <2>1. get_fat(c, clst) = [m EXCEPT !.val = v]
    BY <1>2 DEF get_fat
  <2>2. Fat(clst) \in Sector /\ Fat(clst) \in Changing
    BY <1>2, SectorFacts
  <2>3. /\ m \in Good /\ Flushed(c, m)
        /\ IsOk(m) => m.win \in Content(Fat(clst)) /\ m.win = Over(c)[Fat(clst)]
    BY <2>2, MoveWindowType
  <2> HIDE DEF m
  <2>4. IsOk(m) => v = FatV(c)[clst] /\ v \in FatEntry
    BY <1>2, <2>3, OverType DEF FatV
  <2>5. v \in Nat /\ (~IsOk(m) => v = Ones)
    BY <2>4, FatFsAssumption DEF EOC, Ones, n_fatent, FatEntry
  <2> HIDE DEF v
  <2> QED
    BY <1>2, <2>1, <2>3, <2>4, <2>5, ValType, MovedTransitive DEF Flushed
<1> QED
  BY <1>1, <1>2

\* An entry of the FAT is changed in the window.
LEMMA PutFatType ==
  ASSUME NEW c \in Good, NEW clst \in Cluster, NEW v \in FatEntry
  PROVE  LET d == put_fat(c, clst, v)
         IN /\ d \in Good /\ Kept(c, d) /\ d.val = c.val
            /\ d.sec = c.sec \/ d.sec = Over(c)
            /\ IsOk(d) => Over(d) = [Over(c) EXCEPT ![Fat(clst)][clst] = v]
            /\ ~IsOk(d) => Moved(c, d) /\ d.hit /\ d.res = "FR_DISK_ERR"
<1> DEFINE m == move_window(c, Fat(clst))
           w == [m.win EXCEPT ![clst] = v]
           p == [m EXCEPT !.win = w, !.wflag = TRUE]
<1>1. Fat(clst) \in Sector /\ Fat(clst) \in Changing
  BY SectorFacts
<1>2. /\ m \in Good /\ Flushed(c, m)
      /\ IsOk(m) => /\ m.winsect = Fat(clst)
                    /\ m.win \in Content(Fat(clst)) /\ m.win = Over(c)[Fat(clst)]
  BY <1>1, MoveWindowType
<1>3. put_fat(c, clst, v) = IF IsOk(m) THEN p ELSE m
  BY DEF put_fat, Then
<1> HIDE DEF m
<1>4. CASE ~IsOk(m)
  BY <1>2, <1>3, <1>4 DEF Flushed, Moved
<1>5. CASE IsOk(m)
  <2>1. w \in Content(Fat(clst))
    BY <1>2, <1>5, Contents
  <2>2. w \in Anything
    BY <1>1, <2>1 DEF Anything
  <2>3. w = [m.win EXCEPT ![clst] = v]
    OBVIOUS
  <2> HIDE DEF w
  <2>4. /\ p \in Ctx /\ Kept(m, p) /\ p.val = m.val /\ p.win = w /\ p.wflag = TRUE
        /\ p.winsect = m.winsect /\ p.sec = m.sec /\ p.res = m.res
    BY <1>2, <2>2 DEF Good, Ctx, Kept, Steady
  <2> HIDE DEF p
  <2>5. Coherent(p) /\ IsOk(p)
    BY <1>1, <1>2, <1>5, <2>1, <2>4 DEF Coherent, IsOk
  <2>6. Over(p) = [m.sec EXCEPT ![Fat(clst)] = w]
    BY <1>2, <1>5, <2>4 DEF Over
  <2>7. Over(c) \in [Sector -> Anything]
    BY OverType DEF Sectors
  <2>8. [m.sec EXCEPT ![Fat(clst)] = w] = [Over(c) EXCEPT ![Fat(clst)] = w]
    <3>1. Over(m) = Over(c) /\ m.sec \in [Sector -> Anything]
      BY <1>2 DEF Flushed, Moved, Good, Ctx, Sectors
    <3>2. \A s \in Sector : s # Fat(clst) => m.sec[s] = Over(m)[s]
      BY <1>2, <1>5, <3>1 DEF Over
    <3> QED
      BY <2>7, <3>1, <3>2
  <2>9. Over(p) = [Over(c) EXCEPT ![Fat(clst)][clst] = v]
    BY <1>2, <1>5, <2>3, <2>6, <2>8
  <2> QED
    BY <1>2, <1>3, <1>5, <2>4, <2>5, <2>9, KeptTransitive DEF Good, Flushed, Moved
<1> QED
  BY <1>4, <1>5

\* What put_fat does to the FAT, and that it leaves the directory alone.
LEMMA PutFatViews ==
  ASSUME NEW c \in Good, NEW d, NEW clst \in Cluster, NEW v \in FatEntry,
         Over(d) = [Over(c) EXCEPT ![Fat(clst)][clst] = v]
  PROVE  FatV(d) = [FatV(c) EXCEPT ![clst] = v] /\ DirV(d) = DirV(c)
<1>1. /\ Over(c) \in [Sector -> Anything]
      /\ Over(c)[Fat(clst)] \in Content(Fat(clst)) /\ Fat(clst) \in Sector
  BY OverType, SectorFacts DEF Sectors
<1>2. Over(c)[Fat(clst)] \in [{l \in Cluster : Fat(l) = Fat(clst)} -> FatEntry]
  BY <1>1, Contents
<1>3. ASSUME NEW k \in Cluster
      PROVE  Over(d)[Fat(k)][k] = IF k = clst THEN v ELSE Over(c)[Fat(k)][k]
  <2>1. Fat(k) \in Sector
    BY SectorFacts
  <2>2. CASE Fat(k) = Fat(clst)
    BY <1>1, <1>2, <2>2
  <2>3. CASE Fat(k) # Fat(clst)
    BY <1>1, <2>1, <2>3
  <2> QED
    BY <2>2, <2>3
<1>4. ASSUME NEW i \in 1 .. n_rootdir PROVE Over(d)[Dir(i)][i] = Over(c)[Dir(i)][i]
  BY <1>1, SectorFacts
<1> QED
  BY <1>3, <1>4 DEF FatV, DirV

\* Sectors with another FAT entry.
PutAt(o, k, v) == [o EXCEPT ![Fat(k)][k] = v]

---------------------------------------------------------------------------
(* The chains.  A chart of a FAT names the directory entry each cluster    *)
(* belongs to and its place in the chain; a cluster that belongs to none   *)
(* is free, or lost.                                                       *)

\* The directory entries.
Label == 1 .. n_rootdir

\* hd is the first cluster of an entry's chain, own the entry of a cluster, pos its place.
Chart == [hd : [Label -> Cluster \cup {0}], own : [Cluster -> Label \cup {0}],
          pos : [Cluster -> Nat]]

\* The last cluster of a chain, and one that is not.
LastOf(fat, m, k) ==
  fat[k] = EOC /\ \A l \in Cluster : m.own[l] = m.own[k] => m.pos[l] <= m.pos[k]
Onto(fat, m, k) ==
  fat[k] \in Cluster /\ m.own[fat[k]] = m.own[k] /\ m.pos[fat[k]] = m.pos[k] + 1

\* The chart is one of this FAT: chains begin at their heads, follow the FAT, and do not meet.
Charted(fat, m) ==
  /\ \A i \in Label : m.hd[i] # 0 => m.own[m.hd[i]] = i /\ m.pos[m.hd[i]] = 0
  /\ \A k \in Cluster : m.own[k] # 0 =>
       m.hd[m.own[k]] # 0 /\ (LastOf(fat, m, k) \/ Onto(fat, m, k))
  /\ \A k, l \in Cluster : m.own[k] # 0 /\ m.own[k] = m.own[l] /\ m.pos[k] = m.pos[l] => k = l

\* The chain of an entry is long enough for this many bytes.
Holds(m, i, size) ==
  size > 0 => \E k \in Cluster : m.own[k] = i /\ m.pos[k] = (size - 1) \div bcs

\* The chains of the entries not in I are as they were.
Spares(m, n, I) ==
  /\ \A j \in Label \ I : n.hd[j] = m.hd[j]
  /\ \A k \in Cluster : m.own[k] # 0 /\ m.own[k] \notin I =>
                          n.own[k] = m.own[k] /\ n.pos[k] = m.pos[k]

\* Chains have at most become longer; i is the only entry that may have got one.
Grows(m, n, i) ==
  /\ \A j \in Label : m.hd[j] # 0 \/ j # i => n.hd[j] = m.hd[j]
  /\ \A k \in Cluster : m.own[k] # 0 => n.own[k] = m.own[k] /\ n.pos[k] = m.pos[k]

\* What both the window and the card say of the FAT and the directory.
Table(o) == [fat |-> [k \in Cluster |-> o[Fat(k)][k]], dir |-> [i \in Label |-> o[Dir(i)][i]]]
Tables == [fat : [Cluster -> FatEntry], dir : [Label -> Entry]]
TableV(c) == Table(Over(c))
TableC(c) == Table(c.sec)

\* The tables stay, but the card may be brought up to date.
Quiet(c, d) == TableV(d) = TableV(c) /\ TableC(d) \in {TableC(c), TableV(c)}

\* What the card holds is what it held, or one of T.
Through(c, d, T) == TableV(d) \in T /\ TableC(d) \in T \cup {TableC(c)}

\* A context's tables have their types, and are what the functions of ff.c see.
LEMMA TableType ==
  ASSUME NEW c \in Good
  PROVE  /\ TableV(c) \in Tables /\ TableC(c) \in Tables
         /\ TableV(c).fat = FatV(c) /\ TableV(c).dir = DirV(c)
<1>1. TableV(c).fat = FatV(c) /\ TableV(c).dir = DirV(c)
  BY DEF TableV, Table, FatV, DirV, Label
<1>2. FatV(c) \in [Cluster -> FatEntry] /\ DirV(c) \in [Label -> Entry]
  BY OverType DEF Label
<1>3. TableV(c) = [fat |-> FatV(c), dir |-> DirV(c)]
  BY DEF TableV, Table, FatV, DirV, Label
<1>4. TableV(c) \in Tables
  BY <1>2, <1>3 DEF Tables
<1>5. c.sec \in Sectors
  BY DEF Good, Ctx
<1>6. ASSUME NEW k \in Cluster PROVE c.sec[Fat(k)][k] \in FatEntry
  <2>1. Fat(k) \in Sector
    BY SectorFacts
  <2>2. c.sec[Fat(k)] \in Content(Fat(k))
    BY <1>5, <2>1 DEF Sectors
  <2>3. c.sec[Fat(k)] \in [{l \in Cluster : Fat(l) = Fat(k)} -> FatEntry]
    BY <2>2, Contents
  <2> QED
    BY <2>3
<1>7. ASSUME NEW i \in Label PROVE c.sec[Dir(i)][i] \in Entry
  <2>1. Dir(i) \in Sector
    BY SectorFacts DEF Label
  <2>2. c.sec[Dir(i)] \in Content(Dir(i))
    BY <1>5, <2>1 DEF Sectors
  <2>3. c.sec[Dir(i)] \in [{j \in 1 .. n_rootdir : Dir(j) = Dir(i)} -> Entry]
    BY <2>2, Contents DEF Label
  <2> QED
    BY <2>3 DEF Label
<1>8. TableC(c) \in Tables
  BY <1>6, <1>7 DEF TableC, Table, Tables
<1> QED
  BY <1>1, <1>4, <1>8

\* The window's move leaves the tables.
LEMMA MovedQuiet ==
  ASSUME NEW c, NEW d, Moved(c, d)
  PROVE  Quiet(c, d)
BY DEF Moved, Quiet, TableV, TableC

\* So does what changes neither the sectors nor the window.
LEMMA BesideQuiet ==
  ASSUME NEW c, NEW d, d.sec = c.sec, Over(d) = Over(c)
  PROVE  Quiet(c, d)
BY DEF Quiet, TableV, TableC

\* Quiet, for two functions in a row.
LEMMA QuietTransitive ==
  ASSUME NEW c, NEW d, NEW e, Quiet(c, d), Quiet(d, e)
  PROVE  Quiet(c, e)
BY DEF Quiet

\* What leaves the tables shows the card no others.
LEMMA QuietThrough ==
  ASSUME NEW c, NEW d, NEW T, Quiet(c, d), TableV(c) \in T
  PROVE  Through(c, d, T)
BY DEF Quiet, Through

\* Through, for two functions in a row.
LEMMA ThroughTransitive ==
  ASSUME NEW c, NEW d, NEW e, NEW T, Through(c, d, T), Through(d, e, T)
  PROVE  Through(c, e, T)
BY DEF Through

\* ... for one that leaves the tables and one that does not,
LEMMA QuietThroughNext ==
  ASSUME NEW c, NEW d, NEW e, NEW T, Quiet(c, d), Through(d, e, T), TableV(c) \in T
  PROVE  Through(c, e, T)
BY DEF Quiet, Through

\* ... the other way round,
LEMMA ThroughQuietNext ==
  ASSUME NEW c, NEW d, NEW e, NEW T, Through(c, d, T), Quiet(d, e)
  PROVE  Through(c, e, T)
BY DEF Quiet, Through

\* ... and for more tables.
LEMMA ThroughLarger ==
  ASSUME NEW c, NEW d, NEW T, NEW U, Through(c, d, T), T \subseteq U
  PROVE  Through(c, d, U)
BY DEF Through

\* The tables after a FAT entry is changed.
LEMMA PutAtTable ==
  ASSUME NEW o \in Sectors, NEW clst \in Cluster, NEW v \in FatEntry
  PROVE  LET p == PutAt(o, clst, v)
         IN /\ p \in Sectors /\ Table(p).fat = [Table(o).fat EXCEPT ![clst] = v]
            /\ Table(p).dir = Table(o).dir
<1> DEFINE p == PutAt(o, clst, v)
           w == [o[Fat(clst)] EXCEPT ![clst] = v]
<1>1. /\ o \in [Sector -> Anything]
      /\ o[Fat(clst)] \in Content(Fat(clst)) /\ Fat(clst) \in Sector
  BY SectorFacts DEF Sectors
<1>2. o[Fat(clst)] \in [{l \in Cluster : Fat(l) = Fat(clst)} -> FatEntry]
  BY <1>1, Contents
<1>3. w \in Content(Fat(clst))
  BY <1>2, Contents
<1>4. p = [o EXCEPT ![Fat(clst)] = w]
  BY DEF PutAt
<1>5. p \in Sectors
  <2> HIDE DEF p, w
  <2> QED
    BY <1>1, <1>3, <1>4, InSectors
<1>6. ASSUME NEW k \in Cluster
      PROVE  p[Fat(k)][k] = IF k = clst THEN v ELSE o[Fat(k)][k]
  <2>1. Fat(k) \in Sector
    BY SectorFacts
  <2>2. CASE Fat(k) = Fat(clst)
    BY <1>1, <1>2, <1>4, <2>2
  <2>3. CASE Fat(k) # Fat(clst)
    BY <1>1, <1>4, <2>1, <2>3
  <2> QED
    BY <2>2, <2>3
<1>7. ASSUME NEW i \in Label PROVE p[Dir(i)][i] = o[Dir(i)][i]
  BY <1>1, <1>4, SectorFacts DEF Label
<1> HIDE DEF p
<1>8. Table(p).fat = [Table(o).fat EXCEPT ![clst] = v]
  BY <1>6 DEF Table
<1>9. Table(p).dir = Table(o).dir
  BY <1>7 DEF Table
<1> QED
  BY <1>5, <1>8, <1>9 DEF p

---------------------------------------------------------------------------
(* Looking for a free cluster.                                             *)

\* Every cluster is taken.
Full(fat) == \A k \in Cluster : fat[k] # 0

\* The search from start meets only clusters.
LEMMA NthExists ==
  ASSUME NEW start \in 1 .. n_fatent - 1, NEW m \in 1 .. Clusters
  PROVE  Nth(start, m) \in Cluster
<1> QED
  BY FatFsAssumption DEF Nth, n_fatent, Cluster

\* ... and every cluster.
LEMMA NthCovers ==
  ASSUME NEW start \in 1 .. n_fatent - 1, NEW k \in Cluster
  PROVE  \E m \in 1 .. Clusters : Nth(start, m) = k
<1>1. CASE k > start
  <2>1. k - start \in 1 .. Clusters /\ Nth(start, k - start) = k
    BY <1>1, FatFsAssumption DEF Nth, n_fatent, Cluster
  <2> QED
    BY <2>1
<1>2. CASE k <= start
  <2>1. k - start + Clusters \in 1 .. Clusters /\ Nth(start, k - start + Clusters) = k
    BY <1>2, FatFsAssumption DEF Nth, n_fatent, Cluster
  <2> QED
    BY <2>1
<1> QED
  BY <1>1, <1>2, FatFsAssumption DEF n_fatent, Cluster

\* What the search has found out after n clusters.
Searched(c, start, n) ==
  {d \in Good :
     /\ Moved(c, d)
     /\ d.val = Looking => \A m \in 1 .. n : Nth(start, m) \in Cluster =>
                                               FatV(c)[Nth(start, m)] # 0
     /\ d.val # Looking => \/ d.val = Ones /\ ~IsOk(d) /\ d.hit
                           \/ d.val = 1 /\ n > Clusters
                           \/ d.val \in Cluster /\ FatV(c)[d.val] = 0 /\ IsOk(d)}

\* One cluster more has been looked at.
LEMMA TryOneType ==
  ASSUME NEW c \in Good, NEW start \in 1 .. n_fatent - 1, NEW n \in Nat,
         NEW d \in Searched(c, start, n)
  PROVE  TryOne(d, Nth(start, n + 1)) \in Searched(c, start, n + 1)
<1> DEFINE k == Nth(start, n + 1)
           g == get_fat(d, k)
           v == IF g.val = 0 THEN k ELSE IF g.val \in {1, Ones} THEN g.val ELSE Looking
           e == [g EXCEPT !.val = v]
<1>1. CASE d.val # Looking
  BY <1>1, FatFsAssumption DEF TryOne, Searched
<1>2. CASE d.val = Looking
  <2>1. TryOne(d, k) = e
    BY <1>2 DEF TryOne
  <2>2. /\ g \in Good /\ Moved(d, g) /\ g.val \in Nat
        /\ k \notin Cluster => g.val = 1
        /\ k \in Cluster /\ IsOk(g) => g.val = FatV(d)[k] /\ g.val \in FatEntry
        /\ k \in Cluster /\ ~IsOk(g) => g.val = Ones /\ g.hit
    BY GetFatType DEF Searched
  <2>3. Moved(c, d) /\ FatV(d) = FatV(c)
    BY ViewsMoved DEF Searched, Moved
  <2>4. /\ Ones \notin {0, 1} /\ Ones \in Nat /\ Ones \notin FatEntry /\ 1 \notin FatEntry
        /\ Looking \in Int /\ Looking \notin Nat /\ Looking \notin Cluster /\ k \in Int
    BY FatFsAssumption DEF Ones, n_fatent, Looking, Nth, Cluster, FatEntry, EOC
  <2>5. n + 1 <= Clusters => k \in Cluster
    <3>1. n + 1 <= Clusters => n + 1 \in 1 .. Clusters
      BY FatFsAssumption
    <3> QED
      BY <3>1, NthExists DEF k
  <2>6. n + 1 > Clusters \/ n + 1 <= Clusters
    BY FatFsAssumption
  <2> HIDE DEF g, k
  <2>7. /\ v \in Int
        /\ v = Looking => (k \in Cluster => FatV(c)[k] # 0)
        /\ v # Looking => \/ v = Ones /\ ~IsOk(g) /\ g.hit
                          \/ v = 1 /\ n + 1 > Clusters
                          \/ v = k /\ k \in Cluster /\ FatV(c)[k] = 0 /\ IsOk(g)
    <3>1. CASE k \notin Cluster
      BY <2>2, <2>4, <2>5, <2>6, <3>1
    <3>2. CASE k \in Cluster /\ ~IsOk(g)
      BY <2>2, <2>4, <3>2
    <3>3. CASE k \in Cluster /\ IsOk(g)
      BY <2>2, <2>3, <2>4, <3>3
    <3> QED
      BY <3>1, <3>2, <3>3
  <2> HIDE DEF v
  <2>8. /\ e \in Good /\ Moved(g, e) /\ e.val = v /\ (IsOk(e) <=> IsOk(g)) /\ e.hit = g.hit
    BY <2>2, <2>7, ValType
  <2>9. Moved(c, e)
    BY <2>2, <2>3, <2>8, MovedTransitive
  <2>10. \A m \in 1 .. n + 1 : m \in 1 .. n \/ Nth(start, m) = k
    BY DEF k
  <2> HIDE DEF e
  <2>11. e.val = Looking => \A m \in 1 .. n + 1 : Nth(start, m) \in Cluster =>
                                                    FatV(c)[Nth(start, m)] # 0
    BY <1>2, <2>7, <2>8, <2>10 DEF Searched
  <2>12. e.val # Looking => \/ e.val = Ones /\ ~IsOk(e) /\ e.hit
                            \/ e.val = 1 /\ n + 1 > Clusters
                            \/ e.val \in Cluster /\ FatV(c)[e.val] = 0 /\ IsOk(e)
    BY <2>7, <2>8
  <2> QED
    BY <2>1, <2>8, <2>9, <2>11, <2>12 DEF Searched, k
<1> QED
  BY <1>1, <1>2

\* A free cluster if there is one, 0 if every cluster is taken, or an error.
LEMMA FindFreeType ==
  ASSUME NEW c \in Good, NEW start \in 1 .. n_fatent - 1
  PROVE  LET d == FindFree(c, start, Clusters)
         IN /\ d \in Good /\ Moved(c, d)
            /\ \/ d.val = Ones /\ ~IsOk(d) /\ d.hit
               \/ d.val = 0 /\ Full(FatV(c))
               \/ d.val \in Cluster /\ FatV(c)[d.val] = 0 /\ IsOk(d)
<1> DEFINE N == Clusters
           b == [c EXCEPT !.val = Looking]
           S == [n \in 0 .. N |-> Searched(c, start, n)]
           turn == [x \in (1 .. N) \X Good |-> TryOne(x[2], Nth(start, x[1]))]
           Loop(g) == g = [n \in 0 .. N |-> IF n = 0 THEN b ELSE TryOne(g[n - 1], Nth(start, n))]
           after == CHOOSE g : Loop(g)
           f == after[N]
           v == IF f.val = Looking THEN 0 ELSE f.val
<1>1. N \in Nat /\ Looking \in Int
  BY FatFsAssumption DEF Looking, n_fatent
<1>2. b \in S[0]
  <2>1. b \in Good /\ Moved(c, b) /\ b.val = Looking
    BY <1>1, ValType
  <2>2. S[0] = Searched(c, start, 0)
    BY <1>1
  <2> HIDE DEF b, S
  <2> QED
    BY <2>1, <2>2 DEF Searched
<1> HIDE DEF b
<1>3. \A n \in 0 .. N : S[n] \subseteq Good
  BY DEF Searched
<1>4. \A n \in 0 .. N : n < N => n + 1 \in 1 .. N /\ n + 1 \in 0 .. N /\ (n + 1) - 1 = n
  BY <1>1
<1>5. \A n \in 0 .. N : n < N => \A d \in S[n] : TryOne(d, Nth(start, n + 1)) \in S[n + 1]
  <2> HIDE DEF N
  <2>1. \A n \in 0 .. N : n \in Nat
    BY <1>1
  <2> QED
    BY <1>4, <2>1, TryOneType
<1>6. Turns(N, S, turn)
  <2> HIDE DEF S, N
  <2> QED
    BY <1>3, <1>4, <1>5 DEF Turns
<1> HIDE DEF S
<1>7. \E g : Loop(g)
  <2>1. PICK g : /\ g = [n \in 0 .. N |-> IF n = 0 THEN b ELSE turn[<<n, g[n - 1]>>]]
                 /\ \A n \in 0 .. N : g[n] \in S[n]
    <3> HIDE DEF turn, N
    <3>1. Runs(N, S, b, turn)
      BY <1>1, <1>2, <1>6, LoopExists
    <3> QED
      BY <3>1 DEF Runs
  <2>2. ASSUME NEW n \in 0 .. N, n # 0
        PROVE  turn[<<n, g[n - 1]>>] = TryOne(g[n - 1], Nth(start, n))
    <3>1. n - 1 \in 0 .. N /\ n \in 1 .. N
      BY <1>1, <2>2
    <3> HIDE DEF N
    <3>2. g[n - 1] \in Good
      BY <1>3, <2>1, <3>1
    <3> QED
      BY <3>1, <3>2
  <2> HIDE DEF turn, N
  <2> QED
    BY <2>1, <2>2
<1>8. Loop(after)
  BY <1>7
<1> HIDE DEF after
<1> DEFINE T == {n \in 0 .. N : after[n] \in S[n]}
<1>9a. 0 .. N \subseteq T
  <2>1. 0 \in 0 .. N /\ after[0] = b
    BY <1>1, <1>8
  <2> HIDE DEF N
  <2>2. \A n \in 0 .. N : n < N => after[n + 1] = TryOne(after[n], Nth(start, n + 1))
    BY <1>4, <1>8
  <2> HIDE DEF Loop
  <2>3. 0 \in T /\ \A n \in 0 .. N : n \in T /\ n < N => n + 1 \in T
    BY <1>2, <1>4, <1>5, <2>1, <2>2
  <2> HIDE DEF T
  <2> QED
    BY <1>1, <2>3, UptoInduction
<1>9. f \in Searched(c, start, Clusters)
  BY <1>1, <1>9a DEF S
<1>10. FindFree(c, start, Clusters) = [f EXCEPT !.val = v]
  BY DEF FindFree, Repeat, after, b
<1> HIDE DEF f
<1>11. f.val = Looking => Full(FatV(c))
  <2> SUFFICES ASSUME f.val = Looking, NEW k \in Cluster PROVE FatV(c)[k] # 0
    BY DEF Full
  <2>1. PICK m \in 1 .. Clusters : Nth(start, m) = k
    BY NthCovers
  <2> QED
    BY <1>9, <2>1 DEF Searched
<1>12. v \in Int /\ f \in Good /\ Moved(c, f)
  BY <1>9 DEF Searched, Good, Ctx
<1>13. \/ v = Ones /\ ~IsOk(f) /\ f.hit
       \/ v = 0 /\ Full(FatV(c))
       \/ v \in Cluster /\ FatV(c)[v] = 0 /\ IsOk(f)
  BY <1>1, <1>9, <1>11 DEF Searched
<1> HIDE DEF v
<1> QED
  BY <1>10, <1>12, <1>13, ValType, MovedTransitive

---------------------------------------------------------------------------
(* Clusters are taken.                                                     *)

\* Everything but the free count, and whether FSInfo is to be written, stays.
LEMMA CountType ==
  ASSUME NEW c \in Good, NEW n \in Int
  PROVE  LET d == Count(c, n)
         IN /\ d \in Good /\ Steady(c, d) /\ d.last_clust = c.last_clust
            /\ d.sec = c.sec /\ Over(d) = Over(c) /\ d.val = c.val /\ d.res = c.res
            /\ d.winsect = c.winsect /\ d.win = c.win /\ d.wflag = c.wflag
            /\ (IsOk(d) <=> IsOk(c)) /\ d.hit = c.hit
            /\ d.free_clust = IF c.free_clust = Ones \/ c.free_clust + n < 0 THEN Ones
                              ELSE c.free_clust + n
<1> DEFINE d == Count(c, n)
           f == IF c.free_clust + n < 0 THEN Ones ELSE c.free_clust + n
           y == Dirty(c.fsi)
<1>1. CASE c.free_clust = Ones
  <2>1. d = c
    BY <1>1 DEF Count
  <2> QED
    BY <1>1, <2>1 DEF Steady
<1>2. CASE c.free_clust # Ones
  <2>1. d = [c EXCEPT !.free_clust = f, !.fsi = y]
    BY <1>2 DEF Count
  <2>2. f \in Nat /\ y \in Fsi
    BY FatFsAssumption DEF Good, Ctx, Ones, n_fatent, Dirty, Fsi
  <2>3. f = IF c.free_clust = Ones \/ c.free_clust + n < 0 THEN Ones ELSE c.free_clust + n
    BY <1>2
  <2> HIDE DEF f, y
  <2>4. /\ d \in Ctx /\ Steady(c, d) /\ d.last_clust = c.last_clust /\ d.free_clust = f
        /\ d.sec = c.sec /\ d.val = c.val /\ d.res = c.res
        /\ d.winsect = c.winsect /\ d.win = c.win /\ d.wflag = c.wflag /\ d.hit = c.hit
    BY <2>1, <2>2, ZenonT(60) DEF Good, Ctx, Steady
  <2> HIDE DEF d
  <2>5. Coherent(d) /\ Over(d) = Over(c) /\ (IsOk(d) <=> IsOk(c))
    BY <2>4 DEF Good, Coherent, Over, IsOk
  <2> QED
    BY <2>3, <2>4, <2>5 DEF Good, d
<1> QED
  BY <1>1, <1>2

\* Steady, for two functions in a row.
LEMMA SteadyTransitive ==
  ASSUME NEW c, NEW d, NEW e, Steady(c, d), Steady(d, e)
  PROVE  Steady(c, e)
<1> QED
  BY DEF Steady

\* What Link does to the cluster k that c.val names, which is linked to clst: it is
\* marked, then linked; if one of the two fails, it is marked at most.
Linked(c, d, k, clst) ==
  /\ IsOk(d) /\ d.val = k /\ d.last_clust = k
  /\ d.free_clust = IF c.free_clust \in {0, Ones} THEN Ones ELSE c.free_clust - 1
  /\ Over(d) = IF clst = 0 THEN PutAt(Over(c), k, EOC) ELSE PutAt(PutAt(Over(c), k, EOC), clst, k)

\* ... or it is not linked, though it may be marked.
NotLinked(c, d, k) ==
  /\ ~IsOk(d) /\ d.hit /\ d.val = Ones /\ Kept(c, d)
  /\ Over(d) \in {Over(c), PutAt(Over(c), k, EOC)}

\* Link does one of the two.
LEMMA LinkType ==
  ASSUME NEW c \in Good, c.val \in Cluster, NEW clst \in Cluster \cup {0}
  PROVE  LET d == Link(c, clst)
         IN /\ d \in Good /\ Steady(c, d)
            /\ d.sec \in {c.sec, Over(c), PutAt(Over(c), c.val, EOC)}
            /\ Linked(c, d, c.val, clst) \/ NotLinked(c, d, c.val)
<1> DEFINE k == c.val
           m == put_fat(c, k, EOC)
           l == put_fat(m, clst, k)
           p == IF IsOk(m) THEN IF clst = 0 THEN m ELSE l ELSE m
           q == [p EXCEPT !.last_clust = k, !.val = k]
           x == IF p.res = "FR_DISK_ERR" THEN Ones ELSE 1
           r == [p EXCEPT !.val = x]
<1>1. EOC \in FatEntry /\ k \in FatEntry /\ k \in Nat /\ k \in Int /\ 0 \notin Cluster
  BY FatFsAssumption DEF EOC, FatEntry, Cluster, n_fatent
<1>2. /\ m \in Good /\ Kept(c, m) /\ m.val = k
      /\ m.sec = c.sec \/ m.sec = Over(c)
      /\ IsOk(m) => Over(m) = PutAt(Over(c), k, EOC)
      /\ ~IsOk(m) => Moved(c, m) /\ m.hit /\ m.res = "FR_DISK_ERR"
  BY <1>1, PutFatType DEF PutAt
<1>3. clst # 0 => /\ l \in Good /\ Kept(m, l) /\ l.val = k
                  /\ l.sec = m.sec \/ l.sec = Over(m)
                  /\ IsOk(l) => Over(l) = PutAt(Over(m), clst, k)
                  /\ ~IsOk(l) => Moved(m, l) /\ l.hit /\ l.res = "FR_DISK_ERR"
  <2> SUFFICES ASSUME clst \in Cluster
               PROVE  /\ l \in Good /\ Kept(m, l) /\ l.val = m.val
                      /\ l.sec = m.sec \/ l.sec = Over(m)
                      /\ IsOk(l) => Over(l) = PutAt(Over(m), clst, k)
                      /\ ~IsOk(l) => Moved(m, l) /\ l.hit /\ l.res = "FR_DISK_ERR"
    BY <1>2
  <2> HIDE DEF m, k
  <2> QED
    BY <1>1, <1>2, PutFatType, SMTT(60) DEF PutAt
<1>4. Link(c, clst) = IF IsOk(p) THEN Count(q, -1) ELSE r
  BY DEF Link, Then
<1> HIDE DEF m, l
<1>5. /\ p \in Good /\ Kept(c, p) /\ p.val = k
      /\ p.sec \in {c.sec, Over(c), PutAt(Over(c), k, EOC)}
      /\ IsOk(p) => Over(p) = IF clst = 0 THEN PutAt(Over(c), k, EOC)
                              ELSE PutAt(PutAt(Over(c), k, EOC), clst, k)
      /\ ~IsOk(p) => /\ p.hit /\ p.res = "FR_DISK_ERR"
                     /\ Over(p) \in {Over(c), PutAt(Over(c), k, EOC)}
  <2>1. CASE ~IsOk(m) \/ clst = 0
    BY <1>2, <2>1 DEF Moved
  <2>2. CASE IsOk(m) /\ clst # 0
    BY <1>2, <1>3, <2>2, KeptTransitive DEF Moved
  <2> QED
    BY <2>1, <2>2
<1> HIDE DEF p, k
<1>6. CASE IsOk(p)
  <2>1. /\ q \in Ctx /\ Steady(p, q) /\ q.val = k /\ q.last_clust = k /\ q.sec = p.sec
        /\ q.free_clust = p.free_clust /\ q.winsect = p.winsect /\ q.win = p.win
        /\ q.wflag = p.wflag /\ q.res = p.res
    BY <1>1, <1>5, ZenonT(60) DEF Good, Ctx, Steady
  <2> HIDE DEF q
  <2>2. Coherent(q) /\ Over(q) = Over(p) /\ IsOk(q)
    BY <1>5, <1>6, <2>1 DEF Good, Coherent, Over, IsOk
  <2> DEFINE e == Count(q, -1)
  <2>3. /\ e \in Good /\ Steady(q, e) /\ e.last_clust = k
        /\ e.sec = q.sec /\ Over(e) = Over(q) /\ e.val = k
        /\ IsOk(e)
        /\ e.free_clust = IF q.free_clust = Ones \/ q.free_clust + (-1) < 0 THEN Ones
                          ELSE q.free_clust + (-1)
    BY <2>1, <2>2, CountType, -1 \in Int DEF Good
  <2> HIDE DEF e
  <2>4. c.free_clust \in Nat /\ q.free_clust = c.free_clust
    BY <1>5, <2>1 DEF Good, Ctx, Kept
  <2>5. e.free_clust = IF c.free_clust \in {0, Ones} THEN Ones ELSE c.free_clust - 1
    BY <2>3, <2>4
  <2>6. Steady(c, e)
    BY <1>5, <2>1, <2>3, SteadyTransitive DEF Kept
  <2> QED
    BY <1>4, <1>5, <1>6, <2>1, <2>2, <2>3, <2>5, <2>6 DEF Linked, k, e
<1>7. CASE ~IsOk(p)
  <2>1. x = Ones /\ x \in Int
    BY <1>5, <1>7, FatFsAssumption DEF Ones, n_fatent
  <2> HIDE DEF x
  <2>2. /\ r \in Good /\ Moved(p, r) /\ r.val = x /\ (IsOk(r) <=> IsOk(p)) /\ r.hit = p.hit
        /\ r.sec = p.sec
    BY <1>5, <2>1, ValType
  <2> HIDE DEF r
  <2>3. Kept(c, r) /\ Over(r) = Over(p)
    BY <1>5, <2>2, KeptTransitive DEF Moved
  <2> QED
    BY <1>4, <1>5, <1>7, <2>1, <2>2, <2>3 DEF NotLinked, Kept, k
<1> QED
  BY <1>6, <1>7

\* What becomes of a new cluster.
Taken(c, d, clst) ==
  \E k \in Cluster :
    /\ FatV(c)[k] = 0 /\ d.sec \in {c.sec, Over(c), PutAt(Over(c), k, EOC)}
    /\ Linked(c, d, k, clst) \/ NotLinked(c, d, k)

\* What a search or a look at the FAT finds out.
NoCluster(c, d) ==
  /\ Moved(c, d)
  /\ \/ d.val = Ones /\ ~IsOk(d) /\ d.hit
     \/ d.val = 0 /\ Full(FatV(c))

\* The search ends without a cluster, or with one that was free and is linked.
LEMMA StretchType ==
  ASSUME NEW c \in Good, NEW clst \in Cluster \cup {0}, NEW start \in 1 .. n_fatent - 1
  PROVE  LET d == Stretch(c, clst, start)
         IN d \in Good /\ Steady(c, d) /\ (NoCluster(c, d) \/ Taken(c, d, clst))
<1> DEFINE f == FindFree(c, start, Clusters)
           l == Link(f, clst)
<1>1. /\ f \in Good /\ Moved(c, f)
      /\ \/ f.val = Ones /\ ~IsOk(f) /\ f.hit
         \/ f.val = 0 /\ Full(FatV(c))
         \/ f.val \in Cluster /\ FatV(c)[f.val] = 0 /\ IsOk(f)
  BY FindFreeType
<1>2. Stretch(c, clst, start) = IF f.val \in Cluster THEN l ELSE f
  BY DEF Stretch
<1>3. 0 \notin Cluster /\ Ones \notin Cluster
  BY FatFsAssumption DEF Cluster, Ones, n_fatent
<1> HIDE DEF f
<1>4. CASE f.val \in Cluster
  <2>1. /\ l \in Good /\ Steady(f, l)
        /\ l.sec \in {f.sec, Over(f), PutAt(Over(f), f.val, EOC)}
        /\ Linked(f, l, f.val, clst) \/ NotLinked(f, l, f.val)
    BY <1>1, <1>4, LinkType
  <2> HIDE DEF l
  <2>2. Steady(c, l)
    BY <1>1, <2>1, SteadyTransitive DEF Moved, Kept
  <2>3. l.sec \in {c.sec, Over(c), PutAt(Over(c), f.val, EOC)}
    BY <1>1, <2>1 DEF Moved
  <2>4. Linked(f, l, f.val, clst) => Linked(c, l, f.val, clst)
    BY <1>1 DEF Linked, Moved, Kept
  <2>5. NotLinked(f, l, f.val) => NotLinked(c, l, f.val)
    BY <1>1, KeptTransitive DEF NotLinked, Moved
  <2>6. FatV(c)[f.val] = 0
    BY <1>1, <1>3, <1>4
  <2> QED
    BY <1>2, <1>4, <2>1, <2>2, <2>3, <2>4, <2>5, <2>6 DEF Taken
<1>5. CASE f.val \notin Cluster
  BY <1>1, <1>2, <1>5 DEF NoCluster, Moved, Kept
<1> QED
  BY <1>4, <1>5

\* What create_chain makes of a chain that ends with clst, or of none.
Ended(c, clst) == clst \in Cluster /\ FatV(c)[clst] >= n_fatent

\* create_chain: nothing found, a chain that is broken, a chain that went on already, or
\* a cluster that was free.
Created(c, d, clst) ==
  \/ NoCluster(c, d) /\ (d.val = 0 => clst = 0 \/ Ended(c, clst))
  \/ Moved(c, d) /\ d.val = 1 /\ clst # 0 /\ (clst \in Cluster => FatV(c)[clst] = 0)
  \/ Moved(c, d) /\ IsOk(d) /\ d.val \in Cluster /\ clst \in Cluster /\ FatV(c)[clst] = d.val
  \/ Taken(c, d, clst) /\ (clst = 0 \/ Ended(c, clst))

\* create_chain keeps the types, and does one of these.
LEMMA CreateChainType ==
  ASSUME NEW c \in Good, NEW clst \in Nat
  PROVE  LET d == create_chain(c, clst)
         IN d \in Good /\ Steady(c, d) /\ Created(c, d, clst)
<1> DEFINE d == create_chain(c, clst)
           hint == IF c.last_clust = 0 \/ c.last_clust >= n_fatent THEN 1 ELSE c.last_clust
           g == get_fat(c, clst)
           s == Stretch(g, clst, clst)
<1>1. hint \in 1 .. n_fatent - 1
  BY FatFsAssumption DEF n_fatent, Good, Ctx
<1>2. d = IF clst = 0 THEN Stretch(c, 0, hint)
          ELSE IF g.val < 2 THEN [g EXCEPT !.val = 1]
          ELSE IF g.val = Ones \/ g.val < n_fatent THEN g ELSE s
  BY DEF create_chain
<1> HIDE DEF hint
<1>3. CASE clst = 0
  <2>1. d \in Good /\ Steady(c, d) /\ (NoCluster(c, d) \/ Taken(c, d, clst))
    BY <1>1, <1>2, <1>3, StretchType
  <2> HIDE DEF d
  <2>2. NoCluster(c, d) => Created(c, d, clst)
    BY <1>3 DEF Created
  <2>3. Taken(c, d, clst) => Created(c, d, clst)
    BY <1>3 DEF Created
  <2> QED
    BY <2>1, <2>2, <2>3 DEF d
<1>4. CASE clst # 0
  <2>1. /\ g \in Good /\ Moved(c, g) /\ g.val \in Nat
        /\ clst \notin Cluster => g.val = 1 /\ g.res = c.res
        /\ clst \in Cluster /\ IsOk(g) => g.val = FatV(c)[clst] /\ g.val \in FatEntry
        /\ clst \in Cluster /\ ~IsOk(g) => g.val = Ones /\ g.hit /\ g.res = "FR_DISK_ERR"
    BY GetFatType
  <2> HIDE DEF g
  <2>2. n_fatent \in Nat /\ Ones \notin FatEntry /\ Ones > n_fatent /\ Ones > 2
    BY FatFsAssumption DEF n_fatent, Ones, FatEntry, EOC
  <2>3. CASE g.val < 2
    <3>1. clst \in Cluster => FatV(c)[clst] = 0
      BY <2>1, <2>2, <2>3 DEF FatEntry
    <3> DEFINE h == [g EXCEPT !.val = 1]
    <3>2. h \in Good /\ Moved(g, h) /\ h.val = 1
      BY <2>1, ValType
    <3>3. d = h
      BY <1>2, <1>4, <2>3
    <3> HIDE DEF h
    <3>4. Moved(c, h)
      BY <2>1, <3>2, MovedTransitive
    <3> QED
      BY <1>4, <3>1, <3>2, <3>3, <3>4 DEF Created, Moved, Kept
  <2>4. CASE g.val >= 2 /\ (g.val = Ones \/ g.val < n_fatent)
    <3>1. d = g
      BY <1>2, <1>4, <2>1, <2>4
    <3>2. clst \in Cluster
      BY <2>1, <2>4
    <3>3. CASE IsOk(g)
      <4>1. g.val \in Cluster /\ FatV(c)[clst] = g.val
        BY <2>1, <2>2, <2>4, <3>2, <3>3 DEF Cluster
      <4> QED
        BY <2>1, <3>1, <3>2, <3>3, <4>1 DEF Created, Moved, Kept
    <3>4. CASE ~IsOk(g)
      <4>1. g.val # 0
        BY <2>4
      <4> QED
        BY <2>1, <3>1, <3>2, <3>4, <4>1 DEF Created, NoCluster, Moved, Kept
    <3> QED
      BY <3>3, <3>4
  <2>5. CASE g.val >= 2 /\ g.val # Ones /\ g.val >= n_fatent
    <3>1. d = s
      BY <1>2, <1>4, <2>1, <2>2, <2>5
    <3>2. clst \in Cluster /\ IsOk(g) /\ FatV(c)[clst] >= n_fatent
      BY <2>1, <2>5
    <3>3. clst \in 1 .. n_fatent - 1
      BY <3>2 DEF Cluster
    <3>4. s \in Good /\ Steady(g, s) /\ (NoCluster(g, s) \/ Taken(g, s, clst))
      BY <2>1, <3>2, <3>3, StretchType
    <3> HIDE DEF s
    <3>5. FatV(g) = FatV(c)
      BY <2>1, ViewsMoved DEF Moved
    <3>6. NoCluster(g, s) => NoCluster(c, s)
      BY <2>1, <3>5, MovedTransitive DEF NoCluster
    <3>7. ASSUME Taken(g, s, clst) PROVE Taken(c, s, clst)
      <4>1. PICK k \in Cluster :
               /\ FatV(g)[k] = 0 /\ s.sec \in {g.sec, Over(g), PutAt(Over(g), k, EOC)}
               /\ Linked(g, s, k, clst) \/ NotLinked(g, s, k)
        BY <3>7 DEF Taken
      <4>2. FatV(c)[k] = 0 /\ s.sec \in {c.sec, Over(c), PutAt(Over(c), k, EOC)}
        BY <2>1, <3>5, <4>1 DEF Moved
      <4>3. Linked(g, s, k, clst) => Linked(c, s, k, clst)
        BY <2>1 DEF Linked, Moved, Kept
      <4>4. NotLinked(g, s, k) => NotLinked(c, s, k)
        BY <2>1, KeptTransitive DEF NotLinked, Moved
      <4> QED
        BY <4>1, <4>2, <4>3, <4>4 DEF Taken
    <3>8. Steady(c, s)
      BY <2>1, <3>4, SteadyTransitive DEF Moved, Kept
    <3> QED
      BY <3>1, <3>2, <3>4, <3>6, <3>7, <3>8 DEF Created, Ended
  <2>6. g.val < 2 \/ g.val >= 2
    BY <2>1
  <2>7. g.val < n_fatent \/ g.val >= n_fatent
    BY <2>1, <2>2
  <2> QED
    BY <2>3, <2>4, <2>5, <2>6, <2>7
<1> QED
  BY <1>3, <1>4
\* Chains that become longer twice become longer.
LEMMA GrowsTransitive ==
  ASSUME NEW m \in Chart, NEW n, NEW o, NEW i, NEW j, Grows(m, n, i), Grows(n, o, j), j \in {i, 0}
  PROVE  Grows(m, o, i)
<1>1. \A k \in Cluster : m.own[k] # 0 => o.own[k] = m.own[k] /\ o.pos[k] = m.pos[k]
  BY DEF Grows
<1>2. ASSUME NEW l \in Label, m.hd[l] # 0 \/ l # i PROVE o.hd[l] = m.hd[l]
  <2>1. n.hd[l] = m.hd[l]
    BY <1>2 DEF Grows
  <2>2. n.hd[l] # 0 \/ l # j
    BY <1>2, <2>1, FatFsAssumption DEF Label
  <2> QED
    BY <2>1, <2>2 DEF Grows
<1> QED
  BY <1>1, <1>2 DEF Grows

\* Chains may stay as they are.
LEMMA GrowsReflexive ==
  ASSUME NEW m, NEW i
  PROVE  Grows(m, m, i)
BY DEF Grows

\* A chain that becomes longer stays long enough.
LEMMA GrowsHolds ==
  ASSUME NEW m \in Chart, NEW n, NEW i, Grows(m, n, i), NEW j \in Label, NEW size,
         Holds(m, j, size)
  PROVE  Holds(n, j, size)
<1>1. j # 0
  BY FatFsAssumption DEF Label
<1> QED
  BY <1>1 DEF Grows, Holds

\* Tables in which the chains have at most become longer.
Grown(m, i, dir) ==
  {t \in Tables : t.dir = dir /\ \E n \in Chart : Charted(t.fat, n) /\ Grows(m, n, i)}

\* Tables in which chains have become longer than they were later.
LEMMA GrownLater ==
  ASSUME NEW m \in Chart, NEW n \in Chart, NEW i, NEW j, Grows(m, n, i), j \in {i, 0}, NEW dir
  PROVE  Grown(n, j, dir) \subseteq Grown(m, i, dir)
BY GrowsTransitive DEF Grown

\* A cluster that is marked while it is free may be left lost ...
LEMMA MarkedCharted ==
  ASSUME NEW fat \in [Cluster -> FatEntry], NEW m \in Chart, Charted(fat, m),
         NEW k \in Cluster, m.own[k] = 0, NEW v
  PROVE  Charted([fat EXCEPT ![k] = v], m)
<1> DEFINE g == [fat EXCEPT ![k] = v]
<1>1. \A l \in Cluster : m.own[l] # 0 => g[l] = fat[l]
  OBVIOUS
<1> HIDE DEF g
<1>2. \A l \in Cluster : m.own[l] # 0 /\ LastOf(fat, m, l) => LastOf(g, m, l)
  BY <1>1 DEF LastOf
<1>3. \A l \in Cluster : m.own[l] # 0 /\ Onto(fat, m, l) => Onto(g, m, l)
  BY <1>1 DEF Onto
<1> QED
  BY <1>2, <1>3 DEF Charted, g

\* A free cluster belongs to no entry.
LEMMA FreeNotOwned ==
  ASSUME NEW fat \in [Cluster -> FatEntry], NEW m \in Chart, Charted(fat, m),
         NEW k \in Cluster, fat[k] = 0 
  PROVE  m.own[k] = 0
<1>1. EOC # 0 /\ 0 \notin Cluster
  BY FatFsAssumption DEF EOC, Cluster, n_fatent
<1> QED
  BY <1>1 DEF Charted, LastOf, Onto

\* ... or become the last of the chain of l.
Appended(m, l, k) ==
  [m EXCEPT !.own[k] = m.own[l], !.pos[k] = m.pos[l] + 1]

\* The chain of l then goes on in k, and the others stay.
LEMMA AppendedCharted ==
  ASSUME NEW fat \in [Cluster -> FatEntry], NEW m \in Chart, Charted(fat, m),
         NEW k \in Cluster, fat[k] = 0, NEW l \in Cluster, fat[l] >= n_fatent,
         m.own[l] # 0
  PROVE  LET n == Appended(m, l, k)
         IN /\ n \in Chart /\ Charted([[fat EXCEPT ![k] = EOC] EXCEPT ![l] = k], n)
            /\ Grows(m, n, 0) /\ n.own[k] = m.own[l] /\ n.pos[k] = m.pos[l] + 1
<1> DEFINE n == Appended(m, l, k)
           g == [[fat EXCEPT ![k] = EOC] EXCEPT ![l] = k]
<1>1. m.own[k] = 0 /\ k # l
  BY FreeNotOwned
<1>2. /\ m.hd \in [Label -> Cluster \cup {0}] /\ m.own \in [Cluster -> Label \cup {0}]
      /\ m.pos \in [Cluster -> Nat]
  BY DEF Chart
<1>3. n \in Chart
  <2> DEFINE x == m.own[l]
             y == m.pos[l] + 1
  <2>1. x \in Label \cup {0} /\ y \in Nat
    BY <1>2
  <2>2. n = [m EXCEPT !.own[k] = x, !.pos[k] = y]
    BY DEF Appended
  <2> HIDE DEF x, y, n
  <2> QED
    BY <2>1, <2>2 DEF Chart
<1>4. /\ n.hd = m.hd /\ n.own[k] = m.own[l] /\ n.pos[k] = m.pos[l] + 1
      /\ \A j \in Cluster : j # k => n.own[j] = m.own[j] /\ n.pos[j] = m.pos[j]
  BY <1>2 DEF Appended, Chart
<1>5. g[k] = EOC /\ g[l] = k /\ \A j \in Cluster : j # k /\ j # l => g[j] = fat[j]
  BY <1>1
<1> HIDE DEF n, g
<1>6. LastOf(fat, m, l)
  <2>1. fat[l] \notin Cluster
    BY FatFsAssumption DEF Cluster, n_fatent
  <2> QED
    BY <2>1 DEF Charted, Onto
<1>7. \A j \in Label : n.hd[j] # 0 => n.own[n.hd[j]] = j /\ n.pos[n.hd[j]] = 0
  <2> SUFFICES ASSUME NEW j \in Label, m.hd[j] # 0
               PROVE  n.own[m.hd[j]] = j /\ n.pos[m.hd[j]] = 0
    BY <1>4
  <2>1. m.own[m.hd[j]] = j /\ m.pos[m.hd[j]] = 0 /\ m.hd[j] \in Cluster
    BY <1>2 DEF Charted
  <2>2. m.hd[j] # k
    BY <1>1, <2>1, FatFsAssumption DEF Label
  <2> QED
    BY <1>4, <2>1, <2>2
<1>8. ASSUME NEW j \in Cluster, n.own[j] # 0
      PROVE  n.hd[n.own[j]] # 0 /\ (LastOf(g, n, j) \/ Onto(g, n, j))
  <2>1. m.hd[m.own[l]] # 0
    BY DEF Charted
  <2>2. CASE j = k
    <3>1. \A x \in Cluster : n.own[x] = n.own[k] => n.pos[x] <= n.pos[k]
      <4> SUFFICES ASSUME NEW x \in Cluster, n.own[x] = n.own[k], x # k PROVE n.pos[x] <= n.pos[k]
        BY <1>3 DEF Chart
      <4>1. m.pos[x] <= m.pos[l]
        BY <1>4, <1>6 DEF LastOf
      <4> QED
        BY <1>2, <1>4, <4>1
    <3> QED
      BY <1>4, <1>5, <2>1, <2>2, <3>1 DEF LastOf
  <2>3. CASE j = l
    <3>1. g[l] \in Cluster /\ n.own[g[l]] = n.own[l] /\ n.pos[g[l]] = n.pos[l] + 1
      BY <1>1, <1>4, <1>5
    <3> QED
      BY <1>1, <1>4, <2>1, <2>3, <3>1 DEF Onto
  <2>4. CASE j # k /\ j # l
    <3>1. m.own[j] # 0 /\ m.hd[m.own[j]] # 0 /\ (LastOf(fat, m, j) \/ Onto(fat, m, j))
      BY <1>4, <1>8, <2>4 DEF Charted
    <3>2. CASE LastOf(fat, m, j)
      <4>1. m.own[j] # m.own[l]
        <5> SUFFICES ASSUME m.own[j] = m.own[l] PROVE FALSE
          OBVIOUS
        <5>1. m.pos[j] <= m.pos[l] /\ m.pos[l] <= m.pos[j]
          BY <1>6, <3>2 DEF LastOf
        <5>2. m.pos[j] = m.pos[l]
          BY <1>2, <5>1
        <5> QED
          BY <2>4, <3>1, <5>2 DEF Charted
      <4>2. LastOf(g, n, j)
        <5> SUFFICES ASSUME NEW x \in Cluster, n.own[x] = n.own[j] PROVE n.pos[x] <= n.pos[j]
          BY <1>5, <2>4, <3>2 DEF LastOf
        <5>1. x # k
          BY <1>4, <2>4, <4>1
        <5> QED
          BY <1>4, <2>4, <3>2, <5>1 DEF LastOf
      <4> QED
        BY <1>4, <2>4, <3>1, <4>2
    <3>3. CASE Onto(fat, m, j)
      <4>1. fat[j] # k
        BY <1>1, <3>1, <3>3 DEF Onto
      <4>2. Onto(g, n, j)
        BY <1>4, <1>5, <2>4, <3>3, <4>1 DEF Onto
      <4> QED
        BY <1>4, <2>4, <3>1, <4>2
    <3> QED
      BY <3>1, <3>2, <3>3
  <2> QED
    BY <2>2, <2>3, <2>4
<1>9. ASSUME NEW x \in Cluster, NEW y \in Cluster,
             n.own[x] # 0, n.own[x] = n.own[y], n.pos[x] = n.pos[y]
      PROVE  x = y
  <2>1. \A z \in Cluster : z # k /\ n.own[z] = m.own[l] => n.pos[z] # n.pos[k]
    <3> SUFFICES ASSUME NEW z \in Cluster, z # k, n.own[z] = m.own[l] PROVE n.pos[z] # n.pos[k]
      OBVIOUS
    <3>1. m.pos[z] <= m.pos[l] /\ m.pos[z] \in Nat /\ m.pos[l] \in Nat
      BY <1>2, <1>4, <1>6 DEF LastOf
    <3> QED
      BY <1>4, <3>1
  <2>2. CASE x # k /\ y # k
    BY <1>4, <1>9, <2>2 DEF Charted
  <2>3. CASE x = k \/ y = k
    BY <1>4, <1>9, <2>1, <2>3
  <2> QED
    BY <2>2, <2>3
<1>10. Charted(g, n)
  BY <1>7, <1>8, <1>9 DEF Charted
<1>11. Grows(m, n, 0)
  BY <1>1, <1>4 DEF Grows
<1> QED
  BY <1>3, <1>4, <1>10, <1>11 DEF n, g

\* A cluster that belongs to no entry, and ends a chain, becomes the first of an entry that
\* has none.
Headed1(m, i, k) == [m EXCEPT !.hd[i] = k, !.own[k] = i, !.pos[k] = 0]

\* The others stay.
LEMMA HeadedCharted ==
  ASSUME NEW fat \in [Cluster -> FatEntry], NEW m \in Chart, Charted(fat, m),
         NEW k \in Cluster, fat[k] = EOC, m.own[k] = 0, NEW i \in Label, m.hd[i] = 0
  PROVE  LET n == Headed1(m, i, k)
         IN /\ n \in Chart /\ Charted(fat, n) /\ Grows(m, n, i)
            /\ n.hd[i] = k /\ n.own[k] = i /\ n.pos[k] = 0
<1> DEFINE n == Headed1(m, i, k)
<1>2. /\ m.hd \in [Label -> Cluster \cup {0}] /\ m.own \in [Cluster -> Label \cup {0}]
      /\ m.pos \in [Cluster -> Nat] /\ 0 \notin Cluster /\ 0 \notin Label
  BY FatFsAssumption DEF Chart, Cluster, Label
<1>3. n \in Chart
  BY <1>2 DEF Headed1, Chart
<1>4. /\ n.hd[i] = k /\ n.own[k] = i /\ n.pos[k] = 0
      /\ \A j \in Cluster : j # k => n.own[j] = m.own[j] /\ n.pos[j] = m.pos[j]
      /\ \A j \in Label : j # i => n.hd[j] = m.hd[j]
  BY <1>2 DEF Headed1, Chart
<1> HIDE DEF n
<1>5. \A j \in Cluster : m.own[j] # i
  BY <1>2 DEF Charted
<1>6. \A j \in Label : n.hd[j] # 0 => n.own[n.hd[j]] = j /\ n.pos[n.hd[j]] = 0
  <2> SUFFICES ASSUME NEW j \in Label, j # i, m.hd[j] # 0
               PROVE  n.own[m.hd[j]] = j /\ n.pos[m.hd[j]] = 0
    BY <1>4
  <2>1. m.own[m.hd[j]] = j /\ m.pos[m.hd[j]] = 0 /\ m.hd[j] \in Cluster
    BY <1>2 DEF Charted
  <2>2. m.hd[j] # k
    BY <1>2, <2>1
  <2> QED
    BY <1>4, <2>1, <2>2
<1>7. ASSUME NEW j \in Cluster, n.own[j] # 0
      PROVE  n.hd[n.own[j]] # 0 /\ (LastOf(fat, n, j) \/ Onto(fat, n, j))
  <2>1. CASE j = k
    <3>1. \A x \in Cluster : n.own[x] = i => x = k
      BY <1>4, <1>5
    <3>2. n.pos[k] <= n.pos[k] /\ k # 0
      BY <1>2, <1>4
    <3>3. LastOf(fat, n, k)
      BY <1>4, <3>1, <3>2 DEF LastOf
    <3> QED
      BY <1>4, <2>1, <3>2, <3>3
  <2>2. CASE j # k
    <3>1. /\ m.own[j] # 0 /\ m.own[j] # i /\ m.hd[m.own[j]] # 0
          /\ LastOf(fat, m, j) \/ Onto(fat, m, j)
      BY <1>4, <1>5, <1>7, <2>2 DEF Charted
    <3>2. LastOf(fat, m, j) => LastOf(fat, n, j)
      BY <1>4, <2>2, <3>1 DEF LastOf
    <3>3. Onto(fat, m, j) => Onto(fat, n, j)
      BY <1>4, <2>2, <3>1 DEF Onto
    <3>4. n.hd[n.own[j]] # 0
      BY <1>2, <1>4, <2>2, <3>1
    <3> QED
      BY <3>1, <3>2, <3>3, <3>4
  <2> QED
    BY <2>1, <2>2
<1>8. ASSUME NEW x \in Cluster, NEW y \in Cluster,
             n.own[x] # 0, n.own[x] = n.own[y], n.pos[x] = n.pos[y]
      PROVE  x = y
  <2>1. CASE x # k /\ y # k
    BY <1>4, <1>8, <2>1 DEF Charted
  <2>2. CASE x = k \/ y = k
    BY <1>4, <1>5, <1>8, <2>2
  <2> QED
    BY <2>1, <2>2
<1>9. Charted(fat, n)
  BY <1>6, <1>7, <1>8 DEF Charted
<1>10. Grows(m, n, i)
  BY <1>4 DEF Grows
<1> QED
  BY <1>3, <1>4, <1>9, <1>10 DEF n

\* The tables of sectors have their types.
LEMMA TableOf ==
  ASSUME NEW o \in Sectors
  PROVE  Table(o) \in Tables /\ Table(o).fat \in [Cluster -> FatEntry]
         /\ Table(o).dir \in [Label -> Entry]
<1>1. ASSUME NEW k \in Cluster PROVE o[Fat(k)][k] \in FatEntry
  <2>1. Fat(k) \in Sector
    BY SectorFacts
  <2>2. o[Fat(k)] \in Content(Fat(k))
    BY <2>1 DEF Sectors
  <2>3. o[Fat(k)] \in [{l \in Cluster : Fat(l) = Fat(k)} -> FatEntry]
    BY <2>2, Contents
  <2> QED
    BY <2>3
<1>2. ASSUME NEW i \in Label PROVE o[Dir(i)][i] \in Entry
  <2>1. Dir(i) \in Sector
    BY SectorFacts DEF Label
  <2>2. o[Dir(i)] \in Content(Dir(i))
    BY <2>1 DEF Sectors
  <2>3. o[Dir(i)] \in [{j \in 1 .. n_rootdir : Dir(j) = Dir(i)} -> Entry]
    BY <2>2, Contents DEF Label
  <2> QED
    BY <2>3 DEF Label
<1> QED
  BY <1>1, <1>2 DEF Table, Tables

\* What create_chain makes of the chains: they are as they were, or the one of clst has
\* become longer.  A first cluster ends a chain and belongs to no entry.
Chained(c, d, clst) ==
  \A m \in Chart : Charted(FatV(c), m) =>
    \E n \in Chart :
      /\ Charted(FatV(d), n) /\ Grows(m, n, 0) /\ Through(c, d, Grown(m, 0, DirV(c)))
      /\ d.val \in Cluster /\ clst \in Cluster /\ m.own[clst] # 0 =>
           n.own[d.val] = m.own[clst] /\ n.pos[d.val] = m.pos[clst] + 1
      /\ d.val \in Cluster /\ clst = 0 => FatV(d)[d.val] = EOC /\ n.own[d.val] = 0

\* create_chain takes no cluster from a chain, in the window or on the card.
LEMMA CreateChainChained ==
  ASSUME NEW c \in Good, NEW clst \in Nat
  PROVE  Chained(c, create_chain(c, clst), clst)
<1> DEFINE d == create_chain(c, clst)
<1>1. d \in Good /\ Created(c, d, clst)
  BY CreateChainType
<1> HIDE DEF d
<1> SUFFICES ASSUME NEW m \in Chart, Charted(FatV(c), m)
             PROVE  \E n \in Chart :
                      /\ Charted(FatV(d), n) /\ Grows(m, n, 0)
                      /\ Through(c, d, Grown(m, 0, DirV(c)))
                      /\ d.val \in Cluster /\ clst \in Cluster /\ m.own[clst] # 0 =>
                           n.own[d.val] = m.own[clst] /\ n.pos[d.val] = m.pos[clst] + 1
                      /\ d.val \in Cluster /\ clst = 0 =>
                           FatV(d)[d.val] = EOC /\ n.own[d.val] = 0
  BY DEF Chained, d
<1>2. /\ TableV(c).fat = FatV(c) /\ TableV(c).dir = DirV(c) /\ TableV(c) \in Tables
      /\ TableV(d).fat = FatV(d) /\ TableV(d).dir = DirV(d) /\ TableV(d) \in Tables
      /\ FatV(c) \in [Cluster -> FatEntry] /\ Over(c) \in Sectors
  BY <1>1, TableType, OverType
<1>3. Grows(m, m, 0)
  BY GrowsReflexive
<1>4. TableV(c) \in Grown(m, 0, DirV(c))
  BY <1>2, <1>3 DEF Grown
<1>5. 0 \notin Cluster /\ 1 \notin Cluster /\ Ones \notin Cluster /\ EOC \notin Cluster
      /\ EOC \in FatEntry /\ Cluster \subseteq FatEntry
  BY FatFsAssumption DEF Cluster, Ones, n_fatent, EOC, FatEntry
<1>6. CASE Moved(c, d) /\ d.val \notin Cluster
  <2>1. FatV(d) = FatV(c) /\ Through(c, d, Grown(m, 0, DirV(c)))
    BY <1>4, <1>6, MovedQuiet, QuietThrough, ViewsMoved DEF Moved
  <2> QED
    BY <1>3, <1>6, <2>1
<1>7. CASE Moved(c, d) /\ d.val \in Cluster /\ clst \in Cluster /\ FatV(c)[clst] = d.val
  <2>1. FatV(d) = FatV(c) /\ Through(c, d, Grown(m, 0, DirV(c)))
    BY <1>4, <1>7, MovedQuiet, QuietThrough, ViewsMoved DEF Moved
  <2>2. m.own[clst] # 0 => Onto(FatV(c), m, clst)
    BY <1>5, <1>7 DEF Charted, LastOf
  <2>3. m.own[clst] # 0 => m.own[d.val] = m.own[clst] /\ m.pos[d.val] = m.pos[clst] + 1
    BY <1>7, <2>2 DEF Onto
  <2> QED
    BY <1>3, <1>5, <1>7, <2>1, <2>3
<1>8. CASE Taken(c, d, clst) /\ (clst = 0 \/ Ended(c, clst))
  <2>1. PICK k \in Cluster :
          /\ FatV(c)[k] = 0 /\ d.sec \in {c.sec, Over(c), PutAt(Over(c), k, EOC)}
          /\ Linked(c, d, k, clst) \/ NotLinked(c, d, k)
    BY <1>8 DEF Taken
  <2> DEFINE o == PutAt(Over(c), k, EOC)
             g == [FatV(c) EXCEPT ![k] = EOC]
  <2>2. o \in Sectors /\ Table(o).fat = g /\ Table(o).dir = DirV(c)
    <3>1. /\ o \in Sectors /\ Table(o).fat = [Table(Over(c)).fat EXCEPT ![k] = EOC]
          /\ Table(o).dir = Table(Over(c)).dir
      BY <1>2, <1>5, PutAtTable
    <3> HIDE DEF o
    <3> QED
      BY <1>2, <3>1 DEF TableV
  <2>3. m.own[k] = 0
    BY <1>2, <2>1, FreeNotOwned
  <2>4. Charted(g, m)
    BY <1>2, <2>3, MarkedCharted
  <2>5. g \in [Cluster -> FatEntry] /\ g[k] = EOC
    BY <1>2, <1>5
  <2> HIDE DEF o, g
  <2>6. Table(o) \in Grown(m, 0, DirV(c))
    BY <1>3, <2>2, <2>4, TableOf DEF Grown
  <2>7. TableC(d) \in {TableC(c)} \cup Grown(m, 0, DirV(c))
    <3>1. d.sec = c.sec \/ d.sec = Over(c) \/ d.sec = o
      BY <2>1 DEF o
    <3> QED
      BY <1>4, <2>6, <3>1 DEF TableC, TableV
  <2>8. CASE Over(d) = Over(c) /\ d.val = Ones
    <3>1. FatV(d) = FatV(c) /\ TableV(d) = TableV(c)
      BY <2>8 DEF FatV, TableV
    <3>2. Through(c, d, Grown(m, 0, DirV(c)))
      BY <1>4, <2>7, <3>1 DEF Through
    <3> QED
      BY <1>3, <1>5, <2>8, <3>1, <3>2
  <2>9. CASE Over(d) = o /\ (d.val = Ones \/ (clst = 0 /\ d.val = k))
    <3>1. FatV(d) = g /\ TableV(d) = Table(o)
      BY <1>2, <2>2, <2>9 DEF TableV
    <3>2. Through(c, d, Grown(m, 0, DirV(c)))
      BY <2>6, <2>7, <3>1 DEF Through
    <3> QED
      BY <1>3, <1>5, <2>3, <2>4, <2>5, <2>9, <3>1, <3>2
  <2>10. CASE clst # 0 /\ Over(d) = PutAt(o, clst, k) /\ d.val = k
    <3>1. clst \in Cluster /\ FatV(c)[clst] >= n_fatent
      BY <1>8, <2>10 DEF Ended
    <3> DEFINE f == [g EXCEPT ![clst] = k]
    <3>2. FatV(d) = f /\ DirV(d) = DirV(c)
      <4> DEFINE q == PutAt(o, clst, k)
      <4>1. Table(q).fat = [Table(o).fat EXCEPT ![clst] = k] /\ Table(q).dir = Table(o).dir
        BY <1>5, <2>2, <3>1, PutAtTable
      <4> HIDE DEF q
      <4>2. Table(Over(d)) = Table(q)
        BY <2>10 DEF q
      <4> QED
        BY <1>2, <2>2, <4>1, <4>2 DEF TableV
    <3>3. clst # k
      BY <2>1, <3>1, FatFsAssumption DEF n_fatent
    <3>4. CASE m.own[clst] = 0
      <4>1. Charted(f, m)
        BY <2>4, <2>5, <3>1, <3>4, MarkedCharted
      <4>2. TableV(d) \in Grown(m, 0, DirV(c))
        BY <1>2, <1>3, <3>2, <4>1 DEF Grown
      <4>3. Through(c, d, Grown(m, 0, DirV(c)))
        BY <2>7, <4>2 DEF Through
      <4> QED
        BY <1>3, <1>5, <2>10, <3>2, <3>4, <4>1, <4>3
    <3>5. CASE m.own[clst] # 0
      <4> DEFINE n == Appended(m, clst, k)
      <4>1. /\ n \in Chart /\ Charted(f, n) /\ Grows(m, n, 0)
            /\ n.own[k] = m.own[clst] /\ n.pos[k] = m.pos[clst] + 1
        BY <1>2, <2>1, <3>1, <3>5, AppendedCharted DEF g
      <4> HIDE DEF n, f
      <4>2. TableV(d) \in Grown(m, 0, DirV(c))
        BY <1>2, <3>2, <4>1 DEF Grown
      <4>3. Through(c, d, Grown(m, 0, DirV(c)))
        BY <2>7, <4>2 DEF Through
      <4> QED
        BY <2>10, <3>2, <4>1, <4>3
    <3> QED
      BY <3>4, <3>5
  <2>11. \/ Over(d) = Over(c) /\ d.val = Ones
         \/ Over(d) = o /\ d.val = Ones
         \/ clst = 0 /\ Over(d) = o /\ d.val = k
         \/ clst # 0 /\ Over(d) = PutAt(o, clst, k) /\ d.val = k
    BY <2>1 DEF Linked, NotLinked, o
  <2> QED
    BY <2>8, <2>9, <2>10, <2>11
<1>9. \/ Moved(c, d) /\ d.val \notin Cluster
      \/ Moved(c, d) /\ d.val \in Cluster /\ clst \in Cluster /\ FatV(c)[clst] = d.val
      \/ Taken(c, d, clst) /\ (clst = 0 \/ Ended(c, clst))
  BY <1>1, <1>5 DEF Created, NoCluster
<1> QED
  BY <1>6, <1>7, <1>8, <1>9

---------------------------------------------------------------------------
(* Clusters are freed.                                                     *)

\* Clusters that the FAT does not lead out of.
Inner(fat, K) == \A k \in K : fat[k] \in K \cup {0} \/ fat[k] >= n_fatent

\* The tables with other entries for clusters of K at most.
Freed(K, t) == {u \in Tables : u.dir = t.dir /\ \A k \in Cluster \ K : u.fat[k] = t.fat[k]}

\* The cluster at hand is one of K, or there is none.
AmongOr(c, K) == c.val \in K \/ c.val >= n_fatent

\* What follows the FAT from a cluster of K frees clusters of K, and fails only at the disk.
Frees(c, d) ==
  \A K \in SUBSET Cluster : Inner(FatV(c), K) /\ (IsOk(c) => AmongOr(c, K)) =>
    /\ Inner(FatV(d), K) /\ (IsOk(d) => AmongOr(d, K))
    /\ Through(c, d, Freed(K, TableV(c)))
    /\ ~IsOk(d) => ~IsOk(c) \/ d.hit

\* Freed, twice.
LEMMA FreedLater ==
  ASSUME NEW K, NEW t, NEW u \in Freed(K, t)
  PROVE  Freed(K, u) \subseteq Freed(K, t)
BY DEF Freed

\* Nothing is freed.
LEMMA FreedNone ==
  ASSUME NEW K, NEW t \in Tables
  PROVE  t \in Freed(K, t)
BY DEF Freed

\* Frees, for two functions in a row.
LEMMA FreesTransitive ==
  ASSUME NEW c \in Good, NEW d \in Good, NEW e \in Good, Frees(c, d), Frees(d, e),
         Steady(d, e)
  PROVE  Frees(c, e)
<1> SUFFICES ASSUME NEW K \in SUBSET Cluster, Inner(FatV(c), K), IsOk(c) => AmongOr(c, K)
             PROVE  /\ Inner(FatV(e), K) /\ (IsOk(e) => AmongOr(e, K))
                    /\ Through(c, e, Freed(K, TableV(c)))
                    /\ ~IsOk(e) => ~IsOk(c) \/ e.hit
  BY DEF Frees
<1>1. /\ Inner(FatV(d), K) /\ (IsOk(d) => AmongOr(d, K))
      /\ Through(c, d, Freed(K, TableV(c)))
      /\ ~IsOk(d) => ~IsOk(c) \/ d.hit
  BY DEF Frees
<1>2. /\ Inner(FatV(e), K) /\ (IsOk(e) => AmongOr(e, K))
      /\ Through(d, e, Freed(K, TableV(d)))
      /\ ~IsOk(e) => ~IsOk(d) \/ e.hit
  BY <1>1 DEF Frees
<1>3. Freed(K, TableV(d)) \subseteq Freed(K, TableV(c))
  BY <1>1, FreedLater DEF Through
<1>4. Through(c, e, Freed(K, TableV(c)))
  BY <1>1, <1>2, <1>3, ThroughLarger, ThroughTransitive
<1> QED
  BY <1>1, <1>2, <1>4 DEF Steady

\* What leaves the tables frees nothing.
LEMMA QuietFrees ==
  ASSUME NEW c \in Good, NEW d \in Good, Quiet(c, d),
         IsOk(d) => IsOk(c) /\ (d.val = c.val \/ d.val >= n_fatent),
         ~IsOk(d) => ~IsOk(c) \/ d.hit
  PROVE  Frees(c, d)
<1>1. FatV(d) = FatV(c)
  BY TableType DEF Quiet
<1>2. \A K : Through(c, d, Freed(K, TableV(c)))
  BY TableType, FreedNone, QuietThrough
<1> QED
  BY <1>1, <1>2 DEF Frees, AmongOr

\* remove_chain is underway.
Within(c) ==
  {d \in Good : Steady(c, d) /\ d.last_clust = c.last_clust /\ d.val \in Nat /\ Frees(c, d)}

\* One cluster of the chain is freed.
LEMMA FreeOneType ==
  ASSUME NEW c \in Good, c.val \in Nat
  PROVE  FreeOne(c) \in Within(c)
<1> DEFINE g == get_fat(c, c.val)
           p == put_fat(g, c.val, 0)
           z == [g EXCEPT !.val = EOC]
<1>1. 0 \in FatEntry /\ 1 \in Int /\ EOC \in Nat /\ Ones \notin FatEntry
  BY FatFsAssumption DEF FatEntry, EOC, Ones, n_fatent
<1>10. /\ EOC >= n_fatent /\ 1 \notin FatEntry /\ 1 # Ones /\ 0 # 1 /\ 0 # Ones
       /\ \A x \in FatEntry : x \in Cluster \cup {0} \/ x >= n_fatent
  BY FatFsAssumption DEF FatEntry, EOC, Ones, n_fatent, Cluster
<1>2. CASE ~IsOk(c) \/ c.val >= n_fatent
  <2>1. FreeOne(c) = c
    BY <1>2 DEF FreeOne
  <2>2. Frees(c, c)
    BY QuietFrees DEF Quiet
  <2> QED
    BY <2>1, <2>2 DEF Within, Steady
<1>3. CASE ~(~IsOk(c) \/ c.val >= n_fatent)
  <2>1. /\ g \in Good /\ Moved(c, g) /\ g.val \in Nat
        /\ c.val \notin Cluster => g.val = 1
        /\ c.val \in Cluster /\ ~IsOk(g) => g.val = Ones /\ g.hit
        /\ c.val \in Cluster /\ IsOk(g) => g.val = FatV(c)[c.val] /\ g.val \in FatEntry
    BY GetFatType
  <2>2. FreeOne(c) = CASE g.val = 0 -> Ok(z)
                       [] g.val = 1 -> Failed(g, "FR_INT_ERR")
                       [] g.val = Ones -> Failed(g, "FR_DISK_ERR")
                       [] OTHER -> IF IsOk(p) THEN Count(p, 1) ELSE p
    BY <1>3 DEF FreeOne, Then
  <2> HIDE DEF g
  <2>10. Quiet(c, g)
    BY <2>1, MovedQuiet
  <2>3. CASE g.val = 0
    <3>1. z \in Good /\ Moved(g, z) /\ z.val = EOC
      BY <1>1, <2>1, ValType
    <3> HIDE DEF z
    <3>2. /\ Ok(z) \in Good /\ Kept(z, Ok(z)) /\ Ok(z).val = EOC /\ IsOk(Ok(z))
          /\ Ok(z).sec = z.sec /\ Over(Ok(z)) = Over(z)
      BY <3>1, OkType DEF Good
    <3> DEFINE o == Ok(z)
    <3> HIDE DEF o
    <3>3. Quiet(c, o)
      BY <2>10, <3>1, <3>2, MovedQuiet, BesideQuiet, QuietTransitive DEF o
    <3>4. Frees(c, o)
      BY <1>3, <1>10, <3>2, <3>3, QuietFrees DEF o
    <3>5. Steady(c, o) /\ o.last_clust = c.last_clust
      BY <2>1, <3>1, <3>2, KeptTransitive DEF Moved, Kept, o
    <3> QED
      BY <1>1, <2>2, <2>3, <3>2, <3>4, <3>5 DEF Within, o
  <2>4. ASSUME NEW r \in Res, r # "FR_OK", g.val = 1 \/ g.val = Ones
        PROVE  Failed(g, r) \in Within(c)
    <3> DEFINE f == Failed(g, r)
    <3>1. /\ f \in Good /\ Kept(g, f) /\ f.val = g.val /\ f.res = r /\ f.hit = g.hit
          /\ f.sec = g.sec /\ Over(f) = Over(g)
      BY <2>1, FailedType DEF Good
    <3> HIDE DEF f
    <3>2. Quiet(c, f)
      BY <2>10, <3>1, BesideQuiet, QuietTransitive
    <3>3. Frees(c, f)
      <4>1. ~IsOk(f)
        BY <2>4, <3>1 DEF IsOk
      <4>2. CASE c.val \notin Cluster
        <5>1. \A K \in SUBSET Cluster : ~AmongOr(c, K)
          BY <1>3, <4>2 DEF AmongOr
        <5> QED
          BY <1>3, <5>1 DEF Frees
      <4>3. CASE c.val \in Cluster
        <5>1. f.hit
          BY <1>1, <1>10, <2>1, <2>4, <3>1, <4>3
        <5> QED
          BY <2>1, <3>1, <3>2, <4>1, <5>1, QuietFrees
      <4> QED
        BY <4>2, <4>3
    <3>4. Steady(c, f) /\ f.last_clust = c.last_clust
      BY <2>1, <3>1, KeptTransitive DEF Moved, Kept
    <3> QED
      BY <2>1, <3>1, <3>3, <3>4 DEF Within, f
  <2>5. "FR_INT_ERR" \in Res /\ "FR_DISK_ERR" \in Res
    BY DEF Res
  <2>6. CASE g.val # 0 /\ g.val # 1 /\ g.val # Ones
    <3>1. c.val \in Cluster
      BY <2>1, <2>6
    <3>2. /\ p \in Good /\ Kept(g, p) /\ p.val = g.val
          /\ p.sec = g.sec \/ p.sec = Over(g)
          /\ IsOk(p) => Over(p) = PutAt(Over(g), c.val, 0)
          /\ ~IsOk(p) => Moved(g, p) /\ p.hit
      BY <1>1, <2>1, <3>1, PutFatType DEF PutAt
    <3> HIDE DEF p
    <3>3. Kept(c, p) /\ p.val \in Nat
      BY <2>1, <3>2, KeptTransitive DEF Moved
    <3> DEFINE e == Count(p, 1)
    <3>4. /\ e \in Good /\ Steady(p, e) /\ e.last_clust = p.last_clust /\ e.val = p.val
          /\ e.sec = p.sec /\ Over(e) = Over(p) /\ (IsOk(e) <=> IsOk(p))
      BY <1>1, <3>2, CountType
    <3> HIDE DEF e
    <3>5. Steady(c, e) /\ e.last_clust = c.last_clust
      BY <3>3, <3>4, SteadyTransitive DEF Kept
    <3>6. FreeOne(c) = IF IsOk(p) THEN e ELSE p
      BY <2>2, <2>6 DEF e
    <3>7. IsOk(g) /\ g.val = FatV(c)[c.val] /\ g.val \in FatEntry
      BY <2>1, <2>6, <3>1
    <3>8. CASE IsOk(p)
      <4>1. Frees(c, e)
        <5> SUFFICES ASSUME NEW K \in SUBSET Cluster, Inner(FatV(c), K), AmongOr(c, K)
                     PROVE  /\ Inner(FatV(e), K) /\ AmongOr(e, K)
                            /\ Through(c, e, Freed(K, TableV(c)))
          BY <1>3, <3>4, <3>8 DEF Frees
        <5>1. c.val \in K
          BY <1>3 DEF AmongOr
        <5>2. g.val \in K \/ g.val >= n_fatent
          BY <2>6, <3>7, <5>1 DEF Inner
        <5>3. TableV(e) = Table(PutAt(Over(g), c.val, 0)) /\ Over(g) \in Sectors
          BY <2>1, <3>2, <3>4, <3>8, OverType DEF TableV
        <5>4. /\ TableV(e) \in Tables /\ TableV(e).fat = [TableV(g).fat EXCEPT ![c.val] = 0]
              /\ TableV(e).dir = TableV(g).dir
          BY <1>1, <3>1, <5>3, PutAtTable, TableOf DEF TableV
        <5>5. TableV(g) = TableV(c) /\ TableV(c) \in Tables /\ TableV(c).fat = FatV(c)
          BY <2>10, TableType DEF Quiet
        <5>6. FatV(c) \in [Cluster -> FatEntry] /\ TableV(e).fat = FatV(e)
          BY <3>4, OverType, TableType
        <5>7. Inner(FatV(e), K)
          BY <5>4, <5>5, <5>6 DEF Inner
        <5>8. TableV(e) \in Freed(K, TableV(c)) /\ TableV(c) \in Freed(K, TableV(c))
          BY <5>1, <5>4, <5>5, <5>6 DEF Freed
        <5>9. TableC(e) \in {TableC(c), TableV(c)}
          BY <2>10, <3>2, <3>4, <5>5 DEF Quiet, TableC, TableV
        <5> QED
          BY <3>2, <3>4, <5>2, <5>7, <5>8, <5>9 DEF Through, AmongOr
      <4> QED
        BY <3>3, <3>4, <3>5, <3>6, <3>8, <4>1 DEF Within
    <3>9. CASE ~IsOk(p)
      <4>1. Quiet(c, p)
        BY <2>10, <3>2, <3>9, MovedQuiet, QuietTransitive
      <4>2. Frees(c, p)
        BY <3>2, <3>9, <4>1, QuietFrees
      <4> QED
        BY <3>2, <3>3, <3>6, <3>9, <4>2 DEF Within, Kept
    <3> QED
      BY <3>8, <3>9
  <2>7. 1 # 0 /\ Ones # 0 /\ Ones # 1
    BY FatFsAssumption DEF Ones, n_fatent
  <2>8. CASE g.val = 1
    BY <2>2, <2>4, <2>5, <2>7, <2>8
  <2>9. CASE g.val = Ones
    BY <2>2, <2>4, <2>5, <2>7, <2>9
  <2> QED
    BY <2>3, <2>6, <2>8, <2>9
<1> QED
  BY <1>2, <1>3

\* The clusters of K that begin with clst are freed; what fails is a disk access.
GivesUp(c, d, clst) ==
  \A K \in SUBSET Cluster : Inner(FatV(c), K) /\ IsOk(c) /\ clst \in K =>
    /\ Through(c, d, Freed(K, TableV(c)))
    /\ ~IsOk(d) => d.hit

\* remove_chain keeps the types and the cluster where the next search begins.
LEMMA RemoveChainType ==
  ASSUME NEW c \in Good, NEW clst \in Nat
  PROVE  LET d == remove_chain(c, clst)
         IN /\ d \in Good /\ Steady(c, d) /\ d.last_clust = c.last_clust
            /\ GivesUp(c, d, clst)
<1> DEFINE N == Clusters + 1
           b == [c EXCEPT !.val = clst]
           W == Within(b)
           S == [n \in 0 .. N |-> W]
           turn == [x \in (1 .. N) \X W |-> FreeOne(x[2])]
           Loop(g) == g = [n \in 0 .. N |-> IF n = 0 THEN b ELSE FreeOne(g[n - 1])]
           after == CHOOSE g : Loop(g)
<1>1. N \in Nat
  BY FatFsAssumption
<1>2. CASE clst \notin Cluster
  <2>1. remove_chain(c, clst) = Failed(c, "FR_INT_ERR") /\ "FR_INT_ERR" \in Res
    BY <1>2 DEF remove_chain, Res
  <2> QED
    BY <1>2, <2>1, FailedType DEF Good, Kept, GivesUp
<1>3. CASE clst \in Cluster
  <2>1. remove_chain(c, clst) = after[N]
    BY <1>3 DEF remove_chain, Repeat
  <2>0. b \in Good /\ Moved(c, b) /\ b.val = clst /\ (IsOk(b) <=> IsOk(c))
    BY ValType
  <2> HIDE DEF b
  <2>2. b \in W
    <3>1. Frees(b, b)
      BY <2>0, QuietFrees DEF Quiet
    <3> QED
      BY <2>0, <3>1 DEF Within, Steady
  <2>3. \A n \in 0 .. N : n < N => n + 1 \in 1 .. N /\ n + 1 \in 0 .. N /\ (n + 1) - 1 = n
    BY <1>1
  <2>4. \A d \in W : FreeOne(d) \in W
    <3> SUFFICES ASSUME NEW d \in W PROVE FreeOne(d) \in W
      OBVIOUS
    <3>1. FreeOne(d) \in Within(d)
      BY FreeOneType DEF Within
    <3> QED
      BY <2>0, <3>1, SteadyTransitive, FreesTransitive DEF Within
  <2> HIDE DEF W
  <2>5. Turns(N, S, turn)
    <3> HIDE DEF N
    <3> QED
      BY <2>3, <2>4 DEF Turns
  <2>6. b \in S[0] /\ \A n \in 0 .. N : S[n] = W
    BY <1>1, <2>2
  <2> HIDE DEF S
  <2>7. \E g : Loop(g)
    <3>1. PICK g : /\ g = [n \in 0 .. N |-> IF n = 0 THEN b ELSE turn[<<n, g[n - 1]>>]]
                   /\ \A n \in 0 .. N : g[n] \in S[n]
      <4> HIDE DEF turn, N
      <4>1. Runs(N, S, b, turn)
        BY <1>1, <2>5, <2>6, LoopExists
      <4> QED
        BY <4>1 DEF Runs
    <3>2. ASSUME NEW n \in 0 .. N, n # 0
          PROVE  turn[<<n, g[n - 1]>>] = FreeOne(g[n - 1])
      <4>1. n - 1 \in 0 .. N /\ n \in 1 .. N
        BY <1>1, <3>2
      <4> HIDE DEF N
      <4> QED
        BY <2>6, <3>1, <4>1
    <3> HIDE DEF turn, N
    <3> QED
      BY <3>1, <3>2
  <2>8. Loop(after)
    BY <2>7
  <2> HIDE DEF after
  <2> DEFINE T == {n \in 0 .. N : after[n] \in W}
  <2>9. 0 .. N \subseteq T
    <3>1. 0 \in 0 .. N /\ after[0] = b
      BY <1>1, <2>8
    <3> HIDE DEF N
    <3>2. \A n \in 0 .. N : n < N => after[n + 1] = FreeOne(after[n])
      BY <2>3, <2>8
    <3> HIDE DEF Loop
    <3>3. 0 \in T /\ \A n \in 0 .. N : n \in T /\ n < N => n + 1 \in T
      BY <2>2, <2>3, <2>4, <3>1, <3>2
    <3> HIDE DEF T
    <3> QED
      BY <1>1, <3>3, UptoInduction
  <2>10. after[N] \in W
    BY <1>1, <2>9
  <2> DEFINE d == after[N]
  <2>11. /\ d \in Good /\ Steady(b, d) /\ d.last_clust = b.last_clust /\ Frees(b, d)
    BY <2>10 DEF W, Within
  <2> HIDE DEF d
  <2>12. Steady(c, d) /\ d.last_clust = c.last_clust
    BY <2>0, <2>11, SteadyTransitive DEF Moved, Kept
  <2>13. GivesUp(c, d, clst)
    <3> SUFFICES ASSUME NEW K \in SUBSET Cluster, Inner(FatV(c), K), IsOk(c), clst \in K
                 PROVE  Through(c, d, Freed(K, TableV(c))) /\ (~IsOk(d) => d.hit)
      BY DEF GivesUp
    <3>1. Quiet(c, b) /\ FatV(b) = FatV(c) /\ TableV(b) = TableV(c)
      BY <2>0, MovedQuiet, ViewsMoved DEF Moved, Quiet
    <3>2. Through(b, d, Freed(K, TableV(b))) /\ (~IsOk(d) => d.hit)
      BY <2>0, <2>11, <3>1 DEF Frees, AmongOr
    <3>3. TableV(c) \in Freed(K, TableV(c))
      BY TableType, FreedNone
    <3> QED
      BY <3>1, <3>2, <3>3, QuietThroughNext
  <2> QED
    BY <2>1, <2>11, <2>12, <2>13 DEF d
<1> QED
  BY <1>2, <1>3
---------------------------------------------------------------------------
(* Chains are cut.                                                         *)

\* The clusters of entry i from place q of its chain on.
TailOf(m, i, q) == {k \in Cluster : m.own[k] = i /\ m.pos[k] >= q}

\* They belong to no entry.
CutAt(m, i, q) ==
  [m EXCEPT !.own = [k \in Cluster |-> IF k \in TailOf(m, i, q) THEN 0 ELSE m.own[k]],
            !.hd[i] = IF q = 0 THEN 0 ELSE @]

\* The FAT does not lead out of them.
LEMMA TailInner ==
  ASSUME NEW m \in Chart, NEW fat \in [Cluster -> FatEntry], Charted(fat, m), NEW i \in Label,
         NEW q \in Nat
  PROVE  Inner(fat, TailOf(m, i, q))
<1> SUFFICES ASSUME NEW k \in Cluster, m.own[k] = i, m.pos[k] >= q
             PROVE  fat[k] \in TailOf(m, i, q) \/ fat[k] >= n_fatent
  BY DEF Inner, TailOf
<1>1. i # 0 /\ m.pos \in [Cluster -> Nat]
  BY DEF Label, Chart
<1>2. LastOf(fat, m, k) \/ Onto(fat, m, k)
  BY <1>1 DEF Charted
<1>3. EOC >= n_fatent
  BY FatFsAssumption DEF EOC, n_fatent
<1>4. CASE LastOf(fat, m, k)
  BY <1>3, <1>4 DEF LastOf
<1>5. CASE Onto(fat, m, k)
  BY <1>1, <1>5 DEF Onto, TailOf
<1> QED
  BY <1>2, <1>4, <1>5

\* The chain of entry i ends before place q; outside that tail the FAT is as it was.
EndsAt(fat, gat, m, i, q) ==
  \A k \in Cluster \ TailOf(m, i, q) :
    gat[k] = IF m.own[k] = i /\ m.pos[k] + 1 = q THEN EOC ELSE fat[k]

\* What the cut leaves of the file's chain.
LEMMA CutFacts ==
  ASSUME NEW m \in Chart, NEW i \in Label, NEW q \in Nat
  PROVE  /\ CutAt(m, i, q) \in Chart /\ Spares(m, CutAt(m, i, q), {i})
         /\ q = 0 => CutAt(m, i, q).hd[i] = 0
         /\ q # 0 => CutAt(m, i, q).hd[i] = m.hd[i]
         /\ \A k \in Cluster : m.own[k] = i /\ m.pos[k] < q =>
              CutAt(m, i, q).own[k] = i /\ CutAt(m, i, q).pos[k] = m.pos[k]
<1> DEFINE n == CutAt(m, i, q)
<1>1. /\ m.hd \in [Label -> Cluster \cup {0}] /\ m.own \in [Cluster -> Label \cup {0}]
      /\ m.pos \in [Cluster -> Nat] /\ i # 0 /\ 0 \notin Cluster
      /\ \A k \in Cluster : m.pos[k] \in Nat
  BY FatFsAssumption DEF Chart, Label, Cluster, n_fatent
<1>2. /\ n \in Chart /\ n.pos = m.pos
      /\ \A k \in Cluster : n.own[k] = IF m.own[k] = i /\ m.pos[k] >= q THEN 0 ELSE m.own[k]
      /\ \A j \in Label : n.hd[j] = IF j = i /\ q = 0 THEN 0 ELSE m.hd[j]
  <2>1. [k \in Cluster |-> IF k \in TailOf(m, i, q) THEN 0 ELSE m.own[k]]
          \in [Cluster -> Label \cup {0}]
    BY <1>1
  <2> QED
    BY <1>1, <2>1 DEF Chart, CutAt, TailOf
<1> HIDE DEF n
<1>3. Spares(m, n, {i})
  BY <1>2 DEF Spares
<1> QED
  BY <1>1, <1>2, <1>3 DEF n

\* A cut spares the other chains, and at place 0 leaves none.
LEMMA CutKeeps ==
  ASSUME NEW m \in Chart, NEW i \in Label, NEW q \in Nat
  PROVE  /\ CutAt(m, i, q) \in Chart /\ Spares(m, CutAt(m, i, q), {i})
         /\ q = 0 => CutAt(m, i, q).hd[i] = 0
BY CutFacts

\* A cut behind the first cluster leaves the head of the chain and what is before the cut.
LEMMA CutBehind ==
  ASSUME NEW m \in Chart, NEW i \in Label, NEW q \in Nat, q # 0,
         NEW k \in Cluster, m.own[k] = i, m.pos[k] < q
  PROVE  /\ CutAt(m, i, q).hd[i] = m.hd[i] /\ CutAt(m, i, q).own[k] = i
         /\ CutAt(m, i, q).pos[k] = m.pos[k]
BY CutFacts

\* Where the chain ends before place q, and elsewhere the FAT is as it was, the other chains
\* are too.
LEMMA CutCharted ==
  ASSUME NEW m \in Chart, NEW fat, Charted(fat, m), NEW i \in Label, NEW q \in Nat,
         NEW gat, EndsAt(fat, gat, m, i, q)
  PROVE  Charted(gat, CutAt(m, i, q))
<1> DEFINE n == CutAt(m, i, q)
<1>1. /\ m.hd \in [Label -> Cluster \cup {0}] /\ m.own \in [Cluster -> Label \cup {0}]
      /\ m.pos \in [Cluster -> Nat] /\ i # 0 /\ 0 \notin Cluster
      /\ \A k \in Cluster : m.pos[k] \in Nat
  BY FatFsAssumption DEF Chart, Label, Cluster, n_fatent
<1>2. /\ n \in Chart /\ n.pos = m.pos
      /\ \A k \in Cluster : n.own[k] = IF m.own[k] = i /\ m.pos[k] >= q THEN 0 ELSE m.own[k]
      /\ \A j \in Label : n.hd[j] = IF j = i /\ q = 0 THEN 0 ELSE m.hd[j]
  <2>1. n \in Chart
    BY CutKeeps
  <2> QED
    BY <1>1, <2>1 DEF Chart, CutAt, TailOf
<1> HIDE DEF n
<1>3. ASSUME NEW j \in Label, n.hd[j] # 0 PROVE n.own[n.hd[j]] = j /\ n.pos[n.hd[j]] = 0
  <2>1. m.hd[j] # 0 /\ n.hd[j] = m.hd[j] /\ (j = i => q > 0)
    BY <1>2, <1>3
  <2>2. m.hd[j] \in Cluster /\ m.own[m.hd[j]] = j /\ m.pos[m.hd[j]] = 0
    BY <1>1, <2>1 DEF Charted
  <2> QED
    BY <1>2, <2>1, <2>2
<1>4. ASSUME NEW k \in Cluster, n.own[k] # 0
      PROVE  n.hd[n.own[k]] # 0 /\ (LastOf(gat, n, k) \/ Onto(gat, n, k))
  <2>1. /\ n.own[k] = m.own[k] /\ m.own[k] # 0 /\ m.own[k] \in Label
        /\ m.own[k] = i => m.pos[k] < q /\ q > 0
        /\ k \notin TailOf(m, i, q)
    BY <1>1, <1>2, <1>4 DEF TailOf
  <2>2. m.hd[m.own[k]] # 0 /\ (LastOf(fat, m, k) \/ Onto(fat, m, k))
    BY <2>1 DEF Charted
  <2>3. n.hd[n.own[k]] # 0
    BY <1>2, <2>1, <2>2
  <2>4. CASE m.own[k] = i /\ m.pos[k] + 1 = q
    <3>1. gat[k] = EOC
      BY <2>1, <2>4 DEF EndsAt
    <3>2. \A l \in Cluster : n.own[l] = n.own[k] => n.pos[l] <= n.pos[k]
      BY <1>1, <1>2, <2>1, <2>4
    <3> QED
      BY <2>3, <3>1, <3>2 DEF LastOf
  <2>5. CASE ~(m.own[k] = i /\ m.pos[k] + 1 = q)
    <3>1. gat[k] = fat[k]
      BY <2>1, <2>5 DEF EndsAt
    <3>2. CASE LastOf(fat, m, k)
      BY <1>1, <1>2, <2>1, <2>3, <3>1, <3>2 DEF LastOf
    <3>3. CASE Onto(fat, m, k)
      <4>1. fat[k] \in Cluster /\ m.own[fat[k]] = m.own[k] /\ m.pos[fat[k]] = m.pos[k] + 1
        BY <3>3 DEF Onto
      <4>2. m.own[k] = i => m.pos[k] + 1 < q
        BY <1>1, <2>1, <2>5
      <4>3. n.own[fat[k]] = m.own[k]
        BY <1>1, <1>2, <4>1, <4>2
      <4> QED
        BY <1>2, <2>1, <2>3, <3>1, <4>1, <4>3 DEF Onto
    <3> QED
      BY <2>2, <3>2, <3>3
  <2> QED
    BY <2>4, <2>5
<1>5. ASSUME NEW k \in Cluster, NEW l \in Cluster,
             n.own[k] # 0, n.own[k] = n.own[l], n.pos[k] = n.pos[l]
      PROVE  k = l
  BY <1>2, <1>5 DEF Charted
<1>6. Charted(gat, n)
  BY <1>3, <1>4, <1>5 DEF Charted
<1> QED
  BY <1>6 DEF n

\* Tables in which the entries but i have the chains they had.
Kin(m, i, dir) ==
  {t \in Tables : t.dir = dir /\ \E n \in Chart : Charted(t.fat, n) /\ Spares(m, n, {i})}

\* A chart spares its own chains.
LEMMA SparesReflexive ==
  ASSUME NEW m, NEW I
  PROVE  Spares(m, m, I)
BY DEF Spares

---------------------------------------------------------------------------
(* The directory.                                                          *)

\* The window is at entry i.
At(c, i) == i \in 1 .. n_rootdir /\ c.winsect = Dir(i)

\* An entry in the window.
LEMMA EntryType ==
  ASSUME NEW c \in Good, NEW i, At(c, i)
  PROVE  /\ c.win \in [{j \in 1 .. n_rootdir : Dir(j) = Dir(i)} -> Entry] /\ c.win[i] \in Entry
         /\ Dir(i) \in Sector /\ Dir(i) \in Changing /\ Dir(i) # NoSector
<1>1. Dir(i) \in Sector /\ Dir(i) \in Changing /\ Dir(i) # NoSector
  BY SectorFacts DEF At
<1>2. c.win \in Content(Dir(i))
  BY <1>1 DEF At, Good, Coherent
<1>3. c.win \in [{j \in 1 .. n_rootdir : Dir(j) = Dir(i)} -> Entry]
  BY <1>2, Contents
<1> QED
  BY <1>1, <1>3 DEF At

\* An entry is changed in the window.
EnterIn(o, i, x) == [o EXCEPT ![Dir(i)][i] = x]

\* An entry of the window is written.
Entered(c, i, x) == [c EXCEPT !.win[i] = x, !.wflag = TRUE]

\* That keeps the types, and changes one entry of the directory.
LEMMA EnterType ==
  ASSUME NEW c \in Good, NEW i, At(c, i), NEW x \in Entry
  PROVE  LET d == Entered(c, i, x)
         IN /\ d \in Good /\ Kept(c, d) /\ d.val = c.val /\ d.res = c.res /\ d.sec = c.sec
            /\ At(d, i) /\ d.win[i] = x /\ d.wflag
            /\ Over(d) = EnterIn(Over(c), i, x)
<1> DEFINE d == Entered(c, i, x)
           w == [c.win EXCEPT ![i] = x]
<1>1. /\ c.win \in [{j \in 1 .. n_rootdir : Dir(j) = Dir(i)} -> Entry]
      /\ Dir(i) \in Sector /\ Dir(i) \in Changing /\ Dir(i) # NoSector
  BY EntryType
<1>2. w \in [{j \in 1 .. n_rootdir : Dir(j) = Dir(i)} -> Entry] /\ w[i] = x
  BY <1>1 DEF At
<1>3. w \in Content(Dir(i))
  BY <1>2, Contents
<1>4. w \in Anything
  BY <1>1, <1>3 DEF Anything
<1>5. d = [c EXCEPT !.win = w, !.wflag = TRUE]
  BY DEF Good, Ctx, Entered
<1>6. w = [c.win EXCEPT ![i] = x]
  OBVIOUS
<1> HIDE DEF w, d
<1>7. /\ d \in Ctx /\ Kept(c, d) /\ d.val = c.val /\ d.res = c.res /\ d.sec = c.sec
      /\ d.winsect = c.winsect /\ d.win = w /\ d.wflag = TRUE
  BY <1>4, <1>5 DEF Good, Ctx, Kept, Steady
<1>8. Coherent(d) /\ At(d, i)
  BY <1>1, <1>3, <1>7 DEF Coherent, At
<1>9. Over(d) = [c.sec EXCEPT ![Dir(i)] = w]
  BY <1>7 DEF Over, At
<1>10. Over(c) \in [Sector -> Anything] /\ c.sec \in [Sector -> Anything]
  BY OverType DEF Sectors, Good, Ctx
<1>11. Over(c)[Dir(i)] = c.win
  BY <1>1, <1>10 DEF Over, Good, Coherent, At
<1>12. \A s \in Sector : s # Dir(i) => c.sec[s] = Over(c)[s]
  BY <1>10 DEF Over, At
<1>13. [c.sec EXCEPT ![Dir(i)] = w] = [Over(c) EXCEPT ![Dir(i)] = w]
  BY <1>10, <1>12
<1>14. Over(d) = EnterIn(Over(c), i, x)
  BY <1>6, <1>9, <1>10, <1>11, <1>13 DEF EnterIn
<1> QED
  BY <1>2, <1>7, <1>8, <1>14 DEF Good, d

\* What the search for a name has found out.
Seeking(c, names) ==
  {d \in Good : /\ Moved(c, d) /\ d.val \in 0 .. n_rootdir
                /\ IsOk(d) /\ d.val # 0 => At(d, d.val) /\ d.win[d.val].name \in names}

\* One entry more has been looked at.
LEMMA ScanOneType ==
  ASSUME NEW c \in Good, NEW names, NEW d \in Seeking(c, names), NEW i \in 1 .. n_rootdir
  PROVE  ScanOne(d, i, names) \in Seeking(c, names)
<1> DEFINE m == move_window(d, Dir(i))
           x == [m EXCEPT !.val = i]
           y == Failed(m, "FR_NO_FILE")
<1>1. CASE ~IsOk(d) \/ d.val # 0
  BY <1>1 DEF ScanOne
<1>2. CASE IsOk(d) /\ d.val = 0
  <2>1. ScanOne(d, i, names) = IF IsOk(m)
                               THEN IF m.win[i].name \in names THEN x
                                    ELSE IF m.win[i] = Unused THEN y ELSE m
                               ELSE m
    BY <1>2 DEF ScanOne, Then
  <2>2. d \in Good /\ Moved(c, d) /\ Dir(i) \in Sector /\ i \in Int
    BY SectorFacts DEF Seeking
  <2>3. m \in Good /\ Flushed(d, m) /\ (IsOk(m) => m.winsect = Dir(i))
    BY <2>2, MoveWindowType
  <2> HIDE DEF m
  <2>4. Moved(c, m) /\ m.val = 0 /\ 0 \in 0 .. n_rootdir
    BY <1>2, <2>2, <2>3, MovedTransitive, FatFsAssumption DEF Flushed
  <2>5. m \in Seeking(c, names)
    BY <2>3, <2>4 DEF Seeking
  <2>6. /\ x \in Good /\ Moved(m, x) /\ x.val = i /\ (IsOk(x) <=> IsOk(m))
        /\ x.winsect = m.winsect /\ x.win = m.win
    BY <2>2, <2>3, ValType
  <2> HIDE DEF x
  <2>7. Moved(c, x)
    BY <2>4, <2>6, MovedTransitive
  <2>8. IsOk(m) /\ m.win[i].name \in names => x \in Seeking(c, names)
    BY <2>3, <2>6, <2>7 DEF Seeking, At
  <2>9. "FR_NO_FILE" \in Res /\ "FR_NO_FILE" # "FR_OK" /\ m \in Ctx
    BY <2>3 DEF Res, Good
  <2>10. /\ y \in Good /\ Kept(m, y) /\ Over(y) = Over(m) /\ y.sec = m.sec /\ y.val = 0
         /\ ~IsOk(y)
    BY <2>3, <2>4, <2>9, FailedType
  <2> HIDE DEF y
  <2>11. Moved(m, y)
    BY <2>10 DEF Moved
  <2>12. y \in Seeking(c, names)
    BY <2>4, <2>10, <2>11, MovedTransitive DEF Seeking
  <2> QED
    BY <2>1, <2>5, <2>8, <2>12
<1> QED
  BY <1>1, <1>2

\* The scan of the directory keeps the types, and ends at an entry or with an error.
LEMMA ScanType ==
  ASSUME NEW c \in Good, IsOk(c), NEW names
  PROVE  LET d == Scan(c, names)
         IN /\ d \in Good /\ Moved(c, d) /\ d.val \in 0 .. n_rootdir
            /\ IsOk(d) => At(d, d.val) /\ d.win[d.val].name \in names
<1> DEFINE N == n_rootdir
           b == [c EXCEPT !.val = 0]
           W == Seeking(c, names)
           S == [n \in 0 .. N |-> W]
           turn == [x \in (1 .. N) \X W |-> ScanOne(x[2], x[1], names)]
           Loop(g) == g = [n \in 0 .. N |-> IF n = 0 THEN b ELSE ScanOne(g[n - 1], n, names)]
           after == CHOOSE g : Loop(g)
           f == after[N]
           e == Failed(f, "FR_NO_FILE")
<1>1. N \in Nat
  BY FatFsAssumption
<1>2. b \in W
  <2>1. b \in Good /\ Moved(c, b) /\ b.val = 0
    BY ValType
  <2> HIDE DEF b
  <2> QED
    BY <1>1, <2>1 DEF Seeking
<1>3. Scan(c, names) = IF IsOk(f) /\ f.val = 0 THEN e ELSE f
  BY DEF Scan, Repeat
<1> HIDE DEF b
<1>4. \A n \in 1 .. N : \A d \in W : ScanOne(d, n, names) \in W
  BY ScanOneType
<1>5. W \subseteq Good
  BY DEF Seeking
<1> HIDE DEF W
<1>6. b \in S[0] /\ \A n \in 0 .. N : S[n] = W
  BY <1>1, <1>2
<1>7. \A n \in 0 .. N : n < N => \A d \in S[n] : ScanOne(d, n + 1, names) \in S[n + 1]
  <2>1. \A n \in 0 .. N : n < N => n + 1 \in 1 .. N /\ n + 1 \in 0 .. N
    BY <1>1
  <2> HIDE DEF N, S
  <2> QED
    BY <1>4, <1>6, <2>1
<1>8. \A n \in 0 .. N : n < N => n + 1 \in 1 .. N /\ n + 1 \in 0 .. N /\ (n + 1) - 1 = n
  BY <1>1
<1>9. Turns(N, S, turn)
  <2> HIDE DEF S, N
  <2> QED
    BY <1>8, <1>6, <1>7 DEF Turns
<1> HIDE DEF S
<1>10. \E g : Loop(g)
  <2>1. PICK g : /\ g = [n \in 0 .. N |-> IF n = 0 THEN b ELSE turn[<<n, g[n - 1]>>]]
                 /\ \A n \in 0 .. N : g[n] \in S[n]
    <3> HIDE DEF turn, N
    <3>1. Runs(N, S, b, turn)
      BY <1>1, <1>6, <1>9, LoopExists
    <3> QED
      BY <3>1 DEF Runs
  <2>2. ASSUME NEW n \in 0 .. N, n # 0
        PROVE  turn[<<n, g[n - 1]>>] = ScanOne(g[n - 1], n, names)
    <3>1. n - 1 \in 0 .. N /\ n \in 1 .. N
      BY <1>1, <2>2
    <3> HIDE DEF N
    <3> QED
      BY <1>6, <1>7, <2>1, <3>1
  <2> HIDE DEF turn, N
  <2> QED
    BY <2>1, <2>2
<1>11. Loop(after)
  BY <1>10
<1> HIDE DEF after
<1> DEFINE T == {n \in 0 .. N : after[n] \in S[n]}
<1>12. 0 .. N \subseteq T
  <2>1. 0 \in 0 .. N /\ after[0] = b
    BY <1>1, <1>11
  <2> HIDE DEF N
  <2>2. \A n \in 0 .. N : n < N => after[n + 1] = ScanOne(after[n], n + 1, names)
    BY <1>8, <1>11
  <2> HIDE DEF Loop
  <2>3. 0 \in T /\ \A n \in 0 .. N : n \in T /\ n < N => n + 1 \in T
    BY <1>6, <1>8, <1>6, <1>7, <2>1, <2>2
  <2> HIDE DEF T
  <2> QED
    BY <1>1, <2>3, UptoInduction
<1>13. after[N] \in S[N]
  BY <1>1, <1>12
<1>14. f \in Seeking(c, names)
  BY <1>1, <1>6, <1>13 DEF W
<1> HIDE DEF f
<1>15. "FR_NO_FILE" \in Res /\ "FR_NO_FILE" # "FR_OK" /\ f \in Good /\ f \in Ctx /\ Moved(c, f)
  BY <1>14 DEF Res, Good, Seeking
<1>16. /\ e \in Good /\ Kept(f, e) /\ Over(e) = Over(f) /\ e.sec = f.sec /\ e.val = f.val
       /\ ~IsOk(e)
  BY <1>15, FailedType
<1> HIDE DEF e
<1>17. Moved(c, e)
  BY <1>15, <1>16, MovedTransitive DEF Moved
<1> QED
  BY <1>3, <1>14, <1>15, <1>16, <1>17 DEF Seeking

\* dir_register finds an entry that is not in use, or fails.
LEMMA DirRegisterType ==
  ASSUME NEW c \in Good, IsOk(c), NEW name \in Name
  PROVE  LET d == dir_register(c, name)
         IN /\ d \in Good /\ Kept(c, d) /\ d.val \in 0 .. n_rootdir
            /\ IsOk(d) => At(d, d.val) /\ d.wflag
<1> DEFINE s == Scan(c, {Unused.name, Removed.name})
           y == Failed(s, "FR_DENIED")
           x == [Unused EXCEPT !.name = name]
           r == [s EXCEPT !.win[s.val] = x, !.wflag = TRUE]
<1>1. /\ s \in Good /\ Moved(c, s) /\ s.val \in 0 .. n_rootdir
      /\ IsOk(s) => At(s, s.val)
  BY ScanType
<1>2. dir_register(c, name) = IF s.res = "FR_NO_FILE" THEN y ELSE IF IsOk(s) THEN r ELSE s
  BY DEF dir_register, Then
<1> HIDE DEF s
<1>3. "FR_DENIED" \in Res /\ "FR_DENIED" # "FR_OK" /\ s \in Ctx
  BY <1>1 DEF Res, Good
<1>4. y \in Good /\ Kept(s, y) /\ y.val = s.val /\ ~IsOk(y)
  BY <1>1, <1>3, FailedType
<1> HIDE DEF y
<1>5. x \in Entry
  BY DEF Unused, Entry
<1> HIDE DEF x
<1>6. IsOk(s) => /\ r \in Good /\ Kept(s, r) /\ r.val = s.val /\ r.res = s.res
                 /\ At(r, s.val) /\ r.wflag
  <2> SUFFICES ASSUME IsOk(s)
               PROVE  /\ r \in Good /\ Kept(s, r) /\ r.val = s.val /\ r.res = s.res
                      /\ At(r, s.val) /\ r.wflag
    OBVIOUS
  <2>1. r = Entered(s, s.val, x) /\ At(s, s.val)
    BY <1>1 DEF Entered
  <2> HIDE DEF r
  <2> QED
    BY <1>1, <1>5, <2>1, EnterType
<1> HIDE DEF r
<1> QED
  BY <1>1, <1>2, <1>4, <1>6, KeptTransitive DEF Moved

\* dir_remove keeps the types.
LEMMA DirRemoveType ==
  ASSUME NEW c \in Good, NEW i \in 1 .. n_rootdir
  PROVE  LET d == dir_remove(c, i)
         IN d \in Good /\ Kept(c, d) /\ d.val = c.val
<1> DEFINE m == move_window(c, Dir(i))
           x == Removed
           r == [m EXCEPT !.win[i] = x, !.wflag = TRUE]
<1>1. /\ m \in Good /\ Flushed(c, m)
      /\ IsOk(m) => m.winsect = Dir(i)
  BY MoveWindowType, SectorFacts
<1>2. dir_remove(c, i) = IF IsOk(m) THEN r ELSE m
  BY DEF dir_remove, Then
<1> HIDE DEF m
<1>3. x \in Entry
  BY DEF Unused, Removed, Entry
<1> HIDE DEF x
<1>4. IsOk(m) => r \in Good /\ Kept(m, r) /\ r.val = m.val
  <2> SUFFICES ASSUME IsOk(m) PROVE r \in Good /\ Kept(m, r) /\ r.val = m.val
    OBVIOUS
  <2>1. r = Entered(m, i, x) /\ At(m, i)
    BY <1>1 DEF Entered, At
  <2> HIDE DEF r
  <2>2. m \in Good /\ At(m, i) /\ x \in Entry
    BY <1>1, <1>3, <2>1
  <2>3. Entered(m, i, x) \in Good /\ Kept(m, Entered(m, i, x)) /\ Entered(m, i, x).val = m.val
    BY <2>2, EnterType
  <2> QED
    BY <2>1, <2>3
<1> QED
  BY <1>1, <1>2, <1>4, KeptTransitive DEF Flushed, Moved
---------------------------------------------------------------------------
(* Volumes.                                                                *)

\* FSInfo is written, or not; the rest of the card is what the window stood for.
LEMMA SyncFsType ==
  ASSUME NEW c \in Good
  PROVE  LET d == sync_fs(c)
         IN /\ d \in Good /\ Steady(c, d) /\ d.last_clust = c.last_clust
            /\ d.free_clust = c.free_clust
<1> DEFINE y == sync_window(c)
           info == [free |-> c.free_clust, next |-> c.last_clust]
           b == [y EXCEPT !.win = info, !.winsect = FSInfo, !.fsi = "clean"]
           w == disk_write(b, FSInfo, info)
<1>1. /\ y \in Good /\ Flushed(c, y) /\ (IsOk(y) => ~y.wflag)
  BY SyncWindowType
<1>2. sync_fs(c) = IF IsOk(y) THEN IF y.fsi = "dirty" THEN Ok(w) ELSE y ELSE y
  BY DEF sync_fs, Then
<1> HIDE DEF y
<1>3. CASE IsOk(y) /\ y.fsi = "dirty"
  <2>1. /\ info \in Content(FSInfo) /\ info \in Anything /\ FSInfo \in Sector
        /\ FSInfo \notin Changing /\ FSInfo # NoSector
    <3>1. info \in Content(FSInfo)
      BY Contents DEF Good, Ctx
    <3> HIDE DEF info
    <3> QED
      BY <3>1, SectorFacts DEF Anything
  <2> HIDE DEF info
  <2>2. /\ b \in Ctx /\ Steady(y, b) /\ b.last_clust = y.last_clust
        /\ b.free_clust = y.free_clust /\ b.winsect = FSInfo /\ b.win = info
        /\ b.wflag = y.wflag /\ b.sec = y.sec
    BY <1>1, <2>1 DEF Good, Ctx, Steady, Fsi
  <2> HIDE DEF b
  <2>3. /\ w \in Ctx /\ Kept(b, w)
        /\ w.winsect = b.winsect /\ w.win = b.win /\ w.wflag = b.wflag
    <3>1. b \in Ctx /\ FSInfo \in Sector /\ info \in Content(FSInfo)
      BY <2>1, <2>2
    <3> QED
      BY <3>1, WriteType, ZenonT(60)
  <2> HIDE DEF w
  <2>4. Coherent(w)
    BY <1>1, <1>3, <2>1, <2>2, <2>3 DEF Coherent
  <2>5. w \in Good
    BY <2>3, <2>4 DEF Good
  <2>6. Ok(w) \in Good /\ Kept(w, Ok(w))
    BY <2>3, <2>5, OkType
  <2>7. sync_fs(c) = Ok(w)
    BY <1>2, <1>3
  <2>8. Steady(c, Ok(w))
    BY <1>1, <2>2, <2>3, <2>6, SteadyTransitive DEF Kept, Flushed, Moved
  <2> QED
    BY <1>1, <2>2, <2>3, <2>6, <2>7, <2>8 DEF Kept, Flushed, Moved
<1>4. CASE ~(IsOk(y) /\ y.fsi = "dirty")
  BY <1>1, <1>2, <1>4 DEF Flushed, Moved, Kept
<1> QED
  BY <1>3, <1>4

\* A context before a call: the window may be stale until the drive is initialized.
Fair == {c \in Ctx : c.stat # "STA_NOINIT" => Coherent(c)}

\* A disk error is met only if there is one.
Met(c, d) ==
  /\ d.bad = c.bad /\ d.gone = c.gone
  /\ (c.hit => d.hit) /\ (d.hit => c.hit \/ c.bad # 0)

\* Mounting again keeps the types.
LEMMA ReopenedType ==
  ASSUME NEW c \in Ctx
  PROVE  LET d == Reopened(c)
         IN d \in Good /\ Met(c, d) /\ d.fp = c.fp /\ d.stat # "STA_NOINIT" /\ d.out = c.out
<1> DEFINE d == Reopened(c)
           s == Initialized(c.stat)
<1>1. s \in Stat /\ s # "STA_NOINIT"
  BY DEF Initialized, Ctx, Stat
<1>2. d = [c EXCEPT !.fs_type = 0, !.wflag = FALSE, !.winsect = NoSector, !.stat = s]
  BY DEF Reopened
<1> HIDE DEF s, d
<1>3. /\ d \in Ctx /\ Met(c, d) /\ d.fp = c.fp /\ d.stat = s /\ d.out = c.out
      /\ d.winsect = NoSector /\ d.wflag = FALSE
  BY <1>1, <1>2 DEF Ctx, Met
<1>4. Coherent(d)
  BY <1>3, SectorFacts DEF Coherent
<1> QED
  BY <1>1, <1>3, <1>4 DEF Good, d

\* A volume is mounted, or not; the card stays as it is.
LEMMA MountType ==
  ASSUME NEW c \in Good, NEW known \in BOOLEAN, known => c.win \in Content(FSInfo)
  PROVE  LET d == Mount(c, known)
         IN /\ d \in Good /\ Met(c, d) /\ d.fp = c.fp /\ d.stat = c.stat /\ d.out = c.out
            /\ d.fs_type = 1 /\ IsOk(d)
<1> DEFINE l == IF known THEN c.win.next ELSE Ones
           f == IF known THEN c.win.free ELSE Ones
           y == IF known THEN "clean" ELSE "off"
           i == c.id + 1
           b == [c EXCEPT !.last_clust = l, !.free_clust = f, !.fsi = y, !.fs_type = 1, !.id = i]
<1>1. l \in Nat /\ f \in Nat /\ y \in Fsi /\ i \in Nat
  BY Contents, FatFsAssumption DEF Ones, n_fatent, Fsi, Good, Ctx
<1>2. Mount(c, known) = Ok(b)
  BY DEF Mount
<1> HIDE DEF l, f, y, i
<1>3. /\ b \in Ctx /\ Met(c, b) /\ b.fp = c.fp /\ b.stat = c.stat /\ b.out = c.out
      /\ b.fs_type = 1 /\ b.winsect = c.winsect /\ b.win = c.win /\ b.wflag = c.wflag
      /\ b.sec = c.sec
  BY <1>1 DEF Good, Ctx, Met
<1> HIDE DEF b
<1>4. b \in Good
  BY <1>3 DEF Good, Coherent
<1>5. Ok(b) \in Good /\ Kept(b, Ok(b)) /\ IsOk(Ok(b))
  BY <1>3, <1>4, OkType
<1> QED
  BY <1>2, <1>3, <1>5 DEF Kept, Steady, Met

\* find_volume gives a volume that is mounted, or an error.
LEMMA FindVolumeType ==
  ASSUME NEW c \in Fair
  PROVE  LET d == find_volume(c)
         IN /\ d \in Good /\ Met(c, d) /\ d.fp = c.fp /\ d.stat # "STA_NOINIT" /\ d.out = c.out
            /\ IsOk(d) => d.fs_type # 0
<1> DEFINE o == Reopened(c)
           r == disk_read(o)
           m == move_window(r, FSInfo)
           k == IsOk(m)
<1>1. CASE c.fs_type # 0 /\ c.stat # "STA_NOINIT"
  <2>1. find_volume(c) = Ok(c)
    BY <1>1 DEF find_volume
  <2>2. c \in Good /\ c \in Ctx
    BY <1>1 DEF Fair, Good
  <2> QED
    BY <1>1, <2>1, <2>2, OkType DEF Kept, Steady, Met
<1>2. CASE ~(c.fs_type # 0 /\ c.stat # "STA_NOINIT")
  <2>1. o \in Good /\ Met(c, o) /\ o.fp = c.fp /\ o.stat # "STA_NOINIT" /\ o.out = c.out
    BY ReopenedType DEF Fair
  <2>2. find_volume(c) = IF IsOk(r) THEN IF Fat32 THEN Mount(m, k) ELSE Mount(r, FALSE) ELSE r
    BY <1>2 DEF find_volume, Then
  <2> HIDE DEF o
  <2>3. /\ r \in Ctx /\ Kept(o, r) /\ r.sec = o.sec /\ r.winsect = o.winsect /\ r.win = o.win
        /\ r.wflag = o.wflag
    BY <2>1, ReadType DEF Good
  <2> HIDE DEF r
  <2>4. r \in Good
    BY <2>1, <2>3 DEF Good, Coherent
  <2>5. Met(c, r) /\ r.fp = c.fp /\ r.stat # "STA_NOINIT" /\ r.out = c.out
    BY <2>1, <2>3 DEF Met, Kept, Steady
  <2>6. m \in Good /\ Flushed(r, m) /\ (IsOk(m) => m.win \in Content(FSInfo))
    BY <2>4, MoveWindowType, SectorFacts
  <2>7. k \in BOOLEAN /\ (k => m.win \in Content(FSInfo))
    BY <2>6 DEF IsOk
  <2> HIDE DEF k, m
  <2>8. Met(c, m) /\ m.fp = c.fp /\ m.stat # "STA_NOINIT" /\ m.out = c.out
    BY <2>5, <2>6 DEF Flushed, Moved, Kept, Steady, Met
  <2>9. LET d == Mount(m, k)
        IN /\ d \in Good /\ Met(m, d) /\ d.fp = m.fp /\ d.stat = m.stat /\ d.out = m.out
           /\ d.fs_type = 1
    BY <2>6, <2>7, MountType
  <2>10. LET d == Mount(r, FALSE)
         IN /\ d \in Good /\ Met(r, d) /\ d.fp = r.fp /\ d.stat = r.stat /\ d.out = r.out
            /\ d.fs_type = 1
    BY <2>4, MountType
  <2>11. CASE ~IsOk(r)
    BY <2>2, <2>4, <2>5, <2>11
  <2>12. CASE IsOk(r) /\ Fat32
    BY <2>2, <2>8, <2>9, <2>12 DEF Met
  <2>13. CASE IsOk(r) /\ ~Fat32
    <3> DEFINE n == Mount(r, FALSE)
    <3>1. find_volume(c) = n
      BY <2>2, <2>13
    <3>2. /\ n \in Good /\ Met(r, n) /\ n.fp = r.fp /\ n.stat = r.stat /\ n.out = r.out
          /\ n.fs_type = 1
      BY <2>10
    <3> HIDE DEF n
    <3> QED
      BY <2>5, <3>1, <3>2 DEF Met
  <2> QED
    BY <2>11, <2>12, <2>13
<1> QED
  BY <1>1, <1>2

\* The file is on the volume, and the volume is mounted; or nothing happened.
LEMMA ValidateType ==
  ASSUME NEW c \in Fair
  PROVE  LET d == validate(c)
         IN /\ d \in Fair /\ Kept(c, d) /\ d.sec = c.sec
            /\ IsOk(d) => /\ d \in Good /\ c.fp.fs /\ c.fs_type # 0 /\ c.stat # "STA_NOINIT"
                          /\ Over(d) = Over(c) /\ d.val = c.val
<1>1. c \in Ctx /\ "FR_INVALID_OBJECT" \in Res /\ "FR_INVALID_OBJECT" # "FR_OK"
  BY DEF Fair, Res
<1>2. CASE c.fp.fs /\ c.fs_type # 0 /\ c.fp.id = c.id /\ c.stat # "STA_NOINIT"
  <2>1. validate(c) = Ok(c) /\ c \in Good
    BY <1>2 DEF validate, Fair, Good
  <2> QED
    BY <1>1, <1>2, <2>1, OkType DEF Fair, Good
<1>3. CASE ~(c.fp.fs /\ c.fs_type # 0 /\ c.fp.id = c.id /\ c.stat # "STA_NOINIT")
  <2> DEFINE f == Failed(c, "FR_INVALID_OBJECT")
  <2>1. validate(c) = f
    BY <1>3 DEF validate
  <2>2. /\ f \in Ctx /\ ~IsOk(f) /\ Kept(c, f) /\ f.sec = c.sec /\ (c \in Good => f \in Good)
    BY <1>1, FailedType
  <2> HIDE DEF f
  <2>3. f \in Fair
    BY <1>1, <2>2 DEF Fair, Good, Kept, Steady
  <2> QED
    BY <2>1, <2>2, <2>3
<1> QED
  BY <1>2, <1>3
---------------------------------------------------------------------------
(* The file object.                                                        *)

\* Nothing changes but the file object and what a function returns.
Beside(c, d) ==
  /\ d.fs_type = c.fs_type /\ d.id = c.id /\ d.winsect = c.winsect /\ d.win = c.win
  /\ d.wflag = c.wflag /\ d.last_clust = c.last_clust /\ d.free_clust = c.free_clust
  /\ d.fsi = c.fsi /\ d.sec = c.sec /\ d.stat = c.stat /\ d.bad = c.bad /\ d.gone = c.gone
  /\ d.hit = c.hit

\* The volume and what the file was opened as stay.
Filed(c, d) ==
  /\ d.fs_type = c.fs_type /\ d.id = c.id /\ d.stat = c.stat /\ Met(c, d)
  /\ d.fp.fs = c.fp.fs /\ d.fp.id = c.fp.id /\ d.fp.rd = c.fp.rd /\ d.fp.wr = c.fp.wr
  /\ d.fp.dir_ptr = c.fp.dir_ptr

\* Also the file's size, position and cluster stay.
Stays(c, d) ==
  /\ Filed(c, d)
  /\ d.fp.fptr = c.fp.fptr /\ d.fp.fsize = c.fp.fsize /\ d.fp.sclust = c.fp.sclust
  /\ d.fp.clust = c.fp.clust /\ d.fp.written = c.fp.written

\* What a function on an open file leaves alone.
LEMMA BesideType ==
  ASSUME NEW c \in Good, NEW d \in Ctx, Beside(c, d)
  PROVE  /\ d \in Good /\ Over(d) = Over(c) /\ FatV(d) = FatV(c) /\ DirV(d) = DirV(c)
         /\ Met(c, d)
<1>1. d \in Good
  BY DEF Good, Coherent, Beside
<1>2. Over(d) = Over(c)
  BY DEF Over, Beside
<1> QED
  BY <1>1, <1>2, ViewsMoved DEF Met, Beside

\* Filed, for two functions in a row.
LEMMA FiledTransitive ==
  ASSUME NEW c, NEW d, NEW e, Filed(c, d), Filed(d, e)
  PROVE  Filed(c, e)
<1> QED
  BY DEF Filed, Met

\* Stays, for two functions in a row.
LEMMA StaysTransitive ==
  ASSUME NEW c, NEW d, NEW e, Stays(c, d), Stays(d, e)
  PROVE  Stays(c, e)
<1> QED
  BY DEF Stays, Filed, Met

\* A function on sectors does not know the file.
LEMMA SteadyStays ==
  ASSUME NEW c, NEW d, Steady(c, d)
  PROVE  Stays(c, d) /\ Filed(c, d) /\ Met(c, d)
<1> QED
  BY DEF Stays, Filed, Met, Steady

\* Only the file object changes.
WithFp(c, p) == [c EXCEPT !.fp = p]

\* That keeps the types.
LEMMA WithFpType ==
  ASSUME NEW c \in Good, NEW p \in FIL
  PROVE  LET d == WithFp(c, p)
         IN /\ d \in Good /\ Beside(c, d) /\ d.fp = p /\ d.val = c.val /\ d.res = c.res
            /\ d.out = c.out /\ Over(d) = Over(c) /\ FatV(d) = FatV(c) /\ Met(c, d)
            /\ IsOk(d) <=> IsOk(c)
<1> DEFINE d == WithFp(c, p)
<1>1. /\ d \in Ctx /\ Beside(c, d) /\ d.fp = p /\ d.val = c.val /\ d.res = c.res
      /\ d.out = c.out
  BY DEF WithFp, Good, Ctx, Beside
<1> HIDE DEF d
<1>2. /\ d \in Good /\ Over(d) = Over(c) /\ FatV(d) = FatV(c) /\ Met(c, d)
  BY <1>1, BesideType
<1> QED
  BY <1>1, <1>2 DEF IsOk, d

\* A function that fails leaves the tables.
LEMMA FailedQuiet ==
  ASSUME NEW c \in Good, NEW r \in Res
  PROVE  Quiet(c, Failed(c, r))
BY FailedType, BesideQuiet DEF Good

\* ABORT notes the error in the file and returns it.
LEMMA AbortType ==
  ASSUME NEW c \in Good, NEW r \in Res
  PROVE  LET d == Abort(c, r)
         IN /\ d \in Good /\ Beside(c, d) /\ Stays(c, d) /\ d.fp.err = r /\ d.res = r
            /\ Over(d) = Over(c) /\ FatV(d) = FatV(c) /\ d.val = c.val
            /\ IsOk(d) <=> r = "FR_OK"
<1> DEFINE d == Abort(c, r)
<1>1. /\ d \in Ctx /\ Beside(c, d) /\ Stays(c, d) /\ d.fp.err = r /\ d.res = r
      /\ d.val = c.val
  BY DEF Abort, Good, Ctx, FIL, Beside, Stays, Filed, Met
<1> HIDE DEF d
<1>2. /\ d \in Good /\ Over(d) = Over(c) /\ FatV(d) = FatV(c)
  BY <1>1, BesideType
<1> QED
  BY <1>1, <1>2 DEF IsOk, d

\* ABORT, if the result is not FR_OK.
LEMMA OrAbortType ==
  ASSUME NEW c \in Good
  PROVE  LET d == OrAbort(c)
         IN /\ d \in Good /\ Beside(c, d) /\ Stays(c, d) /\ d.res = c.res
            /\ Over(d) = Over(c) /\ FatV(d) = FatV(c) /\ d.val = c.val
            /\ IsOk(c) => IsOk(d) /\ d = c
            /\ ~IsOk(c) => ~IsOk(d) /\ d.fp.err = c.res
<1>1. CASE IsOk(c)
  <2>1. OrAbort(c) = c
    BY <1>1 DEF OrAbort
  <2> QED
    BY <1>1, <2>1 DEF Beside, Stays, Filed, Met
<1>2. CASE ~IsOk(c)
  <2>1. OrAbort(c) = Abort(c, c.res) /\ c.res \in Res
    BY <1>2 DEF OrAbort, Good, Ctx
  <2> QED
    BY <1>2, <2>1, AbortType DEF IsOk
<1> QED
  BY <1>1, <1>2

\* A file that is refused is left as it is.
LEMMA RejectType ==
  ASSUME NEW c \in Fair
  PROVE  LET d == Reject(c)
         IN /\ d \in Fair /\ Kept(c, d) /\ d.sec = c.sec
            /\ IsOk(d) => /\ d \in Good /\ c.fp.fs /\ c.fs_type # 0 /\ c.stat # "STA_NOINIT"
                          /\ c.fp.err = "FR_OK" /\ Over(d) = Over(c) /\ d.val = c.val
                          /\ c \in Good
<1> DEFINE v == validate(c)
           f == Failed(v, v.fp.err)
<1>1. /\ v \in Fair /\ Kept(c, v) /\ v.sec = c.sec
      /\ IsOk(v) => /\ v \in Good /\ c.fp.fs /\ c.fs_type # 0 /\ c.stat # "STA_NOINIT"
                    /\ Over(v) = Over(c) /\ v.val = c.val
  BY ValidateType
<1>2. Reject(c) = IF IsOk(v) THEN IF v.fp.err # "FR_OK" THEN f ELSE v ELSE v
  BY DEF Reject, Then
<1> HIDE DEF v
<1>3. CASE IsOk(v) /\ v.fp.err # "FR_OK"
  <2>1. v \in Ctx /\ v.fp.err \in Res
    BY <1>1, <1>3 DEF Fair, Ctx, FIL
  <2>2. /\ f \in Ctx /\ ~IsOk(f) /\ Kept(v, f) /\ f.sec = v.sec /\ (v \in Good => f \in Good)
    BY <1>3, <2>1, FailedType
  <2> HIDE DEF f
  <2>3. f \in Fair
    BY <1>1, <1>3, <2>2 DEF Fair, Good
  <2>4. Kept(c, f)
    BY <1>1, <2>2, KeptTransitive
  <2> QED
    BY <1>1, <1>2, <1>3, <2>2, <2>3, <2>4
<1>4. CASE ~(IsOk(v) /\ v.fp.err # "FR_OK")
  <2>1. v.fp = c.fp
    BY <1>1 DEF Kept, Steady
  <2>2. IsOk(v) => c \in Good
    BY <1>1 DEF Fair, Good
  <2> QED
    BY <1>1, <1>2, <1>4, <2>1, <2>2
<1> QED
  BY <1>3, <1>4

\* A sector of data is written, or not: no business of the FAT's or the directory's.
LEMMA DataWriteType ==
  ASSUME NEW c \in Good, NEW s, NEW x \in [0 .. SS - 1 -> Int]
  PROVE  LET d == disk_write(c, Data(s), x)
         IN /\ d \in Good /\ Kept(c, d) /\ d.val = c.val
            /\ FatV(d) = FatV(c) /\ DirV(d) = DirV(c) /\ Quiet(c, d)
            /\ ~IsOk(d) => d.res = "FR_DISK_ERR" /\ d.hit
<1> DEFINE d == disk_write(c, Data(s), x)
<1>1. c \in Ctx /\ c.sec \in [Sector -> Anything]
  BY DEF Good, Ctx, Sectors
<1>2. /\ d \in Ctx /\ Kept(c, d) /\ d.val = c.val
      /\ d.winsect = c.winsect /\ d.win = c.win /\ d.wflag = c.wflag
      /\ d.sec = [c.sec EXCEPT ![Data(s)] = x] \/ d.sec = c.sec
      /\ ~IsOk(d) => d.res = "FR_DISK_ERR" /\ d.hit
  <2>1. CASE Data(s) \in Sector
    <3>1. x \in Content(Data(s))
      BY Contents
    <3> QED
      BY <1>1, <2>1, <3>1, WriteType
  <2>2. CASE Data(s) \notin Sector
    <3> DEFINE a == Access(c)
               b == [a EXCEPT !.sec[Data(s)] = x]
    <3>1. /\ a \in Ctx /\ Kept(c, a) /\ a.val = c.val /\ a.sec = c.sec /\ a.winsect = c.winsect
          /\ a.win = c.win /\ a.wflag = c.wflag /\ (Fails(c) => a.hit)
      BY <1>1, AccessType
    <3>2. d = IF Fails(c) THEN Failed(a, "FR_DISK_ERR") ELSE Ok(b)
      BY DEF disk_write
    <3> HIDE DEF a
    <3>3. [a.sec EXCEPT ![Data(s)] = x] = a.sec
      BY <1>1, <2>2, <3>1
    <3>4. b = a
      BY <3>1, <3>3 DEF Ctx
    <3> HIDE DEF b
    <3>5. "FR_DISK_ERR" \in Res /\ "FR_DISK_ERR" # "FR_OK"
      BY DEF Res
    <3> DEFINE f == Failed(a, "FR_DISK_ERR")
               o == Ok(a)
    <3>6. /\ f \in Ctx /\ Kept(a, f) /\ f.val = a.val /\ f.winsect = a.winsect
          /\ f.win = a.win /\ f.wflag = a.wflag /\ f.sec = a.sec /\ f.res = "FR_DISK_ERR"
          /\ f.hit = a.hit
      BY <3>1, <3>5, FailedType
    <3>7. /\ o \in Ctx /\ Kept(a, o) /\ o.val = a.val /\ o.winsect = a.winsect
          /\ o.win = a.win /\ o.wflag = a.wflag /\ o.sec = a.sec /\ IsOk(o)
      BY <3>1, OkType
    <3>8. (d = f /\ Fails(c)) \/ d = o
      BY <3>2, <3>4
    <3> HIDE DEF f, o, d
    <3> QED
      BY <3>1, <3>6, <3>7, <3>8, KeptTransitive
  <2> QED
    BY <2>1, <2>2
<1> HIDE DEF d
<1>3. \A t \in Sector : t # Data(s) => d.sec[t] = c.sec[t]
  BY <1>1, <1>2
<1>4. \A t \in Changing : t \in Sector /\ t # Data(s)
  BY SectorFacts
<1>5. Coherent(d)
  BY <1>2, <1>3, <1>4 DEF Coherent, Good
<1>6. \A t \in Changing : Over(d)[t] = Over(c)[t]
  BY <1>1, <1>2, <1>3, <1>4 DEF Over
<1>7. FatV(d) = FatV(c) /\ DirV(d) = DirV(c)
  BY <1>6, SectorFacts DEF FatV, DirV
<1>8. TableV(d) = TableV(c)
  BY <1>6, SectorFacts DEF TableV, Table, Label
<1>9. TableC(d) = TableC(c)
  BY <1>3, <1>4, SectorFacts DEF TableC, Table, Label
<1> QED
  BY <1>2, <1>5, <1>7, <1>8, <1>9 DEF Good, d, Quiet
---------------------------------------------------------------------------
(* Positions and sectors.                                                  *)

\* The sectors of the data area.
Sect == 1 .. Clusters * csize

\* Quotient and rest.
LEMMA Division ==
  ASSUME NEW n \in Nat \ {0}, NEW m \in Nat
  PROVE  /\ m \div n \in Nat /\ m % n \in 0 .. n - 1 /\ m = n * (m \div n) + (m % n)
         /\ m % n # 0 => m > 0
         /\ m \div n # 0 => m > 0
<1> QED
  BY SMTT(30)

\* Whole parts of a number do not exceed it.
LEMMA Multiples ==
  ASSUME NEW n \in Nat \ {0}, NEW m \in Nat, NEW k \in Nat, k <= m \div n
  PROVE  k * n \in Nat /\ k * n <= m
<1>1. m \div n \in Nat /\ m % n \in 0 .. n - 1 /\ m = n * (m \div n) + (m % n)
  BY Division
<1> DEFINE q == m \div n
<1>2. n * q <= m /\ q \in Nat
  BY <1>1
<1> HIDE DEF q
<1>3. k * n <= n * q
  <2>1. PICK j \in Nat : q = k + j
    <3>1. q - k \in Nat /\ q = k + (q - k)
      BY <1>2 DEF q
    <3> QED
      BY <3>1
  <2> QED
    BY <1>2, <2>1, SMTT(30)
<1> QED
  BY <1>2, <1>3

\* Less than k parts.
LEMMA Quotient ==
  ASSUME NEW n \in Nat \ {0}, NEW k \in Nat, NEW m \in Nat, m < k * n
  PROVE  m \div n < k
<1> DEFINE q == m \div n
<1>1. q \in Nat /\ n * q <= m
  BY Division DEF q
<1> HIDE DEF q
<1> SUFFICES ASSUME q >= k PROVE FALSE
  BY <1>1 DEF q
<1>2. PICK j \in Nat : q = k + j
  <2>1. q - k \in Nat /\ q = k + (q - k)
    BY <1>1
  <2> QED
    BY <2>1
<1>3. n * q = k * n + n * j /\ n * j \in Nat
  BY <1>2, SMTT(30)
<1> QED
  BY <1>1, <1>3

\* The sector in the cluster; behind the first one there is a position.
LEMMA CsectType ==
  ASSUME NEW p \in FIL
  PROVE  csect(p) \in 0 .. csize - 1 /\ (csect(p) # 0 => p.fptr > 0)
<1>1. SS \in Nat \ {0} /\ csize \in Nat \ {0} /\ p.fptr \in Nat
  BY FatFsAssumption DEF FIL
<1> DEFINE q == p.fptr \div SS
<1>2. q \in Nat /\ (q # 0 => p.fptr > 0)
  BY <1>1, Division
<1> HIDE DEF q
<1>3. q % csize \in 0 .. csize - 1 /\ (q % csize # 0 => q > 0)
  BY <1>1, <1>2, Division
<1> QED
  BY <1>2, <1>3 DEF csect, q

\* The sectors of a cluster are in the data area.
LEMMA SectorType ==
  ASSUME NEW clst \in Cluster, NEW j \in 0 .. csize - 1
  PROVE  clust2sect(clst) + j \in Sect /\ clust2sect(clst) \in Nat
<1>1. csize \in Nat \ {0} /\ Clusters \in Nat \ {0} /\ clst \in 2 .. Clusters + 1
  BY FatFsAssumption DEF Cluster, n_fatent
<1>2. PICK a \in Nat : a = clst - 2 /\ a <= Clusters - 1
  BY <1>1
<1>3. clust2sect(clst) = a * csize + 1
  BY <1>2 DEF clust2sect
<1>4. a * csize \in Nat /\ a * csize + csize <= Clusters * csize
  <2>1. PICK b \in Nat : Clusters = a + 1 + b
    <3>1. Clusters - 1 - a \in Nat /\ Clusters = a + 1 + (Clusters - 1 - a)
      BY <1>1, <1>2
    <3> QED
      BY <3>1
  <2>2. Clusters * csize = a * csize + csize + b * csize /\ b * csize \in Nat
    BY <1>1, <2>1, SMTT(30)
  <2>3. a * csize \in Nat
    BY <1>1, SMTT(30)
  <2> QED
    BY <1>1, <2>2, <2>3
<1> QED
  BY <1>1, <1>3, <1>4 DEF Sect

\* clust2sect returns 0 for what is no cluster.
LEMMA NoSectorType ==
  ASSUME NEW clst
  PROVE  clust2sect(clst) = 0 <=> clst \notin Cluster
<1>1. CASE clst \in Cluster
  <2>1. clust2sect(clst) + 0 \in Sect /\ clust2sect(clst) \in Nat
    BY <1>1, SectorType, FatFsAssumption
  <2> QED
    BY <1>1, <2>1 DEF Sect
<1>2. CASE clst \notin Cluster
  BY <1>2 DEF clust2sect
<1> QED
  BY <1>1, <1>2

\* The bytes of a cluster.
LEMMA ClusterSize == bcs \in Nat \ {0} /\ bcs = csize * SS
<1>1. SS \in Nat \ {0} /\ csize \in Nat \ {0}
  BY FatFsAssumption
<1>2. PICK j \in Nat : csize = j + 1
  <2>1. csize - 1 \in Nat /\ csize = (csize - 1) + 1
    BY <1>1
  <2> QED
    BY <2>1
<1>3. csize * SS = j * SS + SS /\ j * SS \in Nat
  BY <1>1, <1>2, SMTT(30)
<1> QED
  BY <1>1, <1>3 DEF bcs

\* A multiple leaves no rest.
LEMMA NoRest ==
  ASSUME NEW n \in Nat \ {0}, NEW t \in Nat
  PROVE  (n * t) % n = 0
<1> DEFINE m == n * t
           q == m \div n
           r == m % n
<1>1. m \in Nat
  BY SMTT(30)
<1>2. q \in Nat /\ r \in 0 .. n - 1 /\ m = n * q + r
  BY <1>1, Division
<1> HIDE DEF q, r
<1>3. CASE t = q
  <2>1. n * q = m
    BY <1>3
  <2> HIDE DEF m
  <2>2. r = 0
    BY <1>1, <1>2, <2>1
  <2> QED
    BY <2>2 DEF r, m
<1>4. ASSUME NEW a \in Nat, NEW b \in Nat, a < b
      PROVE  n * a + n <= n * b /\ n * a \in Nat /\ n * b \in Nat
  <2>1. PICK j \in Nat : b = a + 1 + j
    <3>1. b - a - 1 \in Nat /\ b = a + 1 + (b - a - 1)
      BY <1>4
    <3> QED
      BY <3>1
  <2>2. n * b = n * a + n + n * j /\ n * j \in Nat /\ n * a \in Nat
    BY <2>1, SMTT(30)
  <2> QED
    BY <2>2
<1>5. CASE t < q
  <2>1. m + n <= n * q /\ n * q \in Nat
    BY <1>2, <1>4, <1>5
  <2> DEFINE x == n * q
  <2> HIDE DEF x, m
  <2>2. FALSE
    BY <1>1, <1>2, <2>1 DEF x
  <2> QED
    BY <2>2
<1>6. CASE q < t
  <2>1. n * q + n <= m /\ n * q \in Nat
    BY <1>2, <1>4, <1>6
  <2> DEFINE x == n * q
  <2> HIDE DEF x, m
  <2>2. FALSE
    BY <1>1, <1>2, <2>1 DEF x
  <2> QED
    BY <2>2
<1> QED
  BY <1>2, <1>3, <1>5, <1>6

\* A quotient is known by its rest.
LEMMA QuotientIs ==
  ASSUME NEW n \in Nat \ {0}, NEW q \in Nat, NEW r \in 0 .. n - 1, NEW m \in Nat, m = n * q + r
  PROVE  m \div n = q
<1>1. n * q \in Nat
  BY SMTT(30)
<1>2. m < (q + 1) * n
  <2>1. (q + 1) * n = n * q + n
    BY SMTT(30)
  <2> QED
    BY <1>1, <2>1
<1>3. m \div n \in Nat /\ m \div n < q + 1
  <2> DEFINE k == q + 1
  <2>1. k \in Nat /\ m < k * n
    BY <1>2
  <2> HIDE DEF k
  <2>2. m \div n < k
    BY <2>1, Quotient
  <2> QED
    BY <2>2, Division DEF k
<1> DEFINE d == m \div n
           s == m % n
<1>4. d \in Nat /\ s \in 0 .. n - 1 /\ m = n * d + s
  BY Division
<1> HIDE DEF d, s
<1>5. CASE d < q
  <2>1. PICK j \in Nat : q = d + 1 + j
    <3>1. q - d - 1 \in Nat /\ q = d + 1 + (q - d - 1)
      BY <1>4, <1>5
    <3> QED
      BY <3>1
  <2>2. n * q = n * d + n + n * j /\ n * j \in Nat /\ n * d \in Nat
    BY <1>4, <2>1, SMTT(30)
  <2> DEFINE a == n * q
             b == n * d
             e == n * j
  <2>3. a = b + n + e /\ a \in Nat /\ b \in Nat /\ e \in Nat /\ m = a + r /\ m = b + s
    BY <1>1, <1>4, <2>2
  <2> HIDE DEF a, b, e
  <2> QED
    BY <1>4, <2>3
<1> QED
  BY <1>3, <1>4, <1>5 DEF d

\* Where a position is: its cluster, its sector there, its byte in the sector.
LEMMA Place ==
  ASSUME NEW p \in FIL
  PROVE  /\ p.fptr \div bcs \in Nat /\ p.fptr % SS \in 0 .. SS - 1 /\ SS * csect(p) \in Nat
         /\ SS * csect(p) + (p.fptr % SS) < bcs
         /\ SS * csect(p) + SS <= bcs
         /\ bcs * (p.fptr \div bcs) \in Nat
         /\ p.fptr = bcs * (p.fptr \div bcs) + SS * csect(p) + (p.fptr % SS)
<1>1. SS \in Nat \ {0} /\ csize \in Nat \ {0} /\ p.fptr \in Nat
  BY FatFsAssumption DEF FIL
<1> DEFINE a == p.fptr \div SS
           o == p.fptr % SS
           k == a \div csize
           s == a % csize
<1>2. a \in Nat /\ o \in 0 .. SS - 1 /\ p.fptr = SS * a + o
  BY <1>1, Division
<1> HIDE DEF a, o
<1>3. k \in Nat /\ s \in 0 .. csize - 1 /\ a = csize * k + s
  BY <1>1, <1>2, Division
<1> HIDE DEF k, s
<1>4. csect(p) = s
  BY DEF csect, a, s
<1>5. SS * a = bcs * k + SS * s /\ bcs * k \in Nat /\ SS * s \in Nat
  <2>1. SS * a = SS * (csize * k + s)
    BY <1>3
  <2>2. SS * (csize * k + s) = (csize * SS) * k + SS * s
    BY <1>1, <1>3, SMTT(30)
  <2>3. bcs * k \in Nat /\ SS * s \in Nat
    BY <1>1, <1>3, ClusterSize, SMTT(30)
  <2> QED
    BY <2>1, <2>2, <2>3, ClusterSize
<1>6. SS * s + SS <= bcs
  <2>1. PICK j \in Nat : csize = s + 1 + j
    <3>1. csize - s - 1 \in Nat /\ csize = s + 1 + (csize - s - 1)
      BY <1>1, <1>3
    <3> QED
      BY <3>1
  <2>2. csize * SS = SS * s + SS + SS * j /\ SS * j \in Nat
    BY <1>1, <1>3, <2>1, SMTT(30)
  <2> QED
    BY <1>1, <1>5, <2>2, ClusterSize
<1> DEFINE x == SS * s
           y == bcs * k
           z == SS * a
<1>7. x \in Nat /\ y \in Nat /\ z = y + x /\ x + SS <= bcs /\ p.fptr = z + o
  BY <1>2, <1>5, <1>6
<1>8. p.fptr = bcs * k + (x + o) /\ x + o \in 0 .. bcs - 1
  <2> HIDE DEF x, z
  <2>1. x + o \in 0 .. bcs - 1
    BY <1>1, <1>2, <1>7, ClusterSize
  <2>2. p.fptr = y + (x + o)
    <3> HIDE DEF y
    <3> QED
      BY <1>1, <1>2, <1>7
  <2> QED
    BY <2>1, <2>2
<1>9. p.fptr \div bcs = k
  <2> DEFINE r == x + o
  <2>1. r \in 0 .. bcs - 1 /\ p.fptr = bcs * k + r
    BY <1>8
  <2> HIDE DEF x, y, z, r
  <2> QED
    BY <1>1, <1>3, <2>1, QuotientIs, ClusterSize
<1>10. x + o < bcs /\ p.fptr = y + x + o
  <2> HIDE DEF x, y, z
  <2> QED
    BY <1>1, <1>2, <1>7, <1>8, ClusterSize
<1> QED
  BY <1>2, <1>3, <1>4, <1>7, <1>9, <1>10 DEF o

\* The cluster of the byte before the position.
Behind(n) == (n - 1) \div bcs

\* As long as it stays in the cluster, the position moves to the bytes before it.
LEMMA Advances ==
  ASSUME NEW p \in FIL, NEW n \in Nat \ {0},
         n <= bcs - SS * csect(p) - (p.fptr % SS)
  PROVE  Behind(p.fptr + n) = p.fptr \div bcs
<1> DEFINE k == p.fptr \div bcs
           x == SS * csect(p)
           o == p.fptr % SS
           y == bcs * k
           m == (p.fptr + n) - 1
<1>1. k \in Nat /\ o \in Nat /\ x \in Nat /\ y \in Nat /\ p.fptr = y + x + o
      /\ x + o < bcs /\ n <= bcs - x - o /\ bcs \in Nat \ {0}
  BY Place, ClusterSize, FatFsAssumption
<1> HIDE DEF k, x, o
<1>2. m \in Nat /\ x + o + n - 1 \in 0 .. bcs - 1 /\ m = y + (x + o + n - 1)
  <2> HIDE DEF y
  <2> QED
    BY <1>1
<1> HIDE DEF m
<1>3. m \div bcs = k
  BY <1>1, <1>2, QuotientIs
<1>4. Behind(p.fptr + n) = m \div bcs
  BY DEF Behind, m
<1> QED
  BY <1>3, <1>4 DEF k

\* Inside a cluster, the byte before the position is in the same one.
LEMMA Inside1 ==
  ASSUME NEW p \in FIL, p.fptr % SS # 0 \/ csect(p) # 0
  PROVE  p.fptr > 0 /\ Behind(p.fptr) = p.fptr \div bcs
<1> DEFINE k == p.fptr \div bcs
           x == SS * csect(p)
           o == p.fptr % SS
           y == bcs * k
           m == p.fptr - 1
<1>1. k \in Nat /\ o \in Nat /\ x \in Nat /\ y \in Nat /\ p.fptr = y + x + o
      /\ x + o < bcs /\ bcs \in Nat \ {0}
  BY Place, ClusterSize, FatFsAssumption
<1>2. x + o > 0
  <2>1. CASE o # 0
    <3> HIDE DEF x, o
    <3> QED
      BY <1>1, <2>1
  <2>2. CASE csect(p) # 0
    <3>1. csect(p) \in Nat \ {0} /\ SS \in Nat \ {0}
      BY <2>2, CsectType, FatFsAssumption
    <3>2. x > 0
      BY <3>1, SMTT(30)
    <3> HIDE DEF x, o
    <3> QED
      BY <1>1, <3>2
  <2> QED
    BY <2>1, <2>2
<1> HIDE DEF k, x, o
<1>3. p.fptr > 0 /\ m \in Nat /\ x + o - 1 \in 0 .. bcs - 1 /\ m = y + (x + o - 1)
  <2> HIDE DEF y
  <2> QED
    BY <1>1, <1>2
<1> HIDE DEF m
<1>4. m \div bcs = k
  BY <1>1, <1>3, QuotientIs
<1> QED
  BY <1>3, <1>4 DEF Behind, m, k

\* On a cluster boundary it is in the one before.
LEMMA Boundary ==
  ASSUME NEW p \in FIL, p.fptr % SS = 0, csect(p) = 0, p.fptr > 0
  PROVE  Behind(p.fptr) \in Nat /\ p.fptr \div bcs = Behind(p.fptr) + 1
<1> DEFINE k == p.fptr \div bcs
           y == bcs * k
           m == p.fptr - 1
<1>1. k \in Nat /\ y \in Nat /\ p.fptr = y /\ bcs \in Nat \ {0}
  <2>1. k \in Nat /\ y \in Nat /\ p.fptr = y + SS * 0 + 0 /\ bcs \in Nat \ {0}
    BY Place, ClusterSize, FatFsAssumption
  <2>2. SS * 0 = 0
    BY FatFsAssumption
  <2> HIDE DEF y, k
  <2> QED
    BY <2>1, <2>2
<1>2. k > 0
  <2> HIDE DEF k
  <2> SUFFICES ASSUME k = 0 PROVE FALSE
    BY <1>1
  <2>1. y = 0
    BY <1>1
  <2> QED
    BY <1>1, <2>1
<1> HIDE DEF k
<1>3. k - 1 \in Nat /\ bcs * (k - 1) + (bcs - 1) = y - 1 /\ bcs - 1 \in 0 .. bcs - 1
  BY <1>1, <1>2, SMTT(30)
<1>4. m \in Nat /\ m = bcs * (k - 1) + (bcs - 1)
  <2> DEFINE z == bcs * (k - 1)
  <2>1. z + (bcs - 1) = y - 1
    BY <1>3
  <2> HIDE DEF z, y
  <2>2. m = z + (bcs - 1)
    BY <1>1, <2>1
  <2> QED
    BY <1>1, <2>2 DEF z
<1> HIDE DEF m
<1>5. m \div bcs = k - 1
  BY <1>1, <1>3, <1>4, QuotientIs
<1> QED
  BY <1>1, <1>3, <1>5 DEF Behind, m, k

\* From the start of a cluster.
LEMMA FromStart ==
  ASSUME NEW k \in Nat, NEW n \in 1 .. bcs
  PROVE  /\ k * bcs \in Nat /\ (k * bcs) \div bcs = k /\ Behind(k * bcs + n) = k
         /\ (k * bcs + bcs) \div bcs = k + 1
<1> DEFINE y == bcs * k
           m == k * bcs + n - 1
<1>1. y \in Nat /\ k * bcs = y /\ bcs \in Nat \ {0} /\ k * bcs + bcs = bcs * (k + 1)
      /\ k + 1 \in Nat /\ bcs * (k + 1) \in Nat
  BY ClusterSize, SMTT(30)
<1>2. y = bcs * k + 0 /\ m = bcs * k + (n - 1) /\ m \in Nat /\ n - 1 \in 0 .. bcs - 1
      /\ 0 \in 0 .. bcs - 1
  <2> DEFINE w == k * bcs
  <2>1. w = y /\ m = w + n - 1
    BY <1>1
  <2> HIDE DEF w, y, m
  <2>2. m = y + (n - 1) /\ y = y + 0 /\ m \in Nat
    BY <1>1, <2>1, ClusterSize
  <2> QED
    BY <1>1, <2>2 DEF y
<1>3. y \div bcs = k
  <2> HIDE DEF y
  <2> QED
    BY <1>1, <1>2, QuotientIs
<1>4. m \div bcs = k
  <2> HIDE DEF m
  <2> QED
    BY <1>1, <1>2, QuotientIs
<1>5. (bcs * (k + 1)) \div bcs = k + 1
  <2> DEFINE x == bcs * (k + 1)
  <2>1. x \in Nat /\ x = bcs * (k + 1) + 0
    BY <1>1
  <2> HIDE DEF x
  <2> QED
    BY <1>1, <1>2, <2>1, QuotientIs DEF x
<1> QED
  BY <1>1, <1>3, <1>4, <1>5 DEF Behind

---------------------------------------------------------------------------
(* The buffer of a file.                                                   *)

\* The file's buffer is written, or not: no business of the FAT's.
LEMMA WriteBackType ==
  ASSUME NEW c \in Good
  PROVE  LET d == WriteBack(c)
         IN /\ d \in Good /\ Stays(c, d) /\ d.fp.err = c.fp.err /\ d.val = c.val
            /\ FatV(d) = FatV(c) /\ DirV(d) = DirV(c) /\ Quiet(c, d)
            /\ ~IsOk(d) => d.res = "FR_DISK_ERR" /\ d.hit
<1> DEFINE w == disk_write(c, Data(c.fp.dsect), c.fp.buf)
           p == [w.fp EXCEPT !.dirty = FALSE]
           x == WithFp(w, p)
<1>1. CASE ~c.fp.dirty
  <2>1. WriteBack(c) = Ok(c)
    BY <1>1 DEF WriteBack
  <2>2. Ok(c) \in Good /\ Kept(c, Ok(c)) /\ Over(Ok(c)) = Over(c) /\ IsOk(Ok(c))
        /\ Ok(c).val = c.val
    BY OkType DEF Good
  <2>3. Stays(c, Ok(c)) /\ Ok(c).fp = c.fp /\ Quiet(c, Ok(c))
    BY <2>2, SteadyStays, MovedQuiet, OkType DEF Kept, Steady, Good, Moved
  <2> QED
    BY <2>1, <2>2, <2>3, ViewsMoved
<1>2. CASE c.fp.dirty
  <2>1. c.fp.buf \in [0 .. SS - 1 -> Int]
    BY DEF Good, Ctx, FIL
  <2>2. /\ w \in Good /\ Kept(c, w) /\ w.val = c.val
        /\ FatV(w) = FatV(c) /\ DirV(w) = DirV(c) /\ Quiet(c, w)
        /\ ~IsOk(w) => w.res = "FR_DISK_ERR" /\ w.hit
    BY <2>1, DataWriteType
  <2>3. WriteBack(c) = IF IsOk(w) THEN x ELSE w
    BY <1>2 DEF WriteBack, Then, WithFp
  <2> HIDE DEF w
  <2>4. p \in FIL
    BY <2>2 DEF Good, Ctx, FIL
  <2>5. Stays(c, w) /\ w.fp = c.fp
    BY <2>2, SteadyStays DEF Kept, Steady
  <2>6. /\ p.fptr = w.fp.fptr /\ p.fsize = w.fp.fsize /\ p.sclust = w.fp.sclust
        /\ p.clust = w.fp.clust /\ p.written = w.fp.written /\ p.fs = w.fp.fs /\ p.id = w.fp.id
        /\ p.rd = w.fp.rd /\ p.wr = w.fp.wr /\ p.dir_ptr = w.fp.dir_ptr /\ p.err = w.fp.err
    BY <2>2 DEF Good, Ctx, FIL
  <2> HIDE DEF p
  <2>7. /\ x \in Good /\ Beside(w, x) /\ x.fp = p /\ x.val = w.val /\ x.res = w.res
        /\ Over(x) = Over(w) /\ FatV(x) = FatV(w) /\ Met(w, x) /\ (IsOk(x) <=> IsOk(w))
    BY <2>2, <2>4, WithFpType
  <2> HIDE DEF x
  <2>8. Stays(w, x) /\ DirV(x) = DirV(w) /\ Quiet(w, x)
    BY <2>6, <2>7, ViewsMoved, BesideQuiet DEF Stays, Filed, Beside
  <2> QED
    BY <2>2, <2>3, <2>5, <2>6, <2>7, <2>8, StaysTransitive, QuietTransitive
<1> QED
  BY <1>1, <1>2

\* A sector of data is loaded into the file's buffer, or not.
LEMMA LoadType ==
  ASSUME NEW c \in Good, NEW sect \in Sect, NEW read \in BOOLEAN
  PROVE  LET d == Load(c, sect, read)
         IN /\ d \in Good /\ Stays(c, d) /\ d.val = c.val
            /\ FatV(d) = FatV(c) /\ DirV(d) = DirV(c) /\ Quiet(c, d)
            /\ IsOk(d) => d.fp.err = c.fp.err
            /\ ~IsOk(d) => d.res = "FR_DISK_ERR" /\ d.fp.err = d.res
<1> DEFINE w == WriteBack(c)
           r == disk_read(w)
           Fill(d) == [d EXCEPT !.fp.dsect = sect,
                                !.fp.buf = IF read THEN d.sec[Data(sect)] ELSE @]
           f == IF IsOk(w) THEN IF read THEN IF IsOk(r) THEN Fill(r) ELSE r ELSE Fill(w) ELSE w
<1>1. CASE c.fp.dsect = sect
  <2>1. Load(c, sect, read) = Ok(c)
    BY <1>1 DEF Load
  <2>2. Ok(c) \in Good /\ Kept(c, Ok(c)) /\ Over(Ok(c)) = Over(c) /\ IsOk(Ok(c))
        /\ Ok(c).val = c.val
    BY OkType DEF Good
  <2>3. Stays(c, Ok(c)) /\ Ok(c).fp = c.fp /\ Quiet(c, Ok(c))
    BY <2>2, SteadyStays, MovedQuiet, OkType DEF Kept, Steady, Good, Moved
  <2> QED
    BY <2>1, <2>2, <2>3, ViewsMoved
<1>2. CASE c.fp.dsect # sect
  <2>1. Load(c, sect, read) = OrAbort(f)
    BY <1>2 DEF Load, Then
  <2>2. /\ w \in Good /\ Stays(c, w) /\ w.fp.err = c.fp.err /\ w.val = c.val
        /\ FatV(w) = FatV(c) /\ DirV(w) = DirV(c) /\ Quiet(c, w)
        /\ ~IsOk(w) => w.res = "FR_DISK_ERR" /\ w.hit
    BY WriteBackType
  <2> HIDE DEF w
  <2>3. /\ r \in Good /\ Stays(w, r) /\ r.fp.err = w.fp.err /\ r.val = w.val
        /\ FatV(r) = FatV(w) /\ DirV(r) = DirV(w) /\ Quiet(w, r)
        /\ ~IsOk(r) => r.res = "FR_DISK_ERR"
    <3>1. w \in Ctx
      BY <2>2 DEF Good
    <3>2. /\ r \in Ctx /\ Kept(w, r) /\ r.val = w.val /\ r.sec = w.sec
          /\ r.winsect = w.winsect /\ r.win = w.win /\ r.wflag = w.wflag
          /\ ~IsOk(r) => r.hit /\ r.res = "FR_DISK_ERR"
      BY <3>1, ReadType
    <3> HIDE DEF r
    <3>3. Stays(w, r) /\ r.fp = w.fp
      BY <3>2, SteadyStays DEF Kept, Steady
    <3>4. r \in Good /\ Over(r) = Over(w) /\ Quiet(w, r)
      BY <2>2, <3>2, BesideQuiet DEF Good, Coherent, Over
    <3> QED
      BY <3>2, <3>3, <3>4, ViewsMoved
  <2> HIDE DEF r
  <2>4. ASSUME NEW d \in Good
        PROVE  LET e == Fill(d)
               IN /\ e \in Good /\ Stays(d, e) /\ e.fp.err = d.fp.err /\ e.val = d.val
                  /\ FatV(e) = FatV(d) /\ DirV(e) = DirV(d) /\ Quiet(d, e) /\ e.res = d.res
    <3> DEFINE b == IF read THEN d.sec[Data(sect)] ELSE d.fp.buf
               p == [d.fp EXCEPT !.dsect = sect, !.buf = b]
               e == WithFp(d, p)
    <3>1. b \in [0 .. SS - 1 -> Int]
      <4>1. Data(sect) \in Sector
        BY SectorFacts DEF Sect
      <4>2. d.sec[Data(sect)] \in Content(Data(sect))
        BY <4>1 DEF Good, Ctx, Sectors
      <4> QED
        BY <4>2, Contents DEF Good, Ctx, FIL
    <3>2. Fill(d) = e
      BY DEF WithFp, Good, Ctx, FIL
    <3>3. sect \in Nat /\ d.fp \in FIL
      BY FatFsAssumption DEF Sect, Good, Ctx
    <3> HIDE DEF b
    <3>4. /\ p \in FIL /\ p.fptr = d.fp.fptr /\ p.fsize = d.fp.fsize /\ p.sclust = d.fp.sclust
          /\ p.clust = d.fp.clust /\ p.written = d.fp.written /\ p.fs = d.fp.fs /\ p.id = d.fp.id
          /\ p.rd = d.fp.rd /\ p.wr = d.fp.wr /\ p.dir_ptr = d.fp.dir_ptr /\ p.err = d.fp.err
      BY <3>1, <3>3 DEF FIL
    <3> HIDE DEF p
    <3>5. /\ e \in Good /\ Beside(d, e) /\ e.fp = p /\ e.val = d.val /\ e.res = d.res
          /\ Over(e) = Over(d) /\ FatV(e) = FatV(d) /\ Met(d, e)
      BY <3>4, WithFpType
    <3> HIDE DEF e, Fill
    <3>6. Stays(d, e) /\ DirV(e) = DirV(d) /\ Quiet(d, e)
      BY <3>4, <3>5, ViewsMoved, BesideQuiet DEF Stays, Filed, Beside
    <3> QED
      BY <3>2, <3>4, <3>5, <3>6
  <2> DEFINE fw == Fill(w)
             fr == Fill(r)
  <2>5. /\ fw \in Good /\ Stays(w, fw) /\ fw.fp.err = w.fp.err /\ fw.val = w.val
        /\ FatV(fw) = FatV(w) /\ DirV(fw) = DirV(w) /\ Quiet(w, fw) /\ fw.res = w.res
    <3> HIDE DEF Fill
    <3> QED
      BY <2>2, <2>4
  <2>6. /\ fr \in Good /\ Stays(r, fr) /\ fr.fp.err = r.fp.err /\ fr.val = r.val
        /\ FatV(fr) = FatV(r) /\ DirV(fr) = DirV(r) /\ Quiet(r, fr) /\ fr.res = r.res
    <3> HIDE DEF Fill
    <3> QED
      BY <2>3, <2>4
  <2>7. (f = w /\ ~IsOk(w)) \/ (f = r /\ ~IsOk(r)) \/ f = fr \/ f = fw
    OBVIOUS
  <2> HIDE DEF f, fw, fr, Fill
  <2>8. /\ f \in Good /\ Stays(c, f) /\ f.fp.err = c.fp.err /\ f.val = c.val /\ Quiet(c, f)
        /\ FatV(f) = FatV(c) /\ DirV(f) = DirV(c) /\ (~IsOk(f) => f.res = "FR_DISK_ERR")
    BY <2>2, <2>3, <2>5, <2>6, <2>7, StaysTransitive, QuietTransitive DEF IsOk
  <2> DEFINE o == OrAbort(f)
  <2>9. /\ o \in Good /\ Beside(f, o) /\ Stays(f, o) /\ o.res = f.res
        /\ Over(o) = Over(f) /\ FatV(o) = FatV(f) /\ o.val = f.val
        /\ IsOk(f) => IsOk(o) /\ o = f
        /\ ~IsOk(f) => ~IsOk(o) /\ o.fp.err = f.res
    BY <2>8, OrAbortType
  <2> HIDE DEF o
  <2>10. Stays(c, o) /\ DirV(o) = DirV(c) /\ Quiet(c, o)
    BY <2>8, <2>9, StaysTransitive, ViewsMoved, BesideQuiet, QuietTransitive DEF Beside
  <2> QED
    BY <2>1, <2>8, <2>9, <2>10 DEF o
<1> QED
  BY <1>1, <1>2
---------------------------------------------------------------------------
(* Clusters of a file.                                                     *)

\* The file p has the chain of entry i, if it is known to (i # 0): it begins with the file's
\* first cluster, and the current one belongs to it.  If the position is exact, the chain is
\* long enough for the file's size and the current cluster is that of the byte before the
\* position (q = 0) or of the one behind it (q = 1).
Fits(m, i, p, exact, q) ==
  i # 0 =>
    /\ m.hd[i] = p.sclust
    /\ exact => Holds(m, i, p.fsize)
    /\ p.err = "FR_OK" /\ (p.fptr > 0 \/ q = 1) =>
         /\ q = 0 => p.clust \in Cluster
         /\ p.clust \in Cluster =>
              /\ m.own[p.clust] = i
              /\ exact => m.pos[p.clust] = IF q = 0 THEN Behind(p.fptr) ELSE p.fptr \div bcs

\* A function on an open file: no chain becomes shorter, only the file's may become longer,
\* and it is still the file's.
Extends(c, q, d, r) ==
  \A m \in Chart, i \in 0 .. n_rootdir, exact \in BOOLEAN :
    Charted(FatV(c), m) /\ Fits(m, i, c.fp, exact, q) =>
      /\ Through(c, d, Grown(m, i, DirV(c)))
      /\ \E n \in Chart : Charted(FatV(d), n) /\ Grows(m, n, i) /\ Fits(n, i, d.fp, exact, r)

\* Extends, for two functions in a row.
LEMMA ExtendsTransitive ==
  ASSUME NEW c \in Good, NEW d \in Good, NEW e \in Good, NEW q, NEW r, NEW s,
         Extends(c, q, d, r), Extends(d, r, e, s)
  PROVE  Extends(c, q, e, s)
<1> SUFFICES ASSUME NEW m \in Chart, NEW i \in 0 .. n_rootdir, NEW exact \in BOOLEAN,
                    Charted(FatV(c), m), Fits(m, i, c.fp, exact, q)
             PROVE  /\ Through(c, e, Grown(m, i, DirV(c)))
                    /\ \E n \in Chart : /\ Charted(FatV(e), n) /\ Grows(m, n, i)
                                        /\ Fits(n, i, e.fp, exact, s)
  BY DEF Extends
<1>1. Through(c, d, Grown(m, i, DirV(c)))
  BY DEF Extends
<1>2. PICK n \in Chart : Charted(FatV(d), n) /\ Grows(m, n, i) /\ Fits(n, i, d.fp, exact, r)
  BY DEF Extends
<1>3. Through(d, e, Grown(n, i, DirV(d)))
  BY <1>2 DEF Extends
<1>4. PICK o \in Chart : Charted(FatV(e), o) /\ Grows(n, o, i) /\ Fits(o, i, e.fp, exact, s)
  BY <1>2 DEF Extends
<1>5. DirV(d) = DirV(c)
  BY <1>1, TableType DEF Through, Grown
<1>6. Grown(n, i, DirV(d)) \subseteq Grown(m, i, DirV(c))
  BY <1>2, <1>5, GrownLater
<1>7. Through(c, e, Grown(m, i, DirV(c)))
  BY <1>1, <1>3, <1>6, ThroughLarger, ThroughTransitive
<1>8. Grows(m, o, i)
  BY <1>2, <1>4, GrowsTransitive
<1> QED
  BY <1>4, <1>7, <1>8

\* Where the tables stay, only the file object matters.
LEMMA QuietExtends ==
  ASSUME NEW c \in Good, NEW d \in Good, Quiet(c, d), NEW q, NEW r,
         \A m \in Chart, i \in Label, exact \in BOOLEAN :
           Charted(FatV(c), m) /\ Fits(m, i, c.fp, exact, q) => Fits(m, i, d.fp, exact, r)
  PROVE  Extends(c, q, d, r)
<1>1. /\ TableV(c) \in Tables /\ TableV(c).fat = FatV(c) /\ TableV(c).dir = DirV(c)
      /\ FatV(d) = FatV(c)
  BY TableType DEF Quiet
<1> SUFFICES ASSUME NEW m \in Chart, NEW i \in 0 .. n_rootdir, NEW exact \in BOOLEAN,
                    Charted(FatV(c), m), Fits(m, i, c.fp, exact, q)
             PROVE  /\ Through(c, d, Grown(m, i, DirV(c)))
                    /\ \E n \in Chart : /\ Charted(FatV(d), n) /\ Grows(m, n, i)
                                        /\ Fits(n, i, d.fp, exact, r)
  BY DEF Extends
<1>2. Grows(m, m, i)
  BY GrowsReflexive
<1>3. Through(c, d, Grown(m, i, DirV(c)))
  BY <1>1, <1>2, QuietThrough DEF Grown
<1>4. Fits(m, i, d.fp, exact, r)
  <2>1. CASE i \in Label
    BY <2>1
  <2>2. CASE i = 0
    BY <2>2 DEF Fits
  <2> QED
    BY <2>1, <2>2, FatFsAssumption DEF Label
<1> QED
  BY <1>1, <1>2, <1>3, <1>4

\* The file's size and chain stay, and whether it is to be synced.
SameChain(p, o) ==
  /\ o.sclust = p.sclust /\ o.fsize = p.fsize /\ o.written = p.written
  /\ o.err = "FR_OK" => p.err = "FR_OK"

\* The file's position stays, or the file is given up.
LEMMA StaysExtends ==
  ASSUME NEW c \in Good, NEW d \in Good, Quiet(c, d), SameChain(c.fp, d.fp), NEW q, NEW r,
         d.fp.err = "FR_OK" => d.fp.fptr = c.fp.fptr /\ d.fp.clust = c.fp.clust /\ r = q
  PROVE  Extends(c, q, d, r)
<1>1. ASSUME NEW m \in Chart, NEW i \in Label, NEW exact \in BOOLEAN, Fits(m, i, c.fp, exact, q)
      PROVE  Fits(m, i, d.fp, exact, r)
  BY <1>1, FatFsAssumption DEF Fits, SameChain, Label
<1> QED
  BY <1>1, QuietExtends

\* From where the position may move on: the current cluster is the one it is in.
Going(p, q) == \/ q = 1 /\ p.clust \in Cluster
               \/ q = 0 /\ (p.fptr % SS # 0 \/ csect(p) # 0)

\* The position moves on in its cluster.
LEMMA AdvancesExtends ==
  ASSUME NEW c \in Good, NEW d \in Good, Quiet(c, d), SameChain(c.fp, d.fp),
         NEW q, Going(c.fp, q),
         NEW n \in Nat \ {0}, n <= bcs - SS * csect(c.fp) - (c.fp.fptr % SS),
         d.fp.fptr = c.fp.fptr + n, d.fp.clust = c.fp.clust
  PROVE  Extends(c, q, d, 0)
<1>1. c.fp \in FIL
  BY DEF Good, Ctx
<1>2. Behind(d.fp.fptr) = c.fp.fptr \div bcs /\ d.fp.fptr > 0
  BY <1>1, Advances DEF FIL
<1>3. q = 0 => c.fp.fptr > 0 /\ Behind(c.fp.fptr) = c.fp.fptr \div bcs
  BY <1>1, Inside1 DEF Going
<1>4. ASSUME NEW m \in Chart, NEW i \in Label, NEW exact \in BOOLEAN, Fits(m, i, c.fp, exact, q)
      PROVE  Fits(m, i, d.fp, exact, 0)
  <2>1. CASE q = 1 /\ c.fp.clust \in Cluster
    BY <1>2, <1>4, <2>1 DEF Fits, SameChain
  <2>2. CASE q = 0
    BY <1>2, <1>3, <1>4, <2>2 DEF Fits, SameChain
  <2> QED
    BY <2>1, <2>2 DEF Going
<1> QED
  BY <1>4, QuietExtends

\* Inside a cluster, the bytes before and behind the position are in the same one.
LEMMA InsideExtends ==
  ASSUME NEW c \in Good, c.fp.fptr % SS # 0 \/ csect(c.fp) # 0
  PROVE  Extends(c, 0, c, 1)
<1>1. c.fp.fptr > 0 /\ Behind(c.fp.fptr) = c.fp.fptr \div bcs
  BY Inside1 DEF Good, Ctx
<1>2. ASSUME NEW m \in Chart, NEW i \in Label, NEW exact \in BOOLEAN, Fits(m, i, c.fp, exact, 0)
      PROVE  Fits(m, i, c.fp, exact, 1)
  BY <1>1, <1>2 DEF Fits
<1> QED
  BY <1>2, QuietExtends DEF Quiet

\* A file with a position in it has a first cluster, and a current one.
Rooted(p) == p.sclust # 0 /\ p.clust # 0

\* A file without an error that is not at its beginning has clusters.
Headed(p) == p.err = "FR_OK" /\ p.fptr > 0 => Rooted(p)

\* What makes a file unusable.
Errors == {"FR_DISK_ERR", "FR_INT_ERR"}

\* A function on an open file: what it was opened as stays, and it is refused after an
\* error.
Handled(c) == {d \in Good : /\ Filed(c, d) /\ Headed(d.fp)
                            /\ c.fp.written => d.fp.written
                            /\ IsOk(d) => d.fp.err = "FR_OK"}

\* Neither what an error returns nor the end of a chain is a cluster.
LEMMA OnesNoCluster ==
  /\ 0 \notin Cluster /\ 1 \notin Cluster /\ Ones \notin Cluster /\ EOC \notin Cluster
  /\ Cluster \subseteq FatEntry /\ Cluster \subseteq Nat /\ EOC \in FatEntry
BY FatFsAssumption DEF Cluster, Ones, n_fatent, EOC, FatEntry

\* ABORT is an error.
LEMMA AbortIsNotOk ==
  ASSUME NEW c \in Good, NEW r \in Errors
  PROVE  ~IsOk(Abort(c, r))
<1>1. r \in Res /\ r # "FR_OK"
  BY DEF Errors, Res
<1> QED
  BY <1>1, AbortType

\* The file goes on to the cluster returned; it is full if there is none, and ends with
\* an error if what the FAT holds is no cluster.
LEMMA FollowType ==
  ASSUME NEW c \in Good, c.val \in {0, 1, Ones} \cup FatEntry, c.fp.err = "FR_OK", Headed(c.fp),
         c.fp.sclust = 0 => c.val \in {0, 1, Ones} \cup Cluster
  PROVE  LET d == Follow(c)
         IN /\ d \in Handled(c) /\ FatV(d) = FatV(c) /\ d.fp.fptr = c.fp.fptr
            /\ d.fp.fsize = c.fp.fsize /\ d.fp.written = c.fp.written /\ Quiet(c, d)
            /\ IsOk(d) <=> c.val \notin {0, 1, Ones}
            /\ IsOk(d) => Rooted(d.fp) /\ d.fp.clust = c.val
            /\ IsOk(d) => d.fp.sclust = IF c.fp.sclust = 0 THEN c.val ELSE c.fp.sclust
            /\ ~IsOk(d) => d.fp.sclust = c.fp.sclust
            /\ ~IsOk(d) => \/ d.res = "full" /\ c.val = 0 /\ d.fp = c.fp
                           \/ d.res \in Errors /\ d.fp.err = d.res
<1>1. /\ "full" \in Res /\ "FR_INT_ERR" \in Res /\ "FR_DISK_ERR" \in Res /\ "FR_OK" \notin Errors
      /\ "full" # "FR_OK"
  BY DEF Res, Errors
<1>2. 0 # 1 /\ Ones # 0 /\ Ones # 1 /\ 0 \notin Cluster /\ Cluster \subseteq FatEntry
  BY FatFsAssumption DEF Ones, n_fatent, Cluster, FatEntry, EOC
<1>3. CASE c.val = 0
  <2>1. Follow(c) = Failed(c, "full")
    BY <1>3 DEF Follow
  <2> DEFINE f == Failed(c, "full")
  <2>2. /\ f \in Good /\ ~IsOk(f) /\ Kept(c, f) /\ Over(f) = Over(c) /\ f.res = "full"
    BY <1>1, FailedType DEF Good
  <2> HIDE DEF f
  <2>3. Filed(c, f) /\ f.fp = c.fp /\ FatV(f) = FatV(c) /\ f.sec = c.sec
    BY <1>1, <2>2, SteadyStays, ViewsMoved, FailedType DEF Kept, Steady, f, Good
  <2> QED
    BY <1>2, <1>3, <2>1, <2>2, <2>3, BesideQuiet DEF Handled, f
<1>4. ASSUME NEW r \in Errors
      PROVE  LET d == Abort(c, r)
             IN /\ d \in Handled(c) /\ FatV(d) = FatV(c) /\ d.fp.fptr = c.fp.fptr
                /\ d.fp.fsize = c.fp.fsize /\ d.fp.sclust = c.fp.sclust
                /\ d.fp.written = c.fp.written
                /\ ~IsOk(d) /\ d.res \in Errors /\ d.fp.err = d.res /\ Quiet(c, d)
  <2>1. r \in Res /\ r # "FR_OK"
    BY <1>1 DEF Errors
  <2> DEFINE d == Abort(c, r)
  <2>2. /\ d \in Good /\ Stays(c, d) /\ d.fp.err = r /\ d.res = r /\ FatV(d) = FatV(c)
        /\ ~IsOk(d) /\ Quiet(c, d)
    BY <2>1, AbortType, BesideQuiet DEF Beside
  <2> HIDE DEF d
  <2> QED
    BY <2>1, <2>2 DEF Handled, Headed, Rooted, Stays, d
<1>5. CASE c.val = 1
  <2>1. Follow(c) = Abort(c, "FR_INT_ERR")
    BY <1>2, <1>5 DEF Follow
  <2> QED
    BY <1>4, <1>5, <2>1 DEF Errors
<1>6. CASE c.val = Ones
  <2>1. Follow(c) = Abort(c, "FR_DISK_ERR")
    BY <1>2, <1>6 DEF Follow
  <2> QED
    BY <1>4, <1>6, <2>1 DEF Errors
<1>7. CASE c.val \notin {0, 1, Ones}
  <2> DEFINE h == IF c.fp.sclust = 0 THEN c.val ELSE c.fp.sclust
             v == c.val
             p == [c.fp EXCEPT !.clust = v, !.sclust = h]
             e == WithFp(c, p)
             o == Ok(e)
  <2>1. Follow(c) = o
    BY <1>7, ZenonT(60) DEF Follow, WithFp, Good, Ctx, FIL
  <2>2. v \in 0 .. EOC /\ v # 0 /\ h \in Cluster /\ h # 0 /\ c.fp \in FIL
    <3>1. v # 0
      BY <1>7
    <3> QED
      BY <3>1, <1>2, <1>7, FatFsAssumption, SMTT(60) DEF FatEntry, EOC, n_fatent, Good, Ctx, FIL
  <2> HIDE DEF v, h
  <2>3. /\ p \in FIL /\ p.fptr = c.fp.fptr /\ p.fsize = c.fp.fsize /\ p.sclust = h
        /\ p.clust = v /\ p.written = c.fp.written
        /\ p.fs = c.fp.fs /\ p.id = c.fp.id /\ p.err = c.fp.err
        /\ p.rd = c.fp.rd /\ p.wr = c.fp.wr /\ p.dir_ptr = c.fp.dir_ptr
    BY <2>2 DEF FIL
  <2> HIDE DEF p
  <2>4. e \in Good /\ Beside(c, e) /\ e.fp = p /\ Over(e) = Over(c) /\ Met(c, e)
    BY <2>3, WithFpType
  <2> HIDE DEF e
  <2>5. o \in Good /\ Kept(e, o) /\ Over(o) = Over(e) /\ IsOk(o) /\ o.sec = e.sec
    BY <2>4, OkType DEF Good
  <2> HIDE DEF o
  <2>6. Filed(c, o) /\ o.fp = p /\ FatV(o) = FatV(c) /\ Quiet(c, o)
    BY <2>3, <2>4, <2>5, ViewsMoved, BesideQuiet DEF Kept, Steady, Beside, Filed, Met
  <2> QED
    BY <1>7, <2>1, <2>2, <2>3, <2>5, <2>6 DEF Handled, Headed, Rooted, v, h
<1> QED
  BY <1>3, <1>5, <1>6, <1>7

---------------------------------------------------------------------------
(* Reading.                                                                *)

\* A read goes on, not behind the goal.
Reading(c, goal) ==
  {d \in Handled(c) : d.fp.fptr <= goal /\ SameChain(c.fp, d.fp) /\ Extends(c, 0, d, 0)}

\* A read takes bytes of the buffer.
LEMMA PickType ==
  ASSUME NEW c \in Good, c.fp.err = "FR_OK",
         NEW btr \in Nat, Rooted(c.fp), IsOk(c)
  PROVE  LET d == Pick(c, btr)
         IN /\ d \in Handled(c) /\ d.fp.fptr <= c.fp.fptr + btr /\ SameChain(c.fp, d.fp)
            /\ \A q : Going(c.fp, q) /\ btr # 0 => Extends(c, q, d, 0)
<1> DEFINE o == c.fp.fptr % SS
           n == Least(SS - o, btr)
           bytes == [i \in 1 .. n |-> c.fp.buf[o + i - 1]]
           t == c.out \o bytes
           q == c.fp.fptr + n
           p == [c.fp EXCEPT !.fptr = q]
           d == Pick(c, btr)
<1>1. c \in Ctx /\ c.fp \in FIL /\ c.fp.fptr \in Nat /\ SS \in Nat \ {0}
  BY FatFsAssumption DEF Good, Ctx, FIL
<1>2. o \in 0 .. SS - 1
  BY <1>1, Division
<1>3. d = [c EXCEPT !.out = t, !.fp = p]
  BY <1>1 DEF Pick, Ctx, FIL
<1> HIDE DEF o, d
<1>4. n \in Nat /\ n <= btr /\ n <= SS - o /\ (btr # 0 => n # 0)
  <2>1. SS - o \in Nat \ {0}
    BY <1>1, <1>2
  <2> QED
    BY <2>1 DEF Least
<1> HIDE DEF n
<1>5. bytes \in Seq(Int)
  <2>1. \A i \in 1 .. n : o + i - 1 \in 0 .. SS - 1
    BY <1>1, <1>2, <1>4
  <2>2. c.fp.buf \in [0 .. SS - 1 -> Int]
    BY <1>1 DEF FIL
  <2>3. bytes \in [1 .. n -> Int]
    BY <2>1, <2>2
  <2> HIDE DEF bytes
  <2> QED
    BY <1>4, <2>3
<1> HIDE DEF bytes
<1>6. t \in Seq(Int)
  BY <1>1, <1>5 DEF Ctx
<1> HIDE DEF t
<1>7. q \in Nat /\ q <= c.fp.fptr + btr
  BY <1>1, <1>4
<1> HIDE DEF q
<1>8. /\ p \in FIL /\ p.fptr = q /\ p.sclust = c.fp.sclust /\ p.clust = c.fp.clust
      /\ p.err = c.fp.err /\ p.fsize = c.fp.fsize /\ p.written = c.fp.written
      /\ p.fs = c.fp.fs /\ p.id = c.fp.id
      /\ p.rd = c.fp.rd /\ p.wr = c.fp.wr /\ p.dir_ptr = c.fp.dir_ptr
  BY <1>1, <1>7 DEF FIL
<1> HIDE DEF p
<1>9. d \in Ctx /\ Beside(c, d) /\ d.fp = p /\ d.res = c.res
  BY <1>1, <1>3, <1>6, <1>8 DEF Ctx, Beside
<1>10. d \in Good /\ Met(c, d)
  BY <1>9, BesideType
<1>11. Filed(c, d)
  BY <1>8, <1>9, <1>10 DEF Filed, Beside
<1>12. SameChain(c.fp, d.fp) /\ Quiet(c, d)
  BY <1>8, <1>9, <1>10, BesideType, BesideQuiet DEF SameChain, Beside
<1>13. ASSUME NEW r, Going(c.fp, r), btr # 0
       PROVE  Extends(c, r, d, 0)
  <2>1. n \in Nat \ {0} /\ n <= bcs - SS * csect(c.fp) - (c.fp.fptr % SS)
    <3> DEFINE x == SS * csect(c.fp)
    <3>1. x \in Nat /\ x + SS <= bcs /\ bcs \in Nat
      BY <1>1, Place, ClusterSize
    <3> HIDE DEF x
    <3>2. n <= bcs - x - o
      BY <1>1, <1>2, <1>4, <3>1
    <3> QED
      BY <1>4, <1>13, <3>2 DEF x, o
  <2>2. d.fp.fptr = c.fp.fptr + n /\ d.fp.clust = c.fp.clust
    BY <1>8, <1>9 DEF q
  <2> QED
    BY <1>10, <1>12, <1>13, <2>1, <2>2, AdvancesExtends
<1> QED
  BY <1>7, <1>8, <1>9, <1>10, <1>11, <1>12, <1>13 DEF Handled, Headed, Rooted, d

\* A read takes whole sectors.
LEMMA ReadDirectType ==
  ASSUME NEW c \in Good, IsOk(c), c.fp.err = "FR_OK", c.fp.clust \in Cluster, Rooted(c.fp),
         NEW cc \in Nat, cc <= csize - csect(c.fp), NEW btr \in Nat, cc <= btr \div SS
  PROVE  LET d == ReadDirect(c, cc)
         IN /\ d \in Handled(c) /\ d.fp.fptr <= c.fp.fptr + btr /\ SameChain(c.fp, d.fp)
            /\ c.fp.fptr % SS = 0 /\ cc > 0 => Extends(c, 1, d, 0)
<1> DEFINE s(i) == sector(c.fp) + (i - 1) \div SS
           byte(i) == IF c.fp.dirty /\ c.fp.dsect = s(i) THEN c.fp.buf[(i - 1) % SS]
                      ELSE c.sec[Data(s(i))][(i - 1) % SS]
           m == cc * SS
           bytes == [i \in 1 .. m |-> byte(i)]
           r == disk_read(c)
           t == r.out \o bytes
           q == r.fp.fptr + m
           p == [r.fp EXCEPT !.fptr = q]
           x == [r EXCEPT !.out = t, !.fp = p]
           f == IF IsOk(r) THEN x ELSE r
<1>1. c \in Ctx /\ c.fp \in FIL /\ c.fp.fptr \in Nat /\ SS \in Nat \ {0}
  BY FatFsAssumption DEF Good, Ctx, FIL
<1>2. m \in Nat /\ m <= btr
  BY <1>1, Multiples
<1>3. /\ r \in Good /\ Kept(c, r) /\ (~IsOk(r) => r.res = "FR_DISK_ERR") /\ Quiet(c, r)
  <2>1. /\ r \in Ctx /\ Kept(c, r) /\ r.val = c.val /\ r.sec = c.sec
        /\ r.winsect = c.winsect /\ r.win = c.win /\ r.wflag = c.wflag
        /\ ~IsOk(r) => r.hit /\ r.res = "FR_DISK_ERR"
    BY <1>1, ReadType
  <2> HIDE DEF r
  <2> QED
    BY <2>1, BesideQuiet DEF Good, Coherent, Over
<1>4. ReadDirect(c, cc) = OrAbort(f)
  <2>1. r \in Ctx /\ r.fp \in FIL
    BY <1>3 DEF Good, Ctx
  <2> HIDE DEF r
  <2>2. x = [r EXCEPT !.out = @ \o bytes, !.fp.fptr = @ + m]
    BY <2>1 DEF Ctx, FIL
  <2> HIDE DEF x
  <2> QED
    BY <2>2 DEF ReadDirect, Then, r
<1>5. r.fp = c.fp /\ r.out = c.out /\ Filed(c, r)
  BY <1>3, SteadyStays DEF Kept, Steady
<1> HIDE DEF r
<1>6. bytes \in Seq(Int)
  <2>1. ASSUME NEW i \in 1 .. m PROVE byte(i) \in Int
    <3>1. i - 1 \in Nat /\ i - 1 < cc * SS
      BY <1>2
    <3>2. (i - 1) % SS \in 0 .. SS - 1 /\ (i - 1) \div SS \in Nat
      BY <1>1, <3>1, Division
    <3>3. (i - 1) \div SS < cc
      BY <1>1, <3>1, Quotient
    <3>4. s(i) \in Sect
      <4> DEFINE j == csect(c.fp) + (i - 1) \div SS
      <4>1. csect(c.fp) \in 0 .. csize - 1
        BY <1>1, CsectType
      <4>2. j \in 0 .. csize - 1
        BY <3>2, <3>3, <4>1, FatFsAssumption
      <4>3. clust2sect(c.fp.clust) + j \in Sect /\ clust2sect(c.fp.clust) \in Nat
        BY <4>2, SectorType
      <4>4. s(i) = clust2sect(c.fp.clust) + j
        BY <3>2, <4>1, <4>3 DEF sector
      <4> QED
        BY <4>3, <4>4
    <3> DEFINE u == s(i)
               k == (i - 1) % SS
    <3>5. u \in Sect /\ k \in 0 .. SS - 1
      BY <3>2, <3>4
    <3>6. byte(i) = IF c.fp.dirty /\ c.fp.dsect = u THEN c.fp.buf[k] ELSE c.sec[Data(u)][k]
      OBVIOUS
    <3> HIDE DEF u, k, byte
    <3>7. c.fp.buf \in [0 .. SS - 1 -> Int]
      BY <1>1 DEF FIL
    <3>8. Data(u) \in Sector
      BY <3>5, SectorFacts DEF Sect
    <3>9. c.sec[Data(u)] \in Content(Data(u))
      BY <1>1, <3>8 DEF Ctx, Sectors
    <3>10. c.sec[Data(u)] \in [0 .. SS - 1 -> Int]
      BY <3>9, Contents
    <3> QED
      BY <3>5, <3>6, <3>7, <3>10
  <2> HIDE DEF byte, m
  <2>2. bytes \in [1 .. m -> Int]
    BY <2>1
  <2> HIDE DEF bytes
  <2> QED
    BY <1>2, <2>2
<1> HIDE DEF bytes, m
<1>7. t \in Seq(Int) /\ q \in Nat /\ q <= c.fp.fptr + btr
  BY <1>1, <1>2, <1>5, <1>6, SMTT(60) DEF Ctx
<1> HIDE DEF t, q
<1>8. /\ p \in FIL /\ p.fptr = q /\ p.sclust = c.fp.sclust /\ p.clust = c.fp.clust
      /\ p.err = c.fp.err /\ p.fsize = c.fp.fsize /\ p.written = c.fp.written
      /\ p.fs = c.fp.fs /\ p.id = c.fp.id
      /\ p.rd = c.fp.rd /\ p.wr = c.fp.wr /\ p.dir_ptr = c.fp.dir_ptr
  BY <1>1, <1>5, <1>7 DEF FIL
<1> HIDE DEF p
<1>9. x \in Ctx /\ Beside(r, x) /\ x.fp = p /\ x.res = r.res
  BY <1>3, <1>7, <1>8 DEF Good, Ctx, Beside
<1> HIDE DEF x
<1>10. x \in Good /\ Met(r, x) /\ Quiet(c, x)
  BY <1>3, <1>9, BesideType, BesideQuiet, QuietTransitive DEF Beside
<1>11. Filed(c, x)
  BY <1>5, <1>8, <1>9, <1>10 DEF Filed, Beside, Met
<1>12. /\ f \in Good /\ Filed(c, f) /\ f.fp.err = "FR_OK" /\ Rooted(f.fp)
       /\ f.fp.fptr <= c.fp.fptr + btr /\ (~IsOk(f) => f.res = "FR_DISK_ERR")
       /\ Quiet(c, f) /\ f.fp.sclust = c.fp.sclust /\ f.fp.fsize = c.fp.fsize
       /\ f.fp.written = c.fp.written
       /\ IsOk(f) => f.fp.fptr = q /\ f.fp.clust = c.fp.clust
  <2>1. CASE IsOk(r)
    BY <1>3, <1>7, <1>8, <1>9, <1>10, <1>11, <2>1 DEF IsOk, Rooted
  <2>2. CASE ~IsOk(r)
    <3>1. c.fp.fptr <= c.fp.fptr + btr
      BY <1>1
    <3> QED
      BY <1>3, <1>5, <2>2, <3>1
  <2> QED
    BY <2>1, <2>2
<1> HIDE DEF f
<1> DEFINE o == OrAbort(f)
<1>13. /\ o \in Good /\ Stays(f, o) /\ o.res = f.res /\ Beside(f, o) /\ Over(o) = Over(f)
       /\ IsOk(f) => IsOk(o) /\ o = f
       /\ ~IsOk(f) => ~IsOk(o) /\ o.fp.err = f.res
  BY <1>12, OrAbortType
<1> HIDE DEF o
<1>14. Filed(c, o) /\ o.fp.fptr = f.fp.fptr
  BY <1>12, <1>13, FiledTransitive DEF Stays, Rooted
<1>15. Headed(o.fp) /\ (IsOk(o) => o.fp.err = "FR_OK")
  BY <1>12, <1>13 DEF Headed, Rooted
<1>16. Quiet(c, o) /\ SameChain(c.fp, o.fp)
  BY <1>12, <1>13, BesideQuiet, QuietTransitive DEF SameChain, Stays, Beside
<1>17. ASSUME c.fp.fptr % SS = 0, cc > 0
       PROVE  Extends(c, 1, o, 0)
  <2>1. CASE IsOk(f)
    <3>1. m \in Nat \ {0} /\ m <= bcs - SS * csect(c.fp) - (c.fp.fptr % SS)
      <4> DEFINE j == csize - csect(c.fp) - cc
                 y == SS * csect(c.fp)
                 z == SS * j
      <4>1. csect(c.fp) \in Nat /\ j \in Nat /\ csize = csect(c.fp) + cc + j
        BY <1>1, CsectType, FatFsAssumption
      <4> HIDE DEF j
      <4>2. bcs = y + m + z /\ z \in Nat /\ y \in Nat /\ m # 0
        BY <1>1, <1>17, <4>1, ClusterSize, SMTT(60) DEF m
      <4> HIDE DEF y, z
      <4>3. m <= bcs - y - 0
        BY <1>2, <4>2
      <4> QED
        BY <1>2, <1>17, <4>2, <4>3 DEF y
    <3>2. o.fp.fptr = c.fp.fptr + m /\ o.fp.clust = c.fp.clust
      BY <1>5, <1>12, <1>13, <2>1 DEF q
    <3>3. Going(c.fp, 1)
      BY DEF Going
    <3> QED
      BY <1>13, <1>16, <3>1, <3>2, <3>3, AdvancesExtends
  <2>2. CASE ~IsOk(f)
    <3>1. o.fp.err # "FR_OK"
      BY <1>12, <1>13, <2>2
    <3> QED
      BY <1>13, <1>16, <3>1, StaysExtends
  <2> QED
    BY <2>1, <2>2
<1> QED
  BY <1>4, <1>12, <1>13, <1>14, <1>15, <1>16, <1>17 DEF Handled, SameChain, o

\* Handled, for two functions in a row.
LEMMA HandledTransitive ==
  ASSUME NEW c, NEW d \in Handled(c), NEW e \in Handled(d)
  PROVE  e \in Handled(c)
<1> QED
  BY FiledTransitive DEF Handled

\* A read at the beginning of a cluster follows the chain.
LEMMA ReadClusterType ==
  ASSUME NEW c \in Good, IsOk(c), c.fp.err = "FR_OK", Headed(c.fp), c.fp.fptr % SS = 0
  PROVE  LET d == ReadCluster(c)
         IN /\ d \in Handled(c) /\ d.fp.fptr = c.fp.fptr /\ (IsOk(d) => Rooted(d.fp))
            /\ SameChain(c.fp, d.fp) /\ Extends(c, 0, d, 1)
            /\ ~IsOk(d) => Extends(c, 0, d, 0)
<1> DEFINE b == IF c.fp.fptr = 0 THEN [c EXCEPT !.val = c.fp.sclust] ELSE get_fat(c, c.fp.clust)
           v == IF b.val = 0 THEN 1 ELSE b.val
           g == [b EXCEPT !.val = v]
           f == Follow(g)
<1>1. c \in Ctx /\ c.fp \in FIL /\ c.fp.fptr \in Nat /\ c.fp.sclust \in Cluster \cup {0}
  BY DEF Good, Ctx, FIL
<1>2. CASE csect(c.fp) # 0
  <2>1. ReadCluster(c) = c
    BY <1>2 DEF ReadCluster
  <2>2. Rooted(c.fp)
    BY <1>1, <1>2, CsectType DEF Headed, Rooted
  <2> QED
    BY <1>2, <2>1, <2>2, InsideExtends DEF Handled, Filed, Met, SameChain
<1>3. CASE csect(c.fp) = 0
  <2>1. ReadCluster(c) = f
    BY <1>3 DEF ReadCluster
  <2>2. /\ 0 \notin Cluster /\ Cluster \subseteq FatEntry /\ Cluster \subseteq Nat /\ 0 \in Int
        /\ 1 \in Int /\ Ones \in Int /\ \A x \in FatEntry : x \in Int
    BY FatFsAssumption DEF Ones, n_fatent, Cluster, FatEntry, EOC
  <2>3. /\ b \in Good /\ Moved(c, b) /\ b.val \in {0, 1, Ones} \cup FatEntry
        /\ c.fp.fptr = 0 => b.val = c.fp.sclust
        /\ c.fp.fptr # 0 /\ c.fp.clust \in Cluster /\ b.val \in Cluster =>
             b.val = FatV(c)[c.fp.clust]
    <3>1. CASE c.fp.fptr = 0
      <4>1. b = [c EXCEPT !.val = c.fp.sclust] /\ c.fp.sclust \in Int
        BY <1>1, <2>2, <3>1
      <4> QED
        BY <1>1, <2>2, <4>1, <3>1, ValType
    <3>2. CASE c.fp.fptr # 0
      <4> DEFINE e == get_fat(c, c.fp.clust)
      <4>1. /\ e \in Good /\ Moved(c, e)
            /\ c.fp.clust \notin Cluster => e.val = 1
            /\ c.fp.clust \in Cluster /\ IsOk(e) =>
                 e.val = FatV(c)[c.fp.clust] /\ e.val \in FatEntry
            /\ c.fp.clust \in Cluster /\ ~IsOk(e) => e.val = Ones
        BY GetFatType
      <4>0. b = e
        BY <3>2
      <4> HIDE DEF b, e
      <4>2. /\ b \in Good /\ Moved(c, b)
            /\ c.fp.clust \notin Cluster => b.val = 1
            /\ c.fp.clust \in Cluster /\ IsOk(b) =>
                 b.val = FatV(c)[c.fp.clust] /\ b.val \in FatEntry
            /\ c.fp.clust \in Cluster /\ ~IsOk(b) => b.val = Ones
        BY <4>0, <4>1
      <4>3. b.val \in {0, 1, Ones} \cup FatEntry
        BY <4>2
      <4>4. c.fp.clust \in Cluster /\ b.val \in Cluster => b.val = FatV(c)[c.fp.clust]
        BY <4>2, OnesNoCluster
      <4> QED
        BY <3>2, <4>2, <4>3, <4>4
    <3> QED
      BY <3>1, <3>2
  <2> HIDE DEF b
  <2>4. v \in {1, Ones} \cup FatEntry /\ v \in Int /\ (b.val # 0 => v = b.val)
        /\ (b.val = 0 => v = 1)
    <3>1. CASE b.val = 0
      BY <3>1
    <3>2. CASE b.val # 0
      <4>1. v = b.val
        BY <3>2
      <4> HIDE DEF v
      <4>2. b.val \in {1, Ones} \cup FatEntry
        BY <2>3, <3>2
      <4>3. b.val \in Int
        BY <2>2, <4>2
      <4> QED
        BY <3>2, <4>1, <4>2, <4>3
    <3> QED
      BY <3>1, <3>2
  <2> HIDE DEF v
  <2>5. g \in Good /\ Moved(b, g) /\ g.val = v
    BY <2>3, <2>4, ValType
  <2> HIDE DEF g
  <2>6. Filed(c, g) /\ g.fp = c.fp
    BY <2>3, <2>5, SteadyStays, FiledTransitive DEF Moved, Kept, Steady
  <2>7. g.fp.sclust = 0 => g.val \in {0, 1, Ones} \cup Cluster
    BY <1>1, <2>3, <2>4, <2>5, <2>6 DEF Headed, Rooted
  <2>8. /\ f \in Handled(g) /\ f.fp.fptr = g.fp.fptr /\ (IsOk(f) => Rooted(f.fp))
        /\ f.fp.fsize = g.fp.fsize /\ f.fp.written = g.fp.written /\ Quiet(g, f)
        /\ IsOk(f) => f.fp.clust = g.val
        /\ IsOk(f) => f.fp.sclust = IF g.fp.sclust = 0 THEN g.val ELSE g.fp.sclust
        /\ ~IsOk(f) => f.fp.sclust = g.fp.sclust
        /\ ~IsOk(f) => (f.res = "full" /\ g.val = 0) \/ (f.res \in Errors /\ f.fp.err = f.res)
    <3>1. g.val \in {0, 1, Ones} \cup FatEntry
      BY <2>4, <2>5
    <3>2. g.fp.err = "FR_OK" /\ Headed(g.fp)
      BY <2>6
    <3> QED
      BY <2>5, <2>7, <3>1, <3>2, FollowType
  <2> HIDE DEF f
  <2>9. f \in Handled(c)
    BY <2>6, <2>8, FiledTransitive DEF Handled
  <2>10. Quiet(c, f) /\ f.fp.fsize = c.fp.fsize /\ (~IsOk(f) => f.fp.err # "FR_OK")
    <3>1. Quiet(c, b) /\ Quiet(b, g)
      BY <2>3, <2>5, MovedQuiet
    <3>2. v # 0 /\ "FR_OK" \notin Errors
      BY <2>4 DEF Errors
    <3> QED
      BY <2>5, <2>6, <2>8, <3>1, <3>2, QuietTransitive
  <2>11. IsOk(f) => f.fp.sclust = c.fp.sclust /\ (c.fp.fptr = 0 => v = c.fp.sclust)
    <3> SUFFICES ASSUME IsOk(f)
                 PROVE  f.fp.sclust = c.fp.sclust /\ (c.fp.fptr = 0 => v = c.fp.sclust)
      OBVIOUS
    <3>1. CASE c.fp.fptr # 0
      <4>1. c.fp.sclust # 0
        BY <1>1, <3>1 DEF Headed, Rooted
      <4> QED
        BY <2>6, <2>8, <3>1, <4>1
    <3>2. CASE c.fp.fptr = 0
      <4>1. v = 1 \/ v = c.fp.sclust
        BY <2>3, <2>4, <3>2
      <4>2. v # 1
        <5> SUFFICES ASSUME v = 1 PROVE FALSE
          OBVIOUS
        <5>1. Follow(g) = Abort(g, "FR_INT_ERR") /\ "FR_INT_ERR" \in Errors
          BY <2>5 DEF Follow, Errors
        <5>2. ~IsOk(f)
          BY <2>5, <5>1, AbortIsNotOk DEF f
        <5> QED
          BY <5>2
      <4>3. v = c.fp.sclust
        BY <4>1, <4>2
      <4> QED
        BY <2>5, <2>6, <2>8, <3>2, <4>3
    <3> QED
      BY <3>1, <3>2
  <2>12. SameChain(c.fp, f.fp)
    BY <2>6, <2>8, <2>10, <2>11 DEF SameChain
  <2>13. Extends(c, 0, f, 1) /\ (~IsOk(f) => Extends(c, 0, f, 0))
    <3>1. CASE ~IsOk(f)
      BY <2>8, <2>10, <2>12, <3>1, StaysExtends DEF Handled
    <3>2. CASE IsOk(f)
      <4>1. ASSUME NEW m \in Chart, NEW i \in Label, NEW exact \in BOOLEAN,
                   Charted(FatV(c), m), Fits(m, i, c.fp, exact, 0)
            PROVE  Fits(m, i, f.fp, exact, 1)
        <5>1. i # 0 /\ f.fp.clust = v /\ f.fp.fptr = c.fp.fptr
          BY <2>5, <2>6, <2>8, <3>2, FatFsAssumption DEF Label
        <5>2. v \in Cluster => m.own[v] = i /\ (exact => m.pos[v] = c.fp.fptr \div bcs)
          <6> SUFFICES ASSUME v \in Cluster
                       PROVE  m.own[v] = i /\ (exact => m.pos[v] = c.fp.fptr \div bcs)
            OBVIOUS
          <6>1. CASE c.fp.fptr = 0
            <7>1. m.hd[i] = v /\ v # 0
              BY <2>2, <2>11, <3>2, <4>1, <5>1, <6>1 DEF Fits
            <7>2. 0 \div bcs = 0
              BY ClusterSize
            <7> QED
              BY <4>1, <6>1, <7>1, <7>2 DEF Charted
          <6>2. CASE c.fp.fptr # 0
            <7>1. /\ c.fp.clust \in Cluster /\ m.own[c.fp.clust] = i
                  /\ exact => m.pos[c.fp.clust] = Behind(c.fp.fptr)
              BY <1>1, <4>1, <5>1, <6>2 DEF Fits
            <7>2. FatV(c)[c.fp.clust] = v
              BY <2>2, <2>3, <2>4, <6>2, <7>1, OnesNoCluster
            <7>3. Onto(FatV(c), m, c.fp.clust)
              BY <4>1, <5>1, <7>1, <7>2, OnesNoCluster DEF Charted, LastOf
            <7>4. Behind(c.fp.fptr) \in Nat /\ c.fp.fptr \div bcs = Behind(c.fp.fptr) + 1
              BY <1>1, <1>3, <6>2, Boundary
            <7> QED
              BY <7>1, <7>2, <7>3, <7>4 DEF Onto
          <6> QED
            BY <6>1, <6>2
        <5> QED
          BY <2>12, <4>1, <5>1, <5>2 DEF Fits, SameChain
      <4> QED
        BY <2>8, <2>10, <3>2, <4>1, QuietExtends DEF Handled
    <3> QED
      BY <3>1, <3>2
  <2> QED
    BY <2>1, <2>6, <2>8, <2>9, <2>12, <2>13 DEF f
<1> QED
  BY <1>2, <1>3

\* ABORT on an open file.
LEMMA AbortHandled ==
  ASSUME NEW c \in Good, NEW r \in Errors
  PROVE  LET d == Abort(c, r)
         IN /\ d \in Handled(c) /\ d.fp.fptr = c.fp.fptr /\ ~IsOk(d) /\ d.res = r
            /\ FatV(d) = FatV(c) /\ SameChain(c.fp, d.fp)
            /\ \A q, t : Extends(c, q, d, t)
<1>1. r \in Res /\ r # "FR_OK"
  BY DEF Errors, Res
<1> DEFINE d == Abort(c, r)
<1>2. /\ d \in Good /\ Stays(c, d) /\ d.fp.err = r /\ d.res = r /\ FatV(d) = FatV(c)
      /\ ~IsOk(d) /\ Quiet(c, d) /\ d.fp.fsize = c.fp.fsize
  BY <1>1, AbortType, BesideQuiet DEF Beside, Stays
<1> HIDE DEF d
<1>3. SameChain(c.fp, d.fp)
  BY <1>1, <1>2 DEF SameChain, Stays
<1>4. \A q, t : Extends(c, q, d, t)
  BY <1>1, <1>2, <1>3, StaysExtends
<1> QED
  BY <1>1, <1>2, <1>3, <1>4 DEF Handled, Headed, Rooted, Stays, d

\* A read loads a sector, or takes whole ones.
LEMMA ReadSectorsType ==
  ASSUME NEW c \in Good, IsOk(c), c.fp.err = "FR_OK", Rooted(c.fp), NEW btr \in Nat \ {0},
         c.fp.fptr % SS = 0
  PROVE  LET d == ReadSectors(c, btr)
         IN /\ d \in Handled(c) /\ d.fp.fptr <= c.fp.fptr + btr
            /\ SameChain(c.fp, d.fp) /\ Extends(c, 1, d, 0)
<1> DEFINE cc == Least(btr \div SS, csize - csect(c.fp))
           l == Load(c, sector(c.fp), TRUE)
           p == Pick(l, btr)
           rd == ReadDirect(c, cc)
           a == Abort(c, "FR_INT_ERR")
<1>1. c \in Ctx /\ c.fp \in FIL /\ c.fp.fptr \in Nat /\ csect(c.fp) \in 0 .. csize - 1
  BY CsectType DEF Good, Ctx, FIL
<1>2. ReadSectors(c, btr) = IF clust2sect(c.fp.clust) = 0 THEN a
                            ELSE IF cc > 0 THEN rd ELSE IF IsOk(l) THEN p ELSE l
  BY DEF ReadSectors, Then
<1>3. CASE clust2sect(c.fp.clust) = 0
  <2>1. a \in Handled(c) /\ a.fp.fptr = c.fp.fptr /\ SameChain(c.fp, a.fp) /\ Extends(c, 1, a, 0)
    BY AbortHandled DEF Errors
  <2> QED
    BY <1>1, <1>2, <1>3, <2>1
<1>4. CASE clust2sect(c.fp.clust) # 0
  <2>1. c.fp.clust \in Cluster
    BY <1>4, NoSectorType
  <2>2. btr \div SS \in Nat /\ cc \in Nat /\ cc <= btr \div SS /\ cc <= csize - csect(c.fp)
    <3>1. btr \div SS \in Nat
      BY FatFsAssumption, Division
    <3> QED
      BY <1>1, <3>1, FatFsAssumption DEF Least
  <2> HIDE DEF cc
  <2>3. CASE cc > 0
    <3>1. rd \in Handled(c) /\ rd.fp.fptr <= c.fp.fptr + btr /\ SameChain(c.fp, rd.fp)
          /\ Extends(c, 1, rd, 0)
      BY <2>1, <2>2, <2>3, ReadDirectType
    <3> QED
      BY <1>2, <1>4, <2>3, <3>1
  <2>4. CASE ~(cc > 0)
    <3>1. sector(c.fp) \in Sect
      BY <1>1, <2>1, SectorType DEF sector
    <3>2. /\ l \in Good /\ Stays(c, l) /\ Quiet(c, l)
          /\ IsOk(l) => l.fp.err = c.fp.err
          /\ ~IsOk(l) => l.res = "FR_DISK_ERR" /\ l.fp.err = l.res
      BY <3>1, LoadType
    <3> HIDE DEF l
    <3>3. Rooted(l.fp) /\ l.fp.fptr = c.fp.fptr /\ Filed(c, l) /\ SameChain(c.fp, l.fp)
          /\ l.fp.clust = c.fp.clust
      BY <3>2 DEF Stays, Rooted, SameChain
    <3>4. CASE IsOk(l)
      <4>1. /\ p \in Handled(l) /\ p.fp.fptr <= l.fp.fptr + btr /\ SameChain(l.fp, p.fp)
            /\ \A q : Going(l.fp, q) /\ btr # 0 => Extends(l, q, p, 0)
        BY <3>2, <3>3, <3>4, PickType
      <4> HIDE DEF p
      <4>2. p \in Handled(c) /\ SameChain(c.fp, p.fp)
        BY <3>3, <4>1, FiledTransitive DEF Handled, SameChain
      <4>3. Extends(c, 1, l, 1)
        BY <3>2, <3>3, StaysExtends
      <4>4. Extends(l, 1, p, 0)
        BY <2>1, <3>3, <4>1 DEF Going
      <4>5. Extends(c, 1, p, 0)
        BY <3>2, <4>1, <4>3, <4>4, ExtendsTransitive DEF Handled
      <4> QED
        BY <1>2, <1>4, <2>4, <3>3, <3>4, <4>1, <4>2, <4>5
    <3>5. CASE ~IsOk(l)
      <4>1. l \in Handled(c) /\ l.fp.fptr <= c.fp.fptr + btr
        BY <1>1, <3>2, <3>3, <3>5 DEF Handled, Headed, Rooted, SameChain
      <4>2. Extends(c, 1, l, 0)
        BY <3>2, <3>3, <3>5, StaysExtends
      <4> QED
        BY <1>2, <1>4, <2>4, <3>3, <3>5, <4>1, <4>2
    <3> QED
      BY <3>4, <3>5
  <2> QED
    BY <2>3, <2>4
<1> QED
  BY <1>3, <1>4

\* A turn of f_read's loop does not go behind what was asked for.
LEMMA ReadSomeType ==
  ASSUME NEW c \in Good, NEW goal \in Nat, NEW d \in Reading(c, goal)
  PROVE  ReadSome(d, goal - d.fp.fptr) \in Reading(c, goal)
<1> DEFINE btr == goal - d.fp.fptr
           p == Pick(d, btr)
           k == ReadCluster(d)
           s == ReadSectors(k, btr)
<1>1. d \in Handled(c) /\ d \in Good /\ d.fp.fptr \in Nat /\ btr \in Nat /\ d.fp \in FIL
      /\ Headed(d.fp) /\ (IsOk(d) => d.fp.err = "FR_OK") /\ d.fp.fptr <= goal
      /\ SameChain(c.fp, d.fp) /\ Extends(c, 0, d, 0)
  BY SMTT(60) DEF Reading, Handled, Good, Ctx, FIL
<1>2. ReadSome(d, btr) = IF ~IsOk(d) \/ btr = 0 THEN d
                         ELSE IF d.fp.fptr % SS # 0 THEN p
                         ELSE IF IsOk(k) THEN s ELSE k
  BY DEF ReadSome, Then
<1>3. d.fp.fptr + btr = goal
  BY <1>1
<1> HIDE DEF btr
<1>4. CASE ~IsOk(d) \/ btr = 0
  BY <1>2, <1>4 DEF btr
<1>5. CASE ~(~IsOk(d) \/ btr = 0) /\ d.fp.fptr % SS # 0
  <2>1. Rooted(d.fp)
    <3>1. d.fp.fptr > 0
      BY <1>1, <1>5, Division, FatFsAssumption
    <3> QED
      BY <1>1, <1>5, <3>1 DEF Headed, Rooted
  <2>2. /\ p \in Handled(d) /\ p.fp.fptr <= goal /\ SameChain(d.fp, p.fp)
        /\ \A q : Going(d.fp, q) /\ btr # 0 => Extends(d, q, p, 0)
    BY <1>1, <1>3, <1>5, <2>1, PickType
  <2> HIDE DEF p
  <2>3. p \in Handled(c) /\ SameChain(c.fp, p.fp)
    BY <1>1, <2>2, HandledTransitive DEF SameChain
  <2>4. Extends(d, 0, p, 0)
    BY <1>5, <2>2 DEF Going
  <2>5. Extends(c, 0, p, 0)
    BY <1>1, <2>2, <2>4, ExtendsTransitive DEF Handled
  <2> QED
    BY <1>2, <1>5, <2>2, <2>3, <2>5 DEF Reading, btr
<1>6. CASE ~(~IsOk(d) \/ btr = 0) /\ ~(d.fp.fptr % SS # 0)
  <2>1. /\ k \in Handled(d) /\ k.fp.fptr = d.fp.fptr /\ (IsOk(k) => Rooted(k.fp))
        /\ SameChain(d.fp, k.fp) /\ Extends(d, 0, k, 1) /\ (~IsOk(k) => Extends(d, 0, k, 0))
    BY <1>1, <1>6, ReadClusterType
  <2> HIDE DEF k
  <2>2. /\ k \in Handled(c) /\ SameChain(c.fp, k.fp) /\ Extends(c, 0, k, 1)
        /\ ~IsOk(k) => Extends(c, 0, k, 0)
    BY <1>1, <2>1, HandledTransitive, ExtendsTransitive DEF SameChain, Handled
  <2>3. CASE ~IsOk(k)
    BY <1>1, <1>2, <1>6, <2>1, <2>2, <2>3 DEF Reading, btr
  <2>4. CASE IsOk(k)
    <3>1. s \in Handled(k) /\ s.fp.fptr <= k.fp.fptr + btr /\ SameChain(k.fp, s.fp)
          /\ Extends(k, 1, s, 0)
      BY <1>1, <1>6, <2>1, <2>4, ReadSectorsType DEF Handled
    <3> HIDE DEF s
    <3>2. s \in Handled(c) /\ SameChain(c.fp, s.fp) /\ Extends(c, 0, s, 0)
      BY <2>2, <3>1, HandledTransitive, ExtendsTransitive DEF SameChain, Handled
    <3>3. s \in Reading(c, goal)
      BY <1>3, <2>1, <3>1, <3>2 DEF Reading
    <3> QED
      BY <1>2, <1>6, <2>4, <3>3 DEF btr
  <2> QED
    BY <2>3, <2>4
<1> QED
  BY <1>4, <1>5, <1>6

\* What a call on an open file leaves behind.
Result(c) == {d \in Fair : Filed(c, d) /\ Headed(d.fp)}

\* A call on an open file that is not refused leaves the chains; a reader's file stays, and
\* stays empty if it was.
Worked(c) ==
  {d \in Result(c) :
     /\ ~IsOk(Reject(c)) => d = Reject(c)
     /\ IsOk(Reject(c)) =>
          /\ c \in Good /\ d \in Good /\ Extends(c, 0, d, 0)
          /\ c.fp.written => d.fp.written
          /\ ~c.fp.wr =>
               /\ d.fp.written = c.fp.written /\ d.fp.fsize = c.fp.fsize
               /\ c.fp.fptr = 0 /\ c.fp.fsize = 0 => d.fp.fptr = 0 /\ d.fp.sclust = c.fp.sclust}

\* f_read keeps the types, and the file has clusters where it is.
LEMMA ReadFileType ==
  ASSUME NEW c \in Fair, Headed(c.fp), NEW btr \in Nat
  PROVE  LET d == f_read(c, btr)
             v == Reject(c)
         IN /\ d \in Result(c) /\ d \in Worked(c)
            /\ IsOk(v) => SameChain(c.fp, d.fp)
<1> DEFINE len == IF c.fp.fptr > c.fp.fsize THEN btr ELSE Least(btr, c.fp.fsize - c.fp.fptr)
           N == len
           goal == c.fp.fptr + len
           v == Reject(c)
           b == [v EXCEPT !.out = <<>>]
           Op(d) == ReadSome(d, c.fp.fptr + len - d.fp.fptr)
           W == Reading(v, goal)
           S == [k \in 0 .. N |-> W]
           turn == [x \in (1 .. N) \X W |-> Op(x[2])]
           Loop(g) == g = [k \in 0 .. N |-> IF k = 0 THEN b ELSE Op(g[k - 1])]
           after == CHOOSE g : Loop(g)
           e == Failed(v, "FR_DENIED")
<1>1. c \in Ctx /\ c.fp \in FIL /\ c.fp.fptr \in Nat /\ c.fp.fsize \in Nat
  BY DEF Fair, Ctx, FIL
<1>2. N \in Nat /\ goal \in Nat /\ c.fp.fptr <= goal
  BY <1>1 DEF Least
<1>3. f_read(c, btr) = IF IsOk(v) THEN IF c.fp.rd THEN after[N] ELSE e ELSE v
  BY DEF f_read, Then, Repeat
<1>4. /\ v \in Fair /\ Kept(c, v) /\ v.sec = c.sec
      /\ IsOk(v) => v \in Good /\ c.fp.err = "FR_OK" /\ c \in Good /\ Over(v) = Over(c)
  BY RejectType
<1>5. Filed(c, v) /\ v.fp = c.fp /\ (IsOk(v) => Extends(c, 0, v, 0))
  <2>1. Filed(c, v) /\ v.fp = c.fp
    BY <1>4, SteadyStays DEF Kept, Steady
  <2> HIDE DEF v
  <2>2. IsOk(v) => Extends(c, 0, v, 0)
    BY <1>4, <2>1, BesideQuiet, StaysExtends DEF SameChain
  <2> QED
    BY <2>1, <2>2
<1>6. CASE ~IsOk(v)
  BY <1>3, <1>4, <1>5, <1>6 DEF Result, Worked
<1>7. CASE IsOk(v) /\ ~c.fp.rd
  <2>1. "FR_DENIED" \in Res /\ v \in Ctx
    BY <1>4 DEF Res, Fair
  <2>2. e \in Good /\ Kept(v, e)
    BY <1>4, <1>7, <2>1, FailedType
  <2> HIDE DEF e
  <2>3. Filed(v, e) /\ e.fp = v.fp
    BY <2>2, SteadyStays DEF Kept, Steady
  <2>4. Filed(c, e)
    BY <1>5, <2>3, FiledTransitive
  <2>5. Extends(c, 0, e, 0) /\ c \in Good
    <3>1. Extends(v, 0, e, 0)
      BY <1>4, <1>7, <2>1, <2>2, <2>3, FailedQuiet, StaysExtends DEF SameChain, e
    <3> QED
      BY <1>1, <1>4, <1>5, <1>7, <2>2, <3>1, ExtendsTransitive
  <2> QED
    BY <1>3, <1>4, <1>5, <1>7, <2>2, <2>3, <2>4, <2>5 DEF Result, Fair, Good, SameChain, Worked
<1>8. CASE IsOk(v) /\ c.fp.rd
  <2>1. f_read(c, btr) = after[N]
    BY <1>3, <1>8
  <2> HIDE DEF v
  <2>2. b \in W
    <3>1. <<>> \in Seq(Int)
      OBVIOUS
    <3>2. b \in Ctx /\ Beside(v, b) /\ b.fp = v.fp /\ b.res = v.res
      BY <1>4, <1>8, <3>1 DEF Good, Ctx, Beside
    <3> HIDE DEF b
    <3>3. b \in Good /\ Met(v, b)
      BY <1>4, <1>8, <3>2, BesideType
    <3>4. Filed(v, b)
      BY <3>2, <3>3 DEF Filed, Beside
    <3>5. SameChain(v.fp, b.fp) /\ Extends(v, 0, b, 0)
      BY <1>4, <1>8, <3>2, <3>3, BesideType, BesideQuiet, StaysExtends DEF SameChain, Beside
    <3> QED
      BY <1>2, <1>4, <1>5, <1>8, <3>2, <3>3, <3>4, <3>5 DEF Reading, Handled
  <2> HIDE DEF b
  <2>3. \A d \in W : Op(d) \in W
    <3> SUFFICES ASSUME NEW d \in W PROVE Op(d) \in W
      OBVIOUS
    <3>1. d.fp.fptr \in Nat
      BY DEF Reading, Handled, Good, Ctx, FIL
    <3>2. len \in Nat
      BY <1>2
    <3> HIDE DEF len
    <3> DEFINE x == c.fp.fptr + len - d.fp.fptr
    <3>3. x = goal - d.fp.fptr
      BY <1>1, <3>1, <3>2
    <3>4. Op(d) = ReadSome(d, x)
      OBVIOUS
    <3> HIDE DEF goal, Op, x
    <3> QED
      BY <1>2, <1>4, <1>8, <3>3, <3>4, ReadSomeType
  <2> HIDE DEF W, len, Op
  <2>4. N \in Nat
    BY <1>2 DEF len
  <2> HIDE DEF N
  <2>5. b \in S[0] /\ \A k \in 0 .. N : S[k] = W
    BY <2>2, <2>4
  <2>6. \A k \in 0 .. N : k < N => \A d \in S[k] : Op(d) \in S[k + 1]
    <3>1. \A k \in 0 .. N : k < N => k + 1 \in 0 .. N
      BY <2>4
    <3> QED
      BY <2>3, <2>5, <3>1
  <2>7. \A n \in 0 .. N : n < N => n + 1 \in 1 .. N /\ n + 1 \in 0 .. N /\ (n + 1) - 1 = n
    BY <2>4
  <2>8. Turns(N, S, turn)
    <3> HIDE DEF S, N
    <3> QED
      BY <2>7, <2>5, <2>6 DEF Turns
  <2> HIDE DEF S
  <2>9. \E g : Loop(g)
    <3>1. PICK g : /\ g = [n \in 0 .. N |-> IF n = 0 THEN b ELSE turn[<<n, g[n - 1]>>]]
                   /\ \A n \in 0 .. N : g[n] \in S[n]
      <4> HIDE DEF turn, N
      <4>1. Runs(N, S, b, turn)
        BY <2>4, <2>5, <2>8, LoopExists
      <4> QED
        BY <4>1 DEF Runs
    <3>2. ASSUME NEW n \in 0 .. N, n # 0
          PROVE  turn[<<n, g[n - 1]>>] = Op(g[n - 1])
      <4>1. n - 1 \in 0 .. N /\ n \in 1 .. N
        BY <2>4, <3>2
      <4> HIDE DEF N
      <4> QED
        BY <2>5, <2>6, <3>1, <4>1
    <3> HIDE DEF turn, N
    <3> QED
      BY <3>1, <3>2
  <2>10. Loop(after)
    BY <2>9
  <2> HIDE DEF after
  <2> DEFINE T == {n \in 0 .. N : after[n] \in S[n]}
  <2>11. 0 .. N \subseteq T
    <3>1. 0 \in 0 .. N /\ after[0] = b
      BY <2>4, <2>10
    <3> HIDE DEF N
    <3>2. \A n \in 0 .. N : n < N => after[n + 1] = Op(after[n])
      BY <2>7, <2>10
    <3> HIDE DEF Loop
    <3>3. 0 \in T /\ \A n \in 0 .. N : n \in T /\ n < N => n + 1 \in T
      BY <2>5, <2>7, <2>5, <2>6, <3>1, <3>2
    <3> HIDE DEF T
    <3> QED
      BY <2>4, <3>3, UptoInduction
  <2>12. after[N] \in S[N]
    BY <2>4, <2>11
  <2>13. after[N] \in W
    BY <2>4, <2>5, <2>12
  <2>14. /\ after[N] \in Good /\ Filed(c, after[N]) /\ Headed(after[N].fp)
         /\ SameChain(c.fp, after[N].fp) /\ Extends(c, 0, after[N], 0)
         /\ after[N].fp.fptr <= goal
    <3> DEFINE r == after[N]
    <3>1. r \in Reading(v, goal)
      BY <2>13 DEF W
    <3> HIDE DEF r
    <3>2. r \in Good /\ Filed(v, r) /\ Headed(r.fp) /\ SameChain(v.fp, r.fp)
          /\ Extends(v, 0, r, 0) /\ r.fp.fptr <= goal
      BY <3>1 DEF Reading, Handled
    <3> QED
      BY <1>4, <1>5, <1>8, <3>2, FiledTransitive, ExtendsTransitive DEF r
  <2>15. c.fp.fptr <= c.fp.fsize => after[N].fp.fptr <= c.fp.fsize
    <3> DEFINE x == after[N].fp.fptr
    <3>1. x \in Nat /\ x <= goal
      BY <2>14 DEF Good, Ctx, FIL
    <3> HIDE DEF x
    <3>2. c.fp.fptr <= c.fp.fsize => x <= c.fp.fsize
      BY <1>1, <3>1 DEF len, Least
    <3> QED
      BY <3>2 DEF x
  <2>16. after[N] \in Worked(c)
    <3> DEFINE r == after[N]
    <3>1. /\ r \in Good /\ Filed(c, r) /\ Headed(r.fp) /\ SameChain(c.fp, r.fp)
          /\ Extends(c, 0, r, 0) /\ r \in Result(c) /\ r.fp.fptr \in Nat
          /\ c.fp.fptr <= c.fp.fsize => r.fp.fptr <= c.fp.fsize
      BY <2>14, <2>15 DEF Result, Fair, Good, Ctx, FIL
    <3> HIDE DEF r
    <3>2. c.fp.fptr = 0 /\ c.fp.fsize = 0 => r.fp.fptr = 0
      BY <3>1
    <3> QED
      BY <1>4, <1>8, <3>1, <3>2 DEF Worked, SameChain, r, v
  <2> QED
    BY <1>4, <1>8, <2>1, <2>14, <2>16 DEF Result, Fair, Good, v
<1> QED
  BY <1>6, <1>7, <1>8
---------------------------------------------------------------------------
(* Writing.                                                                *)

\* A function finds or makes the cluster val that is to be the file's current one, the
\* one at place `place' of its chain; a file that has no cluster gets its first one.
Leads(c, q, b, place) ==
  \A m \in Chart, i \in 0 .. n_rootdir, exact \in BOOLEAN :
    Charted(FatV(c), m) /\ Fits(m, i, c.fp, exact, q) =>
      /\ Through(c, b, Grown(m, i, DirV(c)))
      /\ \E n \in Chart :
           /\ Charted(FatV(b), n) /\ Grows(m, n, i)
           /\ i # 0 =>
                /\ n.hd[i] = IF c.fp.sclust = 0 /\ b.val \in Cluster THEN b.val ELSE c.fp.sclust
                /\ b.val \in Cluster => n.own[b.val] = i /\ (exact => n.pos[b.val] = place)

\* What create_chain returns: a cluster only if all went well, and 0 only if every cluster
\* is taken.
LEMMA CreateChainVal ==
  ASSUME NEW c \in Good, NEW clst \in Nat
  PROVE  LET d == create_chain(c, clst)
         IN /\ d \in Good /\ Stays(c, d) /\ d.fp = c.fp
            /\ d.val \in {0, 1, Ones} \cup Cluster
            /\ d.val = 0 => Full(FatV(d))
            /\ d.val \in Cluster => IsOk(d)
<1> DEFINE d == create_chain(c, clst)
<1>1. d \in Good /\ Steady(c, d) /\ Created(c, d, clst)
  BY CreateChainType
<1> HIDE DEF d
<1>2. Stays(c, d) /\ d.fp = c.fp
  BY <1>1, SteadyStays DEF Steady
<1>3. 0 \notin Cluster /\ 1 \notin Cluster /\ Ones \notin Cluster /\ Ones # 0
  BY FatFsAssumption DEF Ones, n_fatent, Cluster
<1>4. NoCluster(c, d) => /\ d.val \in {0, Ones}
                         /\ d.val = 0 => Full(FatV(d))
  BY <1>3, ViewsMoved DEF NoCluster, Moved
<1>5. Taken(c, d, clst) => (d.val \in Cluster /\ IsOk(d)) \/ d.val = Ones
  BY DEF Taken, Linked, NotLinked
<1>6. d.val \in {0, 1, Ones} \cup Cluster
  BY <1>1, <1>4, <1>5 DEF Created
<1>7. d.val = 0 => Full(FatV(d))
  BY <1>1, <1>3, <1>4, <1>5 DEF Created
<1>8. d.val \in Cluster => IsOk(d)
  BY <1>1, <1>3, <1>4, <1>5 DEF Created
<1> QED
  BY <1>1, <1>2, <1>6, <1>7, <1>8 DEF d

\* The file stays where it is in its chain when a chain is made longer.
LEMMA CreateChainExtends ==
  ASSUME NEW c \in Good, NEW clst \in Nat, NEW q
  PROVE  Extends(c, q, create_chain(c, clst), q)
<1> DEFINE b == create_chain(c, clst)
<1>1. b \in Good /\ b.fp = c.fp /\ Chained(c, b, clst)
  BY CreateChainVal, CreateChainChained
<1> HIDE DEF b
<1> SUFFICES ASSUME NEW m \in Chart, NEW i \in 0 .. n_rootdir, NEW exact \in BOOLEAN,
                    Charted(FatV(c), m), Fits(m, i, c.fp, exact, q)
             PROVE  /\ Through(c, b, Grown(m, i, DirV(c)))
                    /\ \E n \in Chart : /\ Charted(FatV(b), n) /\ Grows(m, n, i)
                                        /\ Fits(n, i, b.fp, exact, q)
  BY DEF Extends, b
<1>2. PICK n \in Chart :
         Charted(FatV(b), n) /\ Grows(m, n, 0) /\ Through(c, b, Grown(m, 0, DirV(c)))
  BY <1>1 DEF Chained
<1>3. Grown(m, 0, DirV(c)) \subseteq Grown(m, i, DirV(c)) /\ Grows(m, n, i)
  BY <1>2, GrowsReflexive, GrownLater, GrowsTransitive
<1>4. Through(c, b, Grown(m, i, DirV(c)))
  BY <1>2, <1>3, ThroughLarger
<1>5. Fits(n, i, b.fp, exact, q)
  <2> SUFFICES ASSUME i # 0 PROVE Fits(n, i, c.fp, exact, q)
    BY <1>1 DEF Fits
  <2>1. i \in Label /\ i # 0
    BY FatFsAssumption DEF Label
  <2>2. n.hd[i] = m.hd[i]
    BY <1>2, <2>1 DEF Grows
  <2>3. Holds(m, i, c.fp.fsize) => Holds(n, i, c.fp.fsize)
    BY <1>2, <2>1, GrowsHolds
  <2>4. \A k \in Cluster : m.own[k] = i => n.own[k] = i /\ n.pos[k] = m.pos[k]
    BY <1>2, <2>1 DEF Grows
  <2> QED
    BY <2>1, <2>2, <2>3, <2>4 DEF Fits
<1> QED
  BY <1>2, <1>3, <1>4, <1>5

\* The disk is found full only if it is; that is no error of the file.
FullStop(d) == d.res = "full" => Full(FatV(d)) /\ d.fp.err = "FR_OK"

\* A write of at most m bytes took some, or failed.
Written(c, m) ==
  {d \in Handled(c) : /\ c.fp.fptr <= d.fp.fptr /\ d.fp.fptr <= c.fp.fptr + m
                      /\ IsOk(d) => c.fp.fptr < d.fp.fptr
                      /\ d.fp.fsize = c.fp.fsize /\ d.fp.written = c.fp.written
                      /\ FullStop(d)}

\* A file that has no cluster gets its first one.
LEMMA FirstLeads ==
  ASSUME NEW c \in Good, c.fp.sclust = 0, NEW q
  PROVE  Leads(c, q, create_chain(c, 0), 0)
<1> DEFINE b == create_chain(c, 0)
<1>1. b \in Good /\ Chained(c, b, 0)
  BY CreateChainVal, CreateChainChained
<1> HIDE DEF b
<1> SUFFICES ASSUME NEW m \in Chart, NEW i \in 0 .. n_rootdir, NEW exact \in BOOLEAN,
                    Charted(FatV(c), m), Fits(m, i, c.fp, exact, q)
             PROVE  /\ Through(c, b, Grown(m, i, DirV(c)))
                    /\ \E n \in Chart :
                         /\ Charted(FatV(b), n) /\ Grows(m, n, i)
                         /\ i # 0 =>
                              /\ n.hd[i] = IF b.val \in Cluster THEN b.val ELSE 0
                              /\ b.val \in Cluster =>
                                   n.own[b.val] = i /\ (exact => n.pos[b.val] = 0)
  BY DEF Leads, b
<1>2. PICK n \in Chart :
         /\ Charted(FatV(b), n) /\ Grows(m, n, 0) /\ Through(c, b, Grown(m, 0, DirV(c)))
         /\ b.val \in Cluster => FatV(b)[b.val] = EOC /\ n.own[b.val] = 0
  BY <1>1 DEF Chained
<1>3. Grown(m, 0, DirV(c)) \subseteq Grown(m, i, DirV(c)) /\ Grows(m, n, i)
  BY <1>2, GrowsReflexive, GrownLater, GrowsTransitive
<1>4. Through(c, b, Grown(m, i, DirV(c)))
  BY <1>2, <1>3, ThroughLarger
<1>5. CASE i = 0 \/ b.val \notin Cluster
  <2>1. i # 0 => i \in Label /\ m.hd[i] = 0
    BY FatFsAssumption DEF Fits, Label
  <2>2. i # 0 => n.hd[i] = 0
    BY <1>2, <2>1 DEF Grows, Label
  <2> QED
    BY <1>2, <1>3, <1>4, <1>5, <2>2
<1>6. CASE i # 0 /\ b.val \in Cluster
  <2>1. i \in Label /\ m.hd[i] = 0
    BY <1>6, FatFsAssumption DEF Fits, Label
  <2>2. n.hd[i] = 0
    BY <1>2, <2>1 DEF Grows, Label
  <2>3. FatV(b) \in [Cluster -> FatEntry]
    BY <1>1, OverType
  <2> DEFINE o == Headed1(n, i, b.val)
  <2>4. /\ o \in Chart /\ Charted(FatV(b), o) /\ Grows(n, o, i)
        /\ o.hd[i] = b.val /\ o.own[b.val] = i /\ o.pos[b.val] = 0
    BY <1>2, <1>6, <2>1, <2>2, <2>3, HeadedCharted
  <2> HIDE DEF o
  <2>5. Grows(m, o, i)
    BY <1>3, <2>4, GrowsTransitive
  <2> QED
    BY <1>4, <1>6, <2>4, <2>5
<1> QED
  BY <1>5, <1>6

\* The current cluster is followed, or a new one is linked to it.
LEMMA NextLeads ==
  ASSUME NEW c \in Good, c.fp.err = "FR_OK", c.fp.sclust # 0, NEW q, NEW place \in Nat,
         \/ q = 0 /\ c.fp.fptr > 0 /\ place = Behind(c.fp.fptr) + 1
         \/ q = 1 /\ c.fp.clust \in Cluster /\ place = c.fp.fptr \div bcs + 1
  PROVE  Leads(c, q, create_chain(c, c.fp.clust), place)
<1> DEFINE a == c.fp.clust
           b == create_chain(c, a)
<1>1. c.fp \in FIL /\ a \in Nat /\ c.fp.fptr \in Nat
  BY DEF Good, Ctx, FIL
<1>2. b \in Good /\ Chained(c, b, a)
  BY <1>1, CreateChainVal, CreateChainChained
<1> HIDE DEF b
<1> SUFFICES ASSUME NEW m \in Chart, NEW i \in 0 .. n_rootdir, NEW exact \in BOOLEAN,
                    Charted(FatV(c), m), Fits(m, i, c.fp, exact, q)
             PROVE  /\ Through(c, b, Grown(m, i, DirV(c)))
                    /\ \E n \in Chart :
                         /\ Charted(FatV(b), n) /\ Grows(m, n, i)
                         /\ i # 0 =>
                              /\ n.hd[i] = c.fp.sclust
                              /\ b.val \in Cluster =>
                                   n.own[b.val] = i /\ (exact => n.pos[b.val] = place)
  BY DEF Leads, b
<1>3. PICK n \in Chart :
         /\ Charted(FatV(b), n) /\ Grows(m, n, 0) /\ Through(c, b, Grown(m, 0, DirV(c)))
         /\ b.val \in Cluster /\ a \in Cluster /\ m.own[a] # 0 =>
              n.own[b.val] = m.own[a] /\ n.pos[b.val] = m.pos[a] + 1
  BY <1>2 DEF Chained
<1>4. Grown(m, 0, DirV(c)) \subseteq Grown(m, i, DirV(c)) /\ Grows(m, n, i)
  BY <1>3, GrowsReflexive, GrownLater, GrowsTransitive
<1>5. Through(c, b, Grown(m, i, DirV(c)))
  BY <1>3, <1>4, ThroughLarger
<1>6. ASSUME i # 0
      PROVE  /\ n.hd[i] = c.fp.sclust
             /\ b.val \in Cluster => n.own[b.val] = i /\ (exact => n.pos[b.val] = place)
  <2>1. i \in Label /\ m.hd[i] = c.fp.sclust
    BY <1>6, FatFsAssumption DEF Fits, Label
  <2>2. n.hd[i] = c.fp.sclust
    BY <1>3, <2>1 DEF Grows
  <2>3. /\ a \in Cluster /\ m.own[a] = i
        /\ exact => m.pos[a] = IF q = 0 THEN Behind(c.fp.fptr) ELSE c.fp.fptr \div bcs
    BY <1>6 DEF Fits
  <2>4. b.val \in Cluster => n.own[b.val] = i /\ n.pos[b.val] = m.pos[a] + 1
    BY <1>3, <1>6, <2>3
  <2>5. exact => m.pos[a] + 1 = place
    BY <2>3
  <2> QED
    BY <2>2, <2>4, <2>5
<1> QED
  BY <1>3, <1>4, <1>5, <1>6

\* The cluster found becomes the current one, or none was found.
LEMMA FollowLeads ==
  ASSUME NEW c \in Good, NEW b \in Good, NEW d \in Good, NEW q, NEW place,
         Leads(c, q, b, place), Quiet(b, d), c.fp.err = "FR_OK", d.fp.fsize = c.fp.fsize,
         b.val \in {0, 1, Ones} \cup Cluster
  PROVE  /\ /\ b.val \in Cluster /\ d.fp.clust = b.val /\ d.fp.fptr \div bcs = place
            /\ d.fp.sclust = IF c.fp.sclust = 0 THEN b.val ELSE c.fp.sclust
            => Extends(c, q, d, 1)
         /\ /\ b.val \notin Cluster /\ d.fp.sclust = c.fp.sclust /\ d.fp.fptr = c.fp.fptr
            /\ d.fp.err = "FR_OK" => d.fp.clust = c.fp.clust
            => Extends(c, q, d, q)
<1>1. /\ TableV(b).fat = FatV(b) /\ TableV(b).dir = DirV(b) /\ FatV(d) = FatV(b)
  BY TableType DEF Quiet
<1>2. ASSUME NEW m \in Chart, NEW i \in 0 .. n_rootdir, NEW exact \in BOOLEAN,
             Charted(FatV(c), m), Fits(m, i, c.fp, exact, q)
      PROVE  /\ Through(c, d, Grown(m, i, DirV(c)))
             /\ \E n \in Chart :
                  /\ Charted(FatV(d), n) /\ Grows(m, n, i)
                  /\ i # 0 =>
                       /\ n.hd[i] = IF c.fp.sclust = 0 /\ b.val \in Cluster THEN b.val
                                    ELSE c.fp.sclust
                       /\ exact => Holds(n, i, c.fp.fsize)
                       /\ b.val \in Cluster =>
                            n.own[b.val] = i /\ (exact => n.pos[b.val] = place)
  <2>1. Through(c, b, Grown(m, i, DirV(c)))
    BY <1>2 DEF Leads
  <2>2. PICK n \in Chart :
           /\ Charted(FatV(b), n) /\ Grows(m, n, i)
           /\ i # 0 =>
                /\ n.hd[i] = IF c.fp.sclust = 0 /\ b.val \in Cluster THEN b.val ELSE c.fp.sclust
                /\ b.val \in Cluster =>
                     n.own[b.val] = i /\ (exact => n.pos[b.val] = place)
    BY <1>2 DEF Leads
  <2>3. i # 0 /\ exact => Holds(n, i, c.fp.fsize)
    <3> SUFFICES ASSUME i # 0, exact PROVE Holds(n, i, c.fp.fsize)
      OBVIOUS
    <3>1. i \in Label /\ Holds(m, i, c.fp.fsize)
      BY <1>2, FatFsAssumption DEF Fits, Label
    <3> QED
      BY <2>2, <3>1, GrowsHolds
  <2> QED
    BY <1>1, <2>1, <2>2, <2>3, ThroughQuietNext
<1>3. ASSUME b.val \in Cluster, d.fp.clust = b.val, d.fp.fptr \div bcs = place,
             d.fp.sclust = IF c.fp.sclust = 0 THEN b.val ELSE c.fp.sclust
      PROVE  Extends(c, q, d, 1)
  BY <1>2, <1>3 DEF Extends, Fits
<1>4. ASSUME b.val \notin Cluster, d.fp.sclust = c.fp.sclust, d.fp.fptr = c.fp.fptr,
             d.fp.err = "FR_OK" => d.fp.clust = c.fp.clust
      PROVE  Extends(c, q, d, q)
  <2> SUFFICES ASSUME NEW m \in Chart, NEW i \in 0 .. n_rootdir, NEW exact \in BOOLEAN,
                      Charted(FatV(c), m), Fits(m, i, c.fp, exact, q)
               PROVE  /\ Through(c, d, Grown(m, i, DirV(c)))
                      /\ \E n \in Chart : /\ Charted(FatV(d), n) /\ Grows(m, n, i)
                                          /\ Fits(n, i, d.fp, exact, q)
    BY DEF Extends
  <2>1. Through(c, d, Grown(m, i, DirV(c)))
    BY <1>2
  <2>2. PICK n \in Chart :
           /\ Charted(FatV(d), n) /\ Grows(m, n, i)
           /\ i # 0 => n.hd[i] = c.fp.sclust /\ (exact => Holds(n, i, c.fp.fsize))
    BY <1>2, <1>4
  <2>3. Fits(n, i, d.fp, exact, q)
    BY <1>4, <2>2 DEF Fits, Grows
  <2> QED
    BY <2>1, <2>2, <2>3
<1> QED
  BY <1>3, <1>4

\* A write puts bytes into the buffer.
LEMMA PutType ==
  ASSUME NEW c \in Good, IsOk(c), c.fp.err = "FR_OK", Rooted(c.fp),
         NEW data \in Seq(Int), data # <<>>
  PROVE  LET d == Put(c, data)
         IN /\ d \in Written(c, Len(data))
            /\ \A q : Going(c.fp, q) => Extends(c, q, d, 0)
<1> DEFINE o == c.fp.fptr % SS
           n == Least(SS - o, Len(data))
           buf == [i \in 0 .. SS - 1 |-> IF i \in o .. o + n - 1 THEN data[i - o + 1]
                                         ELSE c.fp.buf[i]]
           q == c.fp.fptr + n
           p == [c.fp EXCEPT !.buf = buf, !.dirty = TRUE, !.fptr = q]
           d == Put(c, data)
<1>1. c \in Ctx /\ c.fp \in FIL /\ c.fp.fptr \in Nat /\ SS \in Nat \ {0}
  BY FatFsAssumption DEF Good, Ctx, FIL
<1>2. o \in 0 .. SS - 1 /\ Len(data) \in Nat /\ Len(data) > 0
  <2>1. Len(data) \in Nat /\ Len(data) > 0
    OBVIOUS
  <2>2. o \in 0 .. SS - 1
    BY <1>1, Division
  <2> QED
    BY <2>1, <2>2
<1>3. d = WithFp(c, p)
  BY <1>1 DEF Put, Ctx, FIL, WithFp
<1> HIDE DEF o, d
<1>4. n \in Nat /\ n > 0 /\ n <= Len(data) /\ n <= SS - o
  BY <1>1, <1>2 DEF Least
<1> HIDE DEF n
<1>5. buf \in [0 .. SS - 1 -> Int]
  <2>1. ASSUME NEW i \in 0 .. SS - 1
        PROVE  (IF i \in o .. o + n - 1 THEN data[i - o + 1] ELSE c.fp.buf[i]) \in Int
    <3>1. CASE i \in o .. o + n - 1
      <4>1. i - o + 1 \in 1 .. Len(data)
        BY <1>1, <1>2, <1>4, <3>1
      <4> QED
        BY <3>1, <4>1
    <3>2. CASE i \notin o .. o + n - 1
      BY <1>1, <3>2 DEF FIL
    <3> QED
      BY <3>1, <3>2
  <2> QED
    BY <2>1
<1> HIDE DEF buf
<1>6. q \in Nat /\ q <= c.fp.fptr + Len(data) /\ c.fp.fptr < q
  BY <1>1, <1>2, <1>4, SMTT(60)
<1> HIDE DEF q
<1>7. /\ p \in FIL /\ p.fptr = q /\ p.sclust = c.fp.sclust /\ p.clust = c.fp.clust
      /\ p.err = c.fp.err /\ p.fsize = c.fp.fsize /\ p.written = c.fp.written
      /\ p.fs = c.fp.fs /\ p.id = c.fp.id
      /\ p.rd = c.fp.rd /\ p.wr = c.fp.wr /\ p.dir_ptr = c.fp.dir_ptr
  BY <1>1, <1>5, <1>6 DEF FIL
<1> HIDE DEF p
<1>8. d \in Good /\ Beside(c, d) /\ d.fp = p /\ d.res = c.res /\ Met(c, d) /\ Over(d) = Over(c)
  BY <1>3, <1>7, WithFpType
<1>9. Filed(c, d)
  BY <1>7, <1>8 DEF Filed, Beside
<1>10. d.res # "full" /\ IsOk(d)
  BY <1>8 DEF IsOk
<1>11. d \in Handled(c) /\ d.fp.fsize = c.fp.fsize /\ d.fp.written = c.fp.written
  BY <1>7, <1>8, <1>9, <1>10 DEF Handled, Headed, Rooted
<1>12. c.fp.fptr <= d.fp.fptr /\ d.fp.fptr <= c.fp.fptr + Len(data) /\ c.fp.fptr < d.fp.fptr
  BY <1>1, <1>6, <1>7, <1>8
<1>13. SameChain(c.fp, d.fp) /\ Quiet(c, d)
  BY <1>7, <1>8, BesideQuiet DEF SameChain, Beside
<1>14. ASSUME NEW r, Going(c.fp, r)
       PROVE  Extends(c, r, d, 0)
  <2>1. n \in Nat \ {0} /\ n <= bcs - SS * csect(c.fp) - (c.fp.fptr % SS)
    <3> DEFINE x == SS * csect(c.fp)
    <3>1. x \in Nat /\ x + SS <= bcs /\ bcs \in Nat
      BY <1>1, Place, ClusterSize
    <3> HIDE DEF x
    <3>2. n <= bcs - x - o
      BY <1>1, <1>2, <1>4, <3>1
    <3> QED
      BY <1>4, <3>2 DEF x, o
  <2>2. d.fp.fptr = c.fp.fptr + n /\ d.fp.clust = c.fp.clust
    BY <1>7, <1>8 DEF q
  <2> QED
    BY <1>8, <1>13, <1>14, <2>1, <2>2, AdvancesExtends
<1> QED
  BY <1>10, <1>11, <1>12, <1>14 DEF d, Written, FullStop

\* The bytes of sector n of the data.
LEMMA Slice ==
  ASSUME NEW data \in Seq(Int), NEW cc \in Nat, cc * SS <= Len(data), NEW k \in 0 .. cc - 1
  PROVE  [i \in 0 .. SS - 1 |-> data[k * SS + i + 1]] \in [0 .. SS - 1 -> Int]
<1>1. SS \in Nat \ {0} /\ Len(data) \in Nat
  BY FatFsAssumption
<1>2. k * SS \in Nat /\ k * SS + SS <= Len(data)
  <2>1. PICK j \in Nat : cc = k + 1 + j
    <3>1. cc - 1 - k \in Nat /\ cc = k + 1 + (cc - 1 - k)
      OBVIOUS
    <3> QED
      BY <3>1
  <2>2. cc * SS = k * SS + SS + j * SS /\ j * SS \in Nat /\ k * SS \in Nat
    BY <1>1, <2>1, SMTT(30)
  <2> QED
    BY <1>1, <2>2
<1> DEFINE m == k * SS
<1> HIDE DEF m
<1>3. \A i \in 0 .. SS - 1 : data[m + i + 1] \in Int
  BY <1>1, <1>2 DEF m
<1>4. [i \in 0 .. SS - 1 |-> data[m + i + 1]] \in [0 .. SS - 1 -> Int]
  BY <1>3
<1> QED
  BY <1>4 DEF m

\* Whole sectors of data are written, up to an error.
LEMMA WriteSectorsType ==
  ASSUME NEW c \in Good, IsOk(c), NEW sect \in Nat, NEW data \in Seq(Int), NEW cc \in Nat,
         cc * SS <= Len(data)
  PROVE  LET d == WriteSectors(c, sect, data, cc)
         IN /\ d \in Good /\ Kept(c, d) /\ FatV(d) = FatV(c) /\ DirV(d) = DirV(c) /\ Quiet(c, d)
            /\ ~IsOk(d) => d.res = "FR_DISK_ERR" /\ d.hit
<1> DEFINE N == cc
           b == c
           Bytes(n) == [i \in 0 .. SS - 1 |-> data[(n - 1) * SS + i + 1]]
           Op(n, d) == IF IsOk(d) THEN disk_write(d, Data(sect + n - 1), Bytes(n)) ELSE d
           W == {d \in Good : /\ Kept(c, d) /\ FatV(d) = FatV(c) /\ DirV(d) = DirV(c)
                              /\ Quiet(c, d)
                              /\ ~IsOk(d) => d.res = "FR_DISK_ERR" /\ d.hit}
           S == [n \in 0 .. N |-> W]
           turn == [x \in (1 .. N) \X W |-> Op(x[1], x[2])]
           Loop(g) == g = [n \in 0 .. N |-> IF n = 0 THEN b ELSE Op(n, g[n - 1])]
           after == CHOOSE g : Loop(g)
<1>1. N \in Nat
  OBVIOUS
<1>2. WriteSectors(c, sect, data, cc) = after[N]
  BY DEF WriteSectors, Repeat, Then
<1>3. b \in W
  BY DEF Kept, Steady, Quiet
<1>4. \A n \in 1 .. N : \A d \in W : Op(n, d) \in W
  <2> SUFFICES ASSUME NEW n \in 1 .. N, NEW d \in W PROVE Op(n, d) \in W
    OBVIOUS
  <2> DEFINE x == Bytes(n)
             s == sect + n - 1
             w == disk_write(d, Data(s), x)
  <2>1. x \in [0 .. SS - 1 -> Int]
    <3>1. n - 1 \in 0 .. cc - 1
      OBVIOUS
    <3> QED
      BY <3>1, Slice
  <2>2. d \in Good /\ Kept(c, d) /\ Quiet(c, d)
    OBVIOUS
  <2>3. Op(n, d) = IF IsOk(d) THEN w ELSE d
    OBVIOUS
  <2> HIDE DEF x, s, Op
  <2>4. /\ w \in Good /\ Kept(d, w)
        /\ FatV(w) = FatV(d) /\ DirV(w) = DirV(d) /\ Quiet(d, w)
        /\ ~IsOk(w) => w.res = "FR_DISK_ERR" /\ w.hit
    BY <2>1, <2>2, DataWriteType
  <2> HIDE DEF w
  <2>5. Kept(c, w) /\ Quiet(c, w)
    BY <2>2, <2>4, KeptTransitive, QuietTransitive
  <2> QED
    BY <2>3, <2>4, <2>5
<1> HIDE DEF Op, W, b, N
<1>5. b \in S[0] /\ \A n \in 0 .. N : S[n] = W
  BY <1>1, <1>3
<1>6. \A n \in 0 .. N : n < N => \A d \in S[n] : Op(n + 1, d) \in S[n + 1]
  <2>1. \A n \in 0 .. N : n < N => n + 1 \in 1 .. N /\ n + 1 \in 0 .. N
    BY <1>1
  <2> QED
    BY <1>4, <1>5, <2>1
<1>7. \A n \in 0 .. N : n < N => n + 1 \in 1 .. N /\ n + 1 \in 0 .. N /\ (n + 1) - 1 = n
  BY <1>1
<1>8. Turns(N, S, turn)
  <2> HIDE DEF S, N
  <2> QED
    BY <1>7, <1>5, <1>6 DEF Turns
<1> HIDE DEF S
<1>9. \E g : Loop(g)
  <2>1. PICK g : /\ g = [n \in 0 .. N |-> IF n = 0 THEN b ELSE turn[<<n, g[n - 1]>>]]
                 /\ \A n \in 0 .. N : g[n] \in S[n]
    <3> HIDE DEF turn, N
    <3>1. Runs(N, S, b, turn)
      BY <1>1, <1>5, <1>8, LoopExists
    <3> QED
      BY <3>1 DEF Runs
  <2>2. ASSUME NEW n \in 0 .. N, n # 0
        PROVE  turn[<<n, g[n - 1]>>] = Op(n, g[n - 1])
    <3>1. n - 1 \in 0 .. N /\ n \in 1 .. N
      BY <1>1, <2>2
    <3> HIDE DEF N
    <3> QED
      BY <1>5, <1>6, <2>1, <3>1
  <2> HIDE DEF turn, N
  <2> QED
    BY <2>1, <2>2
<1>10. Loop(after)
  BY <1>9
<1> HIDE DEF after
<1> DEFINE T == {n \in 0 .. N : after[n] \in S[n]}
<1>11. 0 .. N \subseteq T
  <2>1. 0 \in 0 .. N /\ after[0] = b
    BY <1>1, <1>10
  <2> HIDE DEF N
  <2>2. \A n \in 0 .. N : n < N => after[n + 1] = Op(n + 1, after[n])
    BY <1>7, <1>10
  <2> HIDE DEF Loop
  <2>3. 0 \in T /\ \A n \in 0 .. N : n \in T /\ n < N => n + 1 \in T
    BY <1>5, <1>7, <1>5, <1>6, <2>1, <2>2
  <2> HIDE DEF T
  <2> QED
    BY <1>1, <2>3, UptoInduction
<1>12. after[N] \in S[N]
  BY <1>1, <1>11
<1>13. after[N] \in W
  BY <1>1, <1>5, <1>12
<1> QED
  BY <1>2, <1>13 DEF W

\* A write of whole sectors advances.
LEMMA WriteDirectType ==
  ASSUME NEW c \in Good, IsOk(c), c.fp.err = "FR_OK", c.fp.clust \in Cluster, Rooted(c.fp),
         NEW data \in Seq(Int), NEW cc \in Nat, cc > 0, cc * SS <= Len(data)
  PROVE  LET d == WriteDirect(c, data, cc)
         IN /\ d \in Written(c, Len(data))
            /\ c.fp.fptr % SS = 0 /\ cc <= csize - csect(c.fp) => Extends(c, 1, d, 0)
<1> DEFINE k == c.fp.dsect - sector(c.fp)
           held == k \in 0 .. cc - 1
           m == cc * SS
           r == WriteSectors(c, sector(c.fp), data, cc)
           q == r.fp.fptr + m
           buf == IF held THEN [i \in 0 .. SS - 1 |-> data[k * SS + i + 1]] ELSE r.fp.buf
           dirty == r.fp.dirty /\ ~held
           p == [r.fp EXCEPT !.fptr = q, !.buf = buf, !.dirty = dirty]
           x == WithFp(r, p)
           f == IF IsOk(r) THEN x ELSE r
<1>1. /\ c \in Ctx /\ c.fp \in FIL /\ c.fp.fptr \in Nat /\ SS \in Nat \ {0}
      /\ Len(data) \in Nat
  <2>1. Len(data) \in Nat
    OBVIOUS
  <2>2. c \in Ctx /\ c.fp \in FIL /\ c.fp.fptr \in Nat /\ SS \in Nat \ {0}
    BY FatFsAssumption DEF Good, Ctx, FIL
  <2> QED
    BY <2>1, <2>2
<1>2. m \in Nat /\ m <= Len(data) /\ m > 0
  <2>1. cc * SS \in Nat /\ cc * SS > 0
    <3>1. PICK j \in Nat : cc = j + 1
      <4>1. cc - 1 \in Nat /\ cc = (cc - 1) + 1
        OBVIOUS
      <4> QED
        BY <4>1
    <3>2. cc * SS = j * SS + SS /\ j * SS \in Nat
      BY <1>1, <3>1, SMTT(30)
    <3> QED
      BY <1>1, <3>2
  <2> QED
    BY <2>1
<1>3. sector(c.fp) \in Nat
  <2>1. csect(c.fp) \in 0 .. csize - 1
    BY <1>1, CsectType
  <2>2. clust2sect(c.fp.clust) \in Nat
    BY <2>1, SectorType
  <2> QED
    BY <2>1, <2>2 DEF sector
<1>4. /\ r \in Good /\ Kept(c, r) /\ FatV(r) = FatV(c) /\ Quiet(c, r)
      /\ ~IsOk(r) => r.res = "FR_DISK_ERR" /\ r.hit
  BY <1>3, WriteSectorsType
<1>5. WriteDirect(c, data, cc) = OrAbort(f)
  <2>1. r \in Ctx /\ r.fp \in FIL
    BY <1>4 DEF Good, Ctx
  <2>2. x = [r EXCEPT !.fp.fptr = @ + cc * SS,
                      !.fp.buf = IF held THEN [i \in 0 .. SS - 1 |-> data[k * SS + i + 1]] ELSE @,
                      !.fp.dirty = @ /\ ~held]
    <3> HIDE DEF r, held, k
    <3> QED
      BY <2>1 DEF Ctx, FIL, WithFp
  <2> HIDE DEF x
  <2> QED
    BY <2>2 DEF WriteDirect, Then, r, held, k
<1>6. r.fp = c.fp /\ Filed(c, r)
  BY <1>4, SteadyStays DEF Kept, Steady
<1> HIDE DEF r
<1>7. buf \in [0 .. SS - 1 -> Int]
  <2>1. CASE held
    <3>1. k \in 0 .. cc - 1
      BY <2>1
    <3> HIDE DEF k
    <3>2. [i \in 0 .. SS - 1 |-> data[k * SS + i + 1]] \in [0 .. SS - 1 -> Int]
      BY <3>1, Slice
    <3> QED
      BY <2>1, <3>2
  <2>2. CASE ~held
    BY <1>1, <1>6, <2>2 DEF FIL
  <2> QED
    BY <2>1, <2>2
<1>8. dirty \in BOOLEAN
  BY Zenon
<1>9. q \in Nat /\ q <= c.fp.fptr + Len(data) /\ c.fp.fptr < q
  BY <1>1, <1>2, <1>6
<1> HIDE DEF buf, dirty, q
<1>10. /\ p \in FIL /\ p.fptr = q /\ p.sclust = c.fp.sclust /\ p.clust = c.fp.clust
       /\ p.err = c.fp.err /\ p.fsize = c.fp.fsize /\ p.written = c.fp.written
       /\ p.fs = c.fp.fs /\ p.id = c.fp.id
       /\ p.rd = c.fp.rd /\ p.wr = c.fp.wr /\ p.dir_ptr = c.fp.dir_ptr
  BY <1>1, <1>6, <1>7, <1>8, <1>9 DEF FIL
<1> HIDE DEF p
<1>11. x \in Good /\ Beside(r, x) /\ x.fp = p /\ x.res = r.res /\ Met(r, x) /\ Over(x) = Over(r)
  BY <1>4, <1>10, WithFpType
<1> HIDE DEF x
<1>12. Filed(c, x) /\ Quiet(c, x)
  <2>1. Quiet(r, x)
    BY <1>11, BesideQuiet DEF Beside
  <2>2. Quiet(c, x)
    BY <1>4, <2>1, QuietTransitive
  <2> QED
    BY <1>6, <1>10, <1>11, <2>2 DEF Filed, Beside, Met
<1>13. /\ f \in Good /\ Filed(c, f) /\ f.fp.err = "FR_OK" /\ Rooted(f.fp)
       /\ f.fp.fptr <= c.fp.fptr + Len(data) /\ (~IsOk(f) => f.res = "FR_DISK_ERR")
       /\ c.fp.fptr <= f.fp.fptr /\ (IsOk(f) => c.fp.fptr < f.fp.fptr)
       /\ Quiet(c, f) /\ f.fp.sclust = c.fp.sclust /\ f.fp.fsize = c.fp.fsize
       /\ f.fp.written = c.fp.written
       /\ IsOk(f) => f.fp.fptr = q /\ f.fp.clust = c.fp.clust
  <2>1. CASE IsOk(r)
    <3>1. f = x
      BY <2>1
    <3> HIDE DEF f
    <3> QED
      BY <1>1, <1>9, <1>10, <1>11, <1>12, <2>1, <3>1 DEF IsOk, Rooted
  <2>2. CASE ~IsOk(r)
    <3>1. f = r
      BY <2>2
    <3> HIDE DEF f
    <3> QED
      BY <1>1, <1>4, <1>6, <2>2, <3>1
  <2> QED
    BY <2>1, <2>2
<1> HIDE DEF f
<1> DEFINE o == OrAbort(f)
<1>14. /\ o \in Good /\ Stays(f, o) /\ o.res = f.res /\ Beside(f, o) /\ Over(o) = Over(f)
       /\ IsOk(f) => IsOk(o) /\ o = f
       /\ ~IsOk(f) => ~IsOk(o) /\ o.fp.err = f.res
  BY <1>13, OrAbortType
<1> HIDE DEF o
<1>15. Filed(c, o) /\ o.fp.fptr = f.fp.fptr
  BY <1>13, <1>14, FiledTransitive DEF Stays, Rooted
<1>16. Headed(o.fp) /\ (IsOk(o) => o.fp.err = "FR_OK")
  BY <1>13, <1>14 DEF Headed, Rooted
<1>17. o.res # "full"
  BY <1>13, <1>14 DEF IsOk
<1>18. o \in Handled(c) /\ o.fp.fsize = c.fp.fsize /\ o.fp.written = c.fp.written
  BY <1>13, <1>14, <1>15, <1>16 DEF Handled, Stays
<1>19. o \in Written(c, Len(data))
  BY <1>13, <1>14, <1>15, <1>17, <1>18 DEF Written, FullStop
<1>20. Quiet(c, o) /\ SameChain(c.fp, o.fp)
  BY <1>13, <1>14, BesideQuiet, QuietTransitive DEF SameChain, Stays, Beside
<1>21. ASSUME c.fp.fptr % SS = 0, cc <= csize - csect(c.fp)
       PROVE  Extends(c, 1, o, 0)
  <2>1. CASE IsOk(f)
    <3>1. m \in Nat \ {0} /\ m <= bcs - SS * csect(c.fp) - (c.fp.fptr % SS)
      <4> DEFINE j == csize - csect(c.fp) - cc
                 y == SS * csect(c.fp)
                 z == SS * j
      <4>1. csect(c.fp) \in Nat /\ j \in Nat /\ csize = csect(c.fp) + cc + j
        <5>1. csect(c.fp) \in 0 .. csize - 1
          BY <1>1, CsectType
        <5> QED
          BY <1>21, <5>1, FatFsAssumption
      <4> HIDE DEF j
      <4>2. bcs = y + m + z /\ z \in Nat /\ y \in Nat
        BY <1>1, <4>1, ClusterSize, SMTT(60) DEF m
      <4> HIDE DEF y, z
      <4>3. m <= bcs - y - 0
        BY <1>2, <4>2
      <4> QED
        BY <1>2, <1>21, <4>2, <4>3 DEF y
    <3>2. o.fp.fptr = c.fp.fptr + m /\ o.fp.clust = c.fp.clust
      BY <1>6, <1>13, <1>14, <2>1 DEF q
    <3>3. Going(c.fp, 1)
      BY DEF Going
    <3> QED
      BY <1>14, <1>20, <3>1, <3>2, <3>3, AdvancesExtends
  <2>2. CASE ~IsOk(f)
    <3>1. o.fp.err # "FR_OK"
      BY <1>13, <1>14, <2>2 DEF IsOk
    <3> QED
      BY <1>14, <1>20, <3>1, StaysExtends
  <2> QED
    BY <2>1, <2>2
<1> QED
  BY <1>5, <1>19, <1>21 DEF o

\* A write at the beginning of a cluster follows the chain or makes it longer; it is full
\* only if every cluster is taken.
LEMMA WriteClusterType ==
  ASSUME NEW c \in Good, IsOk(c), c.fp.err = "FR_OK", Headed(c.fp), c.fp.fptr % SS = 0
  PROVE  LET d == WriteCluster(c)
         IN /\ d \in Handled(c) /\ d.fp.fptr = c.fp.fptr /\ (IsOk(d) => Rooted(d.fp))
            /\ FullStop(d) /\ d.fp.fsize = c.fp.fsize /\ d.fp.written = c.fp.written
            /\ IsOk(d) => Extends(c, 0, d, 1)
            /\ ~IsOk(d) => Extends(c, 0, d, 0)
<1> DEFINE a == IF c.fp.fptr = 0 THEN 0 ELSE c.fp.clust
           b == IF c.fp.fptr = 0 /\ c.fp.sclust # 0 THEN [c EXCEPT !.val = c.fp.sclust]
                ELSE create_chain(c, a)
           f == Follow(b)
<1>1. c \in Ctx /\ c.fp \in FIL /\ c.fp.fptr \in Nat /\ c.fp.sclust \in Cluster \cup {0}
      /\ c.fp.clust \in Nat
  BY DEF Good, Ctx, FIL
<1>2. CASE csect(c.fp) # 0
  <2>1. WriteCluster(c) = c
    BY <1>2 DEF WriteCluster
  <2>2. Rooted(c.fp)
    BY <1>1, <1>2, CsectType DEF Headed, Rooted
  <2> QED
    BY <1>2, <2>1, <2>2, InsideExtends DEF Handled, Filed, Met, IsOk, FullStop
<1>3. CASE csect(c.fp) = 0
  <2>1. WriteCluster(c) = f
    BY <1>3 DEF WriteCluster
  <2>2. 0 \notin Cluster /\ Cluster \subseteq FatEntry /\ 0 \in FatEntry
        /\ \A x \in Cluster : x \in Int
    BY FatFsAssumption DEF n_fatent, Cluster, FatEntry, EOC
  <2>3. /\ b \in Good /\ Stays(c, b) /\ b.fp = c.fp
        /\ b.val \in {0, 1, Ones} \cup Cluster
        /\ b.val = 0 => Full(FatV(b))
        /\ Leads(c, 0, b, c.fp.fptr \div bcs)
    <3>1. CASE c.fp.fptr = 0 /\ c.fp.sclust # 0
      <4>1. b = [c EXCEPT !.val = c.fp.sclust] /\ c.fp.sclust \in Int
        BY <1>1, <2>2, <3>1
      <4> HIDE DEF b
      <4>2. b \in Good /\ Moved(c, b) /\ b.val = c.fp.sclust
        BY <4>1, ValType
      <4>3. Quiet(c, b) /\ FatV(b) = FatV(c)
        BY <4>2, MovedQuiet, ViewsMoved DEF Moved
      <4>4. c.fp.sclust \in Cluster /\ 0 \div bcs = 0
        BY <1>1, <3>1, ClusterSize
      <4>5. Leads(c, 0, b, c.fp.fptr \div bcs)
        <5> SUFFICES ASSUME NEW m \in Chart, NEW i \in 0 .. n_rootdir, NEW exact \in BOOLEAN,
                            Charted(FatV(c), m), Fits(m, i, c.fp, exact, 0)
                     PROVE  /\ Through(c, b, Grown(m, i, DirV(c)))
                            /\ Grows(m, m, i)
                            /\ i # 0 => /\ m.hd[i] = c.fp.sclust /\ m.own[c.fp.sclust] = i
                                        /\ exact => m.pos[c.fp.sclust] = c.fp.fptr \div bcs
          BY <2>2, <3>1, <4>2, <4>3, <4>4 DEF Leads
        <5>1. Grows(m, m, i)
          BY GrowsReflexive
        <5>2. Through(c, b, Grown(m, i, DirV(c)))
          BY <4>3, <5>1, TableType, QuietThrough DEF Grown
        <5>3. i # 0 => i \in Label /\ m.hd[i] = c.fp.sclust
          BY FatFsAssumption DEF Fits, Label
        <5> QED
          BY <3>1, <4>4, <5>1, <5>2, <5>3 DEF Charted
      <4> QED
        BY <1>1, <2>2, <3>1, <4>2, <4>5, SteadyStays DEF Moved, Kept, Steady
    <3>2. CASE ~(c.fp.fptr = 0 /\ c.fp.sclust # 0)
      <4>1. b = create_chain(c, a)
        BY <3>2
      <4>2. a \in Nat
        BY <1>1
      <4>3. Leads(c, 0, create_chain(c, a), c.fp.fptr \div bcs)
        <5>1. CASE c.fp.fptr = 0
          <6>1. a = 0 /\ c.fp.sclust = 0 /\ 0 \div bcs = 0
            BY <3>2, <5>1, ClusterSize
          <6> HIDE DEF a
          <6> QED
            BY <5>1, <6>1, FirstLeads
        <5>2. CASE c.fp.fptr # 0
          <6>1. a = c.fp.clust /\ c.fp.fptr > 0 /\ c.fp.sclust # 0
            BY <1>1, <5>2 DEF Headed, Rooted
          <6>2. Behind(c.fp.fptr) \in Nat /\ c.fp.fptr \div bcs = Behind(c.fp.fptr) + 1
            BY <1>1, <1>3, <6>1, Boundary
          <6> HIDE DEF a
          <6> DEFINE place == c.fp.fptr \div bcs
          <6>3. place \in Nat /\ place = Behind(c.fp.fptr) + 1
            BY <6>2
          <6> HIDE DEF place
          <6>4. Leads(c, 0, create_chain(c, c.fp.clust), place)
            BY <6>1, <6>3, NextLeads
          <6> QED
            BY <6>1, <6>4 DEF place
        <5> QED
          BY <5>1, <5>2
      <4> HIDE DEF b, a
      <4> QED
        BY <4>1, <4>2, <4>3, CreateChainVal
    <3> QED
      BY <3>1, <3>2
  <2> HIDE DEF b
  <2>4. b.val \in {0, 1, Ones} \cup FatEntry /\ b.fp.err = "FR_OK" /\ Headed(b.fp)
    BY <2>2, <2>3
  <2>5. /\ f \in Handled(b) /\ FatV(f) = FatV(b) /\ f.fp.fptr = b.fp.fptr
        /\ IsOk(f) => Rooted(f.fp)
        /\ f.fp.fsize = b.fp.fsize /\ f.fp.written = b.fp.written /\ Quiet(b, f)
        /\ IsOk(f) <=> b.val \notin {0, 1, Ones}
        /\ IsOk(f) => f.fp.clust = b.val
        /\ IsOk(f) => f.fp.sclust = IF b.fp.sclust = 0 THEN b.val ELSE b.fp.sclust
        /\ ~IsOk(f) => f.fp.sclust = b.fp.sclust
        /\ ~IsOk(f) => \/ f.res = "full" /\ b.val = 0 /\ f.fp = b.fp
                       \/ f.res \in Errors /\ f.fp.err = f.res
    <3>1. b.fp.sclust = 0 => b.val \in {0, 1, Ones} \cup Cluster
      BY <2>3
    <3> QED
      BY <2>3, <2>4, <3>1, FollowType
  <2> HIDE DEF f
  <2>6. f \in Handled(c)
    BY <2>3, <2>5, FiledTransitive DEF Handled, Stays, Rooted
  <2>7. FullStop(f)
    BY <2>3, <2>5 DEF FullStop, IsOk, Errors
  <2>8. /\ IsOk(f) => Extends(c, 0, f, 1)
        /\ ~IsOk(f) => Extends(c, 0, f, 0)
    <3>1. f \in Good
      BY <2>5 DEF Handled
    <3>2. CASE IsOk(f)
      <4>1. b.val \in Cluster
        BY <2>3, <2>5, <3>2
      <4> QED
        BY <2>3, <2>5, <3>1, <3>2, <4>1, FollowLeads
    <3>3. CASE ~IsOk(f)
      <4>1. b.val \notin Cluster
        BY <2>5, <3>3, OnesNoCluster
      <4>2. f.fp.err = "FR_OK" => f.fp.clust = c.fp.clust
        BY <2>3, <2>5, <3>3 DEF Errors
      <4> QED
        BY <2>3, <2>5, <3>1, <3>3, <4>1, <4>2, FollowLeads
    <3> QED
      BY <3>2, <3>3
  <2> QED
    BY <2>1, <2>3, <2>5, <2>6, <2>7, <2>8 DEF f
<1> QED
  BY <1>2, <1>3

\* A write writes whole sectors, or a part of one.
LEMMA PutSectorsType ==
  ASSUME NEW c \in Good, IsOk(c), c.fp.err = "FR_OK", Rooted(c.fp),
         NEW data \in Seq(Int), data # <<>>, c.fp.fptr % SS = 0
  PROVE  LET d == PutSectors(c, data)
         IN d \in Written(c, Len(data)) /\ Extends(c, 1, d, 0)
<1> DEFINE n == Len(data)
           cc == Least(n \div SS, csize - csect(c.fp))
           rd == c.fp.fptr < c.fp.fsize
           l == Load(c, sector(c.fp), rd)
           p == Put(l, data)
           w == WriteDirect(c, data, cc)
           a == Abort(c, "FR_INT_ERR")
<1>1. /\ c \in Ctx /\ c.fp \in FIL /\ c.fp.fptr \in Nat /\ csect(c.fp) \in 0 .. csize - 1
      /\ n \in Nat
  BY CsectType, SMTT(60) DEF Good, Ctx, FIL
<1>2. PutSectors(c, data) = IF clust2sect(c.fp.clust) = 0 THEN a
                            ELSE IF cc > 0 THEN w ELSE IF IsOk(l) THEN p ELSE l
  BY DEF PutSectors, Then
<1>3. CASE clust2sect(c.fp.clust) = 0
  <2>1. /\ a \in Handled(c) /\ a.fp.fptr = c.fp.fptr /\ ~IsOk(a) /\ a.res = "FR_INT_ERR"
        /\ SameChain(c.fp, a.fp) /\ Extends(c, 1, a, 0)
    BY AbortHandled DEF Errors
  <2> HIDE DEF a
  <2> QED
    BY <1>1, <1>2, <1>3, <2>1 DEF Written, FullStop, SameChain
<1>4. CASE clust2sect(c.fp.clust) # 0
  <2>1. c.fp.clust \in Cluster
    BY <1>4, NoSectorType
  <2>2. cc \in Nat /\ cc * SS <= n /\ cc <= csize - csect(c.fp)
    <3>1. n \div SS \in Nat
      BY <1>1, FatFsAssumption, Division
    <3> DEFINE x == n \div SS
               y == csize - csect(c.fp)
    <3>2. cc \in Nat /\ cc <= n \div SS /\ cc <= csize - csect(c.fp)
      <4>1. x \in Nat /\ y \in Nat
        BY <1>1, <3>1, FatFsAssumption
      <4> HIDE DEF x, y, n
      <4>2. Least(x, y) \in Nat /\ Least(x, y) <= x /\ Least(x, y) <= y
        BY <4>1 DEF Least
      <4> QED
        BY <4>2 DEF x, y, n
    <3> HIDE DEF x, y
    <3> HIDE DEF cc, n
    <3> QED
      BY <1>1, <3>2, FatFsAssumption, Multiples
  <2> HIDE DEF cc
  <2>3. CASE cc > 0
    <3>1. w \in Written(c, Len(data)) /\ Extends(c, 1, w, 0)
      BY <2>1, <2>2, <2>3, WriteDirectType
    <3> QED
      BY <1>2, <1>4, <2>3, <3>1
  <2>4. CASE ~(cc > 0)
    <3>1. sector(c.fp) \in Sect
      BY <1>1, <2>1, SectorType DEF sector
    <3>2. /\ l \in Good /\ Stays(c, l) /\ Quiet(c, l)
          /\ IsOk(l) => l.fp.err = c.fp.err
          /\ ~IsOk(l) => l.res = "FR_DISK_ERR" /\ l.fp.err = l.res
      <4>1. rd \in BOOLEAN
        OBVIOUS
      <4> HIDE DEF rd
      <4> QED
        BY <3>1, <4>1, LoadType
    <3> HIDE DEF l
    <3>3. Rooted(l.fp) /\ l.fp.fptr = c.fp.fptr /\ Filed(c, l) /\ SameChain(c.fp, l.fp)
          /\ l.fp.clust = c.fp.clust
      BY <3>2 DEF Stays, Rooted, SameChain
    <3>4. CASE IsOk(l)
      <4>1. p \in Written(l, n) /\ \A q : Going(l.fp, q) => Extends(l, q, p, 0)
        BY <3>2, <3>3, <3>4, PutType
      <4> HIDE DEF p
      <4>2. p \in Handled(c)
        BY <3>3, <4>1, FiledTransitive DEF Handled, Written, SameChain
      <4>3. p \in Written(c, n)
        BY <3>3, <4>1, <4>2 DEF Written, SameChain
      <4>4. Extends(c, 1, l, 1)
        BY <3>2, <3>3, StaysExtends
      <4>5. Extends(l, 1, p, 0)
        BY <2>1, <3>3, <4>1 DEF Going
      <4>6. Extends(c, 1, p, 0)
        BY <3>2, <4>2, <4>4, <4>5, ExtendsTransitive DEF Handled
      <4> QED
        BY <1>2, <1>4, <2>4, <3>4, <4>3, <4>6
    <3>5. CASE ~IsOk(l)
      <4>1. l \in Handled(c) /\ l.fp.fptr <= c.fp.fptr + n
        BY <1>1, <3>2, <3>3, <3>5 DEF Handled, Headed, Rooted, SameChain
      <4>2. l \in Written(c, n)
        BY <1>1, <3>2, <3>3, <3>5, <4>1 DEF Written, FullStop, SameChain
      <4>3. Extends(c, 1, l, 0)
        BY <3>2, <3>3, <3>5, StaysExtends
      <4> QED
        BY <1>2, <1>4, <2>4, <3>5, <4>2, <4>3
    <3> QED
      BY <3>4, <3>5
  <2> QED
    BY <2>3, <2>4
<1> QED
  BY <1>3, <1>4

\* A turn of f_write's loop takes some bytes, fails, or finds the disk full.
LEMMA WriteSomeType ==
  ASSUME NEW c \in Good, Headed(c.fp), IsOk(c), c.fp.err = "FR_OK",
         NEW data \in Seq(Int), data # <<>>
  PROVE  LET d == WriteSome(c, data)
         IN d \in Written(c, Len(data)) /\ Extends(c, 0, d, 0)
<1> DEFINE p == Put(c, data)
           k == WriteCluster(c)
           b == WriteBack(k)
           o == OrAbort(b)
           s == PutSectors(o, data)
           n == Len(data)
<1>1. c \in Ctx /\ c.fp \in FIL /\ c.fp.fptr \in Nat /\ n \in Nat
  BY SMTT(60) DEF Good, Ctx, FIL
<1>2. WriteSome(c, data) = IF c.fp.fptr % SS # 0 THEN p
                           ELSE IF IsOk(k) THEN IF IsOk(o) THEN s ELSE o ELSE k
  BY DEF WriteSome, Then
<1>3. CASE c.fp.fptr % SS # 0
  <2>1. Rooted(c.fp)
    <3>1. c.fp.fptr > 0
      BY <1>1, <1>3, Division, FatFsAssumption
    <3> QED
      BY <3>1 DEF Headed, Rooted
  <2>2. Going(c.fp, 0)
    BY <1>3 DEF Going
  <2> QED
    BY <1>2, <1>3, <2>1, <2>2, PutType
<1>4. CASE ~(c.fp.fptr % SS # 0)
  <2>1. /\ k \in Handled(c) /\ k.fp.fptr = c.fp.fptr /\ (IsOk(k) => Rooted(k.fp))
        /\ FullStop(k) /\ k.fp.fsize = c.fp.fsize /\ k.fp.written = c.fp.written
        /\ IsOk(k) => Extends(c, 0, k, 1)
        /\ ~IsOk(k) => Extends(c, 0, k, 0)
    BY <1>4, WriteClusterType
  <2> HIDE DEF k
  <2>2. CASE ~IsOk(k)
    <3>1. k \in Written(c, n)
      BY <1>1, <2>1, <2>2 DEF Written
    <3> QED
      BY <1>2, <1>4, <2>1, <2>2, <3>1
  <2>3. CASE IsOk(k)
    <3>1. k \in Good /\ Filed(c, k) /\ k.fp.err = "FR_OK"
      BY <2>1, <2>3 DEF Handled
    <3>2. /\ b \in Good /\ Stays(k, b) /\ b.fp.err = k.fp.err /\ Quiet(k, b)
          /\ ~IsOk(b) => b.res = "FR_DISK_ERR"
      BY <3>1, WriteBackType
    <3> HIDE DEF b
    <3>3. /\ o \in Good /\ Stays(b, o) /\ o.res = b.res /\ Quiet(b, o)
          /\ IsOk(b) => IsOk(o) /\ o = b
          /\ ~IsOk(b) => ~IsOk(o) /\ o.fp.err = b.res
      BY <3>2, OrAbortType, BesideQuiet DEF Beside
    <3> HIDE DEF o
    <3>4. Stays(k, o) /\ Quiet(k, o)
      BY <3>2, <3>3, StaysTransitive, QuietTransitive
    <3>5. Filed(c, o) /\ o.fp.fptr = c.fp.fptr /\ Rooted(o.fp) /\ SameChain(k.fp, o.fp)
          /\ o.fp.fsize = c.fp.fsize /\ o.fp.written = c.fp.written /\ o.fp.clust = k.fp.clust
      BY <2>1, <2>3, <3>1, <3>4, FiledTransitive DEF Stays, Rooted, SameChain
    <3>6. CASE ~IsOk(o)
      <4>1. ~IsOk(b)
        BY <3>3, <3>6
      <4>2. o.res = "FR_DISK_ERR" /\ Headed(o.fp)
        BY <3>2, <3>3, <4>1 DEF Headed, Rooted
      <4>3. o \in Handled(c)
        BY <3>3, <3>5, <3>6, <4>2 DEF Handled
      <4>4. o \in Written(c, n)
        BY <1>1, <3>5, <3>6, <4>2, <4>3 DEF Written, FullStop
      <4>5. Extends(k, 1, o, 0)
        BY <3>1, <3>3, <3>4, <3>5, <4>2, <3>6, <4>1, StaysExtends DEF IsOk
      <4>6. Extends(c, 0, o, 0)
        BY <2>1, <2>3, <3>1, <3>3, <4>5, ExtendsTransitive
      <4> QED
        BY <1>2, <1>4, <2>3, <3>6, <4>4, <4>6
    <3>7. CASE IsOk(o)
      <4>1. o = b /\ o.fp.err = "FR_OK"
        BY <3>1, <3>2, <3>3, <3>7
      <4>2. s \in Written(o, n) /\ Extends(o, 1, s, 0)
        BY <1>4, <3>3, <3>5, <3>7, <4>1, PutSectorsType
      <4> HIDE DEF s
      <4>3. s \in Handled(c)
        BY <3>5, <4>2, FiledTransitive DEF Handled, Written
      <4>4. s \in Written(c, n)
        BY <3>5, <4>2, <4>3 DEF Written
      <4>5. Extends(k, 1, o, 1)
        BY <2>1, <3>1, <3>3, <3>4, <3>5, StaysExtends
      <4>6. Extends(c, 0, s, 0)
        BY <2>1, <2>3, <3>1, <3>3, <4>2, <4>3, <4>5, ExtendsTransitive DEF Handled
      <4> QED
        BY <1>2, <1>4, <2>3, <3>7, <4>4, <4>6
    <3> QED
      BY <3>6, <3>7
  <2> QED
    BY <2>2, <2>3
<1> QED
  BY <1>3, <1>4
\* What is left of the data after k bytes.
LEMMA Rest ==
  ASSUME NEW data \in Seq(Int), NEW k \in 0 .. Len(data)
  PROVE  LET s == SubSeq(data, k + 1, Len(data))
         IN s \in Seq(Int) /\ Len(s) = Len(data) - k /\ (s = <<>> <=> k = Len(data))
<1> DEFINE s == SubSeq(data, k + 1, Len(data))
<1>1. Len(data) \in Nat
  OBVIOUS
<1>2. s \in Seq(Int)
  BY <1>1
<1>3. Len(s) = Len(data) - k
  BY <1>1
<1> HIDE DEF s
<1>4. s = <<>> <=> Len(s) = 0
  BY <1>2
<1>5. s = <<>> <=> k = Len(data)
  BY <1>1, <1>3, <1>4
<1> QED
  BY <1>2, <1>3, <1>5 DEF s

\* A write from start to goal, underway.
Writing(c, start, goal) ==
  {d \in Handled(c) : /\ start <= d.fp.fptr /\ d.fp.fptr <= goal /\ FullStop(d)
                      /\ d.fp.fsize = c.fp.fsize /\ d.fp.written = c.fp.written
                      /\ Extends(c, 0, d, 0)}

\* ... which leaves the write underway, or at its end.
LEMMA WriteTurn ==
  ASSUME NEW c \in Good, NEW data \in Seq(Int), NEW start \in Nat,
         NEW d \in Writing(c, start, start + Len(data))
  PROVE  LET e == WriteSome(d, SubSeq(data, d.fp.fptr - start + 1, Len(data)))
         IN /\ e \in Writing(c, start, start + Len(data))
            /\ IsOk(e) => IsOk(d) /\ (e.fp.fptr > d.fp.fptr \/ e.fp.fptr = start + Len(data))
<1> DEFINE k == d.fp.fptr - start
           s == SubSeq(data, k + 1, Len(data))
           e == WriteSome(d, s)
           goal == start + Len(data)
<1>1. /\ d \in Handled(c) /\ d \in Good /\ d.fp.fptr \in Nat /\ Headed(d.fp)
      /\ IsOk(d) => d.fp.err = "FR_OK"
  BY DEF Writing, Handled, Good, Ctx, FIL
<1>2. Len(data) \in Nat
  OBVIOUS
<1>3. k \in 0 .. Len(data)
  <2> DEFINE x == d.fp.fptr
             n == Len(data)
  <2>1. x \in Nat /\ start <= x /\ x <= start + n /\ n \in Nat
    BY <1>1, <1>2 DEF Writing
  <2> HIDE DEF x, n
  <2>2. x - start \in 0 .. n
    BY <2>1
  <2> QED
    BY <2>2 DEF x, n
<1>4. s \in Seq(Int) /\ Len(s) = Len(data) - k /\ (s = <<>> <=> k = Len(data))
  BY <1>3, Rest
<1> HIDE DEF s
<1>5. d.fp.fptr + Len(s) = goal /\ goal \in Nat
  BY <1>1, <1>2, <1>4, SMTT(60)
<1>6. s = <<>> => d.fp.fptr = goal
  <2> DEFINE x == d.fp.fptr
             n == Len(data)
  <2> HIDE DEF n
  <2>1. s = <<>> => x - start = n
    BY <1>4 DEF n
  <2> HIDE DEF x
  <2>2. x - start = n => x = start + n
    BY <1>1, <1>2 DEF x, n
  <2> QED
    BY <2>1, <2>2 DEF x, n
<1> HIDE DEF k
<1>7. CASE ~IsOk(d) \/ s = <<>>
  <2>1. e = d
    BY <1>7 DEF WriteSome
  <2> HIDE DEF e
  <2>2. e \in Writing(c, start, goal)
    BY <2>1
  <2>3. IsOk(e) => IsOk(d) /\ e.fp.fptr = goal
    BY <1>6, <1>7, <2>1
  <2> QED
    BY <2>2, <2>3 DEF e, s, k
<1>8. CASE IsOk(d) /\ s # <<>>
  <2>1. e \in Written(d, Len(s)) /\ Extends(d, 0, e, 0)
    BY <1>1, <1>4, <1>8, WriteSomeType
  <2> HIDE DEF e
  <2>2. e \in Handled(d) /\ d.fp.fptr <= e.fp.fptr /\ e.fp.fptr <= goal /\ FullStop(e)
        /\ (IsOk(e) => d.fp.fptr < e.fp.fptr)
        /\ e.fp.fsize = d.fp.fsize /\ e.fp.written = d.fp.written
    BY <1>5, <2>1 DEF Written
  <2>3. e \in Handled(c)
    BY <1>1, <2>2, HandledTransitive
  <2>4. e.fp.fptr \in Nat
    BY <2>2 DEF Handled, Good, Ctx, FIL
  <2>5. start <= e.fp.fptr
    BY <1>1, <2>2, <2>4 DEF Writing
  <2>8. Extends(c, 0, e, 0) /\ e.fp.fsize = c.fp.fsize /\ e.fp.written = c.fp.written
    BY <1>1, <2>1, <2>2, <2>3, ExtendsTransitive DEF Writing, Handled
  <2>6. e \in Writing(c, start, goal)
    BY <2>2, <2>3, <2>5, <2>8 DEF Writing
  <2>7. IsOk(e) => IsOk(d) /\ e.fp.fptr > d.fp.fptr
    BY <1>1, <1>8, <2>2, <2>4
  <2> QED
    BY <2>6, <2>7 DEF e, s, k
<1> QED
  BY <1>7, <1>8

\* A write or a seek of c to goal that ends short of it, without an error, found no free
\* cluster.
Ends(c, d, goal) ==
  IsOk(d) => /\ c.fp.fs /\ d.fs_type # 0 /\ d.stat # "STA_NOINIT" /\ d \in Good
             /\ d.fp.fptr < goal => Full(FatV(d))

\* f_write keeps the types, and ends short of what was asked for, without an error, only
\* if every cluster is taken: its loop makes at most one turn for each byte.
LEMMA WriteFileType ==
  ASSUME NEW c \in Fair, Headed(c.fp), NEW data \in Seq(Int)
  PROVE  LET d == f_write(c, data)
         IN /\ d \in Result(c) /\ Ends(c, d, c.fp.fptr + Len(data)) /\ d \in Worked(c)
            /\ IsOk(d) => d.fp.written
<1> DEFINE N == Len(data)
           start == c.fp.fptr
           goal == start + N
           v == Reject(c)
           b == v
           Op(d) == WriteSome(d, SubSeq(data, d.fp.fptr - c.fp.fptr + 1, Len(data)))
           W == Writing(v, start, goal)
           S == [k \in 0 .. N |-> {d \in W : IsOk(d) => d.fp.fptr >= Least(start + k, goal)}]
           turn == [x \in (1 .. N) \X W |-> Op(x[2])]
           Loop(g) == g = [k \in 0 .. N |-> IF k = 0 THEN b ELSE Op(g[k - 1])]
           after == CHOOSE g : Loop(g)
           e == Failed(v, "FR_DENIED")
           r == after[N]
           o == IF r.res = "full" THEN Ok(r) ELSE r
           size == IF o.fp.fptr > o.fp.fsize THEN o.fp.fptr ELSE o.fp.fsize
           p == [o.fp EXCEPT !.fsize = size, !.written = TRUE]
           w == WithFp(o, p)
<1>1. c \in Ctx /\ c.fp \in FIL /\ start \in Nat /\ c.fp.fsize \in Nat
  BY DEF Fair, Ctx, FIL
<1>2. N \in Nat /\ goal \in Nat /\ start <= goal
  <2>1. N \in Nat
    OBVIOUS
  <2> HIDE DEF N
  <2> QED
    BY <1>1, <2>1
<1>3. f_write(c, data) =
        IF IsOk(v) THEN IF c.fp.wr
                        THEN IF IsOk(o)
                             THEN [o EXCEPT !.fp.fsize = IF o.fp.fptr > @ THEN o.fp.fptr ELSE @,
                                            !.fp.written = TRUE]
                             ELSE o
                        ELSE e ELSE v
  BY DEF f_write, Then, Repeat
<1>4. /\ v \in Fair /\ Kept(c, v) /\ v.sec = c.sec
      /\ IsOk(v) => /\ v \in Good /\ c.fp.fs /\ c.fs_type # 0 /\ c.stat # "STA_NOINIT"
                    /\ c.fp.err = "FR_OK" /\ c \in Good /\ Over(v) = Over(c)
  BY RejectType
<1>5. Filed(c, v) /\ v.fp = c.fp /\ (IsOk(v) => Extends(c, 0, v, 0))
  <2>1. Filed(c, v) /\ v.fp = c.fp
    BY <1>4, SteadyStays, SMTT(60) DEF Kept, Steady
  <2> HIDE DEF v
  <2>2. IsOk(v) => Extends(c, 0, v, 0)
    BY <1>4, <2>1, BesideQuiet, StaysExtends DEF SameChain
  <2> QED
    BY <2>1, <2>2
<1>6. CASE ~IsOk(v)
  BY <1>3, <1>4, <1>5, <1>6, ZenonT(60) DEF Result, Ends, Worked
<1>7. CASE IsOk(v) /\ ~c.fp.wr
  <2>1. "FR_DENIED" \in Res /\ v \in Ctx
    BY <1>4 DEF Res, Fair
  <2>2. e \in Good /\ Kept(v, e) /\ ~IsOk(e)
    BY <1>4, <1>7, <2>1, FailedType
  <2> HIDE DEF e
  <2>3. Filed(v, e) /\ e.fp = v.fp
    BY <2>2, SteadyStays DEF Kept, Steady
  <2>4. Filed(c, e)
    BY <1>5, <2>3, FiledTransitive
  <2>5. Extends(c, 0, e, 0)
    <3>1. Extends(v, 0, e, 0)
      BY <1>4, <1>7, <2>1, <2>2, <2>3, FailedQuiet, StaysExtends DEF SameChain, e
    <3> QED
      BY <1>4, <1>5, <1>7, <2>2, <3>1, ExtendsTransitive
  <2>6. e \in Result(c) /\ Ends(c, e, goal)
    BY <1>5, <2>2, <2>3, <2>4 DEF Result, Fair, Good, Ends
  <2>7. e \in Worked(c)
    BY <1>4, <1>5, <1>7, <2>2, <2>3, <2>5, <2>6 DEF Worked
  <2> QED
    BY <1>3, <1>7, <2>2, <2>6, <2>7, ZenonT(60)
<1>8. CASE IsOk(v) /\ c.fp.wr
  <2>1. f_write(c, data) =
          IF IsOk(o) THEN [o EXCEPT !.fp.fsize = IF o.fp.fptr > @ THEN o.fp.fptr ELSE @,
                                    !.fp.written = TRUE] ELSE o
    BY <1>3, <1>8, ZenonT(60)
  <2> HIDE DEF v
  <2>2. b \in S[0] /\ b \in W
    <3>1. b \in W
      <4>1. v \in Handled(v) /\ v.fp.fptr = start
        BY <1>4, <1>5, <1>8 DEF Handled, Filed, Met
      <4>3. Extends(v, 0, v, 0)
        BY <1>4, <1>8, StaysExtends DEF SameChain, Quiet
      <4>2. FullStop(v)
        BY <1>4, <1>5, <1>8 DEF FullStop, IsOk
      <4> HIDE DEF start, goal
      <4> QED
        BY <1>1, <1>2, <4>1, <4>2, <4>3 DEF Writing
    <3>2. 0 \in 0 .. N /\ Least(start + 0, goal) <= start
      BY <1>1, <1>2 DEF Least
    <3>3. b.fp.fptr = start
      BY <1>5
    <3> HIDE DEF b, W, goal, start, N
    <3> QED
      BY <1>1, <1>2, <3>1, <3>2, <3>3 DEF Least
  <2>3. \A d \in W : /\ Op(d) \in W
                     /\ IsOk(Op(d)) => IsOk(d)
                                       /\ (Op(d).fp.fptr > d.fp.fptr \/ Op(d).fp.fptr = goal)
    <3> SUFFICES ASSUME NEW d \in W
                 PROVE  /\ Op(d) \in W
                        /\ IsOk(Op(d)) => IsOk(d)
                                          /\ (Op(d).fp.fptr > d.fp.fptr \/ Op(d).fp.fptr = goal)
      OBVIOUS
    <3>1. v \in Good
      BY <1>4, <1>8
    <3> QED
      BY <1>1, <3>1, WriteTurn
  <2>4. \A d \in W : d.fp.fptr \in Nat /\ d.fp.fptr <= goal
    BY DEF Writing, Handled, Good, Ctx, FIL
  <2> HIDE DEF W, goal, start, N, b, Op
  <2>5. b \in S[0] /\ \A k \in 0 .. N : \A d \in S[k] : d \in W
    BY <2>2
  <2>6. \A k \in 0 .. N : k < N => \A d \in S[k] : Op(d) \in S[k + 1]
    <3> SUFFICES ASSUME NEW k \in 0 .. N, k < N, NEW d \in S[k] PROVE Op(d) \in S[k + 1]
      OBVIOUS
    <3>1. k + 1 \in 0 .. N /\ k \in Nat
      BY <1>2
    <3>2. d \in W /\ (IsOk(d) => d.fp.fptr >= Least(start + k, goal))
      OBVIOUS
    <3> DEFINE y == Op(d)
    <3>3. y \in W /\ (IsOk(y) => IsOk(d) /\ (y.fp.fptr > d.fp.fptr \/ y.fp.fptr = goal))
      BY <2>3, <3>2
    <3>4. IsOk(y) => y.fp.fptr >= Least(start + (k + 1), goal)
      <4> HIDE DEF y
      <4> QED
        BY <1>1, <1>2, <2>4, <3>1, <3>2, <3>3 DEF Least
    <3> HIDE DEF y
    <3>5. y \in S[k + 1]
      BY <3>1, <3>3, <3>4
    <3> QED
      BY <3>5 DEF y
  <2>7. \A n \in 0 .. N : n < N => n + 1 \in 1 .. N /\ n + 1 \in 0 .. N /\ (n + 1) - 1 = n
    BY <1>2
  <2>8. Turns(N, S, turn)
    <3> HIDE DEF S, N
    <3> QED
      BY <2>7, <2>5, <2>6 DEF Turns
  <2> HIDE DEF S
  <2>9. \E g : Loop(g)
    <3>1. PICK g : /\ g = [n \in 0 .. N |-> IF n = 0 THEN b ELSE turn[<<n, g[n - 1]>>]]
                   /\ \A n \in 0 .. N : g[n] \in S[n]
      <4> HIDE DEF turn, N
      <4>1. Runs(N, S, b, turn)
        BY <1>2, <2>5, <2>8, LoopExists
      <4> QED
        BY <4>1 DEF Runs
    <3>2. ASSUME NEW n \in 0 .. N, n # 0
          PROVE  turn[<<n, g[n - 1]>>] = Op(g[n - 1])
      <4>1. n - 1 \in 0 .. N /\ n \in 1 .. N
        BY <1>2, <3>2
      <4> HIDE DEF N
      <4> QED
        BY <2>5, <2>6, <3>1, <4>1
    <3> HIDE DEF turn, N
    <3> QED
      BY <3>1, <3>2
  <2>10. Loop(after)
    BY <2>9
  <2> HIDE DEF after
  <2> DEFINE T == {n \in 0 .. N : after[n] \in S[n]}
  <2>11. 0 .. N \subseteq T
    <3>1. 0 \in 0 .. N /\ after[0] = b
      BY <1>2, <2>10
    <3> HIDE DEF N
    <3>2. \A n \in 0 .. N : n < N => after[n + 1] = Op(after[n])
      BY <2>7, <2>10
    <3> HIDE DEF Loop
    <3>3. 0 \in T /\ \A n \in 0 .. N : n \in T /\ n < N => n + 1 \in T
      BY <2>5, <2>7, <2>5, <2>6, <3>1, <3>2
    <3> HIDE DEF T
    <3> QED
      BY <1>2, <3>3, UptoInduction
  <2>12. after[N] \in S[N]
    BY <1>2, <2>11
  <2>13. after[N] \in W /\ (IsOk(after[N]) => after[N].fp.fptr = goal)
    <3>1. N \in 0 .. N /\ Least(start + N, goal) = goal
      BY <1>1, <1>2 DEF Least, goal
    <3>2. after[N] \in W /\ (IsOk(after[N]) => after[N].fp.fptr >= goal)
      BY <2>12, <3>1 DEF S
    <3> QED
      BY <1>2, <2>4, <3>2
  <2>14. /\ r \in Good /\ Filed(c, r) /\ Headed(r.fp) /\ FullStop(r) /\ r.fp.fptr <= goal
         /\ IsOk(r) => r.fp.fptr = goal /\ r.fp.err = "FR_OK"
         /\ Extends(c, 0, r, 0) /\ r.fp.written = c.fp.written
    <3>1. r \in Writing(v, start, goal) /\ (IsOk(r) => r.fp.fptr = goal)
      BY <2>13 DEF W
    <3> HIDE DEF r
    <3>2. /\ r \in Good /\ Filed(v, r) /\ Headed(r.fp) /\ FullStop(r) /\ r.fp.fptr <= goal
          /\ IsOk(r) => r.fp.err = "FR_OK"
          /\ Extends(v, 0, r, 0) /\ r.fp.written = v.fp.written
      BY <3>1 DEF Writing, Handled
    <3> QED
      BY <1>4, <1>5, <1>8, <3>1, <3>2, FiledTransitive, ExtendsTransitive
  <2> HIDE DEF r
  <2>15. /\ o \in Good /\ Filed(c, o) /\ Headed(o.fp)
         /\ IsOk(o) /\ o.fp.fptr < goal => Full(FatV(o))
         /\ Extends(c, 0, o, 0) /\ o.fp.written = c.fp.written
         /\ IsOk(o) => o.fp.err = "FR_OK"
    <3>1. CASE r.res = "full"
      <4>1. r \in Ctx
        BY <2>14 DEF Good
      <4>2. o = Ok(r)
        BY <3>1
      <4> HIDE DEF o
      <4>3. o \in Good /\ Kept(r, o) /\ Over(o) = Over(r)
        BY <2>14, <4>1, <4>2, OkType
      <4>4. FatV(o) = FatV(r)
        BY <4>3 DEF FatV
      <4>5. Filed(r, o) /\ o.fp = r.fp
        BY <4>3, SteadyStays DEF Kept, Steady
      <4>6. Quiet(r, o)
        BY <4>1, <4>2, <4>3, BesideQuiet, OkType
      <4>7. Extends(c, 0, o, 0)
        <5>1. Extends(r, 0, o, 0)
          BY <2>14, <4>3, <4>5, <4>6, StaysExtends DEF SameChain
        <5> QED
          BY <1>4, <1>8, <2>14, <4>3, <5>1, ExtendsTransitive
      <4> QED
        BY <2>14, <3>1, <4>3, <4>4, <4>5, <4>7, FiledTransitive DEF FullStop
    <3>2. CASE r.res # "full"
      <4>1. o = r
        BY <3>2
      <4> HIDE DEF o
      <4>2. r.fp.fptr \in Nat
        BY <2>14 DEF Good, Ctx, FIL
      <4> QED
        BY <1>2, <2>14, <4>1, <4>2
    <3> QED
      BY <3>1, <3>2
  <2> HIDE DEF o
  <2>16. CASE ~IsOk(o)
    BY <1>4, <1>8, <2>1, <2>15, <2>16 DEF Result, Fair, Good, Ends, Worked, v
  <2>17. CASE IsOk(o)
    <3>1. /\ o \in Ctx /\ o.fp \in FIL /\ size \in Nat
          /\ size = o.fp.fsize \/ (size = o.fp.fptr /\ o.fp.fptr > 0)
      <4>1. o \in Ctx /\ o.fp \in FIL /\ o.fp.fptr \in Nat /\ o.fp.fsize \in Nat
        BY <2>15 DEF Good, Ctx, FIL
      <4> QED
        BY <4>1
    <3>2. f_write(c, data) = w
      BY <2>1, <2>17, <3>1 DEF WithFp, Ctx, FIL
    <3> HIDE DEF size
    <3>3. /\ p \in FIL /\ p.fptr = o.fp.fptr /\ p.sclust = o.fp.sclust /\ p.clust = o.fp.clust
          /\ p.err = o.fp.err /\ p.fsize = size /\ p.written
          /\ p.fs = o.fp.fs /\ p.id = o.fp.id
          /\ p.rd = o.fp.rd /\ p.wr = o.fp.wr /\ p.dir_ptr = o.fp.dir_ptr
      BY <3>1 DEF FIL
    <3> HIDE DEF p
    <3>4. /\ w \in Good /\ Beside(o, w) /\ w.fp = p /\ FatV(w) = FatV(o)
          /\ Met(o, w) /\ Over(w) = Over(o)
      BY <2>15, <3>3, WithFpType
    <3> HIDE DEF w
    <3>5. Filed(o, w)
      BY <3>3, <3>4 DEF Filed, Beside
    <3>6. Filed(c, w) /\ Headed(w.fp)
      BY <2>15, <3>3, <3>4, <3>5, FiledTransitive DEF Headed, Rooted
    <3>7. w \in Result(c)
      BY <3>4, <3>6 DEF Result, Fair, Good
    <3>8. w.fs_type # 0 /\ w.stat # "STA_NOINIT" /\ c.fp.fs
      BY <1>4, <1>8, <3>6 DEF Filed
    <3>9. w.fp.fptr < goal => Full(FatV(w))
      BY <2>15, <2>17, <3>3, <3>4
    <3>10. Ends(c, w, goal)
      BY <3>4, <3>8, <3>9 DEF Ends
    <3>11. Extends(c, 0, w, 0)
      <4>1. Quiet(o, w)
        BY <3>4, BesideQuiet DEF Beside
      <4>2. ASSUME NEW m \in Chart, NEW i \in Label, NEW exact \in BOOLEAN,
                   Charted(FatV(o), m), Fits(m, i, o.fp, exact, 0)
            PROVE  Fits(m, i, w.fp, exact, 0)
        <5>1. exact => Holds(m, i, size)
          <6>1. CASE size = o.fp.fsize
            BY <4>2, <6>1, FatFsAssumption DEF Fits, Label
          <6>2. CASE size = o.fp.fptr /\ o.fp.fptr > 0
            BY <2>15, <2>17, <4>2, <6>2, FatFsAssumption DEF Fits, Label, Holds, Behind
          <6> QED
            BY <3>1, <6>1, <6>2
        <5> QED
          BY <3>3, <3>4, <4>2, <5>1 DEF Fits
      <4>3. Extends(o, 0, w, 0)
        BY <2>15, <3>4, <4>1, <4>2, QuietExtends
      <4> QED
        BY <1>4, <1>8, <2>15, <3>4, <4>3, ExtendsTransitive
    <3>12. w \in Worked(c) /\ w.fp.written
      BY <1>4, <1>8, <3>3, <3>4, <3>7, <3>11 DEF Worked, v
    <3> QED
      BY <3>2, <3>7, <3>10, <3>12 DEF goal, start, N
  <2> QED
    BY <2>16, <2>17, SMTT(60)
<1> QED
  BY <1>6, <1>7, <1>8
---------------------------------------------------------------------------
(* Seeking.                                                                *)

\* Behind whole clusters a sector begins where one does in the cluster.
LEMMA Aligned ==
  ASSUME NEW k \in Nat, NEW m \in Nat, m % SS = 0
  PROVE  (k * bcs + m) % SS = 0
<1>1. SS \in Nat \ {0} /\ csize \in Nat
  BY FatFsAssumption
<1> DEFINE j == m \div SS
<1>2. j \in Nat /\ m = SS * j
  <2>1. m \div SS \in Nat /\ m = SS * (m \div SS) + (m % SS)
    BY <1>1, Division
  <2> HIDE DEF j
  <2>2. SS * j \in Nat
    BY <1>1, <2>1, SMTT(30) DEF j
  <2> QED
    BY <2>1, <2>2 DEF j
<1> HIDE DEF j
<1> DEFINE t == k * csize + j
<1>3. t \in Nat /\ k * bcs + m = SS * t
  BY <1>1, <1>2, ClusterSize, SMTT(30)
<1> HIDE DEF t
<1> QED
  BY <1>1, <1>3, NoRest

\* A position where a cluster begins.
Start(n) == \E k \in Nat : n = k * bcs

\* The next cluster begins behind this one.
LEMMA NextStart ==
  ASSUME NEW n \in Nat, Start(n)
  PROVE  Start(n + bcs)
<1>1. PICK k \in Nat : n = k * bcs
  BY DEF Start
<1>2. n + bcs = (k + 1) * bcs /\ k + 1 \in Nat
  BY <1>1, ClusterSize, SMTT(30)
<1> QED
  BY <1>2 DEF Start

\* The file object and what is returned change.
WithFpVal(c, p, v) == [c EXCEPT !.fp = p, !.val = v]

\* That keeps the types.
LEMMA WithFpValType ==
  ASSUME NEW c \in Good, NEW p \in FIL, NEW v \in Int
  PROVE  LET d == WithFpVal(c, p, v)
         IN /\ d \in Good /\ Beside(c, d) /\ d.fp = p /\ d.val = v /\ d.res = c.res
            /\ FatV(d) = FatV(c) /\ Met(c, d) /\ (IsOk(d) <=> IsOk(c))
            /\ d.fs_type = c.fs_type /\ d.id = c.id /\ d.stat = c.stat /\ Quiet(c, d)
<1> DEFINE d == WithFpVal(c, p, v)
<1>1. /\ d \in Ctx /\ Beside(c, d) /\ d.fp = p /\ d.val = v /\ d.res = c.res
  BY DEF Good, Ctx, Beside, WithFpVal
<1> HIDE DEF d
<1>2. d \in Good /\ FatV(d) = FatV(c) /\ Met(c, d) /\ Quiet(c, d)
  BY <1>1, BesideType, BesideQuiet DEF Beside
<1>3. d.fs_type = c.fs_type /\ d.id = c.id /\ d.stat = c.stat /\ (IsOk(d) <=> IsOk(c))
  BY <1>1 DEF Beside, IsOk
<1> QED
  BY <1>1, <1>2, <1>3 DEF d

\* A file object at another position and cluster.
Position(p, pos, first, clst) == [p EXCEPT !.fptr = pos, !.sclust = first, !.clust = clst]

\* ... in a context that returns v.
Positioned(c, pos, first, clst, v) == WithFpVal(c, Position(c.fp, pos, first, clst), v)

\* Such a position is one of the right types.
Places(pos, first, clst, v) ==
  pos \in Nat /\ first \in Cluster \cup {0} /\ clst \in 0 .. EOC /\ v \in Int

\* What moving the file there does.
Moves(c, d, pos, first, clst, v) ==
  /\ d \in Good /\ Filed(c, d) /\ d.val = v /\ d.res = c.res /\ (IsOk(d) <=> IsOk(c))
  /\ FatV(d) = FatV(c) /\ d.fp.fptr = pos /\ d.fp.sclust = first /\ d.fp.clust = clst
  /\ d.fp.err = c.fp.err /\ d.fp.fsize = c.fp.fsize /\ d.fp.written = c.fp.written
  /\ Quiet(c, d)

\* A file is moved.
LEMMA PositionType ==
  ASSUME NEW c \in Good, NEW pos, NEW first, NEW clst, NEW v, Places(pos, first, clst, v)
  PROVE  Moves(c, Positioned(c, pos, first, clst, v), pos, first, clst, v)
<1> USE DEF Places
<1> DEFINE p == Position(c.fp, pos, first, clst)
           d == WithFpVal(c, p, v)
<1>1. c.fp \in FIL
  BY DEF Good, Ctx
<1>2. /\ p \in FIL /\ p.fptr = pos /\ p.sclust = first /\ p.clust = clst /\ p.err = c.fp.err
      /\ p.fs = c.fp.fs /\ p.id = c.fp.id /\ p.fsize = c.fp.fsize /\ p.written = c.fp.written
      /\ p.rd = c.fp.rd /\ p.wr = c.fp.wr /\ p.dir_ptr = c.fp.dir_ptr
  BY <1>1 DEF FIL, Position
<1> HIDE DEF p
<1>3. /\ d \in Good /\ d.fp = p /\ d.val = v /\ d.res = c.res
      /\ FatV(d) = FatV(c) /\ Met(c, d) /\ (IsOk(d) <=> IsOk(c))
      /\ d.fs_type = c.fs_type /\ d.id = c.id /\ d.stat = c.stat /\ Quiet(c, d)
  BY <1>2, WithFpValType
<1> HIDE DEF d
<1>4. Filed(c, d)
  BY <1>2, <1>3 DEF Filed
<1> QED
  BY <1>2, <1>3, <1>4 DEF d, p, Positioned, Moves

\* The file has the chain of a directory entry.
Known(c) == \E m \in Chart, i \in Label, exact \in BOOLEAN :
              Charted(FatV(c), m) /\ Fits(m, i, c.fp, exact, 0)

\* The file has the chain of a directory entry and is at its place in it, and the chain is long
\* enough for ofs.
Reaching(c, ofs) == \E m \in Chart, i \in Label :
                      /\ Charted(FatV(c), m) /\ Fits(m, i, c.fp, TRUE, 0)
                      /\ Holds(m, i, ofs)

\* What is not the last cluster of its chain is followed by one.
LEMMA ReachingOn ==
  ASSUME NEW fat, NEW m \in Chart, Charted(fat, m), NEW i \in Label, NEW ofs \in Nat,
         Holds(m, i, ofs), NEW k \in Cluster, m.own[k] = i, NEW at \in Nat, Start(at),
         m.pos[k] = at \div bcs, ofs - at > bcs
  PROVE  fat[k] \in Cluster
<1>1. bcs \in Nat \ {0} /\ 1 \in 1 .. bcs /\ i # 0
  BY ClusterSize, FatFsAssumption DEF Label
<1>2. PICK q \in Nat : at = q * bcs
  BY DEF Start
<1>3. at \div bcs = q
  BY <1>1, <1>2, FromStart
<1>4. PICK l \in Cluster : m.own[l] = i /\ m.pos[l] = (ofs - 1) \div bcs
  BY <1>1 DEF Holds
<1>5. ofs - 1 \in Nat /\ ofs - 1 >= at + bcs
  BY <1>1
<1>6. (ofs - 1) \div bcs > q
  <2> DEFINE z == ofs - 1
             y == z \div bcs
             r == z % bcs
  <2>1. z \in Nat /\ y \in Nat /\ r \in 0 .. bcs - 1 /\ z = bcs * y + r
    BY <1>1, <1>5, Division
  <2>2. z >= q * bcs + bcs
    BY <1>2, <1>5
  <2> HIDE DEF z, y, r
  <2>3. y <= q => bcs * y <= q * bcs
    BY <1>1, <2>1, SMTT(60)
  <2> DEFINE a == bcs * y
             b == q * bcs
  <2>4. a \in Nat /\ b \in Nat /\ z = a + r /\ z >= b + bcs /\ (y <= q => a <= b)
    BY <1>1, <2>1, <2>2, <2>3, SMTT(60)
  <2> HIDE DEF a, b
  <2>5. ~(y <= q)
    BY <1>1, <2>1, <2>4
  <2> QED
    BY <2>1, <2>5 DEF y, z
<1>7. m.pos[l] > m.pos[k] /\ m.pos[l] \in Nat /\ m.pos[k] \in Nat
  BY <1>3, <1>4, <1>6 DEF Chart
<1>8. ~LastOf(fat, m, k)
  BY <1>4, <1>7 DEF LastOf
<1> QED
  BY <1>1, <1>8 DEF Charted, Onto

\* A chain is not stretched where it goes on.
LEMMA CreateChainOn ==
  ASSUME NEW c \in Good, NEW k \in Cluster, FatV(c)[k] \in Cluster
  PROVE  create_chain(c, k).val # 0
<1> DEFINE g == get_fat(c, k)
<1>1. 0 \notin Cluster /\ Ones # 0 /\ \A x \in Cluster : x \in Int /\ ~(x < 2) /\ x < n_fatent
  BY FatFsAssumption DEF Ones, n_fatent, Cluster
<1>2. Ones \in Int /\ ~(Ones < 2)
  BY FatFsAssumption DEF Ones, n_fatent
<1>3. k \in Nat /\ k # 0
  BY <1>1, FatFsAssumption DEF Cluster, n_fatent
<1>4. g.val = FatV(c)[k] \/ g.val = Ones
  BY <1>3, GetFatType
<1>5. create_chain(c, k) = g
  BY <1>1, <1>2, <1>3, <1>4 DEF create_chain
<1> QED
  BY <1>1, <1>4, <1>5

\* f_lseek(ofs) begins.
Begun(c, d, ofs) ==
  /\ d \in Good /\ Filed(c, d) /\ d.fp.err = "FR_OK" /\ d.val \in {0, 1, Ones} \cup FatEntry
  /\ d.fp.fptr < ofs /\ Start(d.fp.fptr)
  /\ d.val \notin {0, 1, Ones} => IsOk(d) /\ Rooted(d.fp)
  /\ d.val = 0 => /\ d.fp.fptr = 0 /\ ~Rooted(c.fp) /\ Full(FatV(d)) /\ Extends(c, 0, d, 0)
                  /\ ~Reaching(c, ofs)
  /\ d.val \notin {0, 1, Ones} => Extends(c, 0, d, 1) /\ d.val = d.fp.clust
  /\ Known(c) => d.val \in {0, 1, Ones} \cup Cluster
  /\ d.fp.fsize = c.fp.fsize /\ d.fp.written = c.fp.written
  /\ \E t : Extends(c, 0, d, t)

\* A seek begins at the file's cluster or at its first, which a writer may have to make.
LEMMA SeekStartType ==
  ASSUME NEW c \in Good, IsOk(c), c.fp.err = "FR_OK", Headed(c.fp), NEW ofs \in Nat, ofs > 0
  PROVE  Begun(c, SeekStart(c, ofs), ofs)
<1> DEFINE k == (c.fp.fptr - 1) \div bcs
           h == k * bcs
           back == [c EXCEPT !.fp.fptr = 0]
           a == Positioned(c, h, c.fp.sclust, c.fp.clust, c.fp.clust)
           b == Positioned(c, 0, c.fp.sclust, c.fp.sclust, c.fp.sclust)
           z == Positioned(c, 0, c.fp.sclust, c.fp.clust, c.val)
           g == create_chain(z, 0)
           e == Positioned(g, g.fp.fptr, g.val, g.val, g.val)
           f == IF g.val \in {1, Ones} THEN g ELSE e
           d == SeekStart(c, ofs)
<1>1. /\ c \in Ctx /\ c.fp \in FIL /\ c.fp.fptr \in Nat /\ c.fp.sclust \in Cluster \cup {0}
      /\ c.fp.clust \in 0 .. EOC /\ c.val \in Int /\ 0 \in Nat
  BY DEF Good, Ctx, FIL
<1>2. /\ 0 \notin Cluster /\ 1 \notin Cluster /\ Ones \notin Cluster /\ 0 # 1 /\ Ones # 0
      /\ \A x \in Cluster : x \in Int /\ x \in 0 .. EOC /\ x \in FatEntry
      /\ \A x \in 0 .. EOC : x \in Int /\ (x # 0 => x \in {1} \cup FatEntry)
      /\ 0 \in FatEntry /\ 0 \in 0 .. EOC
      /\ \A x \in {0, 1, Ones} \cup FatEntry : x \in Int
  BY FatFsAssumption DEF Ones, n_fatent, Cluster, FatEntry, EOC
<1>3. Start(0)
  <2>1. 0 = 0 * bcs
    BY ClusterSize
  <2> QED
    BY <2>1 DEF Start
<1>4. z = back
  BY <1>1 DEF Positioned, Position, WithFpVal, Ctx, FIL
<1>5. CASE Onward(c.fp, ofs)
  <2>1. d = [c EXCEPT !.fp.fptr = ((@ - 1) \div bcs) * bcs, !.val = c.fp.clust]
    BY <1>5 DEF SeekStart
  <2>2. d = a
    BY <1>1, <2>1, ZenonT(60) DEF Positioned, Position, WithFpVal, Ctx, FIL
  <2>3. c.fp.fptr > 0 /\ (ofs - 1) \div bcs >= k
    BY <1>5 DEF Onward
  <2>4. k \in Nat
    <3>1. c.fp.fptr - 1 \in Nat
      BY <1>1, <2>3
    <3> QED
      BY <3>1, ClusterSize, Division
  <2> HIDE DEF k
  <2>5. h \in Nat /\ h <= ofs - 1
    <3>1. ofs - 1 \in Nat /\ k <= (ofs - 1) \div bcs
      <4>1. ofs - 1 \in Nat
        OBVIOUS
      <4>2. (ofs - 1) \div bcs \in Nat
        BY <4>1, ClusterSize, Division
      <4> QED
        BY <2>3, <2>4, <4>1, <4>2
    <3> QED
      BY <2>4, <3>1, ClusterSize, Multiples
  <2>6. Start(h)
    BY <2>4 DEF Start
  <2> HIDE DEF h
  <2>7. Rooted(c.fp)
    BY <2>3 DEF Headed
  <2>8. /\ a \in Good /\ Filed(c, a) /\ a.val = c.fp.clust /\ IsOk(a)
        /\ a.fp.fptr = h /\ a.fp.sclust = c.fp.sclust /\ a.fp.clust = c.fp.clust
        /\ a.fp.err = "FR_OK" /\ a.fp.fsize = c.fp.fsize /\ a.fp.written = c.fp.written
        /\ Quiet(c, a)
    <3>1. Places(h, c.fp.sclust, c.fp.clust, c.fp.clust)
      BY <1>1, <1>2, <2>5 DEF Places
    <3>2. Moves(c, a, h, c.fp.sclust, c.fp.clust, c.fp.clust)
      BY <3>1, PositionType
    <3> QED
      BY <3>2 DEF Moves
  <2> HIDE DEF a, d
  <2>9. a.val # 0 /\ a.val \in {1} \cup FatEntry /\ Rooted(a.fp)
    BY <1>1, <1>2, <2>7, <2>8 DEF Rooted
  <2>10. a.fp.fptr < ofs
    BY <2>5, <2>8
  <2>11. Known(c) => c.fp.clust \in Cluster
    BY <1>1, <2>3, FatFsAssumption DEF Known, Fits, Label
  <2>12. Extends(c, 0, a, 1)
    <3>1. h \div bcs = k /\ Behind(c.fp.fptr) = k
      <4>1. 1 \in 1 .. bcs
        BY ClusterSize
      <4> QED
        BY <2>4, <4>1, FromStart DEF h, Behind, k
    <3>2. ASSUME NEW m \in Chart, NEW i \in Label, NEW exact \in BOOLEAN,
                 Charted(FatV(c), m), Fits(m, i, c.fp, exact, 0)
          PROVE  Fits(m, i, a.fp, exact, 1)
      BY <2>3, <2>8, <3>1, <3>2 DEF Fits
    <3> QED
      BY <2>8, <3>2, QuietExtends
  <2>13. Begun(c, a, ofs)
    BY <2>6, <2>8, <2>9, <2>10, <2>11, <2>12 DEF Begun
  <2> QED
    BY <2>2, <2>13 DEF d
<1>6. CASE ~Onward(c.fp, ofs) /\ c.fp.sclust # 0
  <2>1. d = [[back EXCEPT !.val = c.fp.sclust] EXCEPT !.fp.sclust = c.fp.sclust,
                                                      !.fp.clust = c.fp.sclust]
    BY <1>1, <1>2, <1>6 DEF SeekStart
  <2>2. d = b
    BY <1>1, <2>1 DEF Positioned, Position, WithFpVal, Ctx, FIL
  <2>3. /\ b \in Good /\ Filed(c, b) /\ b.val = c.fp.sclust /\ IsOk(b)
        /\ b.fp.fptr = 0 /\ b.fp.sclust = c.fp.sclust /\ b.fp.clust = c.fp.sclust
        /\ b.fp.err = "FR_OK" /\ b.fp.fsize = c.fp.fsize /\ b.fp.written = c.fp.written
        /\ Quiet(c, b)
    <3>1. Places(0, c.fp.sclust, c.fp.sclust, c.fp.sclust)
      BY <1>1, <1>2 DEF Places
    <3>2. Moves(c, b, 0, c.fp.sclust, c.fp.sclust, c.fp.sclust)
      BY <3>1, PositionType
    <3> QED
      BY <3>2 DEF Moves
  <2> HIDE DEF b, d
  <2>4. b.val # 0 /\ b.val \in FatEntry /\ Rooted(b.fp)
    BY <1>1, <1>2, <1>6, <2>3 DEF Rooted
  <2>5. b.fp.fptr < ofs
    BY <2>3
  <2>6. Extends(c, 0, b, 1)
    <3>1. 0 \div bcs = 0
      BY ClusterSize
    <3>2. ASSUME NEW m \in Chart, NEW i \in Label, NEW exact \in BOOLEAN,
                 Charted(FatV(c), m), Fits(m, i, c.fp, exact, 0)
          PROVE  Fits(m, i, b.fp, exact, 1)
      <4>1. /\ m.hd[i] = c.fp.sclust /\ m.own[c.fp.sclust] = i /\ m.pos[c.fp.sclust] = 0
            /\ exact => Holds(m, i, c.fp.fsize)
        BY <1>6, <3>2, FatFsAssumption DEF Fits, Charted, Label
      <4> QED
        BY <2>3, <3>1, <4>1 DEF Fits
    <3> QED
      BY <2>3, <3>2, QuietExtends
  <2>7. b.val \in Cluster
    BY <1>1, <1>6, <2>3
  <2>8. Begun(c, b, ofs)
    BY <1>3, <2>3, <2>4, <2>5, <2>6, <2>7 DEF Begun
  <2> QED
    BY <2>2, <2>8 DEF d
<1>7. CASE ~Onward(c.fp, ofs) /\ c.fp.sclust = 0
  <2>1. d = IF g.val \in {1, Ones} THEN g ELSE [g EXCEPT !.fp.sclust = g.val, !.fp.clust = g.val]
    BY <1>4, <1>7 DEF SeekStart
  <2>2. /\ z \in Good /\ Filed(c, z) /\ z.fp.fptr = 0 /\ z.fp.err = "FR_OK"
        /\ z.fp.fsize = c.fp.fsize /\ z.fp.written = c.fp.written /\ z.fp.sclust = 0
        /\ Quiet(c, z)
    <3>1. Places(0, c.fp.sclust, c.fp.clust, c.val)
      BY <1>1, <1>2 DEF Places
    <3>2. Moves(c, z, 0, c.fp.sclust, c.fp.clust, c.val)
      BY <3>1, PositionType
    <3> QED
      BY <1>7, <3>2 DEF Moves
  <2>20. Extends(c, 0, z, 0)
    <3> HIDE DEF z
    <3>1. ASSUME NEW m \in Chart, NEW i \in Label, NEW exact \in BOOLEAN,
                 Fits(m, i, c.fp, exact, 0)
          PROVE  Fits(m, i, z.fp, exact, 0)
      BY <1>7, <2>2, <3>1 DEF Fits
    <3> QED
      BY <2>2, <3>1, QuietExtends
  <2> HIDE DEF z
  <2>3. /\ g \in Good /\ Stays(z, g) /\ g.fp = z.fp
        /\ g.val \in {0, 1, Ones} \cup Cluster
        /\ g.val = 0 => Full(FatV(g))
        /\ g.val \in Cluster => IsOk(g)
        /\ Extends(z, 0, g, 0) /\ Leads(z, 0, g, 0)
    BY <1>1, <2>2, CreateChainVal, CreateChainExtends, FirstLeads
  <2> HIDE DEF g
  <2>4. g.fp \in FIL /\ g \in Ctx /\ g.fp.fptr = 0 /\ Filed(c, g) /\ g.fp.err = "FR_OK"
    BY <2>2, <2>3, FiledTransitive DEF Good, Ctx, Stays
  <2>5. d = f
    <3> HIDE DEF d
    <3>1. e = [g EXCEPT !.fp.sclust = g.val, !.fp.clust = g.val]
      BY <2>4, ZenonT(60) DEF Positioned, Position, WithFpVal, Ctx, FIL
    <3> HIDE DEF e
    <3> QED
      BY <2>1, <3>1
  <2>6. ~Rooted(c.fp) /\ ~Reaching(c, ofs)
    <3>1. ~Rooted(c.fp)
      BY <1>7 DEF Rooted
    <3>2. ASSUME NEW m \in Chart, NEW i \in Label, Charted(FatV(c), m),
                 Fits(m, i, c.fp, TRUE, 0), Holds(m, i, ofs)
          PROVE  FALSE
      <4>1. m.hd[i] = 0 /\ i # 0
        BY <1>7, <3>2, FatFsAssumption DEF Fits, Label
      <4>2. PICK x \in Cluster : m.own[x] = i
        BY <3>2 DEF Holds
      <4> QED
        BY <3>2, <4>1, <4>2 DEF Charted
    <3> QED
      BY <3>1, <3>2 DEF Reaching
  <2>21. Extends(c, 0, g, 0)
    BY <2>2, <2>20, <2>3, ExtendsTransitive
  <2>7. CASE g.val \in {1, Ones}
    <3>1. d = g
      BY <2>5, <2>7
    <3> HIDE DEF d
    <3>2. g.fp.fptr < ofs
      BY <2>4
    <3>3. Begun(c, g, ofs)
      BY <1>2, <1>3, <2>2, <2>21, <2>3, <2>4, <2>7, <3>2 DEF Begun
    <3> QED
      BY <3>1, <3>3 DEF d
  <2>8. CASE g.val \notin {1, Ones}
    <3>1. d = e
      BY <2>5, <2>8
    <3> HIDE DEF d
    <3>2. g.val \in Cluster \cup {0}
      BY <2>3, <2>8
    <3>3. g.val \in 0 .. EOC /\ g.val \in Int /\ g.val \in FatEntry
      BY <1>2, <3>2
    <3>4. /\ e \in Good /\ Filed(g, e) /\ e.val = g.val /\ (IsOk(e) <=> IsOk(g))
          /\ e.fp.fptr = g.fp.fptr /\ e.fp.sclust = g.val /\ e.fp.clust = g.val
          /\ e.fp.err = g.fp.err /\ FatV(e) = FatV(g) /\ Quiet(g, e)
          /\ e.fp.fsize = g.fp.fsize /\ e.fp.written = g.fp.written
      <4>1. Places(g.fp.fptr, g.val, g.val, g.val)
        BY <1>1, <2>4, <3>2, <3>3 DEF Places
      <4>2. Moves(g, e, g.fp.fptr, g.val, g.val, g.val)
        BY <2>3, <4>1, PositionType
      <4> QED
        BY <4>2 DEF Moves
    <3> HIDE DEF e
    <3>5. Filed(c, e)
      BY <2>4, <3>4, FiledTransitive
    <3>6. e.val # 0 => IsOk(e) /\ Rooted(e.fp)
      BY <2>3, <3>2, <3>4 DEF Rooted
    <3>7. e.fp.fptr = 0 /\ e.fp.fptr < ofs
      BY <2>4, <3>4
    <3>8. e.val = 0 => Full(FatV(e))
      BY <2>3, <3>4
    <3>10. g.val \in Cluster => Extends(c, 0, e, 1)
      <4> SUFFICES ASSUME g.val \in Cluster PROVE Extends(c, 0, e, 1)
        OBVIOUS
      <4>1. e.fp.fptr \div bcs = 0
        BY <3>7, ClusterSize
      <4>2. e.fp.sclust = IF z.fp.sclust = 0 THEN g.val ELSE z.fp.sclust
        BY <2>2, <3>4
      <4>3. Extends(z, 0, e, 1)
        BY <2>2, <2>3, <3>4, <4>1, <4>2, FollowLeads
      <4> QED
        BY <2>2, <2>20, <3>4, <4>3, ExtendsTransitive
    <3>11. g.val = 0 => Extends(c, 0, e, 0)
      <4> SUFFICES ASSUME g.val = 0 PROVE Extends(c, 0, e, 0)
        OBVIOUS
      <4>1. ASSUME NEW m \in Chart, NEW i \in Label, NEW exact \in BOOLEAN,
                   Fits(m, i, g.fp, exact, 0)
            PROVE  Fits(m, i, e.fp, exact, 0)
        BY <2>2, <2>3, <3>4, <3>7, <4>1 DEF Fits
      <4>2. Extends(g, 0, e, 0)
        BY <2>3, <3>4, <4>1, QuietExtends
      <4> QED
        BY <2>21, <2>3, <3>4, <4>2, ExtendsTransitive
    <3>9. Begun(c, e, ofs)
      BY <1>2, <1>3, <2>2, <2>3, <2>4, <2>6, <3>10, <3>11, <3>2, <3>3, <3>4, <3>5, <3>6,
         <3>7, <3>8 DEF Begun
    <3> QED
      BY <3>1, <3>9 DEF d
  <2> QED
    BY <2>7, <2>8
<1> QED
  BY <1>5, <1>6, <1>7

\* f_lseek(ofs) follows the chain of the file of c.
Follows(c, ofs) ==
  {d \in Good : /\ Filed(c, d) /\ Start(d.fp.fptr) /\ d.fp.fptr < ofs
                /\ IsOk(d) => d.fp.err = "FR_OK" /\ Rooted(d.fp) /\ d.val \in Nat
                /\ IsOk(d) /\ d.val = 0 => /\ Full(FatV(d)) /\ ofs - d.fp.fptr > bcs
                                           /\ ~Reaching(c, ofs)
                /\ ~IsOk(d) => d.fp.err # "FR_OK"
                /\ d.fp.fsize = c.fp.fsize /\ d.fp.written = c.fp.written
                /\ Extends(c, 0, d, IF IsOk(d) THEN 1 ELSE 0)
                /\ IsOk(d) /\ d.val # 0 => d.val = d.fp.clust
                /\ IsOk(d) /\ Known(c) => d.fp.clust \in Cluster}

\* The next cluster of the chain, one that is made in write mode.
Fetched(c) == IF c.fp.wr THEN create_chain(c, c.val) ELSE get_fat(c, c.val)

\* A writer finds none only if every cluster is taken.
LEMMA FetchedType ==
  ASSUME NEW c \in Good, c.val \in Nat
  PROVE  LET d == Fetched(c)
         IN /\ d \in Good /\ Filed(c, d) /\ d.fp = c.fp /\ Extends(c, 1, d, 1)
            /\ d.val = 0 /\ c.fp.wr => Full(FatV(d))
            /\ d.val \in Cluster => IsOk(d)
<1> DEFINE d == create_chain(c, c.val)
           e == get_fat(c, c.val)
<1>1. 1 \notin Cluster /\ Ones \notin Cluster
  BY FatFsAssumption DEF Ones, n_fatent, Cluster
<1>2. CASE c.fp.wr
  <2>1. /\ d \in Good /\ Stays(c, d) /\ d.fp = c.fp
        /\ d.val = 0 => Full(FatV(d))
        /\ d.val \in Cluster => IsOk(d) /\ Extends(c, 1, d, 1)
        /\ Extends(c, 1, d, 1)
    BY CreateChainVal, CreateChainExtends
  <2>2. Fetched(c) = d
    BY <1>2 DEF Fetched
  <2> HIDE DEF d
  <2> QED
    BY <2>1, <2>2 DEF Stays
<1>3. CASE ~c.fp.wr
  <2>1. /\ e \in Good /\ Moved(c, e)
        /\ c.val \notin Cluster => e.val = 1
        /\ c.val \in Cluster /\ ~IsOk(e) => e.val = Ones
    BY GetFatType
  <2>2. Fetched(c) = e
    BY <1>3 DEF Fetched
  <2> HIDE DEF e
  <2>3. Filed(c, e) /\ e.fp = c.fp
    BY <2>1, SteadyStays DEF Moved, Kept, Steady
  <2>5. Extends(c, 1, e, 1)
    BY <2>1, <2>3, MovedQuiet, StaysExtends DEF SameChain
  <2>4. e.val \in Cluster => IsOk(e)
    BY <1>1, <2>1
  <2> QED
    BY <1>3, <2>1, <2>2, <2>3, <2>4, <2>5
<1> QED
  BY <1>2, <1>3

\* The next cluster becomes the current one.
LEMMA FetchedExtends ==
  ASSUME NEW c \in Good, c.fp.err = "FR_OK", Rooted(c.fp), c.fp.clust \in Cluster,
         c.val = c.fp.clust, Fetched(c).val \in Cluster, NEW d \in Good,
         Quiet(Fetched(c), d), d.fp.clust = Fetched(c).val, d.fp.sclust = c.fp.sclust,
         d.fp.fsize = c.fp.fsize, d.fp.fptr = c.fp.fptr + bcs, Start(c.fp.fptr)
  PROVE  Extends(c, 1, d, 1)
<1> DEFINE g == Fetched(c)
           place == c.fp.fptr \div bcs + 1
<1>1. c.fp \in FIL /\ c.fp.fptr \in Nat
  BY DEF Good, Ctx, FIL
<1>2. place \in Nat /\ d.fp.fptr \div bcs = place /\ c.fp.fptr \div bcs \in Nat
  <2>1. PICK k \in Nat : c.fp.fptr = k * bcs
    BY DEF Start
  <2>2. 1 \in 1 .. bcs
    BY ClusterSize
  <2>3. c.fp.fptr \div bcs = k /\ (c.fp.fptr + bcs) \div bcs = k + 1
    BY <2>1, <2>2, FromStart
  <2> QED
    BY <2>3
<1> HIDE DEF place
<1>3. g \in Good /\ g.fp = c.fp
  BY <1>1, FetchedType DEF FIL
<1>4. CASE c.fp.wr
  <2>1. g = create_chain(c, c.fp.clust)
    BY <1>4 DEF Fetched
  <2>2. Leads(c, 1, g, place)
    BY <1>2, <2>1, NextLeads DEF Rooted, place
  <2> HIDE DEF g
  <2> QED
    BY <1>2, <1>3, <2>2, FollowLeads DEF Rooted, g
<1>5. CASE ~c.fp.wr
  <2>1. g = get_fat(c, c.fp.clust)
    BY <1>5 DEF Fetched
  <2>2. Moved(c, g) /\ g.val = FatV(c)[c.fp.clust]
    <3>1. /\ Moved(c, g)
          /\ IsOk(g) => g.val = FatV(c)[c.fp.clust]
          /\ ~IsOk(g) => g.val = Ones
      BY <2>1, GetFatType
    <3> QED
      BY <3>1, OnesNoCluster
  <2> HIDE DEF g
  <2>3. Quiet(c, d)
    BY <2>2, MovedQuiet, QuietTransitive DEF g
  <2>4. ASSUME NEW m \in Chart, NEW i \in Label, NEW exact \in BOOLEAN,
               Charted(FatV(c), m), Fits(m, i, c.fp, exact, 1)
        PROVE  Fits(m, i, d.fp, exact, 1)
    <3>1. /\ m.hd[i] = c.fp.sclust /\ (exact => Holds(m, i, c.fp.fsize))
          /\ m.own[c.fp.clust] = i /\ i # 0
          /\ exact => m.pos[c.fp.clust] = c.fp.fptr \div bcs
      BY <2>4, FatFsAssumption DEF Fits, Label
    <3>2. FatV(c)[c.fp.clust] \in Cluster /\ FatV(c)[c.fp.clust] = d.fp.clust
      BY <2>2 DEF g
    <3>3. Onto(FatV(c), m, c.fp.clust)
      BY <2>4, <3>1, <3>2, OnesNoCluster DEF Charted, LastOf
    <3>4. m.own[d.fp.clust] = i /\ (exact => m.pos[d.fp.clust] = place)
      BY <3>1, <3>2, <3>3 DEF Onto, place
    <3> QED
      BY <1>2, <3>1, <3>4 DEF Fits
  <2> QED
    BY <2>3, <2>4, QuietExtends
<1> QED
  BY <1>4, <1>5

\* A turn of f_lseek's loop advances by a cluster, or ends the loop.
LEMMA SeekOneType ==
  ASSUME NEW c \in Good, NEW ofs \in Nat, NEW d \in Follows(c, ofs)
  PROVE  LET e == SeekOne(d, ofs)
         IN /\ e \in Follows(c, ofs)
            /\ IsOk(e) /\ e.val # 0 =>
                 /\ IsOk(d) /\ d.val # 0
                 /\ ofs - e.fp.fptr <= bcs \/ e.fp.fptr = d.fp.fptr + bcs
<1> DEFINE g == Fetched(d)
           pos == g.fp.fptr + bcs
           p == Positioned(g, pos, g.fp.sclust, g.val, g.val)
           e == SeekOne(d, ofs)
<1>1. /\ d \in Good /\ Filed(c, d) /\ Start(d.fp.fptr) /\ d.fp.fptr < ofs /\ d.fp.fptr \in Nat
      /\ IsOk(d) => d.fp.err = "FR_OK" /\ Rooted(d.fp) /\ d.val \in Nat
      /\ ~IsOk(d) => d.fp.err # "FR_OK"
      /\ d.fp.fsize = c.fp.fsize /\ d.fp.written = c.fp.written
      /\ Extends(c, 0, d, IF IsOk(d) THEN 1 ELSE 0)
      /\ IsOk(d) /\ d.val # 0 => d.val = d.fp.clust
      /\ IsOk(d) /\ Known(c) => d.fp.clust \in Cluster
  BY DEF Follows, Good, Ctx, FIL
<1>2. bcs \in Nat \ {0}
  BY ClusterSize
<1>3. CASE ~IsOk(d) \/ d.val = 0 \/ ofs - d.fp.fptr <= bcs
  <2>1. e = d
    BY <1>3 DEF SeekOne
  <2> HIDE DEF e
  <2> QED
    BY <1>3, <2>1 DEF e
<1>4. CASE ~(~IsOk(d) \/ d.val = 0 \/ ofs - d.fp.fptr <= bcs)
  <2>1. e = CASE g.val = 0 /\ d.fp.wr -> Ok(g)
              [] g.val = Ones -> Abort(g, "FR_DISK_ERR")
              [] g.val \in Cluster -> [g EXCEPT !.fp.clust = g.val, !.fp.fptr = @ + bcs]
              [] OTHER -> Abort(g, "FR_INT_ERR")
    BY <1>4 DEF SeekOne, Fetched
  <2>2. /\ g \in Good /\ Filed(d, g) /\ g.fp = d.fp
        /\ g.val = 0 /\ d.fp.wr => Full(FatV(g))
        /\ g.val \in Cluster => IsOk(g)
        /\ Extends(d, 1, g, 1)
    BY <1>1, <1>4, FetchedType
  <2> HIDE DEF g
  <2>3. Filed(c, g) /\ g \in Ctx /\ g.fp \in FIL
    BY <1>1, <2>2, FiledTransitive DEF Good, Ctx
  <2>20. Extends(c, 0, d, 1) /\ Extends(c, 0, g, 1)
    BY <1>1, <1>4, <2>2, ExtendsTransitive
  <2>4. 0 \notin Cluster /\ Ones \notin Cluster /\ Ones # 0
    BY FatFsAssumption DEF Ones, n_fatent, Cluster
  <2>5. ASSUME NEW r \in Errors, e = Abort(g, r)
        PROVE  e \in Follows(c, ofs) /\ ~IsOk(e)
    <3> HIDE DEF e
    <3> DEFINE a == Abort(g, r)
    <3>1. r \in Res /\ r # "FR_OK"
      BY DEF Errors, Res
    <3>2. /\ a \in Good /\ Stays(g, a) /\ a.fp.err = r /\ ~IsOk(a)
          /\ Extends(g, 1, a, 0)
      BY <2>2, <3>1, AbortType, AbortHandled
    <3>3. e = a
      BY <2>5
    <3> HIDE DEF a
    <3>4. Filed(c, a) /\ a.fp.fptr = d.fp.fptr
      BY <2>2, <2>3, <3>2, FiledTransitive DEF Stays
    <3>5. Extends(c, 0, a, 0) /\ a.fp.fsize = c.fp.fsize /\ a.fp.written = c.fp.written
      BY <1>1, <2>2, <2>20, <3>2, ExtendsTransitive DEF Stays
    <3> QED
      BY <1>1, <3>1, <3>2, <3>3, <3>4, <3>5 DEF Follows
  <2>6. CASE g.val = 0 /\ d.fp.wr
    <3>1. e = Ok(g)
      BY <2>1, <2>4, <2>6
    <3> DEFINE o == Ok(g)
    <3>2. o \in Good /\ IsOk(o) /\ Kept(g, o) /\ o.val = g.val /\ Over(o) = Over(g)
      BY <2>2, <2>3, OkType
    <3> HIDE DEF o, e
    <3>3. Filed(g, o) /\ o.fp = g.fp /\ FatV(o) = FatV(g)
      BY <3>2, SteadyStays, ViewsMoved DEF Kept, Steady
    <3>4. Filed(c, o) /\ ofs - o.fp.fptr > bcs
      BY <1>1, <1>2, <1>4, <2>2, <2>3, <3>3, FiledTransitive
    <3>6. Extends(c, 0, o, 1)
      <4>1. Quiet(g, o)
        BY <2>2, <2>3, <3>2, OkType, BesideQuiet DEF o
      <4>2. Extends(g, 1, o, 1)
        BY <2>2, <3>2, <3>3, <4>1, StaysExtends DEF SameChain
      <4> QED
        BY <2>2, <2>20, <3>2, <4>2, ExtendsTransitive
    <3>7. ASSUME NEW m \in Chart, NEW i \in Label, Charted(FatV(c), m),
                 Fits(m, i, c.fp, TRUE, 0), Holds(m, i, ofs)
          PROVE  FALSE
      <4>1. Known(c)
        BY <3>7 DEF Known
      <4>2. d.fp.clust \in Cluster /\ d.val = d.fp.clust /\ i \in 0 .. n_rootdir /\ i # 0
        BY <1>1, <1>4, <4>1, FatFsAssumption DEF Label
      <4>3. PICK n \in Chart : Charted(FatV(d), n) /\ Grows(m, n, i) /\ Fits(n, i, d.fp, TRUE, 1)
        BY <2>20, <3>7, <4>2 DEF Extends
      <4>4. n.own[d.fp.clust] = i /\ n.pos[d.fp.clust] = d.fp.fptr \div bcs
        BY <1>1, <1>4, <4>2, <4>3 DEF Fits
      <4>5. Holds(n, i, ofs)
        BY <3>7, <4>2, <4>3 DEF Holds, Grows
      <4>6. FatV(d)[d.fp.clust] \in Cluster
        BY <1>1, <1>2, <1>4, <4>2, <4>3, <4>4, <4>5, ReachingOn
      <4>7. create_chain(d, d.fp.clust).val # 0
        BY <1>1, <4>2, <4>6, CreateChainOn
      <4> QED
        BY <2>6, <4>2, <4>7 DEF g, Fetched
    <3>8. ~Reaching(c, ofs)
      BY <3>7 DEF Reaching
    <3>5. o \in Follows(c, ofs)
      BY <1>1, <1>4, <2>2, <2>6, <3>2, <3>3, <3>4, <3>6, <3>8 DEF Follows
    <3> QED
      BY <2>6, <3>1, <3>2, <3>5 DEF o, e
  <2>7. CASE g.val = Ones
    <3>1. e = Abort(g, "FR_DISK_ERR")
      BY <2>1, <2>4, <2>7
    <3> QED
      BY <2>5, <3>1 DEF Errors
  <2>8. CASE g.val \in Cluster
    <3>1. e = [g EXCEPT !.fp.clust = g.val, !.fp.fptr = @ + bcs]
      BY <2>1, <2>4, <2>8
    <3>2. g.fp.fptr \in Nat /\ pos \in Nat /\ g.fp.sclust \in Cluster \cup {0}
      BY <1>2, <2>3 DEF FIL
    <3>3. g.val \in 0 .. EOC /\ g.val \in Int /\ g.val \in Nat
      BY <2>8, FatFsAssumption DEF Cluster, EOC, n_fatent
    <3>4. e = p
      <4> HIDE DEF e
      <4>1. p = [g EXCEPT !.fp.clust = g.val, !.fp.fptr = @ + bcs]
        BY <2>3 DEF Positioned, Position, WithFpVal, Ctx, FIL
      <4> HIDE DEF p
      <4> QED
        BY <3>1, <4>1
    <3>5. Moves(g, p, pos, g.fp.sclust, g.val, g.val)
      <4>1. Places(pos, g.fp.sclust, g.val, g.val)
        BY <3>2, <3>3 DEF Places
      <4> QED
        BY <2>2, <4>1, PositionType
    <3> HIDE DEF p, e
    <3>6. /\ p \in Good /\ Filed(g, p) /\ p.val = g.val /\ IsOk(p)
          /\ p.fp.fptr = pos /\ p.fp.sclust = g.fp.sclust /\ p.fp.clust = g.val
          /\ p.fp.err = g.fp.err /\ p.fp.fsize = g.fp.fsize /\ p.fp.written = g.fp.written
          /\ Quiet(g, p)
      BY <2>2, <2>8, <3>5 DEF Moves
    <3>7. Filed(c, p) /\ Rooted(p.fp) /\ p.fp.err = "FR_OK"
      BY <1>1, <1>4, <2>2, <2>3, <2>4, <2>8, <3>6, FiledTransitive DEF Rooted
    <3>8. Start(p.fp.fptr) /\ p.fp.fptr < ofs /\ p.fp.fptr = d.fp.fptr + bcs
      <4>1. pos = d.fp.fptr + bcs
        BY <2>2
      <4>2. Start(pos)
        BY <1>1, <4>1, NextStart
      <4>3. pos < ofs
        BY <1>1, <1>2, <1>4, <4>1
      <4> QED
        BY <3>6, <4>1, <4>2, <4>3
    <3>9. p.val # 0 /\ p.val \in Nat
      BY <2>4, <2>8, <3>3, <3>6
    <3>11. Extends(c, 0, p, 1)
      <4>1. d.fp.err = "FR_OK" /\ Rooted(d.fp) /\ d.val = d.fp.clust
        BY <1>1, <1>4
      <4>2. d.fp.clust \in Cluster => Extends(d, 1, p, 1)
        BY <1>1, <2>2, <2>8, <3>6, <3>8, <4>1, FetchedExtends DEF g
      <4>3. CASE d.fp.clust \in Cluster
        BY <1>1, <2>20, <3>6, <4>2, <4>3, ExtendsTransitive
      <4>4. CASE d.fp.clust \notin Cluster
        <5>1. ~Known(c)
          BY <1>1, <1>4, <4>4
        <5>3. ASSUME NEW m \in Chart, NEW i \in 0 .. n_rootdir, NEW exact \in BOOLEAN,
                     Charted(FatV(c), m), Fits(m, i, c.fp, exact, 0)
              PROVE  /\ Through(c, p, Grown(m, i, DirV(c)))
                     /\ \E n \in Chart : /\ Charted(FatV(p), n) /\ Grows(m, n, i)
                                         /\ Fits(n, i, p.fp, exact, 1)
          <6>1. i = 0
            BY <5>1, <5>3, FatFsAssumption DEF Known, Label
          <6>2. Through(c, g, Grown(m, i, DirV(c)))
            BY <2>20, <5>3 DEF Extends
          <6>3. PICK n \in Chart : Charted(FatV(g), n) /\ Grows(m, n, i)
            BY <2>20, <5>3 DEF Extends
          <6>4. FatV(p) = FatV(g)
            BY <3>5 DEF Moves
          <6> QED
            BY <3>6, <6>1, <6>2, <6>3, <6>4, ThroughQuietNext DEF Fits
        <5> QED
          BY <5>3 DEF Extends
      <4> QED
        BY <4>3, <4>4
    <3>10. p \in Follows(c, ofs)
      BY <1>1, <2>2, <2>8, <3>6, <3>7, <3>8, <3>9, <3>11 DEF Follows
    <3> QED
      BY <1>4, <3>4, <3>8, <3>10 DEF e
  <2>9. CASE ~(g.val = 0 /\ d.fp.wr) /\ g.val # Ones /\ g.val \notin Cluster
    <3>1. e = Abort(g, "FR_INT_ERR")
      BY <2>1, <2>9
    <3> QED
      BY <2>5, <3>1 DEF Errors
  <2> QED
    BY <2>6, <2>7, <2>8, <2>9
<1> QED
  BY <1>3, <1>4

\* f_lseek(ofs) knows the cluster, and the sector, of a position not on a sector's boundary.
Sought(c, ofs) ==
  {d \in Handled(c) :
     /\ IsOk(d) => /\ d.fp.fptr % SS # 0 => d.val \in Sect
                   /\ d.fp.fptr < ofs => Full(FatV(d))
                   /\ Rooted(c.fp) /\ ofs > 0 => d.fp.fptr > 0
     /\ d.fp.fptr <= ofs /\ d.fp.fsize = c.fp.fsize /\ d.fp.written = c.fp.written
     /\ Extends(c, 0, d, 0)
     /\ ofs = 0 => IsOk(d) /\ d.fp.sclust = c.fp.sclust /\ d.fp.fptr = 0}

\* Behind the loop the position and its sector are set.
LEMMA SeekEndType ==
  ASSUME NEW c \in Good, NEW ofs \in Nat, NEW d \in Follows(c, ofs), IsOk(d),
         d.val # 0 => ofs - d.fp.fptr <= bcs
  PROVE  LET e == SeekEnd(d, IF d.val = 0 THEN bcs ELSE ofs - d.fp.fptr)
         IN e \in Sought(c, ofs) /\ (d.val # 0 => e.fp.fptr = ofs)
<1> DEFINE m == IF d.val = 0 THEN bcs ELSE ofs - d.fp.fptr
           s == clust2sect(d.val)
           pos == d.fp.fptr + m
           u == m \div SS
           w == IF m % SS = 0 THEN 0 ELSE IF s = 0 THEN d.val ELSE s + u
           p == Positioned(d, pos, d.fp.sclust, d.fp.clust, w)
           e == SeekEnd(d, m)
<1>1. /\ d \in Good /\ Filed(c, d) /\ Start(d.fp.fptr) /\ d.fp.fptr < ofs /\ d.fp.fptr \in Nat
      /\ d.fp.err = "FR_OK" /\ Rooted(d.fp) /\ d.val \in Nat /\ d \in Ctx /\ d.fp \in FIL
      /\ d.fp.sclust \in Cluster \cup {0} /\ d.fp.clust \in 0 .. EOC
      /\ d.val = 0 => Full(FatV(d)) /\ ofs - d.fp.fptr > bcs
      /\ d.fp.fsize = c.fp.fsize /\ d.fp.written = c.fp.written /\ Extends(c, 0, d, 1)
      /\ Known(c) => d.fp.clust \in Cluster
  BY DEF Follows, Good, Ctx, FIL
<1>2. bcs \in Nat \ {0} /\ SS \in Nat \ {0} /\ csize \in Nat \ {0} /\ bcs = csize * SS
  BY ClusterSize, FatFsAssumption
<1>3. /\ m \in Nat /\ m > 0 /\ m <= bcs /\ d.fp.fptr + m <= ofs
      /\ d.val # 0 => d.fp.fptr + m = ofs
  BY <1>1, <1>2
<1>4. e = IF m % SS = 0 THEN Ok([d EXCEPT !.fp.fptr = @ + m, !.val = 0])
          ELSE IF s = 0 THEN Abort([d EXCEPT !.fp.fptr = @ + m], "FR_INT_ERR")
          ELSE Ok([d EXCEPT !.fp.fptr = @ + m, !.val = s + m \div SS])
  BY DEF SeekEnd
<1>5. d.val = 0 => m % SS = 0
  <2>1. ASSUME d.val = 0 PROVE m % SS = 0
    <3>1. m = SS * csize
      BY <1>2, <2>1, SMTT(30)
    <3> HIDE DEF m
    <3> QED
      BY <1>2, <3>1, NoRest
  <2> QED
    BY <2>1
<1> HIDE DEF e
<1>6. e = IF m % SS # 0 /\ s = 0 THEN Abort(p, "FR_INT_ERR") ELSE Ok(p)
  <2> HIDE DEF m, s
  <2>1. CASE m % SS = 0
    <3>1. p = [d EXCEPT !.fp.fptr = @ + m, !.val = 0]
      <4>1. w = 0
        BY <2>1
      <4> HIDE DEF w
      <4> QED
        BY <1>1, <4>1 DEF Positioned, Position, WithFpVal, Ctx, FIL
    <3> HIDE DEF p
    <3> QED
      BY <1>4, <2>1, <3>1
  <2>2. CASE m % SS # 0 /\ s = 0
    <3>1. p = [d EXCEPT !.fp.fptr = @ + m]
      <4>1. w = d.val
        BY <2>2
      <4> HIDE DEF w
      <4> QED
        BY <1>1, <4>1, ZenonT(60) DEF Positioned, Position, WithFpVal, Ctx, FIL
    <3> HIDE DEF p
    <3> QED
      BY <1>4, <2>2, <3>1
  <2>3. CASE m % SS # 0 /\ s # 0
    <3>1. p = [d EXCEPT !.fp.fptr = @ + m, !.val = s + m \div SS]
      <4>1. w = s + m \div SS
        BY <2>3
      <4> HIDE DEF w
      <4> QED
        BY <1>1, <4>1 DEF Positioned, Position, WithFpVal, Ctx, FIL
    <3> HIDE DEF p
    <3> QED
      BY <1>4, <2>3, <3>1
  <2> QED
    BY <2>1, <2>2, <2>3
<1>7. m % SS # 0 /\ s # 0 => w \in Sect
  <2>1. ASSUME m % SS # 0, s # 0 PROVE w \in Sect
    <3>1. d.val \in Cluster
      BY <2>1, NoSectorType
    <3>2. m # bcs
      <4>1. CASE m = bcs
        <5>1. bcs = SS * csize
          BY <1>2, SMTT(30)
        <5>2. bcs % SS = 0
          BY <1>2, <5>1, NoRest
        <5> HIDE DEF m
        <5> QED
          BY <2>1, <4>1, <5>2
      <4> QED
        BY <4>1
    <3>3. m < csize * SS
      BY <1>2, <1>3, <3>2
    <3> HIDE DEF m
    <3>4. u \in Nat /\ u < csize
      BY <1>2, <1>3, <3>3, Division, Quotient
    <3> HIDE DEF u
    <3>5. s + u \in Sect
      <4>1. u \in 0 .. csize - 1
        BY <1>2, <3>4
      <4> QED
        BY <3>1, <4>1, SectorType
    <3> QED
      BY <2>1, <3>5
  <2> QED
    BY <2>1
<1>8. w \in Int /\ pos \in Nat /\ pos > 0 /\ pos <= ofs
  <2>1. w \in Int
    <3>1. \A x \in Sect : x \in Int
      BY FatFsAssumption DEF Sect
    <3> HIDE DEF m, s, u
    <3> QED
      BY <1>1, <1>7, <3>1
  <2> HIDE DEF m
  <2>2. pos \in Nat /\ pos > 0 /\ pos <= ofs
    BY <1>1, <1>3
  <2> QED
    BY <2>1, <2>2
<1>9. pos % SS # 0 => m % SS # 0
  <2>1. PICK k \in Nat : d.fp.fptr = k * bcs
    BY <1>1 DEF Start
  <2> HIDE DEF m
  <2> QED
    BY <1>3, <2>1, Aligned
<1>10. pos < ofs => Full(FatV(d))
  <2> HIDE DEF m
  <2> QED
    BY <1>1, <1>3, <1>8
<1>11. Moves(d, p, pos, d.fp.sclust, d.fp.clust, w)
  <2> HIDE DEF pos, w
  <2>1. Places(pos, d.fp.sclust, d.fp.clust, w)
    BY <1>1, <1>8 DEF Places
  <2> QED
    BY <1>1, <2>1, PositionType
<1>17. d.val # 0 => pos = ofs
  BY <1>3
<1> HIDE DEF p, w, m, s, pos
<1>12. /\ p \in Good /\ Filed(d, p) /\ p.val = w /\ IsOk(p) /\ FatV(p) = FatV(d)
       /\ p.fp.fptr = pos /\ p.fp.sclust = d.fp.sclust /\ p.fp.clust = d.fp.clust
       /\ p.fp.err = "FR_OK" /\ p.fp.fsize = d.fp.fsize /\ p.fp.written = d.fp.written
       /\ Quiet(d, p)
  BY <1>1, <1>11 DEF Moves
<1>16. Extends(c, 0, p, 0)
  <2>1. PICK k \in Nat : d.fp.fptr = k * bcs
    BY <1>1 DEF Start
  <2>2. m \in 1 .. bcs
    BY <1>2, <1>3
  <2>3. Behind(pos) = d.fp.fptr \div bcs
    <3>1. d.fp.fptr \div bcs = k /\ Behind(k * bcs + m) = k
      BY <2>1, <2>2, FromStart
    <3> QED
      BY <2>1, <3>1 DEF pos
  <2> SUFFICES ASSUME NEW x \in Chart, NEW i \in 0 .. n_rootdir, NEW exact \in BOOLEAN,
                      Charted(FatV(c), x), Fits(x, i, c.fp, exact, 0)
               PROVE  /\ Through(c, p, Grown(x, i, DirV(c)))
                      /\ \E n \in Chart : /\ Charted(FatV(p), n) /\ Grows(x, n, i)
                                          /\ Fits(n, i, p.fp, exact, 0)
    BY DEF Extends
  <2>4. Through(c, p, Grown(x, i, DirV(c)))
    BY <1>1, <1>12, ThroughQuietNext DEF Extends
  <2>5. PICK n \in Chart : /\ Charted(FatV(d), n) /\ Grows(x, n, i)
                           /\ Fits(n, i, d.fp, exact, 1)
    BY <1>1 DEF Extends
  <2>6. Fits(n, i, p.fp, exact, 0)
    <3> SUFFICES ASSUME i # 0 PROVE Fits(n, i, p.fp, exact, 0)
      BY DEF Fits
    <3>1. i \in Label
      BY FatFsAssumption DEF Label
    <3>2. d.fp.clust \in Cluster
      BY <1>1, <3>1 DEF Known
    <3> QED
      BY <1>1, <1>12, <2>3, <2>5, <3>2 DEF Fits
  <2> QED
    BY <1>12, <2>4, <2>5, <2>6
<1>13. Filed(c, p) /\ Rooted(p.fp)
  BY <1>1, <1>12, FiledTransitive DEF Rooted
<1>14. CASE m % SS # 0 /\ s = 0
  <2> DEFINE a == Abort(p, "FR_INT_ERR")
  <2>1. /\ a \in Handled(p) /\ ~IsOk(a) /\ Extends(p, 0, a, 0) /\ a.fp.fptr = p.fp.fptr
        /\ SameChain(p.fp, a.fp)
    BY <1>12, AbortHandled DEF Errors
  <2>2. e = a
    BY <1>6, <1>14
  <2> HIDE DEF a
  <2>3. a \in Handled(c)
    BY <1>1, <1>12, <1>13, <2>1, FiledTransitive DEF Handled, SameChain
  <2>4. Extends(c, 0, a, 0)
    BY <1>12, <1>16, <2>1, ExtendsTransitive DEF Handled
  <2>5. a.fp.fptr <= ofs /\ a.fp.fsize = c.fp.fsize /\ a.fp.written = c.fp.written /\ ofs # 0
    BY <1>1, <1>8, <1>12, <2>1 DEF SameChain
  <2>6. d.val # 0 => a.fp.fptr = ofs
    BY <1>12, <1>17, <2>1
  <2> QED
    BY <2>1, <2>2, <2>3, <2>4, <2>5, <2>6 DEF Sought, e, m
<1>15. CASE ~(m % SS # 0 /\ s = 0)
  <2> DEFINE o == Ok(p)
  <2>1. o \in Good /\ IsOk(o) /\ Kept(p, o) /\ o.val = p.val /\ Over(o) = Over(p)
    BY <1>12, OkType DEF Good
  <2>2. e = o
    BY <1>6, <1>15
  <2> HIDE DEF o
  <2>3. Filed(p, o) /\ o.fp = p.fp /\ FatV(o) = FatV(p)
    BY <2>1, SteadyStays, ViewsMoved DEF Kept, Steady
  <2>4. Filed(c, o)
    BY <1>13, <2>3, FiledTransitive
  <2>5. o \in Handled(c)
    BY <1>1, <1>12, <1>13, <2>1, <2>3, <2>4 DEF Handled, Headed
  <2>8. Extends(c, 0, o, 0)
    <3>1. Quiet(p, o)
      BY <1>12, <2>1, OkType, BesideQuiet DEF Good, o
    <3>2. Extends(p, 0, o, 0)
      BY <1>12, <2>1, <2>3, <3>1, StaysExtends DEF SameChain
    <3> QED
      BY <1>12, <1>16, <2>1, <3>2, ExtendsTransitive
  <2>6. o.fp.fptr % SS # 0 => o.val \in Sect
    BY <1>7, <1>9, <1>12, <1>15, <2>1, <2>3
  <2>7. o \in Sought(c, ofs)
    BY <1>1, <1>8, <1>10, <1>12, <2>3, <2>5, <2>6, <2>8 DEF Sought
  <2>9. d.val # 0 => o.fp.fptr = ofs
    BY <1>12, <1>17, <2>3
  <2> QED
    BY <2>2, <2>7, <2>9 DEF e, m
<1> QED
  BY <1>14, <1>15

\* The loop ends: it makes at most one turn for each cluster up to the goal.
LEMMA SeekLoopType ==
  ASSUME NEW c \in Good, NEW ofs \in Nat, NEW d \in Follows(c, ofs)
  PROVE  LET f == Repeat(LAMBDA n, e : SeekOne(e, ofs), d, ofs \div bcs)
         IN f \in Follows(c, ofs) /\ (IsOk(f) /\ f.val # 0 => ofs - f.fp.fptr <= bcs)
<1> DEFINE N == ofs \div bcs
           b == d
           Op(e) == SeekOne(e, ofs)
           W == Follows(c, ofs)
           S == [k \in 0 .. N |-> {e \in W : IsOk(e) /\ e.val # 0 =>
                                     ofs - e.fp.fptr <= bcs \/ e.fp.fptr >= k * bcs}]
           turn == [x \in (1 .. N) \X W |-> Op(x[2])]
           Loop(g) == g = [k \in 0 .. N |-> IF k = 0 THEN b ELSE Op(g[k - 1])]
           after == CHOOSE g : Loop(g)
<1>1. bcs \in Nat \ {0} /\ N \in Nat
  BY ClusterSize, Division
<1>2. ofs - N * bcs < bcs /\ N * bcs \in Nat
  <2>1. N * bcs = bcs * N /\ N * bcs \in Nat
    BY <1>1, SMTT(30)
  <2>2. ofs = bcs * N + (ofs % bcs) /\ ofs % bcs \in 0 .. bcs - 1
    BY <1>1, Division
  <2> DEFINE x == N * bcs
             y == ofs % bcs
  <2>3. x \in Nat /\ y \in 0 .. bcs - 1 /\ ofs = x + y
    BY <2>1, <2>2
  <2> HIDE DEF x, y
  <2>4. ofs - x < bcs
    BY <1>1, <2>3
  <2> QED
    BY <2>1, <2>4 DEF x
<1>3. Repeat(LAMBDA n, e : SeekOne(e, ofs), d, ofs \div bcs) = after[N]
  BY DEF Repeat
<1>4. \A e \in W : e.fp.fptr \in Nat
  BY DEF Follows, Good, Ctx, FIL
<1>5. b \in W
  OBVIOUS
<1>6. \A e \in W : /\ Op(e) \in W
                   /\ IsOk(Op(e)) /\ Op(e).val # 0 =>
                        /\ IsOk(e) /\ e.val # 0
                        /\ ofs - Op(e).fp.fptr <= bcs \/ Op(e).fp.fptr = e.fp.fptr + bcs
  BY SeekOneType
<1> HIDE DEF N, b, Op, W
<1>7. b \in S[0] /\ \A k \in 0 .. N : \A e \in S[k] : e \in W
  <2>1. 0 \in 0 .. N /\ 0 * bcs = 0 /\ b.fp.fptr >= 0
    BY <1>1, <1>4, <1>5
  <2> QED
    BY <1>5, <2>1
<1>8. \A k \in 0 .. N : k < N => \A e \in S[k] : Op(e) \in S[k + 1]
  <2> SUFFICES ASSUME NEW k \in 0 .. N, k < N, NEW e \in S[k] PROVE Op(e) \in S[k + 1]
    OBVIOUS
  <2>1. k + 1 \in 0 .. N /\ k \in Nat
    BY <1>1
  <2>2. /\ e \in W
        /\ IsOk(e) /\ e.val # 0 => ofs - e.fp.fptr <= bcs \/ e.fp.fptr >= k * bcs
    OBVIOUS
  <2> DEFINE y == Op(e)
  <2>3. /\ y \in W
        /\ IsOk(y) /\ y.val # 0 => /\ IsOk(e) /\ e.val # 0
                                   /\ ofs - y.fp.fptr <= bcs \/ y.fp.fptr = e.fp.fptr + bcs
    BY <1>6, <2>2
  <2> HIDE DEF y
  <2>4. IsOk(y) /\ y.val # 0 => ofs - y.fp.fptr <= bcs \/ y.fp.fptr >= (k + 1) * bcs
    <3>1. (k + 1) * bcs = k * bcs + bcs /\ k * bcs \in Nat
      BY <1>1, <2>1, SMTT(30)
    <3>2. e.fp.fptr \in Nat /\ y.fp.fptr \in Nat
      BY <1>4, <2>2, <2>3
    <3> DEFINE x == k * bcs
               z == (k + 1) * bcs
    <3>3. z = x + bcs /\ x \in Nat
      BY <3>1
    <3>4. IsOk(e) /\ e.val # 0 => ofs - e.fp.fptr <= bcs \/ e.fp.fptr >= x
      BY <2>2
    <3> HIDE DEF x, z
    <3>5. IsOk(y) /\ y.val # 0 => ofs - y.fp.fptr <= bcs \/ y.fp.fptr >= z
      BY <1>1, <2>3, <3>2, <3>3, <3>4
    <3> QED
      BY <3>5 DEF z
  <2>5. y \in S[k + 1]
    BY <2>1, <2>3, <2>4
  <2> QED
    BY <2>5 DEF y
<1>9. \A n \in 0 .. N : n < N => n + 1 \in 1 .. N /\ n + 1 \in 0 .. N /\ (n + 1) - 1 = n
  BY <1>1
<1>10. Turns(N, S, turn)
  <2> HIDE DEF S, N
  <2> QED
    BY <1>9, <1>7, <1>8 DEF Turns
<1> HIDE DEF S
<1>11. \E g : Loop(g)
  <2>1. PICK g : /\ g = [n \in 0 .. N |-> IF n = 0 THEN b ELSE turn[<<n, g[n - 1]>>]]
                 /\ \A n \in 0 .. N : g[n] \in S[n]
    <3> HIDE DEF turn, N
    <3>1. Runs(N, S, b, turn)
      BY <1>1, <1>7, <1>10, LoopExists
    <3> QED
      BY <3>1 DEF Runs
  <2>2. ASSUME NEW n \in 0 .. N, n # 0
        PROVE  turn[<<n, g[n - 1]>>] = Op(g[n - 1])
    <3>1. n - 1 \in 0 .. N /\ n \in 1 .. N
      BY <1>1, <2>2
    <3> HIDE DEF N
    <3> QED
      BY <1>7, <1>8, <2>1, <3>1
  <2> HIDE DEF turn, N
  <2> QED
    BY <2>1, <2>2
<1>12. Loop(after)
  BY <1>11
<1> HIDE DEF after
<1> DEFINE T == {n \in 0 .. N : after[n] \in S[n]}
<1>13. 0 .. N \subseteq T
  <2>1. 0 \in 0 .. N /\ after[0] = b
    BY <1>1, <1>12
  <2> HIDE DEF N
  <2>2. \A n \in 0 .. N : n < N => after[n + 1] = Op(after[n])
    BY <1>9, <1>12
  <2> HIDE DEF Loop
  <2>3. 0 \in T /\ \A n \in 0 .. N : n \in T /\ n < N => n + 1 \in T
    BY <1>7, <1>9, <1>7, <1>8, <2>1, <2>2
  <2> HIDE DEF T
  <2> QED
    BY <1>1, <2>3, UptoInduction
<1>14. after[N] \in S[N]
  BY <1>1, <1>13
<1>15. /\ after[N] \in W
       /\ IsOk(after[N]) /\ after[N].val # 0 =>
            ofs - after[N].fp.fptr <= bcs \/ after[N].fp.fptr >= N * bcs
  <2>1. N \in 0 .. N
    BY <1>1
  <2> QED
    BY <1>14, <2>1 DEF S
<1> DEFINE f == after[N]
<1>16. f \in W /\ (IsOk(f) /\ f.val # 0 => ofs - f.fp.fptr <= bcs)
  <2>1. /\ f \in W /\ f.fp.fptr \in Nat
        /\ IsOk(f) /\ f.val # 0 => ofs - f.fp.fptr <= bcs \/ f.fp.fptr >= N * bcs
    BY <1>4, <1>15
  <2> HIDE DEF f
  <2> DEFINE x == N * bcs
  <2>2. ofs - x < bcs /\ x \in Nat
    BY <1>2
  <2>3. IsOk(f) /\ f.val # 0 => ofs - f.fp.fptr <= bcs \/ f.fp.fptr >= x
    BY <2>1
  <2> HIDE DEF x
  <2> QED
    BY <1>1, <2>1, <2>2, <2>3
<1> QED
  BY <1>3, <1>16 DEF W

\* A seek ends at its goal, with an error, or where every cluster is taken.
LEMMA SeekToType ==
  ASSUME NEW c \in Good, IsOk(c), c.fp.err = "FR_OK", Headed(c.fp), NEW ofs \in Nat
  PROVE  LET r == SeekTo(c, ofs)
         IN r \in Sought(c, ofs) /\ (IsOk(r) /\ Reaching(c, ofs) => r.fp.fptr = ofs)
<1> DEFINE z == [c EXCEPT !.fp.fptr = 0, !.val = 0]
           p == Positioned(c, 0, c.fp.sclust, c.fp.clust, 0)
           d == SeekStart(c, ofs)
           f == Repeat(LAMBDA n, e : SeekOne(e, ofs), d, ofs \div bcs)
           m == IF f.val = 0 THEN bcs ELSE ofs - f.fp.fptr
           e == SeekEnd(f, m)
           o == Ok(d)
           r == SeekTo(c, ofs)
<1>1. /\ c \in Ctx /\ c.fp \in FIL /\ c.fp.fptr \in Nat /\ c.fp.sclust \in Cluster \cup {0}
      /\ c.fp.clust \in 0 .. EOC /\ 0 \in Nat /\ 0 \in Int
  BY DEF Good, Ctx, FIL
<1>2. 0 % SS = 0
  BY FatFsAssumption, SMTT(30)
<1>3. CASE ofs = 0
  <2>1. r = z
    BY <1>3 DEF SeekTo
  <2>2. p = z
    BY <1>1 DEF Positioned, Position, WithFpVal, Ctx, FIL
  <2>3. Moves(c, p, 0, c.fp.sclust, c.fp.clust, 0)
    <3>1. Places(0, c.fp.sclust, c.fp.clust, 0)
      BY <1>1 DEF Places
    <3> QED
      BY <3>1, PositionType
  <2> HIDE DEF p, z, r
  <2>4. /\ p \in Good /\ Filed(c, p) /\ IsOk(p) /\ p.fp.fptr = 0 /\ p.fp.err = "FR_OK"
        /\ p.fp.fsize = c.fp.fsize /\ p.fp.written = c.fp.written /\ Quiet(c, p)
        /\ p.fp.sclust = c.fp.sclust
    BY <2>3 DEF Moves
  <2>5. p \in Handled(c)
    BY <2>4 DEF Handled, Headed
  <2>7. Extends(c, 0, p, 0)
    <3>1. ASSUME NEW h \in Chart, NEW i \in Label, NEW exact \in BOOLEAN,
                 Fits(h, i, c.fp, exact, 0)
          PROVE  Fits(h, i, p.fp, exact, 0)
      BY <2>4, <3>1 DEF Fits
    <3> QED
      BY <2>4, <3>1, QuietExtends
  <2>6. p \in Sought(c, ofs)
    BY <1>2, <1>3, <2>4, <2>5, <2>7 DEF Sought
  <2> QED
    BY <1>3, <2>1, <2>2, <2>4, <2>6 DEF r
<1>4. CASE ofs > 0
  <2>1. r = CASE d.val = 0 -> o
              [] d.val = 1 -> Abort(d, "FR_INT_ERR")
              [] d.val = Ones -> Abort(d, "FR_DISK_ERR")
              [] OTHER -> IF IsOk(f) THEN e ELSE f
    BY <1>4 DEF SeekTo, Then, Repeat
  <2>2. Begun(c, d, ofs)
    BY <1>4, SeekStartType
  <2> HIDE DEF d
  <2>3. /\ d \in Good /\ Filed(c, d) /\ d.fp.err = "FR_OK" /\ d.val \in {0, 1, Ones} \cup FatEntry
        /\ d.fp.fptr < ofs /\ Start(d.fp.fptr)
        /\ d.val \notin {0, 1, Ones} => IsOk(d) /\ Rooted(d.fp)
        /\ d.val = 0 => d.fp.fptr = 0 /\ ~Rooted(c.fp) /\ Full(FatV(d)) /\ Extends(c, 0, d, 0)
        /\ d.val = 0 => ~Reaching(c, ofs)
        /\ d.val \notin {0, 1, Ones} => Extends(c, 0, d, 1) /\ d.val = d.fp.clust
        /\ Known(c) => d.val \in {0, 1, Ones} \cup Cluster
        /\ d.fp.fsize = c.fp.fsize /\ d.fp.written = c.fp.written
        /\ \E t : Extends(c, 0, d, t)
        /\ d.fp.fptr \in Nat
    BY <2>2 DEF Begun, Good, Ctx, FIL
  <2>4. /\ 0 # 1 /\ Ones # 0 /\ Ones # 1 /\ \A x \in FatEntry : x \in Nat
    BY FatFsAssumption DEF Ones, n_fatent, FatEntry, EOC
  <2>5. ASSUME NEW x \in Errors, r = Abort(d, x)
        PROVE  r \in Sought(c, ofs) /\ ~IsOk(r)
    <3> HIDE DEF r
    <3> DEFINE a == Abort(d, x)
    <3>1. /\ a \in Handled(d) /\ ~IsOk(a) /\ \A q, t : Extends(d, q, a, t)
          /\ SameChain(d.fp, a.fp) /\ a.fp.fptr = d.fp.fptr
      BY <2>3, AbortHandled
    <3>2. r = a
      BY <2>5
    <3> HIDE DEF a
    <3>3. a \in Handled(c)
      BY <2>3, <3>1, FiledTransitive DEF Handled
    <3>4. Extends(c, 0, a, 0)
      BY <2>3, <3>1, ExtendsTransitive DEF Handled
    <3>5. a.fp.fptr <= ofs /\ a.fp.fsize = c.fp.fsize /\ a.fp.written = c.fp.written
      BY <2>3, <3>1 DEF SameChain
    <3> QED
      BY <1>4, <3>1, <3>2, <3>3, <3>4, <3>5 DEF Sought
  <2>6. CASE d.val = 0
    <3>1. r = o
      BY <2>1, <2>4, <2>6
    <3>2. o \in Good /\ IsOk(o) /\ Kept(d, o) /\ Over(o) = Over(d)
      BY <2>3, OkType DEF Good
    <3> HIDE DEF r, o
    <3>3. Filed(d, o) /\ o.fp = d.fp /\ FatV(o) = FatV(d)
      BY <3>2, SteadyStays, ViewsMoved DEF Kept, Steady
    <3>4. Filed(c, o)
      BY <2>3, <3>3, FiledTransitive
    <3>5. o \in Handled(c)
      BY <2>3, <2>6, <3>2, <3>3, <3>4 DEF Handled, Headed
    <3>7. Extends(c, 0, o, 0)
      <4>1. Quiet(d, o)
        BY <2>3, <3>2, OkType, BesideQuiet DEF Good, o
      <4>2. Extends(d, 0, o, 0)
        BY <2>3, <3>2, <3>3, <4>1, StaysExtends DEF SameChain
      <4> QED
        BY <2>3, <2>6, <3>2, <4>2, ExtendsTransitive
    <3>6. o \in Sought(c, ofs)
      BY <1>2, <1>4, <2>3, <2>6, <3>3, <3>5, <3>7 DEF Sought
    <3> QED
      BY <2>3, <2>6, <3>1, <3>6 DEF r
  <2>7. CASE d.val = 1
    <3>1. r = Abort(d, "FR_INT_ERR")
      BY <2>1, <2>4, <2>7
    <3> QED
      BY <2>5, <3>1 DEF Errors
  <2>8. CASE d.val = Ones
    <3>1. r = Abort(d, "FR_DISK_ERR")
      BY <2>1, <2>4, <2>8
    <3> QED
      BY <2>5, <3>1 DEF Errors
  <2>9. CASE d.val \notin {0, 1, Ones}
    <3>1. r = IF IsOk(f) THEN e ELSE f
      BY <2>1, <2>9
    <3>2. d \in Follows(c, ofs)
      <4>1. IsOk(d) /\ d.val = d.fp.clust /\ Extends(c, 0, d, 1) /\ Rooted(d.fp)
        BY <2>3, <2>9
      <4>2. d.val \in Nat /\ d.val # 0
        BY <2>3, <2>4, <2>9
      <4>3. Known(c) => d.fp.clust \in Cluster
        BY <2>3, <2>9, <4>1
      <4> QED
        BY <2>3, <4>1, <4>2, <4>3 DEF Follows
    <3>3. f \in Follows(c, ofs) /\ (IsOk(f) /\ f.val # 0 => ofs - f.fp.fptr <= bcs)
      BY <3>2, SeekLoopType
    <3> HIDE DEF f, r
    <3>4. CASE IsOk(f)
      <4>1. e \in Sought(c, ofs) /\ (f.val # 0 => e.fp.fptr = ofs)
        BY <3>3, <3>4, SeekEndType
      <4>2. Reaching(c, ofs) => f.val # 0
        BY <3>3, <3>4 DEF Follows
      <4> QED
        BY <3>1, <3>4, <4>1, <4>2 DEF r
    <3>5. CASE ~IsOk(f)
      <4>1. f \in Handled(c)
        BY <3>3, <3>5 DEF Follows, Handled, Headed
      <4>2. /\ Extends(c, 0, f, 0) /\ f.fp.fptr <= ofs /\ f.fp.fptr \in Nat
            /\ f.fp.fsize = c.fp.fsize /\ f.fp.written = c.fp.written
        <5>1. /\ f \in Good /\ Extends(c, 0, f, 0) /\ f.fp.fptr < ofs
              /\ f.fp.fsize = c.fp.fsize /\ f.fp.written = c.fp.written
          BY <3>3, <3>5 DEF Follows
        <5>2. f.fp.fptr \in Nat
          BY <5>1 DEF Good, Ctx, FIL
        <5> QED
          BY <5>1, <5>2
      <4> QED
        BY <1>4, <3>1, <3>5, <4>1, <4>2 DEF Sought, r
    <3> QED
      BY <3>4, <3>5
  <2> QED
    BY <2>6, <2>7, <2>8, <2>9
<1> QED
  BY <1>3, <1>4

\* A writer's seek that succeeds ends short of its goal only if the disk is full, and not
\* at the beginning.
LseekEnds(c, d, goal) ==
  /\ c.fp.wr => Ends(c, d, goal)
  /\ IsOk(d) => d \in Good /\ d.fp.err = "FR_OK"
  /\ IsOk(d) /\ c.fp.wr /\ Rooted(c.fp) /\ goal > 0 => d.fp.fptr > 0

\* f_lseek keeps the types; a writer's seek ends short only if every cluster is taken.
LEMMA LseekType ==
  ASSUME NEW c \in Fair, Headed(c.fp), NEW offset \in Nat
  PROVE  LET d == f_lseek(c, offset)
         IN /\ d \in Result(c) /\ LseekEnds(c, d, offset) /\ d \in Worked(c)
            /\ offset = 0 /\ IsOk(Reject(c)) =>
                 IsOk(d) /\ d.fp.sclust = c.fp.sclust /\ d.fp.fptr = 0
            /\ offset <= c.fp.fsize => d.fp.written = c.fp.written /\ d.fp.fsize = c.fp.fsize
            /\ IsOk(d) /\ c.fp.wr /\ Reaching(c, offset) => d.fp.fptr = offset
<1> DEFINE ofs == IF offset > c.fp.fsize /\ ~c.fp.wr THEN c.fp.fsize ELSE offset
           v == Reject(c)
           d == SeekTo(v, ofs)
           e == IF d.fp.fptr % SS # 0 THEN Load(d, d.val, TRUE) ELSE d
           p == [e.fp EXCEPT !.fsize = e.fp.fptr, !.written = TRUE]
           w == WithFp(e, p)
           g == IF e.fp.fptr <= c.fp.fsize THEN e ELSE w
           r == f_lseek(c, offset)
<1>1. c \in Ctx /\ c.fp \in FIL /\ c.fp.fptr \in Nat /\ c.fp.fsize \in Nat
  BY DEF Fair, Ctx, FIL
<1>2. /\ ofs \in Nat /\ (c.fp.wr => ofs = offset) /\ (~c.fp.wr => ofs <= c.fp.fsize)
      /\ offset = 0 => ofs = 0
  BY <1>1
<1>3. /\ v \in Fair /\ Kept(c, v) /\ v.sec = c.sec
      /\ IsOk(v) => /\ v \in Good /\ c.fp.fs /\ c.fs_type # 0 /\ c.stat # "STA_NOINIT"
                    /\ c.fp.err = "FR_OK" /\ c \in Good /\ Over(v) = Over(c)
  BY RejectType
<1>4. Filed(c, v) /\ v.fp = c.fp /\ (IsOk(v) => Extends(c, 0, v, 0))
  <2>1. Filed(c, v) /\ v.fp = c.fp
    BY <1>3, SteadyStays, SMTT(60) DEF Kept, Steady
  <2> HIDE DEF v
  <2>2. IsOk(v) => Extends(c, 0, v, 0)
    BY <1>3, <2>1, BesideQuiet, StaysExtends DEF SameChain
  <2> QED
    BY <2>1, <2>2
<1>5. r = IF IsOk(v) THEN IF IsOk(d) THEN IF IsOk(e) THEN
            IF e.fp.fptr <= c.fp.fsize THEN e
            ELSE [e EXCEPT !.fp.fsize = e.fp.fptr, !.fp.written = TRUE]
          ELSE e ELSE d ELSE v
  BY DEF f_lseek, Then
<1> HIDE DEF ofs, v, r
<1>6. CASE ~IsOk(v)
  <2>1. r = v
    BY <1>5, <1>6
  <2>2. v \in Result(c)
    BY <1>3, <1>4 DEF Result
  <2>3. v \in Worked(c)
    BY <1>6, <2>2 DEF Worked, v
  <2> QED
    BY <1>4, <1>6, <2>1, <2>2, <2>3 DEF LseekEnds, Ends, r, v
<1>7. CASE IsOk(v)
  <2>1. /\ d \in Sought(v, ofs)
        /\ IsOk(d) /\ Reaching(v, ofs) => d.fp.fptr = ofs
    BY <1>2, <1>3, <1>4, <1>7, SeekToType
  <2>7. Reaching(c, ofs) => Reaching(v, ofs)
    <3>1. FatV(v) = FatV(c) /\ v.fp = c.fp
      BY <1>3, <1>4, <1>7, ViewsMoved
    <3> QED
      BY <3>1 DEF Reaching
  <2> HIDE DEF d
  <2>2. d \in Good /\ Filed(c, d) /\ Headed(d.fp) /\ (IsOk(d) => d.fp.err = "FR_OK")
    BY <1>4, <2>1, FiledTransitive DEF Sought, Handled
  <2>5. /\ Extends(c, 0, d, 0) /\ d.fp.fptr <= ofs /\ d.fp.fptr \in Nat
        /\ d.fp.fsize = c.fp.fsize /\ d.fp.written = c.fp.written
        /\ ofs = 0 => IsOk(d) /\ d.fp.sclust = c.fp.sclust /\ d.fp.fptr = 0
    <3>1. /\ Extends(v, 0, d, 0) /\ d.fp.fptr <= ofs
          /\ d.fp.fsize = c.fp.fsize /\ d.fp.written = c.fp.written
          /\ ofs = 0 => IsOk(d) /\ d.fp.sclust = c.fp.sclust /\ d.fp.fptr = 0
      BY <1>4, <2>1 DEF Sought
    <3>2. Extends(c, 0, d, 0)
      BY <1>3, <1>4, <1>7, <2>2, <3>1, ExtendsTransitive
    <3>3. d.fp.fptr \in Nat
      BY <2>2 DEF Good, Ctx, FIL
    <3> QED
      BY <3>1, <3>2, <3>3
  <2>6. \A x \in Result(c) :
          /\ x \in Good /\ Extends(c, 0, x, 0) /\ (c.fp.written => x.fp.written)
          /\ ~c.fp.wr => /\ x.fp.written = c.fp.written /\ x.fp.fsize = c.fp.fsize
                         /\ ofs = 0 => x.fp.fptr = 0 /\ x.fp.sclust = c.fp.sclust
          => x \in Worked(c)
    <3>1. c.fp.fsize = 0 /\ ~c.fp.wr => ofs = 0
      BY <1>1, <1>2
    <3> QED
      BY <1>3, <1>7, <3>1 DEF Worked, v
  <2>3. CASE ~IsOk(d)
    <3>1. r = d
      BY <1>5, <1>7, <2>3
    <3>2. d \in Result(c)
      BY <2>2 DEF Result, Fair, Good
    <3>3. d \in Worked(c)
      BY <2>2, <2>5, <2>6, <3>2
    <3> QED
      BY <1>2, <2>3, <2>5, <3>1, <3>2, <3>3 DEF LseekEnds, Ends, r
  <2>4. CASE IsOk(d)
    <3>1. /\ d.fp.fptr % SS # 0 => d.val \in Sect
          /\ d.fp.fptr < ofs => Full(FatV(d))
          /\ Rooted(c.fp) /\ ofs > 0 => d.fp.fptr > 0
      BY <1>4, <2>1, <2>4 DEF Sought
    <3>2. /\ e \in Good /\ Stays(d, e) /\ FatV(e) = FatV(d) /\ Quiet(d, e)
          /\ d.fp.fptr = 0 => IsOk(e)
          /\ IsOk(e) => e.fp.err = "FR_OK"
          /\ ~IsOk(e) => e.fp.err # "FR_OK"
      <4>1. CASE d.fp.fptr % SS # 0
        <5> DEFINE l == Load(d, d.val, TRUE)
        <5>1. /\ l \in Good /\ Stays(d, l) /\ FatV(l) = FatV(d) /\ Quiet(d, l)
              /\ IsOk(l) => l.fp.err = d.fp.err
              /\ ~IsOk(l) => l.res = "FR_DISK_ERR" /\ l.fp.err = l.res
          BY <2>2, <3>1, <4>1, LoadType
        <5>2. e = l
          BY <4>1
        <5>3. d.fp.fptr # 0
          BY <4>1, FatFsAssumption, SMTT(30)
        <5> HIDE DEF l, e
        <5> QED
          BY <2>2, <2>4, <5>1, <5>2, <5>3
      <4>2. CASE ~(d.fp.fptr % SS # 0)
        <5>1. e = d
          BY <4>2
        <5> HIDE DEF e
        <5> QED
          BY <2>2, <2>4, <5>1 DEF Stays, Filed, Met, Quiet
      <4> QED
        BY <4>1, <4>2
    <3> HIDE DEF e
    <3>3. Filed(c, e) /\ e.fp.fptr = d.fp.fptr /\ Headed(e.fp)
      <4>1. Filed(c, e) /\ e.fp.fptr = d.fp.fptr
        BY <2>2, <3>2, FiledTransitive DEF Stays
      <4>2. Headed(e.fp)
        BY <2>2, <2>4, <3>2 DEF Stays, Headed, Rooted
      <4> QED
        BY <4>1, <4>2
    <3>6. /\ Extends(c, 0, e, 0) /\ e.fp.fsize = c.fp.fsize /\ e.fp.written = c.fp.written
          /\ ofs = 0 => IsOk(e) /\ e.fp.sclust = c.fp.sclust /\ e.fp.fptr = 0
      <4>1. SameChain(d.fp, e.fp) /\ e.fp.fptr = d.fp.fptr /\ e.fp.clust = d.fp.clust
        BY <2>2, <2>4, <3>2 DEF SameChain, Stays
      <4>2. Extends(d, 0, e, 0)
        BY <2>2, <3>2, <4>1, StaysExtends
      <4> QED
        BY <1>3, <1>7, <2>2, <2>5, <3>2, <4>1, <4>2, ExtendsTransitive DEF SameChain
    <3>4. CASE ~IsOk(e)
      <4>1. r = e
        BY <1>5, <1>7, <2>4, <3>4
      <4>2. e \in Result(c)
        BY <3>2, <3>3 DEF Result, Fair, Good
      <4>3. e \in Worked(c)
        BY <2>6, <3>2, <3>6, <4>2
      <4> QED
        BY <1>2, <3>4, <3>6, <4>1, <4>2, <4>3 DEF LseekEnds, Ends, r
    <3>5. CASE IsOk(e)
      <4>1. e \in Ctx /\ e.fp \in FIL /\ e.fp.fptr \in Nat
        BY <3>2 DEF Good, Ctx, FIL
      <4>2. r = g
        <5>1. w = [e EXCEPT !.fp.fsize = e.fp.fptr, !.fp.written = TRUE]
          BY <4>1 DEF WithFp, Ctx, FIL
        <5> HIDE DEF w
        <5> QED
          BY <1>5, <1>7, <2>4, <3>5, <5>1
      <4>3. /\ p \in FIL /\ p.fptr = e.fp.fptr /\ p.sclust = e.fp.sclust /\ p.err = e.fp.err
            /\ p.clust = e.fp.clust /\ p.fs = e.fp.fs /\ p.id = e.fp.id
            /\ p.rd = e.fp.rd /\ p.wr = e.fp.wr /\ p.dir_ptr = e.fp.dir_ptr
            /\ p.fsize = e.fp.fptr /\ p.written
        BY <4>1 DEF FIL
      <4> HIDE DEF p
      <4>4. /\ w \in Good /\ Beside(e, w) /\ w.fp = p /\ FatV(w) = FatV(e) /\ Met(e, w)
            /\ Over(w) = Over(e) /\ IsOk(w)
        BY <3>2, <3>5, <4>3, WithFpType
      <4> HIDE DEF w
      <4>5. Filed(e, w)
        BY <4>3, <4>4 DEF Filed, Beside
      <4>6. Filed(c, w)
        BY <3>3, <4>5, FiledTransitive
      <4>7. Headed(w.fp) /\ w.fp.fptr = e.fp.fptr /\ w.fp.err = "FR_OK"
        BY <3>2, <3>3, <3>5, <4>3, <4>4 DEF Headed, Rooted
      <4>13. e.fp.fptr > c.fp.fsize => Extends(c, 0, w, 0) /\ c.fp.wr /\ ofs # 0
        <5> SUFFICES ASSUME e.fp.fptr > c.fp.fsize
                     PROVE  Extends(c, 0, w, 0) /\ c.fp.wr /\ ofs # 0
          OBVIOUS
        <5>1. e.fp.fptr > 0 /\ c.fp.wr /\ ofs # 0
          BY <1>1, <1>2, <2>5, <3>3, <4>1
        <5>2. Quiet(e, w)
          BY <4>4, BesideQuiet DEF Beside
        <5>3. ASSUME NEW m \in Chart, NEW i \in Label, NEW exact \in BOOLEAN,
                     Charted(FatV(e), m), Fits(m, i, e.fp, exact, 0)
              PROVE  Fits(m, i, w.fp, exact, 0)
          BY <3>2, <3>5, <4>3, <4>4, <5>1, <5>3, FatFsAssumption
             DEF Fits, Label, Holds, Behind
        <5>4. Extends(e, 0, w, 0)
          BY <3>2, <4>4, <5>2, <5>3, QuietExtends
        <5> QED
          BY <1>3, <1>7, <3>2, <3>6, <4>4, <5>1, <5>4, ExtendsTransitive
      <4>8. /\ g \in Good /\ Filed(c, g) /\ Headed(g.fp) /\ FatV(g) = FatV(d)
            /\ g.fp.fptr = d.fp.fptr /\ g.fp.err = "FR_OK" /\ Extends(c, 0, g, 0) /\ IsOk(g)
            /\ c.fp.written => g.fp.written
            /\ ~c.fp.wr => g.fp.written = c.fp.written /\ g.fp.fsize = c.fp.fsize
            /\ ofs = 0 => g.fp.fptr = 0 /\ g.fp.sclust = c.fp.sclust
            /\ ofs <= c.fp.fsize => g.fp.written = c.fp.written /\ g.fp.fsize = c.fp.fsize
        <5>1. CASE e.fp.fptr <= c.fp.fsize
          <6>1. g = e
            BY <5>1
          <6> HIDE DEF g
          <6> QED
            BY <3>2, <3>3, <3>5, <3>6, <6>1
        <5>2. CASE ~(e.fp.fptr <= c.fp.fsize)
          <6>1. g = w
            BY <5>2
          <6> HIDE DEF g
          <6>2. ~(ofs <= c.fp.fsize)
            BY <1>1, <1>2, <2>5, <3>3, <5>2
          <6> QED
            BY <1>1, <3>2, <3>3, <4>1, <4>13, <4>3, <4>4, <4>6, <4>7, <5>2, <6>1, <6>2
        <5> QED
          BY <5>1, <5>2
      <4> HIDE DEF g
      <4>9. g \in Result(c)
        BY <4>8 DEF Result, Fair, Good
      <4>10. c.fp.fs /\ g.fs_type # 0 /\ g.stat # "STA_NOINIT"
        BY <1>3, <1>7, <4>8 DEF Filed
      <4>11. c.fp.wr => Ends(c, g, offset)
        BY <1>2, <3>1, <4>8, <4>10 DEF Ends
      <4>12. LseekEnds(c, g, offset)
        BY <1>2, <3>1, <4>8, <4>11 DEF LseekEnds
      <4>14. g \in Worked(c)
        BY <2>6, <4>8, <4>9
      <4> QED
        BY <1>2, <1>4, <2>1, <2>4, <2>7, <4>2, <4>8, <4>9, <4>12, <4>14 DEF r
    <3> QED
      BY <3>4, <3>5
  <2> QED
    BY <2>3, <2>4
<1> QED
  BY <1>6, <1>7
---------------------------------------------------------------------------
(* Synchronizing and truncating.                                           *)

\* An open file has a directory entry.
Listed(p) == p.fs => p.dir_ptr \in 1 .. n_rootdir

\* f_sync keeps the types.
LEMMA FsyncType ==
  ASSUME NEW c \in Fair, Headed(c.fp), Listed(c.fp)
  PROVE  f_sync(c) \in Result(c)
<1> DEFINE i == c.fp.dir_ptr
           v == validate(c)
           b == WriteBack(v)
           m == move_window(b, Dir(i))
           x == [m.win[i] EXCEPT !.size = c.fp.fsize, !.clust = c.fp.sclust]
           t == Entered(m, i, x)
           p == [t.fp EXCEPT !.written = FALSE]
           w == WithFp(t, p)
           s == sync_fs(w)
           r == f_sync(c)
<1>1. c \in Ctx /\ c.fp \in FIL /\ c.fp.fsize \in Nat /\ c.fp.sclust \in Cluster \cup {0}
  BY DEF Fair, Ctx, FIL
<1>2. /\ v \in Fair /\ Kept(c, v) /\ v.sec = c.sec
      /\ IsOk(v) => v \in Good /\ c.fp.fs
  BY ValidateType
<1>3. Filed(c, v) /\ v.fp = c.fp
  BY <1>2, SteadyStays DEF Kept, Steady
<1>4. r = IF IsOk(v)
          THEN IF c.fp.written
               THEN IF IsOk(b)
                    THEN IF IsOk(m)
                         THEN sync_fs([m EXCEPT !.win[i].size = c.fp.fsize,
                                                !.win[i].clust = c.fp.sclust,
                                                !.wflag = TRUE, !.fp.written = FALSE])
                         ELSE m ELSE b ELSE v ELSE v
  BY DEF f_sync, Then
<1>5. v \in Result(c)
  BY <1>2, <1>3 DEF Result
<1> HIDE DEF v, r
<1>6. CASE ~IsOk(v) \/ ~c.fp.written
  BY <1>4, <1>5, <1>6 DEF r
<1>7. CASE IsOk(v) /\ c.fp.written
  <2>1. /\ b \in Good /\ Stays(v, b) /\ b.fp.err = v.fp.err
    BY <1>2, <1>7, WriteBackType
  <2> HIDE DEF b
  <2>2. Filed(c, b) /\ Headed(b.fp) /\ b.fp.fs
    BY <1>2, <1>3, <1>7, <2>1, FiledTransitive DEF Stays, Headed, Rooted, Filed
  <2>3. CASE ~IsOk(b)
    <3>1. r = b
      BY <1>4, <1>7, <2>3
    <3> QED
      BY <2>1, <2>2, <3>1 DEF Result, Fair, Good, r
  <2>4. CASE IsOk(b)
    <3>1. i \in 1 .. n_rootdir
      BY <1>2, <1>7 DEF Listed
    <3>2. /\ m \in Good /\ Flushed(b, m) /\ (IsOk(m) => m.winsect = Dir(i))
      BY <2>1, <3>1, MoveWindowType, SectorFacts
    <3> HIDE DEF m
    <3>3. Filed(b, m) /\ m.fp = b.fp
      BY <3>2, SteadyStays DEF Flushed, Moved, Kept, Steady
    <3>4. Filed(c, m) /\ Headed(m.fp)
      BY <2>2, <3>3, FiledTransitive
    <3>5. CASE ~IsOk(m)
      <4>1. r = m
        BY <1>4, <1>7, <2>4, <3>5
      <4> QED
        BY <3>2, <3>4, <4>1 DEF Result, Fair, Good, r
    <3>6. CASE IsOk(m)
      <4>1. At(m, i)
        BY <3>1, <3>2, <3>6 DEF At
      <4>2. /\ m.win \in [{j \in 1 .. n_rootdir : Dir(j) = Dir(i)} -> Entry] /\ m.win[i] \in Entry
        BY <3>2, <4>1, EntryType
      <4>3. x \in Entry
        <5> DEFINE y == m.win[i]
                   z == [y EXCEPT !.size = c.fp.fsize]
        <5>1. y \in Entry
          BY <4>2
        <5> HIDE DEF y
        <5>2. z \in Entry
          BY <1>1, <5>1 DEF Entry
        <5>3. [y EXCEPT !.size = c.fp.fsize, !.clust = c.fp.sclust] \in Entry
          BY <1>1, <5>1, <5>2 DEF Entry
        <5> QED
          BY <5>3 DEF y
      <4>4. [m.win[i] EXCEPT !.size = c.fp.fsize, !.clust = c.fp.sclust] = x
        OBVIOUS
      <4> HIDE DEF x
      <4>5. /\ t \in Good /\ Kept(m, t)
        BY <3>2, <4>1, <4>3, EnterType
      <4>6. t.fp = m.fp /\ Filed(m, t)
        BY <4>5, SteadyStays DEF Kept, Steady
      <4>7. [m EXCEPT !.win[i].size = c.fp.fsize, !.win[i].clust = c.fp.sclust,
                      !.wflag = TRUE, !.fp.written = FALSE] = w
        <5> DEFINE y == [m EXCEPT !.win[i].size = c.fp.fsize, !.win[i].clust = c.fp.sclust]
                   u == [m EXCEPT !.win[i] = x]
        <5>1. m \in Ctx /\ m.fp \in FIL
          BY <3>2 DEF Good, Ctx
        <5>2. y = u
          <6> DEFINE f == [m.win EXCEPT ![i].size = c.fp.fsize, ![i].clust = c.fp.sclust]
                     g == [m.win EXCEPT ![i] = x]
          <6>1. i \in {j \in 1 .. n_rootdir : Dir(j) = Dir(i)}
            BY <3>1
          <6>2. f = [m.win EXCEPT ![i] =
                      [m.win[i] EXCEPT !.size = c.fp.fsize, !.clust = c.fp.sclust]]
            BY <4>2, <6>1
          <6>3. f = g
            BY <4>4, <6>2
          <6>4. y = [m EXCEPT !.win = f]
            BY <5>1 DEF Ctx
          <6>5. u = [m EXCEPT !.win = g]
            BY <5>1 DEF Ctx
          <6> QED
            BY <6>3, <6>4, <6>5
        <5>3. w = [u EXCEPT !.wflag = TRUE, !.fp.written = FALSE]
          BY <5>1 DEF WithFp, Entered, Ctx, FIL
        <5>4. [m EXCEPT !.win[i].size = c.fp.fsize, !.win[i].clust = c.fp.sclust,
                        !.wflag = TRUE, !.fp.written = FALSE]
                = [y EXCEPT !.wflag = TRUE, !.fp.written = FALSE]
          BY <5>1 DEF Ctx, FIL
        <5> QED
          BY <5>2, <5>3, <5>4
      <4> HIDE DEF t
      <4>8. /\ p \in FIL /\ p.fptr = t.fp.fptr /\ p.sclust = t.fp.sclust /\ p.err = t.fp.err
            /\ p.clust = t.fp.clust /\ p.fs = t.fp.fs /\ p.id = t.fp.id
            /\ p.rd = t.fp.rd /\ p.wr = t.fp.wr /\ p.dir_ptr = t.fp.dir_ptr
        <5>1. t.fp \in FIL
          BY <4>5 DEF Good, Ctx
        <5> QED
          BY <5>1 DEF FIL
      <4> HIDE DEF p
      <4>9. w \in Good /\ Beside(t, w) /\ w.fp = p /\ Met(t, w)
        BY <4>5, <4>8, WithFpType
      <4> HIDE DEF w
      <4>10. Filed(t, w)
        BY <4>8, <4>9 DEF Filed, Beside
      <4>11. Filed(c, w)
        BY <3>4, <4>6, <4>10, FiledTransitive
      <4>12. Headed(w.fp)
        BY <3>4, <4>6, <4>8, <4>9 DEF Headed, Rooted
      <4>13. s \in Good /\ Steady(w, s)
        BY <4>9, SyncFsType
      <4>14. r = s
        BY <1>4, <1>7, <2>4, <3>6, <4>7
      <4> HIDE DEF s
      <4>15. Filed(w, s) /\ s.fp = w.fp
        BY <4>13, SteadyStays DEF Steady
      <4>16. Filed(c, s) /\ Headed(s.fp)
        BY <4>11, <4>12, <4>15, FiledTransitive
      <4> QED
        BY <4>13, <4>14, <4>16 DEF Result, Fair, Good, r
    <3> QED
      BY <3>5, <3>6
  <2> QED
    BY <2>3, <2>4
<1> QED
  BY <1>6, <1>7

\* What a call leaves of the volume.
Done(c) == {d \in Fair : Met(c, d) /\ d.stat = c.stat}

\* So does f_close.
LEMMA FcloseType ==
  ASSUME NEW c \in Fair, Headed(c.fp), Listed(c.fp)
  PROVE  f_close(c) \in Done(c)
<1> DEFINE d == f_sync(c)
           e == [d EXCEPT !.fp = Closed]
<1>1. d \in Result(c)
  BY FsyncType
<1>2. f_close(c) = IF IsOk(d) THEN e ELSE d
  BY DEF f_close, Then
<1> HIDE DEF d
<1>3. d \in Ctx /\ Met(c, d) /\ d.stat = c.stat /\ (d.stat # "STA_NOINIT" => Coherent(d))
  BY <1>1 DEF Result, Fair, Filed
<1>4. Closed \in FIL
  BY FatFsAssumption DEF Closed, FIL, Res, EOC, n_fatent
<1>5. e \in Ctx /\ Beside(d, e)
  BY <1>3, <1>4 DEF Ctx, Beside
<1> HIDE DEF e
<1>6. Met(c, e) /\ e.stat = c.stat /\ (e.stat # "STA_NOINIT" => Coherent(e))
  BY <1>3, <1>5 DEF Met, Beside, Coherent
<1> QED
  BY <1>2, <1>3, <1>5, <1>6 DEF Done, Fair

\* The clusters behind the position are freed; at a position the file keeps its own.
LEMMA ShortenType ==
  ASSUME NEW c \in Good
  PROVE  LET d == Shorten(c)
         IN /\ d \in Good /\ Filed(c, d) /\ d.fp.fptr = c.fp.fptr /\ d.fp.err = c.fp.err
            /\ d.fp.fsize = c.fp.fsize /\ d.fp.written = c.fp.written
            /\ c.fp.fptr > 0 => d.fp = c.fp
<1> DEFINE a == remove_chain(c, c.fp.sclust)
           p == [a.fp EXCEPT !.sclust = 0]
           w == WithFp(a, p)
           g == get_fat(c, c.fp.clust)
           t == put_fat(g, c.fp.clust, EOC)
           e == remove_chain(t, g.val)
           d == Shorten(c)
<1>1. /\ c \in Ctx /\ c.fp \in FIL /\ c.fp.fptr \in Nat /\ c.fp.sclust \in Nat
      /\ c.fp.clust \in Nat
      /\ 0 \in Cluster \cup {0}
  <2>1. \A x \in Cluster \cup {0} : x \in Nat
    BY DEF Cluster
  <2>2. \A x \in 0 .. EOC : x \in Nat
    OBVIOUS
  <2>3. c \in Ctx /\ c.fp \in FIL
    BY DEF Good, Ctx
  <2> QED
    BY <2>1, <2>2, <2>3 DEF FIL
<1>2. CASE c.fp.fptr = 0
  <2>1. a \in Good /\ Steady(c, a)
    BY <1>1, RemoveChainType
  <2>2. d = [a EXCEPT !.fp.sclust = 0]
    BY <1>2 DEF Shorten
  <2> HIDE DEF a
  <2>3. a \in Ctx /\ a.fp \in FIL
    BY <2>1 DEF Good, Ctx
  <2>4. d = w
    BY <2>2, <2>3 DEF WithFp, Ctx, FIL
  <2>5. Filed(c, a) /\ a.fp = c.fp
    BY <2>1, SteadyStays DEF Steady
  <2>6. /\ p \in FIL /\ p.fptr = a.fp.fptr /\ p.err = a.fp.err /\ p.fs = a.fp.fs /\ p.id = a.fp.id
        /\ p.rd = a.fp.rd /\ p.wr = a.fp.wr /\ p.dir_ptr = a.fp.dir_ptr
        /\ p.fsize = a.fp.fsize /\ p.written = a.fp.written
    BY <1>1, <2>3 DEF FIL
  <2> HIDE DEF p, d
  <2>7. w \in Good /\ Beside(a, w) /\ w.fp = p /\ Met(a, w)
    BY <2>1, <2>6, WithFpType
  <2> HIDE DEF w
  <2>8. Filed(a, w)
    BY <2>6, <2>7 DEF Filed, Beside
  <2> QED
    BY <1>2, <2>4, <2>5, <2>6, <2>7, <2>8, FiledTransitive DEF d
<1>3. CASE c.fp.fptr # 0
  <2>1. d = CASE g.val = Ones -> Failed(g, "FR_DISK_ERR")
              [] g.val = 1 -> Failed(g, "FR_INT_ERR")
              [] g.val \in n_fatent .. Ones - 1 -> Ok(g)
              [] OTHER -> IF IsOk(t) THEN e ELSE t
    BY <1>3 DEF Shorten, Then
  <2>2. /\ g \in Good /\ Moved(c, g) /\ g.val \in Nat
        /\ c.fp.clust \notin Cluster => g.val = 1
    BY GetFatType
  <2> HIDE DEF g
  <2>3. 1 # Ones /\ n_fatent > 1 /\ n_fatent \in Nat /\ Ones \in Nat /\ "FR_DISK_ERR" \in Res
        /\ "FR_INT_ERR" \in Res
    BY FatFsAssumption DEF n_fatent, Ones, Res
  <2> DEFINE Fine(x) == x \in Good /\ Filed(c, x) /\ x.fp = c.fp
  <2>4. Fine(g) /\ g \in Ctx
    BY <2>2, SteadyStays DEF Moved, Kept, Steady, Good
  <2>5. ASSUME NEW x \in Good, Steady(g, x) PROVE Fine(x)
    BY <2>4, <2>5, SteadyStays, FiledTransitive DEF Steady
  <2> HIDE DEF d, e
  <2>6. Fine(d)
    <3>1. CASE g.val = Ones
      <4>1. d = Failed(g, "FR_DISK_ERR")
        BY <2>1, <2>3, <3>1
      <4>2. d \in Good /\ Steady(g, d)
        BY <2>2, <2>3, <2>4, <4>1, FailedType DEF Kept
      <4> QED
        BY <2>5, <4>2
    <3>2. CASE g.val = 1
      <4>1. d = Failed(g, "FR_INT_ERR")
        BY <2>1, <2>3, <3>2
      <4>2. d \in Good /\ Steady(g, d)
        BY <2>2, <2>3, <2>4, <4>1, FailedType DEF Kept
      <4> QED
        BY <2>5, <4>2
    <3>3. CASE g.val \in n_fatent .. Ones - 1
      <4>1. d = Ok(g)
        BY <2>1, <2>3, <3>3
      <4>2. d \in Good /\ Steady(g, d)
        BY <2>2, <2>4, <4>1, OkType DEF Kept
      <4> QED
        BY <2>5, <4>2
    <3>4. CASE g.val # Ones /\ g.val # 1 /\ g.val \notin n_fatent .. Ones - 1
      <4>1. d = IF IsOk(t) THEN e ELSE t
        BY <2>1, <3>4
      <4>2. c.fp.clust \in Cluster /\ EOC \in FatEntry
        BY <2>2, <3>4, FatFsAssumption DEF FatEntry, EOC, n_fatent
      <4>3. t \in Good /\ Kept(g, t)
        BY <2>2, <4>2, PutFatType
      <4> HIDE DEF t
      <4>4. Fine(t)
        BY <2>5, <4>3 DEF Kept
      <4>5. e \in Good /\ Steady(t, e)
        BY <2>2, <4>3, RemoveChainType DEF e
      <4>6. Fine(e)
        BY <4>4, <4>5, SteadyStays, FiledTransitive DEF Steady
      <4> QED
        BY <4>1, <4>4, <4>6
    <3> QED
      BY <3>1, <3>2, <3>3, <3>4
  <2> QED
    BY <2>6 DEF d
<1> QED
  BY <1>2, <1>3

\* The other chains stay, on the card and in the window, and the file has the one it had, or
\* what is left of it.
Cuts(c, d, m, i, exact) ==
  /\ Through(c, d, Kin(m, i, DirV(c)))
  /\ \E n \in Chart : Charted(FatV(d), n) /\ Spares(m, n, {i}) /\ Fits(n, i, d.fp, exact, 0)

\* What leaves the tables cuts nothing.
LEMMA QuietCuts ==
  ASSUME NEW c \in Good, NEW d \in Good, Quiet(c, d), NEW m \in Chart, NEW i, NEW exact,
         Charted(FatV(c), m), Fits(m, i, d.fp, exact, 0)
  PROVE  Cuts(c, d, m, i, exact)
<1>1. /\ TableV(c) \in Tables /\ TableV(c).fat = FatV(c) /\ TableV(c).dir = DirV(c)
      /\ TableV(d).fat = FatV(d)
  BY TableType
<1>2. Spares(m, m, {i})
  BY SparesReflexive
<1>3. TableV(c) \in Kin(m, i, DirV(c))
  BY <1>1, <1>2 DEF Kin
<1> QED
  BY <1>1, <1>2, <1>3, QuietThrough DEF Cuts, Quiet

\* What frees the end of a chain from place q on leaves the others; g is the FAT before,
\* in which the chain already ends there.
LEMMA FreedCharted ==
  ASSUME NEW m \in Chart, NEW fat \in [Cluster -> FatEntry], Charted(fat, m), NEW i \in Label,
         NEW q \in Nat, NEW t \in Tables, EndsAt(fat, t.fat, m, i, q)
  PROVE  /\ Freed(TailOf(m, i, q), t) \subseteq Kin(m, i, t.dir)
         /\ \A u \in Freed(TailOf(m, i, q), t) : Charted(u.fat, CutAt(m, i, q))
<1> SUFFICES ASSUME NEW u \in Freed(TailOf(m, i, q), t)
             PROVE  u \in Kin(m, i, t.dir) /\ Charted(u.fat, CutAt(m, i, q))
  OBVIOUS
<1>1. EndsAt(fat, u.fat, m, i, q)
  BY DEF Freed, EndsAt
<1>2. /\ CutAt(m, i, q) \in Chart /\ Charted(u.fat, CutAt(m, i, q))
      /\ Spares(m, CutAt(m, i, q), {i})
  BY <1>1, CutCharted, CutKeeps
<1> QED
  BY <1>2 DEF Kin, Freed

\* The file's chain ends with the cluster of its position, or is given up.
LEMMA ShortenCuts ==
  ASSUME NEW c \in Good, IsOk(c), c.fp.err = "FR_OK", c.fp.fsize = c.fp.fptr,
         NEW m \in Chart, Charted(FatV(c), m), NEW i \in Label, NEW exact \in BOOLEAN,
         Fits(m, i, c.fp, exact, 0)
  PROVE  LET d == Shorten(c)
         IN /\ Cuts(c, d, m, i, exact)
            /\ ~IsOk(d) => d.hit \/ (c.fp.fptr = 0 /\ c.fp.sclust = 0)
<1> DEFINE a == remove_chain(c, c.fp.sclust)
           p == [a.fp EXCEPT !.sclust = 0]
           w == WithFp(a, p)
           g == get_fat(c, c.fp.clust)
           t == put_fat(g, c.fp.clust, EOC)
           e == remove_chain(t, g.val)
           d == Shorten(c)
           dir == DirV(c)
<1>1. /\ c.fp \in FIL /\ c.fp.fptr \in Nat /\ c.fp.sclust \in Cluster \cup {0}
      /\ 0 \in Cluster \cup {0}
  BY DEF Good, Ctx, FIL
<1>2. /\ i # 0 /\ m.hd[i] = c.fp.sclust
      /\ c.fp.fptr > 0 => c.fp.clust \in Cluster /\ m.own[c.fp.clust] = i
      /\ exact => Holds(m, i, c.fp.fsize)
      /\ exact /\ c.fp.fptr > 0 => m.pos[c.fp.clust] = Behind(c.fp.fptr)
  BY DEF Fits, Label
<1>3. /\ TableV(c) \in Tables /\ TableV(c).fat = FatV(c) /\ TableV(c).dir = dir
      /\ FatV(c) \in [Cluster -> FatEntry]
      /\ \A x \in Good : TableV(x).fat = FatV(x)
  BY TableType, OverType
<1>4. m.pos \in [Cluster -> Nat] /\ \A x \in Nat : x + 1 \in Nat /\ x + 1 > 0 /\ x + 1 # 0
  BY DEF Chart
<1>5. d \in Good
  BY ShortenType
<1>6. CASE c.fp.fptr = 0
  <2>1. a \in Good /\ Steady(c, a) /\ GivesUp(c, a, c.fp.sclust)
    <3>1. c.fp.sclust \in Nat
      BY <1>1, FatFsAssumption DEF Cluster, n_fatent
    <3> QED
      BY <3>1, RemoveChainType
  <2>2. d = [a EXCEPT !.fp.sclust = 0]
    BY <1>6 DEF Shorten
  <2>3. c.fp.sclust = 0 => Quiet(c, a)
    <3> SUFFICES ASSUME c.fp.sclust = 0 PROVE Quiet(c, a)
      OBVIOUS
    <3>1. c.fp.sclust \notin Cluster
      BY FatFsAssumption DEF Cluster, n_fatent
    <3>2. a = Failed(c, "FR_INT_ERR") /\ c \in Ctx /\ "FR_INT_ERR" \in Res
      BY <3>1 DEF remove_chain, Good, Res
    <3> QED
      BY <3>2, FailedType, BesideQuiet
  <2> HIDE DEF a
  <2>4. a \in Ctx /\ a.fp \in FIL /\ a.fp = c.fp
    BY <2>1 DEF Good, Ctx, Steady
  <2>5. d = w
    BY <2>2, <2>4 DEF WithFp, Ctx, FIL
  <2>6. /\ p \in FIL /\ p.fptr = c.fp.fptr /\ p.fsize = c.fp.fsize /\ p.err = c.fp.err
        /\ p.sclust = 0
    BY <1>1, <2>4 DEF FIL
  <2> HIDE DEF p, d
  <2>7. /\ w \in Good /\ Beside(a, w) /\ w.fp = p /\ Met(a, w)
        /\ Over(w) = Over(a) /\ (IsOk(w) <=> IsOk(a))
    BY <2>1, <2>6, WithFpType
  <2> HIDE DEF w
  <2>8. Quiet(a, w) /\ w.hit = a.hit
    BY <2>7, BesideQuiet DEF Beside
  <2>9. CASE c.fp.sclust = 0
    <3>1. Quiet(c, w) /\ Fits(m, i, w.fp, exact, 0)
      <4>1. Fits(m, i, p, exact, 0)
        BY <1>2, <1>6, <2>6, <2>9 DEF Fits
      <4> QED
        BY <2>3, <2>7, <2>8, <2>9, <4>1, QuietTransitive
    <3> QED
      BY <1>6, <2>5, <2>7, <2>9, <3>1, QuietCuts DEF d
  <2>10. CASE c.fp.sclust # 0
    <3> DEFINE K == TailOf(m, i, 0)
               n == CutAt(m, i, 0)
    <3>1. c.fp.sclust \in K /\ K \in SUBSET Cluster
      <4>1. m.hd[i] \in Cluster /\ m.own[m.hd[i]] = i /\ m.pos[m.hd[i]] = 0
        BY <1>1, <1>2, <2>10 DEF Charted
      <4> QED
        BY <1>2, <4>1 DEF TailOf
    <3>2. Inner(FatV(c), K)
      BY <1>3, TailInner
    <3>3. Through(c, a, Freed(K, TableV(c))) /\ (~IsOk(a) => a.hit)
      BY <2>1, <3>1, <3>2 DEF GivesUp
    <3>4. \A k \in Cluster : ~(m.pos[k] + 1 = 0)
      BY <1>4
    <3>5. EndsAt(FatV(c), FatV(c), m, i, 0) /\ 0 \in Nat
      BY <3>4 DEF EndsAt
    <3>6. /\ Freed(K, TableV(c)) \subseteq Kin(m, i, dir)
          /\ \A u \in Freed(K, TableV(c)) : Charted(u.fat, n)
      BY <1>3, <3>5, FreedCharted
    <3>11. n \in Chart /\ Spares(m, n, {i}) /\ n.hd[i] = 0
      BY <3>5, CutKeeps
    <3> HIDE DEF K, n
    <3>7. Through(c, w, Freed(K, TableV(c)))
      BY <2>8, <3>3, ThroughQuietNext
    <3>8. Charted(FatV(w), n)
      BY <1>3, <2>7, <3>6, <3>7 DEF Through
    <3>9. Fits(n, i, w.fp, exact, 0)
      BY <1>6, <2>6, <2>7, <3>11 DEF Fits, Holds
    <3>10. Through(c, w, Kin(m, i, dir))
      BY <3>6, <3>7, ThroughLarger
    <3> QED
      BY <2>5, <2>7, <2>8, <3>3, <3>8, <3>9, <3>10, <3>11 DEF Cuts, d
  <2> QED
    BY <2>9, <2>10
<1>7. CASE c.fp.fptr # 0
  <2>1. d = CASE g.val = Ones -> Failed(g, "FR_DISK_ERR")
              [] g.val = 1 -> Failed(g, "FR_INT_ERR")
              [] g.val \in n_fatent .. Ones - 1 -> Ok(g)
              [] OTHER -> IF IsOk(t) THEN e ELSE t
    BY <1>7 DEF Shorten, Then
  <2>2. c.fp.fptr > 0 /\ c.fp.clust \in Cluster /\ m.own[c.fp.clust] = i
    BY <1>1, <1>2, <1>7
  <2>3. /\ g \in Good /\ Moved(c, g) /\ g.val \in Nat
        /\ IsOk(g) => g.val = FatV(c)[c.fp.clust] /\ g.val \in FatEntry
        /\ ~IsOk(g) => g.val = Ones /\ g.hit
    BY <2>2, GetFatType
  <2> HIDE DEF g, d
  <2>4. Quiet(c, g) /\ g \in Ctx /\ g.fp = c.fp
    BY <2>3, MovedQuiet DEF Moved, Kept, Steady, Good
  <2>5. /\ 1 # Ones /\ "FR_DISK_ERR" \in Res /\ EOC \in n_fatent .. Ones - 1 /\ EOC # Ones
        /\ EOC # 1 /\ EOC \in FatEntry /\ Ones \notin FatEntry /\ 1 \notin FatEntry
        /\ Cluster \cap (n_fatent .. Ones - 1) = {} /\ Cluster \subseteq Nat
    BY FatFsAssumption DEF n_fatent, Ones, Res, EOC, FatEntry, Cluster
  <2>6. \A x \in Good : Quiet(c, x) /\ x.fp = c.fp => Cuts(c, x, m, i, exact)
    BY QuietCuts
  <2>7. CASE ~IsOk(g)
    <3>1. d = Failed(g, "FR_DISK_ERR")
      BY <2>1, <2>3, <2>5, <2>7
    <3>2. /\ d \in Good /\ d.sec = g.sec /\ Over(d) = Over(g) /\ d.hit = g.hit /\ Kept(g, d)
      BY <2>3, <2>4, <2>5, <3>1, FailedType
    <3>3. Quiet(c, d) /\ d.fp = c.fp
      BY <2>4, <3>2, BesideQuiet, QuietTransitive DEF Kept, Steady
    <3> QED
      BY <2>3, <2>6, <2>7, <3>2, <3>3 DEF d
  <2>8. CASE IsOk(g) /\ FatV(c)[c.fp.clust] = EOC
    <3>1. d = Ok(g)
      BY <2>1, <2>3, <2>5, <2>8
    <3>2. /\ d \in Good /\ d.sec = g.sec /\ Over(d) = Over(g) /\ Kept(g, d) /\ IsOk(d)
      BY <2>3, <2>4, <3>1, OkType
    <3>3. Quiet(c, d) /\ d.fp = c.fp
      BY <2>4, <3>2, BesideQuiet, QuietTransitive DEF Kept, Steady
    <3> QED
      BY <2>6, <3>2, <3>3 DEF d
  <2>9. CASE IsOk(g) /\ Onto(FatV(c), m, c.fp.clust)
    <3>0. PICK q \in Nat : q = m.pos[c.fp.clust] + 1
      BY <1>4, <2>2
    <3> DEFINE K == TailOf(m, i, q)
               n == CutAt(m, i, q)
    <3>1. /\ g.val \in Cluster /\ m.own[g.val] = i /\ m.pos[g.val] = q
          /\ m.pos[c.fp.clust] \in Nat /\ q \in Nat /\ q > 0
      BY <1>4, <2>2, <2>3, <2>9, <3>0 DEF Onto
    <3>2. d = IF IsOk(t) THEN e ELSE t
      BY <2>1, <2>3, <2>5, <2>9, <3>1
    <3>3. g.val \in K /\ K \in SUBSET Cluster /\ c.fp.clust \notin K
      BY <3>0, <3>1 DEF TailOf
    <3>4. \A k \in Cluster : m.own[k] = i /\ m.pos[k] + 1 = q <=> k = c.fp.clust
      BY <1>2, <1>4, <2>2, <3>0, <3>1 DEF Charted
    <3>5. Inner(FatV(c), K)
      BY <1>3, <3>1, TailInner
    <3>6. n \in Chart /\ Spares(m, n, {i}) /\ n.hd[i] = m.hd[i]
          /\ n.own[c.fp.clust] = i /\ n.pos[c.fp.clust] = m.pos[c.fp.clust]
      <4>1. m.pos[c.fp.clust] < q /\ q # 0
        BY <3>0, <3>1
      <4>2. n \in Chart /\ Spares(m, n, {i})
        BY <3>1, CutKeeps
      <4>3. /\ n.hd[i] = m.hd[i] /\ n.own[c.fp.clust] = i
            /\ n.pos[c.fp.clust] = m.pos[c.fp.clust]
        BY <2>2, <4>1, CutBehind
      <4> QED
        BY <4>2, <4>3
    <3>7. /\ t \in Good /\ Kept(g, t) /\ t.sec \in {g.sec, Over(g)}
          /\ IsOk(t) => Over(t) = PutAt(Over(g), c.fp.clust, EOC)
          /\ ~IsOk(t) => Moved(g, t) /\ t.hit
      BY <2>2, <2>3, <2>5, PutFatType DEF PutAt
    <3> HIDE DEF t, K, n
    <3>8. t.fp = c.fp
      BY <2>4, <3>7 DEF Kept, Steady
    <3>9. CASE ~IsOk(t)
      <4>1. Quiet(c, t)
        BY <2>4, <3>7, <3>9, MovedQuiet, QuietTransitive
      <4> QED
        BY <2>6, <3>2, <3>7, <3>8, <3>9, <4>1 DEF d
    <3>10. CASE IsOk(t)
      <4>1. /\ TableV(t) \in Tables /\ TableV(t).dir = dir /\ TableV(t).fat = FatV(t)
            /\ FatV(t) = [FatV(c) EXCEPT ![c.fp.clust] = EOC]
        <5>1. FatV(t) = [FatV(g) EXCEPT ![c.fp.clust] = EOC] /\ DirV(t) = DirV(g)
          BY <2>2, <2>3, <2>5, <3>7, <3>10, PutFatViews DEF PutAt
        <5>2. FatV(g) = FatV(c) /\ DirV(g) = DirV(c)
          BY <2>3, ViewsMoved DEF Moved
        <5> QED
          BY <3>7, <5>1, <5>2, TableType
      <4>2. EndsAt(FatV(c), TableV(t).fat, m, i, q)
        BY <1>3, <2>2, <3>4, <4>1 DEF EndsAt
      <4>3. /\ Freed(K, TableV(t)) \subseteq Kin(m, i, dir)
            /\ \A u \in Freed(K, TableV(t)) : Charted(u.fat, n)
        BY <1>3, <3>1, <4>1, <4>2, FreedCharted DEF K, n
      <4>4. Inner(FatV(t), K)
        BY <1>3, <3>3, <3>5, <4>1 DEF Inner
      <4>5. e \in Good /\ Steady(t, e) /\ GivesUp(t, e, g.val)
        BY <2>3, <3>7, RemoveChainType
      <4> HIDE DEF e
      <4>6. Through(t, e, Freed(K, TableV(t))) /\ (~IsOk(e) => e.hit)
        BY <3>3, <3>10, <4>4, <4>5 DEF GivesUp
      <4>7. TableV(t) \in Kin(m, i, dir)
        BY <4>1, <4>3, FreedNone
      <4>8. TableV(c) \in Kin(m, i, dir)
        BY <1>3, SparesReflexive DEF Kin
      <4>9. TableC(t) \in {TableC(c), TableV(c)}
        BY <2>4, <3>7 DEF Quiet, TableC, TableV
      <4>10. Through(c, e, Kin(m, i, dir))
        BY <4>3, <4>6, <4>7, <4>8, <4>9 DEF Through
      <4>11. Charted(FatV(e), n)
        BY <1>3, <4>3, <4>5, <4>6 DEF Through
      <4>12. e.fp = c.fp
        BY <3>8, <4>5 DEF Steady
      <4>13. Fits(n, i, e.fp, exact, 0)
        <5>1. exact => Holds(n, i, c.fp.fsize)
          BY <1>2, <2>2, <3>6 DEF Holds, Behind
        <5> QED
          BY <1>2, <2>2, <3>6, <4>12, <5>1 DEF Fits
      <4> QED
        BY <3>2, <3>6, <3>10, <4>5, <4>6, <4>10, <4>11, <4>13 DEF Cuts, d
    <3> QED
      BY <3>9, <3>10
  <2> QED
    BY <1>2, <2>2, <2>7, <2>8, <2>9 DEF Charted, LastOf
<1> QED
  BY <1>6, <1>7

\* f_truncate keeps the types, and the file has clusters where it is.
LEMMA TruncateType ==
  ASSUME NEW c \in Fair, Headed(c.fp)
  PROVE  LET d == f_truncate(c)
         IN /\ d \in Result(c)
            /\ IsOk(d) => /\ d \in Good /\ c.fp.wr /\ c.fp.fs /\ d.fp.err = "FR_OK"
                          /\ c.fp.fptr > 0 => d.fp.sclust = c.fp.sclust /\ d.fp.clust = c.fp.clust
<1> DEFINE v == Reject(c)
           e == Failed(v, "FR_DENIED")
           p == [v.fp EXCEPT !.fsize = v.fp.fptr, !.written = TRUE]
           w == WithFp(v, p)
           s == Shorten(w)
           b == WriteBack(s)
           f == IF IsOk(s) THEN b ELSE s
           o == OrAbort(f)
           r == f_truncate(c)
<1>1. c \in Ctx /\ c.fp \in FIL /\ c.fp.fptr \in Nat
  BY DEF Fair, Ctx, FIL
<1>2. /\ v \in Fair /\ Kept(c, v) /\ v.sec = c.sec
      /\ IsOk(v) => v \in Good /\ c.fp.fs /\ c.fp.err = "FR_OK"
  BY RejectType
<1>3. Filed(c, v) /\ v.fp = c.fp
  BY <1>2, SteadyStays DEF Kept, Steady
<1>4. r = IF IsOk(v) THEN IF ~v.fp.wr THEN e
                          ELSE IF v.fp.fsize <= v.fp.fptr THEN v
                          ELSE OrAbort(IF IsOk(Shorten([v EXCEPT !.fp.fsize = v.fp.fptr,
                                                                 !.fp.written = TRUE]))
                                       THEN WriteBack(Shorten([v EXCEPT !.fp.fsize = v.fp.fptr,
                                                                        !.fp.written = TRUE]))
                                       ELSE Shorten([v EXCEPT !.fp.fsize = v.fp.fptr,
                                                              !.fp.written = TRUE]))
          ELSE v
  BY DEF f_truncate, Then
<1> HIDE DEF v, r
<1>5. CASE ~IsOk(v)
  BY <1>2, <1>3, <1>4, <1>5 DEF Result, r
<1>6. CASE IsOk(v) /\ ~v.fp.wr
  <2>1. "FR_DENIED" \in Res /\ v \in Ctx
    BY <1>2 DEF Res, Fair
  <2>2. e \in Good /\ Kept(v, e) /\ ~IsOk(e)
    BY <1>2, <1>6, <2>1, FailedType
  <2>3. r = e
    BY <1>4, <1>6
  <2> HIDE DEF e
  <2>4. Filed(v, e) /\ e.fp = v.fp
    BY <2>2, SteadyStays DEF Kept, Steady
  <2>5. Filed(c, e)
    BY <1>3, <2>4, FiledTransitive
  <2>6. e \in Result(c)
    BY <1>3, <2>2, <2>4, <2>5 DEF Result, Fair, Good
  <2> QED
    BY <2>2, <2>3, <2>6 DEF r
<1>7. CASE IsOk(v) /\ v.fp.wr /\ v.fp.fsize <= v.fp.fptr
  <2>1. r = v
    BY <1>4, <1>7
  <2> QED
    BY <1>2, <1>3, <1>7, <2>1 DEF Result, r
<1>8. CASE IsOk(v) /\ v.fp.wr /\ ~(v.fp.fsize <= v.fp.fptr)
  <2>1. v \in Ctx /\ v.fp \in FIL
    BY <1>2 DEF Fair, Ctx
  <2>2. [v EXCEPT !.fp.fsize = v.fp.fptr, !.fp.written = TRUE] = w
    BY <2>1 DEF WithFp, Ctx, FIL
  <2>3. r = o
    <3> HIDE DEF w
    <3> QED
      BY <1>4, <1>8, <2>2
  <2>4. /\ p \in FIL /\ p.fptr = v.fp.fptr /\ p.sclust = v.fp.sclust /\ p.err = v.fp.err
        /\ p.clust = v.fp.clust /\ p.fs = v.fp.fs /\ p.id = v.fp.id
        /\ p.rd = v.fp.rd /\ p.wr = v.fp.wr /\ p.dir_ptr = v.fp.dir_ptr
    BY <2>1 DEF FIL
  <2> HIDE DEF p
  <2>5. w \in Good /\ Beside(v, w) /\ w.fp = p /\ Met(v, w)
    BY <1>2, <1>8, <2>4, WithFpType
  <2> HIDE DEF w
  <2>6. Filed(v, w)
    BY <2>4, <2>5 DEF Filed, Beside
  <2>7. Filed(c, w)
    BY <1>3, <2>6, FiledTransitive
  <2>8. /\ s \in Good /\ Filed(w, s) /\ s.fp.fptr = w.fp.fptr /\ s.fp.err = w.fp.err
        /\ w.fp.fptr > 0 => s.fp = w.fp
    BY <2>5, ShortenType
  <2> HIDE DEF s
  <2>9. /\ Filed(c, s) /\ s.fp.fptr = c.fp.fptr /\ s.fp.err = "FR_OK"
        /\ c.fp.fptr > 0 => s.fp.sclust = c.fp.sclust /\ s.fp.clust = c.fp.clust
    BY <1>2, <1>3, <1>8, <2>4, <2>5, <2>7, <2>8, FiledTransitive
  <2>10. f \in Good /\ Stays(s, f) /\ f.fp.err = s.fp.err
    <3>1. CASE IsOk(s)
      <4>1. b \in Good /\ Stays(s, b) /\ b.fp.err = s.fp.err
        BY <2>8, WriteBackType
      <4> QED
        BY <3>1, <4>1
    <3>2. CASE ~IsOk(s)
      BY <2>8, <3>2 DEF Stays, Filed, Met
    <3> QED
      BY <3>1, <3>2
  <2> HIDE DEF f
  <2>11. /\ o \in Good /\ Stays(f, o)
         /\ IsOk(f) => IsOk(o) /\ o = f
         /\ ~IsOk(f) => ~IsOk(o) /\ o.fp.err = f.res
    BY <2>10, OrAbortType
  <2> HIDE DEF o
  <2>12. Stays(s, o)
    BY <2>10, <2>11, StaysTransitive
  <2>13. /\ Filed(c, o) /\ o.fp.fptr = c.fp.fptr
         /\ c.fp.fptr > 0 => o.fp.sclust = c.fp.sclust /\ o.fp.clust = c.fp.clust
    BY <2>9, <2>12, FiledTransitive DEF Stays
  <2>14. Headed(o.fp)
    BY <1>2, <1>8, <2>13 DEF Headed, Rooted
  <2>15. o \in Result(c)
    BY <2>11, <2>13, <2>14 DEF Result, Fair, Good
  <2> QED
    BY <1>2, <1>3, <1>8, <2>3, <2>9, <2>10, <2>11, <2>13, <2>15 DEF r
<1> QED
  BY <1>5, <1>6, <1>7, <1>8
\* A shorter file still fits its chain.
LEMMA ShorterFits ==
  ASSUME NEW m \in Chart, NEW i \in Label, NEW p \in FIL, NEW o \in FIL, NEW exact \in BOOLEAN,
         Fits(m, i, p, exact, 0), p.err = "FR_OK", o.err = "FR_OK",
         o.fptr = p.fptr, o.sclust = p.sclust, o.clust = p.clust, o.fsize = p.fptr
  PROVE  Fits(m, i, o, exact, 0)
<1>1. p.fptr \in Nat /\ i # 0
  BY DEF FIL, Label
<1>2. exact => Holds(m, i, p.fptr)
  <2>1. CASE p.fptr = 0
    BY <2>1 DEF Holds
  <2>2. CASE p.fptr # 0
    <3>1. /\ p.fptr > 0 /\ p.clust \in Cluster /\ m.own[p.clust] = i
          /\ exact => m.pos[p.clust] = Behind(p.fptr)
      BY <1>1, <2>2 DEF Fits
    <3> QED
      BY <3>1 DEF Holds, Behind
  <2> QED
    BY <2>1, <2>2
<1> QED
  BY <1>1, <1>2 DEF Fits

\* f_truncate leaves the other chains, and the file has what is left of its own; it fails for
\* a reader, or where the card does.
LEMMA TruncateCuts ==
  ASSUME NEW c \in Fair, Headed(c.fp), IsOk(Reject(c)), NEW m \in Chart, Charted(FatV(c), m),
         NEW i \in Label, NEW exact \in BOOLEAN, Fits(m, i, c.fp, exact, 0)
  PROVE  LET d == f_truncate(c)
         IN /\ d \in Good /\ Cuts(c, d, m, i, exact) /\ d.fp.fptr = c.fp.fptr
            /\ exact /\ c.fp.wr /\ ~IsOk(d) => d.hit
            /\ c.fp.wr => \/ d.fp.written /\ d.fp.fsize = c.fp.fptr
                          \/ d.fp = c.fp /\ Quiet(c, d)
            /\ ~c.fp.wr => d.fp = c.fp
            /\ IsOk(d) => d.fp.fsize = IF c.fp.fsize <= c.fp.fptr THEN c.fp.fsize ELSE c.fp.fptr
<1> DEFINE v == Reject(c)
           e == Failed(v, "FR_DENIED")
           p == [v.fp EXCEPT !.fsize = v.fp.fptr, !.written = TRUE]
           w == WithFp(v, p)
           s == Shorten(w)
           b == WriteBack(s)
           f == IF IsOk(s) THEN b ELSE s
           o == OrAbort(f)
           r == f_truncate(c)
<1>1. c \in Ctx /\ c.fp \in FIL /\ c.fp.fptr \in Nat /\ c.fp.fsize \in Nat
  BY DEF Fair, Ctx, FIL
<1>2. /\ v \in Good /\ Kept(c, v) /\ v.sec = c.sec /\ Over(v) = Over(c) /\ c.fp.err = "FR_OK"
      /\ c \in Good
  BY RejectType
<1>3. v.fp = c.fp /\ v \in Ctx /\ Quiet(c, v) /\ FatV(v) = FatV(c) /\ DirV(v) = DirV(c)
  BY <1>2, BesideQuiet, ViewsMoved DEF Kept, Steady, Good
<1>4. r = IF ~v.fp.wr THEN e
          ELSE IF v.fp.fsize <= v.fp.fptr THEN v
          ELSE OrAbort(IF IsOk(Shorten([v EXCEPT !.fp.fsize = v.fp.fptr, !.fp.written = TRUE]))
                       THEN WriteBack(Shorten([v EXCEPT !.fp.fsize = v.fp.fptr,
                                                        !.fp.written = TRUE]))
                       ELSE Shorten([v EXCEPT !.fp.fsize = v.fp.fptr, !.fp.written = TRUE]))
  BY DEF f_truncate, Then
<1>5. IsOk(v)
  OBVIOUS
<1> HIDE DEF v, r
<1>6. CASE ~v.fp.wr
  <2>1. "FR_DENIED" \in Res
    BY DEF Res
  <2>2. e \in Good /\ Kept(v, e) /\ ~IsOk(e) /\ e.sec = v.sec /\ Over(e) = Over(v)
    BY <1>2, <1>3, <2>1, FailedType
  <2>3. r = e
    BY <1>4, <1>6
  <2> HIDE DEF e
  <2>4. e.fp = c.fp /\ Quiet(c, e)
    BY <1>3, <2>2, BesideQuiet, QuietTransitive DEF Kept, Steady
  <2>5. Cuts(c, e, m, i, exact)
    BY <1>2, <2>2, <2>4, QuietCuts
  <2> QED
    BY <1>3, <1>6, <2>2, <2>3, <2>4, <2>5 DEF r
<1>7. CASE v.fp.wr /\ v.fp.fsize <= v.fp.fptr
  <2>1. r = v
    BY <1>4, <1>7
  <2>2. Cuts(c, v, m, i, exact)
    BY <1>2, <1>3, QuietCuts
  <2> QED
    BY <1>2, <1>3, <1>5, <1>7, <2>1, <2>2 DEF r
<1>8. CASE v.fp.wr /\ ~(v.fp.fsize <= v.fp.fptr)
  <2>1. v.fp \in FIL
    BY <1>3 DEF Ctx
  <2>2. [v EXCEPT !.fp.fsize = v.fp.fptr, !.fp.written = TRUE] = w
    BY <1>3, <2>1 DEF WithFp, Ctx, FIL
  <2>3. r = o
    <3> HIDE DEF w
    <3> QED
      BY <1>4, <1>8, <2>2
  <2>4. /\ p \in FIL /\ p.fptr = v.fp.fptr /\ p.sclust = v.fp.sclust /\ p.err = v.fp.err
        /\ p.clust = v.fp.clust /\ p.fsize = v.fp.fptr /\ p.written
    BY <2>1 DEF FIL
  <2> HIDE DEF p
  <2>5. /\ w \in Good /\ Beside(v, w) /\ w.fp = p /\ Over(w) = Over(v) /\ FatV(w) = FatV(v)
        /\ IsOk(w)
    BY <1>2, <1>5, <2>4, WithFpType
  <2> HIDE DEF w
  <2>6. Quiet(c, w) /\ DirV(w) = DirV(c)
    <3>1. Quiet(v, w)
      BY <2>5, BesideQuiet DEF Beside
    <3> QED
      BY <1>3, <2>5, <3>1, QuietTransitive, ViewsMoved
  <2>7. Fits(m, i, w.fp, exact, 0) /\ Charted(FatV(w), m)
    BY <1>1, <1>2, <1>3, <2>4, <2>5, ShorterFits
  <2>8. w.fp.err = "FR_OK" /\ w.fp.fsize = w.fp.fptr /\ w.fp.fptr = c.fp.fptr
        /\ w.fp.sclust = c.fp.sclust
    BY <1>2, <1>3, <2>4, <2>5
  <2>9. /\ s \in Good /\ Filed(w, s) /\ s.fp.fptr = w.fp.fptr /\ s.fp.err = w.fp.err
        /\ w.fp.fptr > 0 => s.fp = w.fp
        /\ s.fp.fsize = w.fp.fsize /\ s.fp.written = w.fp.written
    BY <2>5, ShortenType
  <2>10. /\ Cuts(w, s, m, i, exact)
         /\ ~IsOk(s) => s.hit \/ (w.fp.fptr = 0 /\ w.fp.sclust = 0)
    BY <2>5, <2>7, <2>8, ShortenCuts
  <2> HIDE DEF s
  <2>11. exact => ~(w.fp.fptr = 0 /\ w.fp.sclust = 0)
    <3> SUFFICES ASSUME exact, w.fp.fptr = 0, w.fp.sclust = 0 PROVE FALSE
      OBVIOUS
    <3>1. c.fp.fsize > 0 /\ i # 0
      BY <1>1, <1>3, <1>8, <2>8 DEF Label
    <3>2. Holds(m, i, c.fp.fsize) /\ m.hd[i] = 0
      BY <2>8, <3>1 DEF Fits
    <3>3. PICK k \in Cluster : m.own[k] = i
      BY <3>1, <3>2 DEF Holds
    <3> QED
      BY <3>1, <3>2, <3>3 DEF Charted
  <2>12. /\ f \in Good /\ Stays(s, f) /\ f.fp.err = s.fp.err /\ Quiet(s, f)
         /\ FatV(f) = FatV(s) /\ (~IsOk(f) => f.hit \/ ~exact)
    <3>1. CASE IsOk(s)
      <4>1. /\ b \in Good /\ Stays(s, b) /\ b.fp.err = s.fp.err /\ Quiet(s, b)
            /\ FatV(b) = FatV(s) /\ (~IsOk(b) => b.hit)
        BY <2>9, WriteBackType
      <4> QED
        BY <3>1, <4>1
    <3>2. CASE ~IsOk(s)
      <4>1. Quiet(s, s) /\ Stays(s, s)
        BY DEF Quiet, Stays, Filed, Met
      <4> QED
        BY <2>9, <2>10, <2>11, <3>2, <4>1
    <3> QED
      BY <3>1, <3>2
  <2> HIDE DEF f
  <2>13. /\ o \in Good /\ Beside(f, o) /\ Stays(f, o) /\ Over(o) = Over(f) /\ FatV(o) = FatV(f)
         /\ IsOk(f) => IsOk(o) /\ o = f
         /\ ~IsOk(f) => ~IsOk(o) /\ o.fp.err = f.res
    BY <2>12, OrAbortType
  <2> HIDE DEF o
  <2>14. Quiet(s, o) /\ FatV(o) = FatV(s) /\ o.hit = f.hit
    <3>1. Quiet(f, o)
      BY <2>13, BesideQuiet DEF Beside
    <3> QED
      BY <2>12, <2>13, <3>1, QuietTransitive DEF Beside
  <2>15. /\ o.fp.fptr = s.fp.fptr /\ o.fp.fsize = s.fp.fsize /\ o.fp.sclust = s.fp.sclust
         /\ o.fp.clust = s.fp.clust /\ o.fp.written = s.fp.written
    BY <2>12, <2>13 DEF Stays
  <2>16. o.fp.err = "FR_OK" => s.fp.err = "FR_OK"
    BY <2>8, <2>9
  <2>17. Cuts(c, o, m, i, exact)
    <3>1. PICK n \in Chart : /\ Charted(FatV(s), n) /\ Spares(m, n, {i})
                             /\ Fits(n, i, s.fp, exact, 0)
      BY <2>10 DEF Cuts
    <3>2. Fits(n, i, o.fp, exact, 0)
      BY <2>15, <2>16, <3>1 DEF Fits
    <3>3. Through(w, s, Kin(m, i, DirV(c)))
      BY <2>6, <2>10 DEF Cuts
    <3>4. TableV(c) \in Kin(m, i, DirV(c))
      BY <1>2, TableType, SparesReflexive DEF Kin
    <3>5. Through(c, o, Kin(m, i, DirV(c)))
      <4>1. Through(c, s, Kin(m, i, DirV(c)))
        BY <2>6, <3>3, <3>4, QuietThroughNext
      <4> QED
        BY <2>14, <4>1, ThroughQuietNext
    <3> QED
      BY <2>14, <3>1, <3>2, <3>5 DEF Cuts
  <2>18. /\ o.fp.fptr = c.fp.fptr /\ o.fp.written /\ o.fp.fsize = c.fp.fptr
    BY <2>4, <2>5, <2>8, <2>9, <2>15
  <2> QED
    BY <1>3, <1>8, <2>3, <2>12, <2>13, <2>14, <2>17, <2>18 DEF r
<1> QED
  BY <1>6, <1>7, <1>8

---------------------------------------------------------------------------
(* Opening.                                                                *)

\* An entry for another chain.
EntryFor(x, clst, size) == [x EXCEPT !.clust = clst, !.size = size]

\* That is an entry.
LEMMA EntryForType ==
  ASSUME NEW x \in Entry, NEW clst \in Cluster \cup {0}, NEW size \in Nat
  PROVE  EntryFor(x, clst, size) \in Entry
<1>1. [x EXCEPT !.clust = clst] \in Entry
  BY DEF Entry
<1> QED
  BY <1>1 DEF Entry, EntryFor

\* The fields of an entry in the window.
LEMMA FieldsType ==
  ASSUME NEW c \in Good, NEW i, At(c, i)
  PROVE  c.win[i] \in Entry /\ c.win[i].clust \in Cluster \cup {0} /\ c.win[i].size \in Nat
<1>1. c.win[i] \in Entry
  BY EntryType
<1> DEFINE x == c.win[i]
<1>2. x \in Entry
  BY <1>1
<1> HIDE DEF x
<1>3. x.clust \in Cluster \cup {0} /\ x.size \in Nat
  BY <1>2 DEF Entry
<1> QED
  BY <1>1, <1>3 DEF x

\* An entry is given another chain in the window.
LEMMA EnterForType ==
  ASSUME NEW c \in Good, NEW i, At(c, i), NEW clst \in Cluster \cup {0}, NEW size \in Nat
  PROVE  LET d == [c EXCEPT !.win[i].clust = clst, !.win[i].size = size, !.wflag = TRUE]
         IN /\ d \in Good /\ Kept(c, d) /\ d.val = c.val /\ d.res = c.res /\ d.sec = c.sec
            /\ At(d, i) /\ d.wflag
            /\ Over(d) = EnterIn(Over(c), i, EntryFor(c.win[i], clst, size))
<1> DEFINE d == [c EXCEPT !.win[i].clust = clst, !.win[i].size = size, !.wflag = TRUE]
           x == EntryFor(c.win[i], clst, size)
           f == [c.win EXCEPT ![i].clust = clst, ![i].size = size]
           g == [c.win EXCEPT ![i] = x]
           e == Entered(c, i, x)
<1>1. /\ c.win \in [{j \in 1 .. n_rootdir : Dir(j) = Dir(i)} -> Entry] /\ c.win[i] \in Entry
      /\ c \in Ctx
  BY EntryType DEF Good
<1>2. x \in Entry
  BY <1>1, EntryForType
<1>3. i \in {j \in 1 .. n_rootdir : Dir(j) = Dir(i)}
  BY DEF At
<1>4. f = [c.win EXCEPT ![i] = [c.win[i] EXCEPT !.clust = clst, !.size = size]]
  BY <1>1, <1>3
<1>5. f = g
  BY <1>4 DEF EntryFor
<1>6. d = [c EXCEPT !.win = f, !.wflag = TRUE]
  <2> DEFINE y == [c EXCEPT !.win[i].clust = clst, !.win[i].size = size]
  <2>1. y = [c EXCEPT !.win = f]
    BY <1>1 DEF Ctx
  <2>2. d = [y EXCEPT !.wflag = TRUE]
    BY <1>1 DEF Ctx
  <2> HIDE DEF y, d, f
  <2> QED
    BY <1>1, <2>1, <2>2 DEF Ctx
<1>7. e = [c EXCEPT !.win = g, !.wflag = TRUE]
  BY <1>1 DEF Entered, Ctx
<1>8. d = e
  BY <1>5, <1>6, <1>7
<1> HIDE DEF x
<1>9. /\ e \in Good /\ Kept(c, e) /\ e.val = c.val /\ e.res = c.res /\ e.sec = c.sec
      /\ At(e, i) /\ e.wflag /\ Over(e) = EnterIn(Over(c), i, x)
  BY <1>2, EnterType
<1> HIDE DEF d, e
<1>10. /\ d \in Good /\ Kept(c, d) /\ d.val = c.val /\ d.res = c.res /\ d.sec = c.sec
       /\ At(d, i) /\ d.wflag /\ Over(d) = EnterIn(Over(c), i, x)
  BY <1>8, <1>9
<1> QED
  BY <1>10 DEF d, x

\* A file that exists loses its contents: the window is back at its entry, if all went well.
LEMMA OverwriteType ==
  ASSUME NEW c \in Good, NEW i, At(c, i)
  PROVE  LET d == Overwrite(c, i)
         IN d \in Good /\ Steady(c, d) /\ (IsOk(d) => At(d, i))
<1> DEFINE cl == c.win[i].clust
           w == [c EXCEPT !.win[i].clust = 0, !.win[i].size = 0, !.wflag = TRUE]
           o == Ok(w)
           r == remove_chain(w, cl)
           l == [r EXCEPT !.last_clust = cl - 1]
           m == move_window(l, Dir(i))
           d == Overwrite(c, i)
<1>1. d = IF cl = 0 THEN o ELSE IF IsOk(r) THEN m ELSE r
  BY DEF Overwrite, Then
<1>2. cl \in Cluster \cup {0} /\ 0 \in Cluster \cup {0} /\ 0 \in Nat
  BY FieldsType
<1> HIDE DEF d, cl
<1>3. w \in Good /\ Kept(c, w) /\ At(w, i)
  BY <1>2, EnterForType
<1> HIDE DEF w
<1>4. CASE cl = 0
  <2>1. o \in Good /\ Kept(w, o) /\ o.winsect = w.winsect
    BY <1>3, OkType DEF Good
  <2>2. At(o, i)
    BY <1>3, <2>1 DEF At
  <2> HIDE DEF o
  <2>3. Steady(c, o)
    BY <1>3, <2>1, SteadyTransitive DEF Kept
  <2> QED
    BY <1>1, <1>4, <2>1, <2>2, <2>3 DEF d
<1>5. CASE cl # 0
  <2>1. cl \in Nat /\ cl - 1 \in Nat
    BY <1>2, <1>5 DEF Cluster
  <2>2. r \in Good /\ Steady(w, r)
    BY <1>3, <2>1, RemoveChainType
  <2> HIDE DEF r
  <2>3. Steady(c, r)
    BY <1>3, <2>2, SteadyTransitive DEF Kept
  <2>4. l \in Ctx
    BY <2>1, <2>2 DEF Good, Ctx
  <2>5. l \in Good /\ Steady(r, l)
    BY <2>2, <2>4 DEF Good, Coherent, Steady, Ctx
  <2> HIDE DEF l
  <2>6. Dir(i) \in Sector
    BY SectorFacts DEF At
  <2>7. m \in Good /\ Flushed(l, m) /\ (IsOk(m) => m.winsect = Dir(i))
    BY <2>5, <2>6, MoveWindowType
  <2> HIDE DEF m
  <2>8. Steady(c, m)
    BY <2>3, <2>5, <2>7, SteadyTransitive DEF Flushed, Moved, Kept
  <2>9. IsOk(m) => At(m, i)
    BY <1>3, <2>7 DEF At
  <2> QED
    BY <1>1, <1>5, <2>2, <2>3, <2>7, <2>8, <2>9 DEF d
<1> QED
  BY <1>4, <1>5

\* A mode of f_open.
Modal(mode) == mode.rd \in BOOLEAN /\ mode.wr \in BOOLEAN

\* Met, for two functions in a row.
LEMMA MetTransitive ==
  ASSUME NEW c, NEW d, NEW e, Met(c, d), Met(d, e)
  PROVE  Met(c, e)
BY DEF Met

\* A call by name has begun by mounting the volume, or tried to.
Goes(c, d) == Met(c, d) /\ d.stat # "STA_NOINIT"

\* Functions on sectors after the mount.
LEMMA SteadyGoes ==
  ASSUME NEW c, NEW d, Goes(c, d), NEW e, Steady(d, e)
  PROVE  Goes(c, e)
BY SteadyStays, MetTransitive DEF Goes, Stays, Filed

\* What f_open leaves behind.
Opened(c) ==
  {d \in Good : Goes(c, d) /\ (IsOk(d) => d.fp.fs /\ d.fp.fptr = 0 /\ Listed(d.fp))}

\* A file object that is not in use.
LEMMA ClosedType == Closed \in FIL /\ ~Closed.fs /\ Closed.fptr = 0
BY FatFsAssumption DEF Closed, FIL, Res, EOC, n_fatent

\* The file object f_open fills in.
LEMMA FileObjectType ==
  ASSUME NEW c \in Good, c.stat # "STA_NOINIT", NEW i, At(c, i), NEW mode, Modal(mode),
         NEW written \in BOOLEAN
  PROVE  FileObject(c, i, mode, written) \in Opened(c)
<1> DEFINE size == c.win[i].size
           cl == c.win[i].clust
           p == [Closed EXCEPT
                   !.fs = TRUE, !.id = c.id, !.rd = mode.rd, !.wr = mode.wr, !.written = written,
                   !.sclust = cl, !.fsize = size, !.dir_ptr = i]
           d == WithFp(c, p)
<1>1. FileObject(c, i, mode, written) = d
  BY DEF FileObject, WithFp
<1>2. cl \in Cluster \cup {0} /\ size \in Nat
  BY FieldsType
<1>3. c.id \in Nat /\ i \in 1 .. n_rootdir /\ i \in 0 .. n_rootdir
  BY FatFsAssumption DEF Good, Ctx, At
<1> HIDE DEF size, cl
<1>4. p \in FIL /\ p.fs /\ p.fptr = 0 /\ p.dir_ptr = i
  <2>1. Closed \in FIL /\ Closed.fptr = 0
    BY ClosedType
  <2> QED
    BY <1>2, <1>3, <2>1, ZenonT(60) DEF FIL, Modal
<1>5. Listed(p)
  BY <1>3, <1>4 DEF Listed
<1> HIDE DEF p
<1>6. d \in Good /\ d.fp = p /\ Goes(c, d)
  BY <1>4, WithFpType DEF Goes, Beside
<1> HIDE DEF d
<1> QED
  BY <1>1, <1>4, <1>5, <1>6 DEF Opened

\* Opened, after a mount.
LEMMA OpenedTransitive ==
  ASSUME NEW c, NEW d, Goes(c, d), NEW e \in Opened(d)
  PROVE  e \in Opened(c)
BY MetTransitive DEF Opened, Goes

\* A call that failed has opened nothing.
LEMMA NotOpened ==
  ASSUME NEW c, NEW d \in Good, Goes(c, d), ~IsOk(d)
  PROVE  d \in Opened(c)
BY DEF Opened

\* Functions on sectors on a volume that is mounted.
LEMMA GoesNow ==
  ASSUME NEW c, c.stat # "STA_NOINIT", NEW d, Steady(c, d)
  PROVE  Goes(c, d)
BY SteadyStays DEF Goes, Stays, Filed

\* f_open behind its search for the name.
LEMMA OpenEntryType ==
  ASSUME NEW c \in Good, c.stat # "STA_NOINIT", At(c, c.val), NEW mode, Modal(mode)
  PROVE  OpenEntry(c, mode) \in Opened(c)
<1> DEFINE e == Failed(c, "FR_EXIST")
           o == Overwrite(c, c.val)
           i == c.val
           d == OpenEntry(c, mode)
<1>1. /\ mode.create = "NEW" => d = e
      /\ mode.create = "ALWAYS" => d = IF IsOk(o) THEN FileObject(o, i, mode, TRUE) ELSE o
      /\ mode.create \notin {"NEW", "ALWAYS"} => d = FileObject(c, i, mode, FALSE)
  BY DEF OpenEntry, Then
<1> HIDE DEF d
<1>2. CASE mode.create = "NEW"
  <2>1. "FR_EXIST" \in Res /\ "FR_EXIST" # "FR_OK" /\ c \in Ctx
    BY DEF Res, Good
  <2>2. e \in Good /\ Kept(c, e) /\ ~IsOk(e)
    BY <2>1, FailedType
  <2> HIDE DEF e
  <2>3. Goes(c, e)
    BY <2>2, GoesNow DEF Kept
  <2> QED
    BY <1>1, <1>2, <2>2, <2>3, NotOpened DEF d
<1>3. CASE mode.create = "ALWAYS"
  <2>1. o \in Good /\ Steady(c, o) /\ (IsOk(o) => At(o, i))
    BY OverwriteType
  <2> HIDE DEF o, i
  <2>2. Goes(c, o) /\ o.stat # "STA_NOINIT"
    BY <2>1, GoesNow DEF Goes
  <2>3. IsOk(o) => FileObject(o, i, mode, TRUE) \in Opened(o)
    BY <2>1, <2>2, FileObjectType
  <2>4. IsOk(o) => FileObject(o, i, mode, TRUE) \in Opened(c)
    BY <2>2, <2>3, OpenedTransitive
  <2>5. ~IsOk(o) => o \in Opened(c)
    BY <2>1, <2>2, NotOpened
  <2> QED
    BY <1>1, <1>3, <2>4, <2>5 DEF d
<1>4. CASE mode.create \notin {"NEW", "ALWAYS"}
  BY <1>1, <1>4, FileObjectType DEF d
<1> QED
  BY <1>2, <1>3, <1>4

\* f_open keeps the types; a file it opens is at its beginning and has an entry.
LEMMA OpenType ==
  ASSUME NEW c \in Fair, NEW name \in Name, NEW mode, Modal(mode)
  PROVE  f_open(c, name, mode) \in Opened(c)
<1> DEFINE w == WithFp(c, Closed)
           v == find_volume(w)
           d == dir_find(v, name)
           o == Ok(d)
           g == dir_register(o, name)
           f == FileObject(g, g.val, mode, TRUE)
           e == OpenEntry(d, mode)
           r == f_open(c, name, mode)
<1>1. r = IF IsOk(v) THEN IF d.res = "FR_NO_FILE" /\ mode.create # "EXISTING"
                          THEN IF IsOk(g) THEN f ELSE g
                          ELSE IF IsOk(d) THEN e ELSE d
          ELSE v
  BY DEF f_open, Then, WithFp
<1> HIDE DEF r
<1>2. w \in Fair /\ Met(c, w)
  <2>1. c \in Ctx /\ Closed \in FIL
    BY ClosedType DEF Fair
  <2>2. w \in Ctx /\ Beside(c, w)
    BY <2>1 DEF WithFp, Beside, Ctx
  <2> HIDE DEF w
  <2> QED
    BY <2>1, <2>2 DEF Fair, Coherent, Beside, Met
<1> HIDE DEF w
<1>3. v \in Good /\ Goes(w, v)
  BY <1>2, FindVolumeType DEF Goes
<1> HIDE DEF v
<1>4. Goes(c, v)
  BY <1>2, <1>3, MetTransitive DEF Goes
<1>5. CASE ~IsOk(v)
  BY <1>1, <1>3, <1>4, <1>5, NotOpened DEF r
<1>6. CASE IsOk(v)
  <2>1. d \in Good /\ Moved(v, d) /\ (IsOk(d) => At(d, d.val))
    BY <1>3, <1>6, ScanType DEF dir_find
  <2> HIDE DEF d
  <2>2. Goes(c, d) /\ d.stat # "STA_NOINIT"
    BY <1>4, <2>1, SteadyGoes DEF Moved, Kept, Goes
  <2>3. CASE d.res = "FR_NO_FILE" /\ mode.create # "EXISTING"
    <3>1. o \in Good /\ Kept(d, o) /\ IsOk(o)
      BY <2>1, OkType DEF Good
    <3> HIDE DEF o
    <3>2. g \in Good /\ Kept(o, g) /\ (IsOk(g) => At(g, g.val))
      BY <3>1, DirRegisterType
    <3> HIDE DEF g
    <3>3. Goes(c, g) /\ g.stat # "STA_NOINIT"
      <4>1. Goes(c, o)
        BY <2>2, <3>1, SteadyGoes DEF Kept
      <4> QED
        BY <3>2, <4>1, SteadyGoes DEF Kept, Goes
    <3>4. IsOk(g) => f \in Opened(g)
      BY <3>2, <3>3, FileObjectType
    <3> HIDE DEF f
    <3>5. IsOk(g) => f \in Opened(c)
      BY <3>3, <3>4, OpenedTransitive
    <3>6. ~IsOk(g) => g \in Opened(c)
      BY <3>2, <3>3, NotOpened
    <3> QED
      BY <1>1, <1>6, <2>3, <3>5, <3>6 DEF r
  <2>4. CASE ~(d.res = "FR_NO_FILE" /\ mode.create # "EXISTING")
    <3>1. IsOk(d) => e \in Opened(d)
      BY <2>1, <2>2, OpenEntryType
    <3> HIDE DEF e
    <3>2. IsOk(d) => e \in Opened(c)
      BY <2>2, <3>1, OpenedTransitive
    <3>3. ~IsOk(d) => d \in Opened(c)
      BY <2>1, <2>2, NotOpened
    <3> QED
      BY <1>1, <1>6, <2>4, <3>2, <3>3 DEF r
  <2> QED
    BY <2>3, <2>4
<1> QED
  BY <1>5, <1>6
---------------------------------------------------------------------------
(* Removing, renaming and counting.                                        *)

\* What a call by name leaves behind.
Settled(c) == {d \in Good : Goes(c, d)}

\* find_volume keeps the types.
LEMMA FoundVolume ==
  ASSUME NEW c \in Fair
  PROVE  find_volume(c) \in Good /\ Goes(c, find_volume(c))
BY FindVolumeType DEF Goes

\* f_unlink keeps the types.
LEMMA UnlinkType ==
  ASSUME NEW c \in Fair, NEW name
  PROVE  f_unlink(c, name) \in Settled(c)
<1> DEFINE v == find_volume(c)
           d == dir_find(v, name)
           m == dir_remove(d, d.val)
           cl == d.win[d.val].clust
           g == remove_chain(m, cl)
           f == IF cl = 0 THEN m ELSE g
           s == sync_fs(f)
           r == f_unlink(c, name)
<1>1. r = IF IsOk(v) THEN IF IsOk(d) THEN IF IsOk(m) THEN IF IsOk(f) THEN s ELSE f ELSE m ELSE d
          ELSE v
  BY DEF f_unlink, Then
<1> HIDE DEF r
<1>2. v \in Good /\ Goes(c, v)
  BY FoundVolume
<1> HIDE DEF v
<1>3. CASE ~IsOk(v)
  BY <1>1, <1>2, <1>3 DEF r, Settled
<1>4. CASE IsOk(v)
  <2>1. d \in Good /\ Moved(v, d) /\ (IsOk(d) => At(d, d.val))
    BY <1>2, <1>4, ScanType DEF dir_find
  <2> HIDE DEF d
  <2>2. Goes(c, d)
    BY <1>2, <2>1, SteadyGoes DEF Moved, Kept
  <2>3. CASE ~IsOk(d)
    BY <1>1, <1>4, <2>1, <2>2, <2>3 DEF r, Settled
  <2>4. CASE IsOk(d)
    <3>1. d.val \in 1 .. n_rootdir /\ cl \in Cluster \cup {0}
      BY <2>1, <2>4, FieldsType DEF At
    <3>2. cl \in Nat
      BY <3>1 DEF Cluster
    <3> HIDE DEF cl
    <3>3. m \in Good /\ Kept(d, m)
      BY <2>1, <3>1, DirRemoveType
    <3> HIDE DEF m
    <3>4. Goes(c, m)
      BY <2>2, <3>3, SteadyGoes DEF Kept
    <3>5. g \in Good /\ Steady(m, g)
      BY <3>2, <3>3, RemoveChainType
    <3> HIDE DEF g
    <3>6. Goes(c, g)
      BY <3>4, <3>5, SteadyGoes
    <3>7. f \in Good /\ Goes(c, f)
      BY <3>3, <3>4, <3>5, <3>6
    <3> HIDE DEF f
    <3>8. s \in Good /\ Steady(f, s)
      BY <3>7, SyncFsType
    <3> HIDE DEF s
    <3>9. Goes(c, s)
      BY <3>7, <3>8, SteadyGoes
    <3>10. m \in Settled(c) /\ f \in Settled(c) /\ s \in Settled(c)
      BY <3>3, <3>4, <3>7, <3>8, <3>9 DEF Settled
    <3> QED
      BY <1>1, <1>4, <2>4, <3>10 DEF r
  <2> QED
    BY <2>3, <2>4
<1> QED
  BY <1>3, <1>4

\* An entry gets another name, and the old one is removed.
LEMMA MoveType ==
  ASSUME NEW c \in Good, At(c, c.val), c.wflag, NEW i \in 1 .. n_rootdir, NEW entry \in Entry
  PROVE  LET d == Move(c, i, entry)
         IN d \in Good /\ Steady(c, d)
<1> DEFINE k == c.val
           cl == entry.clust
           size == entry.size
           w == [c EXCEPT !.win[k].clust = cl, !.win[k].size = size, !.wflag = TRUE]
           u == [c EXCEPT !.win[k].clust = cl, !.win[k].size = size]
           d == Move(c, i, entry)
<1>1. cl \in Cluster \cup {0} /\ size \in Nat
  BY DEF Entry
<1>2. d = dir_remove(u, i)
  BY DEF Move
<1>3. At(c, k) /\ c \in Ctx
  BY DEF Good
<1> HIDE DEF k, cl, size, d
<1>4. w \in Good /\ Kept(c, w)
  BY <1>1, <1>3, EnterForType
<1>5. w = u
  BY <1>3 DEF Ctx
<1> HIDE DEF w, u
<1>6. d \in Good /\ Kept(w, d)
  BY <1>2, <1>4, <1>5, DirRemoveType
<1> QED
  BY <1>4, <1>6, SteadyTransitive DEF Kept, d

\* f_rename keeps the types.
LEMMA RenameType ==
  ASSUME NEW c \in Fair, NEW old, NEW name \in Name
  PROVE  f_rename(c, old, name) \in Settled(c)
<1> DEFINE v == find_volume(c)
           d == dir_find(v, old)
           i == d.val
           x == d.win[i]
           e == dir_find(d, name)
           y == Failed(e, "FR_EXIST")
           o == Ok(e)
           g == dir_register(o, name)
           m == Move(g, i, x)
           s == sync_fs(m)
           r == f_rename(c, old, name)
<1>1. r = IF IsOk(v) THEN IF IsOk(d) THEN CASE IsOk(e) -> y
                                            [] e.res = "FR_NO_FILE" ->
                                                 IF IsOk(g) THEN IF IsOk(m) THEN s ELSE m ELSE g
                                            [] OTHER -> e
                                     ELSE d
          ELSE v
  BY DEF f_rename, Then
<1> HIDE DEF r
<1>2. v \in Good /\ Goes(c, v)
  BY FoundVolume
<1> HIDE DEF v
<1>3. CASE ~IsOk(v)
  BY <1>1, <1>2, <1>3 DEF r, Settled
<1>4. CASE IsOk(v)
  <2>1. d \in Good /\ Moved(v, d) /\ (IsOk(d) => At(d, i))
    BY <1>2, <1>4, ScanType DEF dir_find
  <2>2. Goes(c, d)
    <3> HIDE DEF d
    <3> QED
      BY <1>2, <2>1, SteadyGoes DEF Moved, Kept
  <2>3. CASE ~IsOk(d)
    <3> HIDE DEF d
    <3> QED
      BY <1>1, <1>4, <2>1, <2>2, <2>3 DEF r, Settled
  <2>4. CASE IsOk(d)
    <3>1. i \in 1 .. n_rootdir /\ x \in Entry
      <4> HIDE DEF i
      <4> QED
        BY <2>1, <2>4, EntryType DEF At
    <3> HIDE DEF d, i, x
    <3>2. e \in Good /\ Moved(d, e)
      BY <2>1, <2>4, ScanType DEF dir_find
    <3> HIDE DEF e
    <3>3. Goes(c, e)
      BY <2>2, <3>2, SteadyGoes DEF Moved, Kept
    <3>4. "FR_EXIST" \in Res /\ e \in Ctx
      BY <3>2 DEF Res, Good
    <3>5. y \in Good /\ Steady(e, y)
      BY <3>2, <3>4, FailedType DEF Kept
    <3> HIDE DEF y
    <3>6. Goes(c, y)
      BY <3>3, <3>5, SteadyGoes
    <3>7. o \in Good /\ Steady(e, o) /\ IsOk(o)
      BY <3>2, <3>4, OkType DEF Kept
    <3> HIDE DEF o
    <3>8. Goes(c, o)
      BY <3>3, <3>7, SteadyGoes
    <3>9. g \in Good /\ Steady(o, g) /\ (IsOk(g) => At(g, g.val) /\ g.wflag)
      BY <3>7, DirRegisterType DEF Kept
    <3> HIDE DEF g
    <3>10. Goes(c, g)
      BY <3>8, <3>9, SteadyGoes
    <3>11. IsOk(g) => m \in Good /\ Steady(g, m)
      BY <3>1, <3>9, MoveType
    <3> HIDE DEF m
    <3>12. IsOk(g) => Goes(c, m)
      BY <3>10, <3>11, SteadyGoes
    <3>13. IsOk(g) => s \in Good /\ Steady(m, s)
      BY <3>11, SyncFsType
    <3> HIDE DEF s
    <3>14. IsOk(g) => Goes(c, s)
      BY <3>12, <3>13, SteadyGoes
    <3>15. y \in Settled(c) /\ e \in Settled(c) /\ g \in Settled(c)
      BY <3>2, <3>3, <3>5, <3>6, <3>9, <3>10 DEF Settled
    <3>16. IsOk(g) => m \in Settled(c) /\ s \in Settled(c)
      BY <3>11, <3>12, <3>13, <3>14 DEF Settled
    <3>17. r \in {y, e, g} \/ (IsOk(g) /\ r \in {m, s})
      BY <1>1, <1>4, <2>4 DEF IsOk
    <3> QED
      BY <3>15, <3>16, <3>17 DEF r
  <2> QED
    BY <2>3, <2>4
<1> QED
  BY <1>3, <1>4
\* The free clusters among the first n.
FreeUpTo(fat, n) == {k \in 2 .. n + 1 : fat[k] = 0}

\* They are counted one by one.
LEMMA FreeUpToNext ==
  ASSUME NEW fat, NEW n \in Nat
  PROVE  /\ IsFiniteSet(FreeUpTo(fat, n)) /\ Cardinality(FreeUpTo(fat, n)) \in Nat
         /\ Cardinality(FreeUpTo(fat, n + 1)) =
              IF fat[n + 2] = 0 THEN Cardinality(FreeUpTo(fat, n)) + 1
              ELSE Cardinality(FreeUpTo(fat, n))
<1> DEFINE F == FreeUpTo(fat, n)
           G == FreeUpTo(fat, n + 1)
<1>1. IsFiniteSet(2 .. n + 1)
  BY FS_Interval
<1>2. F \in SUBSET (2 .. n + 1)
  BY DEF FreeUpTo
<1>3. IsFiniteSet(F) /\ Cardinality(F) \in Nat
  BY <1>1, <1>2, FS_Subset, FS_CardinalityType
<1>4. n + 2 \notin F
  BY <1>2
<1>5. \A k : k \in 2 .. (n + 1) + 1 <=> k \in 2 .. n + 1 \/ k = n + 2
  OBVIOUS
<1>6. G = IF fat[n + 2] = 0 THEN F \cup {n + 2} ELSE F
  BY <1>5 DEF FreeUpTo
<1> HIDE DEF F, G
<1>7. Cardinality(F \cup {n + 2}) = Cardinality(F) + 1
  BY <1>3, <1>4, FS_AddElement
<1>8. Cardinality(G) = IF fat[n + 2] = 0 THEN Cardinality(F) + 1 ELSE Cardinality(F)
  BY <1>6, <1>7
<1> QED
  BY <1>3, <1>8 DEF F, G

\* n clusters were looked at.
Counting(c, n) ==
  {d \in Good : /\ Moved(c, d) /\ d.val \in Nat
                /\ IsOk(d) => d.val = Cardinality(FreeUpTo(FatV(c), n))}

\* One cluster more is counted.
LEMMA CountOneType ==
  ASSUME NEW c \in Good, NEW n \in Nat, n < Clusters, NEW d \in Counting(c, n)
  PROVE  CountOne(d, n + 2) \in Counting(c, n + 1)
<1> DEFINE k == n + 2
           m == move_window(d, Fat(k))
           v == IF m.win[k] = 0 THEN m.val + 1 ELSE m.val
           x == [m EXCEPT !.val = v]
           r == CountOne(d, k)
<1>1. r = IF IsOk(d) THEN IF IsOk(m) THEN x ELSE m ELSE d
  BY DEF CountOne, Then
<1>2. k \in Cluster
  BY FatFsAssumption DEF Cluster, n_fatent
<1>3. d \in Good /\ Moved(c, d) /\ d.val \in Nat
  BY DEF Counting
<1> HIDE DEF r
<1>4. CASE ~IsOk(d)
  BY <1>1, <1>3, <1>4 DEF Counting, r
<1>5. CASE IsOk(d)
  <2>1. Fat(k) \in Sector /\ Fat(k) \in Changing
    BY <1>2, SectorFacts
  <2>2. /\ m \in Good /\ Flushed(d, m)
        /\ IsOk(m) => m.win = Over(d)[Fat(k)]
    BY <1>3, <2>1, MoveWindowType
  <2> HIDE DEF m
  <2>3. Moved(c, m) /\ m.val = d.val
    BY <1>3, <2>2, MovedTransitive DEF Flushed
  <2>4. CASE ~IsOk(m)
    BY <1>1, <1>3, <1>5, <2>2, <2>3, <2>4 DEF Counting, r
  <2>5. CASE IsOk(m)
    <3>1. FatV(d) = FatV(c)
      BY <1>3, ViewsMoved DEF Moved
    <3>2. m.win[k] = FatV(c)[k]
      BY <1>2, <2>2, <2>5, <3>1 DEF FatV
    <3>3. v \in Nat
      BY <1>3, <2>3
    <3>4. v = Cardinality(FreeUpTo(FatV(c), n + 1))
      <4>1. d.val = Cardinality(FreeUpTo(FatV(c), n))
        BY <1>5 DEF Counting
      <4>2. Cardinality(FreeUpTo(FatV(c), n + 1)) =
              IF FatV(c)[k] = 0 THEN Cardinality(FreeUpTo(FatV(c), n)) + 1
              ELSE Cardinality(FreeUpTo(FatV(c), n))
        BY FreeUpToNext
      <4> QED
        BY <2>3, <3>2, <4>1, <4>2
    <3> HIDE DEF v
    <3>5. x \in Good /\ Moved(m, x) /\ x.val = v
      BY <2>2, <3>3, ValType
    <3> HIDE DEF x
    <3>6. Moved(c, x)
      BY <2>3, <3>5, MovedTransitive
    <3> QED
      BY <1>1, <1>5, <2>5, <3>3, <3>4, <3>5, <3>6 DEF Counting, r
  <2> QED
    BY <2>4, <2>5
<1> QED
  BY <1>4, <1>5

\* The number that is kept is right unless a disk error came in between.
LEMMA CountFreeType ==
  ASSUME NEW c \in Good
  PROVE  LET d == CountFree(c)
         IN /\ d \in Good /\ Steady(c, d) /\ Over(d) = Over(c) /\ d.last_clust = c.last_clust
            /\ Quiet(c, d)
            /\ IsOk(d) => d.free_clust = Cardinality({k \in Cluster : FatV(c)[k] = 0})
<1> DEFINE N == Clusters
           b == [c EXCEPT !.val = 0]
           Op(n, d) == CountOne(d, n + 1)
           W == Good
           S == [n \in 0 .. N |-> Counting(c, n)]
           turn == [x \in (1 .. N) \X W |-> Op(x[1], x[2])]
           Loop(g) == g = [n \in 0 .. N |-> IF n = 0 THEN b ELSE Op(n, g[n - 1])]
           after == CHOOSE g : Loop(g)
           e == after[N]
           x == [e EXCEPT !.free_clust = e.val, !.fsi = Dirty(e.fsi)]
           r == CountFree(c)
<1>1. N \in Nat
  BY FatFsAssumption
<1>2. r = x
  BY DEF CountFree, Repeat
<1>3. b \in Counting(c, 0)
  <2>1. b \in Good /\ Moved(c, b) /\ b.val = 0
    BY ValType
  <2>2. FreeUpTo(FatV(c), 0) = {}
    BY DEF FreeUpTo
  <2> HIDE DEF b
  <2> QED
    BY <2>1, <2>2, FS_EmptySet DEF Counting
<1>4. \A n \in 0 .. N : n < N => \A d \in Counting(c, n) : Op(n + 1, d) \in Counting(c, n + 1)
  <2> SUFFICES ASSUME NEW n \in 0 .. N, n < N, NEW d \in Counting(c, n)
               PROVE  Op(n + 1, d) \in Counting(c, n + 1)
    OBVIOUS
  <2>1. n \in Nat /\ (n + 1) + 1 = n + 2
    OBVIOUS
  <2>2. CountOne(d, n + 2) \in Counting(c, n + 1)
    BY <2>1, CountOneType
  <2> QED
    BY <2>1, <2>2
<1> HIDE DEF Op, b, N
<1>5. b \in S[0] /\ \A n \in 0 .. N : \A d \in S[n] : d \in W
  <2>1. 0 \in 0 .. N
    BY <1>1
  <2> QED
    BY <1>3, <2>1 DEF Counting
<1>6. \A n \in 0 .. N : n < N => \A d \in S[n] : Op(n + 1, d) \in S[n + 1]
  <2>1. \A n \in 0 .. N : n < N => n + 1 \in 0 .. N
    BY <1>1
  <2> QED
    BY <1>4, <2>1
<1> HIDE DEF W
<1>7. \A n \in 0 .. N : n < N => n + 1 \in 1 .. N /\ n + 1 \in 0 .. N /\ (n + 1) - 1 = n
  BY <1>1
<1>8. Turns(N, S, turn)
  <2> HIDE DEF S, N
  <2> QED
    BY <1>7, <1>5, <1>6 DEF Turns
<1> HIDE DEF S
<1>9. \E g : Loop(g)
  <2>1. PICK g : /\ g = [n \in 0 .. N |-> IF n = 0 THEN b ELSE turn[<<n, g[n - 1]>>]]
                 /\ \A n \in 0 .. N : g[n] \in S[n]
    <3> HIDE DEF turn, N
    <3>1. Runs(N, S, b, turn)
      BY <1>1, <1>5, <1>8, LoopExists
    <3> QED
      BY <3>1 DEF Runs
  <2>2. ASSUME NEW n \in 0 .. N, n # 0
        PROVE  turn[<<n, g[n - 1]>>] = Op(n, g[n - 1])
    <3>1. n - 1 \in 0 .. N /\ n \in 1 .. N
      BY <1>1, <2>2
    <3> HIDE DEF N
    <3> QED
      BY <1>5, <1>6, <2>1, <3>1
  <2> HIDE DEF turn, N
  <2> QED
    BY <2>1, <2>2
<1>10. Loop(after)
  BY <1>9
<1> HIDE DEF after
<1> DEFINE T == {n \in 0 .. N : after[n] \in S[n]}
<1>11. 0 .. N \subseteq T
  <2>1. 0 \in 0 .. N /\ after[0] = b
    BY <1>1, <1>10
  <2> HIDE DEF N
  <2>2. \A n \in 0 .. N : n < N => after[n + 1] = Op(n + 1, after[n])
    BY <1>7, <1>10
  <2> HIDE DEF Loop
  <2>3. 0 \in T /\ \A n \in 0 .. N : n \in T /\ n < N => n + 1 \in T
    BY <1>5, <1>7, <1>5, <1>6, <2>1, <2>2
  <2> HIDE DEF T
  <2> QED
    BY <1>1, <2>3, UptoInduction
<1>12. after[N] \in S[N]
  BY <1>1, <1>11
<1>13. e \in Counting(c, N)
  <2>1. N \in 0 .. N
    BY <1>1
  <2> QED
    BY <1>12, <2>1 DEF S
<1>14. FreeUpTo(FatV(c), N) = {k \in Cluster : FatV(c)[k] = 0}
  <2>1. 2 .. N + 1 = Cluster
    BY FatFsAssumption DEF Cluster, n_fatent, N
  <2> QED
    BY <2>1 DEF FreeUpTo
<1> HIDE DEF e, r
<1>15. /\ e \in Good /\ Moved(c, e) /\ e.val \in Nat
       /\ IsOk(e) => e.val = Cardinality({k \in Cluster : FatV(c)[k] = 0})
  BY <1>13, <1>14 DEF Counting
<1>16. x \in Ctx /\ Dirty(e.fsi) \in Fsi
  BY <1>15 DEF Good, Ctx, Dirty, Fsi
<1>17. /\ x \in Good /\ Steady(e, x) /\ Over(x) = Over(e) /\ x.last_clust = e.last_clust
       /\ x.free_clust = e.val /\ (IsOk(x) <=> IsOk(e))
  BY <1>15, <1>16 DEF Good, Coherent, Steady, Over, Ctx, IsOk
<1>18. x.sec = e.sec
  BY <1>15 DEF Good, Ctx
<1> HIDE DEF x
<1>19. Steady(c, x) /\ Over(x) = Over(c) /\ x.last_clust = c.last_clust
  BY <1>15, <1>17, SteadyTransitive DEF Moved, Kept
<1>20. Quiet(c, x)
  BY <1>15, <1>17, <1>18, MovedQuiet, BesideQuiet, QuietTransitive
<1> QED
  BY <1>2, <1>15, <1>17, <1>19, <1>20 DEF r

\* f_getfree keeps the types.
LEMMA GetFreeType ==
  ASSUME NEW c \in Fair
  PROVE  f_getfree(c) \in Settled(c)
<1> DEFINE v == find_volume(c)
           x == [v EXCEPT !.val = v.free_clust]
           y == CountFree(v)
           r == f_getfree(c)
<1>1. r \in {v, x, y}
  BY DEF f_getfree, Then
<1>2. v \in Good /\ Goes(c, v)
  BY FoundVolume
<1> HIDE DEF v, r
<1>3. v.free_clust \in Int
  BY <1>2 DEF Good, Ctx
<1>4. x \in Good /\ Steady(v, x)
  BY <1>2, <1>3, ValType DEF Moved, Kept
<1> HIDE DEF x
<1>5. y \in Good /\ Steady(v, y)
  BY <1>2, CountFreeType
<1> HIDE DEF y
<1>6. v \in Settled(c) /\ x \in Settled(c) /\ y \in Settled(c)
  BY <1>2, <1>4, <1>5, SteadyGoes DEF Settled
<1> QED
  BY <1>1, <1>6 DEF r

---------------------------------------------------------------------------
(* The chains under the calls on an open file.                             *)

\* f_read, f_write and f_lseek take no cluster from the chain of any file.  Whatever chains
\* the FAT has, with the file at hand at its place in its own, the call leaves the FAT with
\* these chains, of which only the file's may have become longer; the file is at its place
\* again; and what the card holds, also if the call ended in the middle, has them too.
THEOREM FileCallsKeepChains ==
  ASSUME NEW c \in Fair, Headed(c.fp), IsOk(Reject(c)),
         NEW m \in Chart, Charted(FatV(c), m), NEW i \in Label, Fits(m, i, c.fp, TRUE, 0),
         NEW btr \in Nat, NEW data \in Seq(Int), NEW offset \in Nat,
         NEW d \in {f_read(c, btr), f_write(c, data), f_lseek(c, offset)}
  PROVE  /\ \E n \in Chart : Charted(FatV(d), n) /\ Grows(m, n, i) /\ Fits(n, i, d.fp, TRUE, 0)
         /\ \/ TableC(d) = TableC(c)
            \/ \E n \in Chart : Charted(TableC(d).fat, n) /\ Grows(m, n, i)
<1>1. d \in Worked(c)
  BY ReadFileType, WriteFileType, LseekType
<1>2. Extends(c, 0, d, 0)
  BY <1>1 DEF Worked
<1>3. i \in 0 .. n_rootdir /\ TRUE \in BOOLEAN
  BY DEF Label
<1>4. /\ Through(c, d, Grown(m, i, DirV(c)))
      /\ \E n \in Chart : Charted(FatV(d), n) /\ Grows(m, n, i) /\ Fits(n, i, d.fp, TRUE, 0)
  BY <1>2, <1>3 DEF Extends
<1> QED
  BY <1>4 DEF Through, Grown

\* f_truncate takes no cluster from the chain of any file but its own.  Whatever chains the
\* FAT has, with the file at hand at its place in its own, the call leaves the FAT with the
\* chains of the others as they were and with what it left of the file's, which holds the
\* file's new size; and what the card holds, also if the call ended in the middle, has the
\* others' chains too.
THEOREM TruncateKeepsChains ==
  ASSUME NEW c \in Fair, Headed(c.fp), IsOk(Reject(c)),
         NEW m \in Chart, Charted(FatV(c), m), NEW i \in Label, Fits(m, i, c.fp, TRUE, 0),
         NEW d \in {f_truncate(c)}
  PROVE  /\ \E n \in Chart : Charted(FatV(d), n) /\ Spares(m, n, {i}) /\ Fits(n, i, d.fp, TRUE, 0)
         /\ \/ TableC(d) = TableC(c)
            \/ \E n \in Chart : Charted(TableC(d).fat, n) /\ Spares(m, n, {i})
<1>1. TRUE \in BOOLEAN
  OBVIOUS
<1>2. Cuts(c, d, m, i, TRUE)
  BY <1>1, TruncateCuts
<1> QED
  BY <1>2 DEF Cuts, Through, Kin
=============================================================================
