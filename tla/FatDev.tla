------------------------------- MODULE FatDev -------------------------------
(***************************************************************************)
(* The calls of the C library on files of the SD card: the device table of *)
(* arm/storage/sd/fatfs/elm.c over FatFs, a card that can be pulled and    *)
(* another inserted, and disk accesses that fail.  The program is single-  *)
(* threaded: one call at a time.                                           *)
(*                                                                         *)
(* The callers are those _FS_LOCK 0 asks for: no file is opened while it   *)
(* is open, or removed or renamed then.                                    *)
(***************************************************************************)
EXTENDS FatFs, Functions

CONSTANTS
  Card,
  Handle,
  Blank,      \* of a card: the contents its sectors may have at first
  Flags,      \* open flags: [rd, wr, creat, excl, trunc, app]
  Used,       \* names that calls are made for
  Reads,      \* bytes a read is asked for
  Writes,     \* ... and a write
  Seeks,      \* pairs <<offset, direction>>
  Wrap,       \* stands for 2^32: offsets are DWORDs
  Lengths,    \* of ftruncate
  MaxOps,     \* bound: calls of a behaviour
  MaxFaults,  \* bound: calls that meet a disk error
  FaultOps,   \* bound: calls once a call met one, or the card was pulled
  MaxSwaps    \* bound: insertions

\* The sectors of a card hold what FatFs takes them to hold.
Typed(s) == s = [t \in Sector |-> s[t]] /\ \A t \in Sector : s[t] \in Content(t)

ASSUME FatDevAssumption ==
  /\ Card # {} /\ \A c \in Card : \A s \in Blank[c] : Typed(s)
  /\ Handle \subseteq Nat \ {0}
  /\ NoName \notin Name /\ Removed.name \notin Name /\ Used \subseteq Name
  /\ Flags \subseteq [rd : BOOLEAN, wr : BOOLEAN, creat : BOOLEAN, excl : BOOLEAN,
                     trunc : BOOLEAN, app : BOOLEAN]
  /\ Reads \subseteq Nat /\ Writes \subseteq Nat /\ Lengths \subseteq Nat
  /\ Seeks \subseteq Int \X {"SET", "CUR", "END"} /\ Wrap \in Nat \ {0}
  /\ MaxOps \in Nat /\ MaxFaults \in Nat /\ FaultOps \in 0 .. MaxOps /\ MaxSwaps \in Nat

VARIABLES
  fs,       \* the FATFS structure
  sec,      \* the sectors of each card
  card,     \* the card in the slot; when there is none, the one whose volume is mounted
  volume,   \* the card whose volume is mounted (a history variable)
  stat,     \* disk_status: "0", "STA_NOINIT", "STA_NODISK"
  fil,      \* the FIL of each handle
  owner,    \* of a handle: the name it was opened for (a history variable, as the next five)
  stray,    \* handles that ftruncate left between two positions
  unsure,   \* of a card: files a call failed on
  cut,      \* of a card: files truncated, or renamed in vain, since they were last synced
  call,     \* the last call and its result
  files,    \* of a card and a name: the file as the program sees it
  ops, faults, swaps

vars == <<fs, sec, card, volume, stat, fil, owner, stray, unsure, cut, call, files, ops, faults, swaps>>

---------------------------------------------------------------------------
(* What is on a card, as the program sees it: the window and the buffers   *)
(* of the files that are open take the place of their sectors.             *)

Mounted(c) == c.fs_type # 0 /\ c.stat # "STA_NOINIT"
Valid(c, f) == f.fs /\ Mounted(c) /\ f.id = c.id

Seen(c, s) == IF Mounted(c) /\ c.wflag /\ c.winsect = s THEN c.win ELSE c.sec[s]
FatOf(c) == [k \in Cluster |-> Seen(c, Fat(k))[k]]
RootOf(c) == [i \in 1 .. n_rootdir |-> Seen(c, Dir(i))[i]]

\* The clusters of a chain; one that comes back to itself is cut.
Chain(fat, k) ==
  LET next(s) == IF s = <<>> THEN k ELSE fat[s[Len(s)]]
      longer(s) == IF next(s) \in Cluster THEN Append(s, next(s)) ELSE s
  IN Repeat(LAMBDA n, s : longer(s), <<>>, Clusters)

Bytes(c, fat, sclust, size, f) ==
  LET chain == Chain(fat, sclust)
      sect(i) == clust2sect(chain[(i - 1) \div bcs + 1]) + ((i - 1) % bcs) \div SS
      byte(i) == IF (i - 1) \div bcs >= Len(chain) THEN 0
                 ELSE IF f.dirty /\ f.dsect = sect(i) THEN f.buf[(i - 1) % SS]
                 ELSE c.sec[Data(sect(i))][(i - 1) % SS]
  IN [i \in 1 .. size |-> byte(i)]

\* The files of a card, fils and owners being the handles.
View(c, fils, owners) ==
  LET fat == FatOf(c)
      root == RootOf(c)
      at(n) == {i \in 1 .. n_rootdir : root[i].name = n}
      by(n) == {h \in Handle : Valid(c, fils[h]) /\ owners[h] = n}
      entry(n) == root[CHOOSE i \in at(n) : TRUE]
      f(n) == fils[CHOOSE h \in by(n) : TRUE]
      data(n) == IF at(n) = {} THEN <<>>
                 ELSE IF by(n) = {} THEN Bytes(c, fat, entry(n).clust, entry(n).size, Closed)
                 ELSE Bytes(c, fat, f(n).sclust, f(n).fsize, f(n))
  IN [n \in Name |-> [there |-> at(n) # {}, data |-> data(n)]]

---------------------------------------------------------------------------
(* Calls.                                                                  *)

Context(f, bad, gone) ==
  LET out == stat = "STA_NODISK"
  IN [fs_type |-> fs.fs_type, id |-> fs.id, winsect |-> fs.winsect, win |-> fs.win,
      wflag |-> fs.wflag, last_clust |-> fs.last_clust, free_clust |-> fs.free_clust,
      fsi |-> fs.fsi, sec |-> sec[card], stat |-> stat, fp |-> f,
      made |-> 0, bad |-> IF out THEN 1 ELSE bad, gone |-> gone \/ out, hit |-> FALSE,
      res |-> "FR_OK", val |-> 0, out |-> <<>>]

Here == Context(Closed, 0, FALSE)
Live(h) == Valid(Here, fil[h])
Busy(name) == \E h \in Handle : Live(h) /\ owner[h] = name
Unsynced == {owner[h] : h \in {k \in Handle : Live(k) /\ fil[k].written}}

\* A call ends in the context c with these handles; it may have changed the files `names'.
Return(c, names, request, fils, owners) ==
  LET h == request.h
      u == unsure[card]
      writes == IF h = 0 \/ ~fil[h].fs THEN names
                ELSE IF Live(h) /\ fil[h].wr THEN {owner[h]} ELSE {}
      doubt == IF writes \cap u # {} THEN Name
               ELSE IF h \in stray THEN writes
               ELSE IF c.hit /\ ~IsOk(c) THEN names ELSE {}
  IN /\ ops' = ops + 1
     /\ fs' = [x \in DOMAIN fs |-> c[x]]
     /\ sec' = [sec EXCEPT ![card] = c.sec]
     /\ stat' = IF c.hit /\ c.gone THEN "STA_NODISK" ELSE c.stat
     /\ volume' = IF c.stat = "STA_NOINIT" THEN volume ELSE card
     /\ fil' = fils /\ owner' = owners
     /\ faults' = IF c.hit /\ stat # "STA_NODISK" THEN faults + 1 ELSE faults
     /\ unsure' = [unsure EXCEPT ![card] = @ \cup doubt]
     /\ call' = [request EXCEPT !.ok = IsOk(c), !.hit = c.hit, !.out = c.out]
     /\ files' = [files EXCEPT ![card] = View(c, fils, owners)]
     /\ cut' = [cut EXCEPT ![card] =
                  CASE request.how.trunc /\ ~request.how.creat -> @ \cup names
                    [] request.op = "ftruncate" -> @ \cup names
                    [] request.op = "rename" /\ c.hit -> @ \cup names
                    [] request.op \in {"fsync", "close"} /\ IsOk(c) -> @ \ (names \ u)
                    [] OTHER -> @]
     /\ UNCHANGED <<card, swaps>>

\* Accesses one of which may fail, of those a call makes when none does.
Accesses(clean) ==
  IF faults < MaxFaults /\ ops < FaultOps /\ stat # "STA_NODISK" THEN clean.made ELSE 0

\* The context after `do', when no disk access fails or when one does.
Outcome(do(_), f, After(_)) ==
  LET clean == do(Context(f, 0, FALSE))
  IN /\ ops < (IF faults = 0 /\ stat = "0" /\ swaps = 0 THEN MaxOps ELSE FaultOps)
     /\ \/ After(clean)
        \/ \E bad \in 1 .. Accesses(clean), gone \in BOOLEAN : After(do(Context(f, bad, gone)))

NoFlags == [rd |-> FALSE, wr |-> FALSE, creat |-> FALSE, excl |-> FALSE, trunc |-> FALSE,
            app |-> FALSE]
Request(op, h) == [op |-> op, h |-> h, name |-> NoName, to |-> NoName, how |-> NoFlags, n |-> 0,
                   data |-> <<>>, ok |-> TRUE, hit |-> FALSE, out |-> <<>>]

---------------------------------------------------------------------------
(* _ELM_open_r and the other entries of the table.                         *)

Mode(how) ==
  [rd |-> how.rd, wr |-> how.wr,
   create |-> IF ~how.creat THEN "EXISTING" ELSE IF how.excl THEN "NEW"
              ELSE IF how.trunc THEN "ALWAYS" ELSE "OPEN"]

elm_open(c, name, how) ==
  Then(f_open(c, name, Mode(how)), LAMBDA d :
    Then(IF how.trunc /\ ~how.creat THEN f_truncate(d) ELSE d, LAMBDA e :
      IF how.app THEN f_lseek(e, e.fp.fsize) ELSE e))

\* A handle is taken only if the file was opened.
Open(name, how) ==
  LET free == {h \in Handle : ~fil[h].fs}
      h == CHOOSE k \in free : \A m \in free : k <= m
      do(c) == elm_open(c, name, how)
      After(c) ==
        /\ Return(c, IF how.trunc \/ how.creat THEN {name} ELSE {},
                  [Request("open", h) EXCEPT !.name = name, !.how = how],
                  [fil EXCEPT ![h] = IF IsOk(c) THEN c.fp ELSE Closed],
                  [owner EXCEPT ![h] = IF IsOk(c) THEN name ELSE NoName])
        /\ UNCHANGED stray
  IN free # {} /\ ~Busy(name) /\ Outcome(do, Closed, After)

\* The handle is released whatever f_close says.
Close(h) ==
  LET After(c) == /\ Return(c, {owner[h]}, Request("close", h),
                            [fil EXCEPT ![h] = Closed], [owner EXCEPT ![h] = NoName])
                  /\ stray' = stray \ {h}
  IN fil[h].fs /\ Outcome(f_close, fil[h], After)

\* The other calls on a handle; writers change the file.
OnHandle(h, do(_), request, writes) ==
  LET After(c) == /\ Return(c, IF writes THEN {owner[h]} ELSE {}, request,
                            [fil EXCEPT ![h] = c.fp], owner)
                  /\ UNCHANGED stray
  IN fil[h].fs /\ Outcome(do, fil[h], After)

Read(h, n) ==
  LET do(c) == f_read(c, n)
  IN OnHandle(h, do, [Request("read", h) EXCEPT !.n = n], FALSE)

\* Bytes that differ from all that were written before.
Write(h, n) ==
  LET data == [i \in 1 .. n |-> 10 * (ops + 1) + i]
      do(c) == f_write(c, data)
  IN OnHandle(h, do, [Request("write", h) EXCEPT !.data = data], TRUE)

\* SEEK_END counts back from the end; a negative offset is a large one.
Seek(h, pos, dir) ==
  LET off == CASE dir = "SET" -> pos
               [] dir = "END" -> fil[h].fsize - pos
               [] dir = "CUR" -> fil[h].fptr + pos
      dword == off % Wrap
      do(c) == f_lseek(c, dword)
  IN OnHandle(h, do, [Request("seek", h) EXCEPT !.n = dword], fil[h].wr)

\* The position is put back behind f_lseek's back.
elm_ftruncate(c, len) ==
  Then(f_lseek(c, len), LAMBDA d :
    Then(f_truncate(d), LAMBDA e : [e EXCEPT !.fp.fptr = Least(c.fp.fptr, len)]))

Ftruncate(h, len) ==
  LET do(c) == elm_ftruncate(c, len)
      After(c) == /\ Return(c, IF fil[h].wr THEN {owner[h]} ELSE {},
                            [Request("ftruncate", h) EXCEPT !.n = len],
                            [fil EXCEPT ![h] = c.fp], owner)
                  /\ stray' = IF IsOk(c) /\ c.fp.fptr \notin {0, len}
                              THEN stray \cup {h} ELSE stray
  IN fil[h].fs /\ Outcome(do, fil[h], After)

Fsync(h) == OnHandle(h, f_sync, Request("fsync", h), TRUE)

OnName(do(_), names, request) ==
  LET After(c) == Return(c, names, request, fil, owner) /\ UNCHANGED stray
  IN (\A n \in names : ~Busy(n)) /\ Outcome(do, Closed, After)

Unlink(name) ==
  LET do(c) == f_unlink(c, name)
  IN OnName(do, {name}, [Request("unlink", 0) EXCEPT !.name = name])

Rename(name, to) ==
  LET do(c) == f_rename(c, name, to)
  IN name # to /\ OnName(do, {name, to}, [Request("rename", 0) EXCEPT !.name = name, !.to = to])

\* ELM_FreeClustersFromDisk.
GetFree == OnName(f_getfree, {}, Request("getfree", 0))

---------------------------------------------------------------------------
(* The card.                                                               *)

\* A card that is pulled before it was initialized leaves no trace: the volume that is
\* mounted counts again, and the files that are open on it.
Pull ==
  /\ stat # "STA_NODISK" /\ (stat = "0" => swaps < MaxSwaps)
  /\ stat' = "STA_NODISK" /\ card' = volume
  /\ files' = [files EXCEPT ![volume] =
                 View([Here EXCEPT !.stat = "STA_NODISK", !.sec = sec[volume]], fil, owner)]
  /\ UNCHANGED <<fs, sec, volume, fil, owner, stray, unsure, cut, call, ops, faults, swaps>>

Insert(c) ==
  /\ stat = "STA_NODISK" /\ swaps < MaxSwaps
  /\ stat' = "STA_NOINIT" /\ card' = c /\ swaps' = swaps + 1
  /\ unsure' = [unsure EXCEPT ![card] = @ \cup Unsynced]
  /\ files' = [files EXCEPT ![card] = View([Here EXCEPT !.stat = "STA_NOINIT"], fil, owner)]
  /\ UNCHANGED <<fs, sec, volume, fil, owner, stray, cut, call, ops, faults>>

---------------------------------------------------------------------------

\* ELM_Mount has just mounted the volume.
Init ==
  /\ card = CHOOSE c \in Card : TRUE
  /\ volume = card
  /\ sec \in {s \in [Card -> UNION {Blank[c] : c \in Card}] : \A c \in Card : s[c] \in Blank[c]}
  /\ stat = "0"
  /\ LET c == find_volume(
                [fs_type |-> 0, id |-> 0, winsect |-> NoSector, win |-> <<>>, wflag |-> FALSE,
                 last_clust |-> 0, free_clust |-> 0, fsi |-> "off", sec |-> sec[card],
                 stat |-> "STA_NOINIT", fp |-> Closed, made |-> 0, bad |-> 0, gone |-> FALSE,
                 hit |-> FALSE, res |-> "FR_OK", val |-> 0, out |-> <<>>])
     IN fs = [x \in {"fs_type", "id", "winsect", "win", "wflag", "last_clust", "free_clust",
                     "fsi"} |-> c[x]]
  /\ fil = [h \in Handle |-> Closed]
  /\ owner = [h \in Handle |-> NoName]
  /\ stray = {}
  /\ unsure = [c \in Card |-> {}]
  /\ cut = [c \in Card |-> {}]
  /\ call = Request("none", 0)
  /\ files = [c \in Card |-> View([Here EXCEPT !.sec = sec[c], !.wflag = FALSE], fil, owner)]
  /\ ops = 0 /\ faults = 0 /\ swaps = 0

Next ==
  \/ \E n \in Used, how \in Flags : Open(n, how)
  \/ \E h \in Handle : Close(h) \/ Fsync(h)
  \/ \E h \in Handle, n \in Reads : Read(h, n)
  \/ \E h \in Handle, n \in Writes : Write(h, n)
  \/ \E h \in Handle, p \in Seeks : Seek(h, p[1], p[2])
  \/ \E h \in Handle, len \in Lengths : Ftruncate(h, len)
  \/ \E n \in Used : Unlink(n)
  \/ \E n, m \in Used : Rename(n, m)
  \/ GetFree
  \/ Pull
  \/ \E c \in Card : Insert(c)

Spec == Init /\ [][Next]_vars

---------------------------------------------------------------------------
(* Properties.                                                             *)

FATFS == [fs_type : {0, 1}, id : Nat, winsect : Sector \cup {NoSector}, wflag : BOOLEAN,
          last_clust : Nat, free_clust : Nat, fsi : {"off", "clean", "dirty"}]

\* The variables have their types.
TypeOK ==
  /\ [x \in DOMAIN fs \ {"win"} |-> fs[x]] \in FATFS
  /\ DOMAIN sec = Card /\ \A c \in Card : DOMAIN sec[c] = Sector
  /\ card \in Card /\ volume \in Card /\ stat \in {"0", "STA_NOINIT", "STA_NODISK"}
  /\ \A h \in Handle : /\ DOMAIN fil[h] = DOMAIN Closed
                       /\ owner[h] \in Name \cup {NoName} /\ (fil[h].fs <=> owner[h] # NoName)
                       /\ fil[h].fptr \in Nat /\ fil[h].fsize \in Nat
                       /\ fil[h].clust \in 0 .. EOC /\ fil[h].sclust \in Cluster \cup {0}
  /\ stray \subseteq Handle /\ unsure \in [Card -> SUBSET Name] /\ cut \in [Card -> SUBSET Name]
  /\ ops \in 0 .. MaxOps /\ faults \in 0 .. MaxFaults /\ swaps \in 0 .. MaxSwaps

\* The handles and the card, as FileSpec sees them.
Handles == [h \in Handle |->
              [used |-> fil[h].fs, live |-> Live(h), broken |-> fil[h].err # "FR_OK",
               stray |-> h \in stray, name |-> owner[h], rd |-> fil[h].rd, wr |-> fil[h].wr,
               pos |-> fil[h].fptr]]
CardIn == stat # "STA_NODISK"
CardNew == stat = "STA_NOINIT"

\* The calls keep what a file system promises, see FileSpec: a call that succeeds has its
\* effect on its file and none on another, although reads and writes go through one
\* window and a buffer for each file; and a disk error or a pulled card costs no file
\* but those that were being changed.
F == INSTANCE FileSpec WITH
       in <- CardIn, new <- CardNew, before <- volume, MaxFiles <- n_rootdir,
       open <- Handles, unsynced <- Unsynced

FilesAreKept == F!Spec

ClustersOf(fat, k) == Range(Chain(fat, k))

\* A chain that ends where a chain ends, and is long enough.
Sound(fat, k, size) ==
  LET chain == Chain(fat, k)
  IN /\ Len(chain) * bcs >= size
     /\ chain # <<>> => fat[chain[Len(chain)]] = EOC

\* A card's entries, but those of the names lost, have chains that end and are long enough,
\* and no two share a cluster.
SoundCard(s, lost) ==
  LET fat == [k \in Cluster |-> s[Fat(k)][k]]
      entry == [i \in 1 .. n_rootdir |-> s[Dir(i)][i]]
      kept == {i \in 1 .. n_rootdir : entry[i].name \in Name \ lost}
  IN /\ \A i \in kept : Sound(fat, entry[i].clust, entry[i].size)
     /\ \A i, j \in kept :
          i # j => ClustersOf(fat, entry[i].clust) \cap ClustersOf(fat, entry[j].clust) = {}

\* The cards are inserted so.
ASSUME FatDevSound == \A c \in Card : \A s \in Blank[c] : SoundCard(s, {})

\* At every moment, also in the middle of a call, the card holds no entry whose chain
\* has a free cluster, is too short or shares a cluster with another entry: clusters are
\* marked before they are linked and linked before the entry says so, and an entry is
\* removed or emptied before its chain is freed.  Not so for f_truncate, which frees
\* first, nor for the critical section f_rename names.
CardIsSound == \A c \in Card : unsure[c] # Name => SoundCard(sec[c], cut[c])

\* While nothing failed, each cluster that is not free belongs to one file, and
\* free_clust, when it is known, counts the free ones: what one call takes another
\* gives back, whatever was deleted, emptied, cut or stretched.
ClustersAccounted ==
  LET fat == FatOf(Here)
      root == RootOf(Here)
      heads == {IF Busy(root[i].name)
                THEN fil[CHOOSE h \in Handle : Live(h) /\ owner[h] = root[i].name].sclust
                ELSE root[i].clust : i \in {j \in 1 .. n_rootdir : root[j].name \in Name}}
      free == {k \in Cluster : fat[k] = 0}
  IN faults = 0 /\ unsure[card] = {} /\ stray = {} /\ Mounted(Here) /\ stat = "0" =>
       /\ UNION {ClustersOf(fat, k) : k \in heads} = Cluster \ free
       /\ fs.free_clust \in {Cardinality(free), Ones}

\* A write that takes fewer bytes than it was given, or a seek that stays short, found
\* no free cluster.
Short ==
  LET h == call'.h
      goal == IF call'.op = "seek" THEN call'.n ELSE fil[h].fptr + Len(call'.data)
  IN /\ ops' > ops /\ call'.op \in {"write", "seek"} /\ call'.ok
     /\ fil[h].wr /\ fil'[h].fptr < goal

ShortMeansFull == [][Short => \A k \in Cluster : FatOf(Here)'[k] # 0]_vars

\* fp->clust is the cluster of the byte before the position, where f_lseek, f_read and
\* f_write go on from.
Placed(h) ==
  LET f == fil[h]
      chain == Chain(FatOf(Here), f.sclust)
  IN Live(h) /\ f.fptr > 0 /\ f.err = "FR_OK" /\ owner[h] \notin unsure[card] =>
       /\ f.fptr <= Len(chain) * bcs
       /\ f.clust = chain[(f.fptr - 1) \div bcs + 1]

\* ... after every call but an ftruncate, which also leave all variables their types,
PositionIsPlaced == TypeOK /\ \A h \in Handle \ stray : Placed(h)

\* ... which ff.h says of every file: "Current cluster of fpter".
AlwaysPlaced == \A h \in Handle : Placed(h)
===============================================================================
