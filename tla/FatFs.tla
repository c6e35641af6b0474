-------------------------------- MODULE FatFs --------------------------------
(***************************************************************************)
(* The file system of the SD card, arm/storage/sd/fatfs/ff.c, as operators *)
(* on a context: the FATFS structure of the volume, the sectors of the     *)
(* card, the file object at hand and the result of the last call.  Each    *)
(* operator is one function of ff.c and makes the disk accesses the        *)
(* function makes, in its order; any of them may fail.                     *)
(*                                                                         *)
(* A sector of the FAT is a function from the clusters it describes to     *)
(* their entries, a sector of the root directory from indices to entries,  *)
(* a sector of data from offsets to values.  FAT16 and FAT32 differ in the *)
(* number of entries a sector holds; a 12-bit entry that straddles two     *)
(* sectors is not modelled, nor are long names and sub-directories.        *)
(***************************************************************************)
EXTENDS Integers, Sequences, FiniteSets

CONSTANTS
  Fat32,      \* is there an FSInfo sector?
  Clusters,   \* data clusters of a volume
  csize,      \* sectors of a cluster
  SS,         \* bytes of a sector
  PerSector,  \* FAT entries of a sector
  n_rootdir,  \* entries of the root directory
  DirPer,     \* entries of a sector
  Name

ASSUME FatFsAssumption ==
  /\ Fat32 \in BOOLEAN
  /\ Clusters \in Nat \ {0} /\ csize \in Nat \ {0} /\ SS \in Nat \ {0}
  /\ PerSector \in Nat \ {0} /\ n_rootdir \in Nat \ {0} /\ DirPer \in Nat \ {0}

n_fatent == Clusters + 2
bcs == csize * SS
Cluster == 2 .. n_fatent - 1
EOC == n_fatent + 1        \* 0x0FFFFFFF: the last cluster of a chain
Ones == 9 * n_fatent       \* 0xFFFFFFFF: a disk error, or a count nobody knows

\* Sectors, by area; data sector 1 is the first of cluster 2.
Fat(clst) == <<"fat", clst \div PerSector>>
Dir(i) == <<"dir", (i - 1) \div DirPer>>
FSInfo == <<"info", 0>>
Data(sect) == <<"data", sect>>
NoSector == <<"none", 0>>
Sector == {Fat(c) : c \in Cluster} \cup {Dir(i) : i \in 1 .. n_rootdir} \cup {FSInfo}
            \cup {Data(s) : s \in 1 .. Clusters * csize}

\* A directory entry that was never used ends the table; one that was removed does not.
NoName == ""
Unused == [name |-> NoName, clust |-> 0, size |-> 0]
Removed == [Unused EXCEPT !.name = "DDE"]

\* What a sector holds.
Entry == [name : Name \cup {NoName, "DDE"}, clust : Cluster \cup {0}, size : Nat]
FatEntry == {0} \cup 2 .. EOC
Content(s) == CASE s[1] = "fat" -> [{k \in Cluster : Fat(k) = s} -> FatEntry]
                [] s[1] = "dir" -> [{i \in 1 .. n_rootdir : Dir(i) = s} -> Entry]
                [] s[1] = "info" -> [free : Nat, next : Nat]
                [] s[1] = "data" -> [0 .. SS - 1 -> Int]

Least(m, n) == IF m < n THEN m ELSE n

\* res of a context is an FRESULT, val what else a function returns.
Ok(c) == [c EXCEPT !.res = "FR_OK"]
Failed(c, r) == [c EXCEPT !.res = r]
IsOk(c) == c.res = "FR_OK"

\* One step after the other, up to the first that fails.
Then(c, next(_)) == IF IsOk(c) THEN next(c) ELSE c

\* A loop: turn n makes of a context what the body does, or nothing when it is over.
Repeat(turn(_, _), c, most) ==
  LET after[n \in 0 .. most] == IF n = 0 THEN c ELSE turn(n, after[n - 1]) IN after[most]

---------------------------------------------------------------------------
(* Disk accesses.  `made' of them were made; number `bad' fails and, with  *)
(* `gone', all after it: the card was pulled, and holds what was written   *)
(* by then.                                                                *)
Fails(c) == c.bad # 0 /\ (c.made + 1 = c.bad \/ (c.gone /\ c.made + 1 > c.bad))
Access(c) == [c EXCEPT !.made = @ + 1, !.hit = @ \/ Fails(c)]

disk_write(c, s, content) ==
  IF Fails(c) THEN Failed(Access(c), "FR_DISK_ERR") ELSE Ok([Access(c) EXCEPT !.sec[s] = content])

\* What is read is c.sec[s].
disk_read(c) == Failed(Access(c), IF Fails(c) THEN "FR_DISK_ERR" ELSE "FR_OK")

---------------------------------------------------------------------------
(* The window, fs->win: one sector of the FAT, the directory or FSInfo.    *)

sync_window(c) ==
  IF ~c.wflag THEN Ok(c)
  ELSE Then(disk_write(c, c.winsect, c.win), LAMBDA d : [d EXCEPT !.wflag = FALSE])

move_window(c, s) ==
  LET moved(d) == IF IsOk(d) THEN [d EXCEPT !.winsect = s, !.win = d.sec[s]]
                  ELSE [d EXCEPT !.winsect = NoSector]
  IN IF s = c.winsect THEN Ok(c)
     ELSE Then(sync_window(c), LAMBDA d : moved(disk_read(d)))

\* A failed write of FSInfo is not noticed.
sync_fs(c) ==
  LET info == [free |-> c.free_clust, next |-> c.last_clust]
      save(d) == disk_write([d EXCEPT !.win = info, !.winsect = FSInfo, !.fsi = "clean"],
                            FSInfo, info)
  IN Then(sync_window(c), LAMBDA d : IF d.fsi = "dirty" THEN Ok(save(d)) ELSE d)

---------------------------------------------------------------------------
(* The FAT.                                                                *)

\* 0 for a cluster that does not exist.
clust2sect(clst) == IF clst \in Cluster THEN (clst - 2) * csize + 1 ELSE 0

get_fat(c, clst) ==
  LET entry(d) == [d EXCEPT !.val = IF IsOk(d) THEN d.win[clst] ELSE Ones]
  IN IF clst \in Cluster THEN entry(move_window(c, Fat(clst))) ELSE [c EXCEPT !.val = 1]

put_fat(c, clst, val) ==
  IF clst \notin Cluster THEN Failed(c, "FR_INT_ERR")
  ELSE Then(move_window(c, Fat(clst)), LAMBDA d : [d EXCEPT !.win[clst] = val, !.wflag = TRUE])

Dirty(fsi) == IF fsi = "off" THEN "off" ELSE "dirty"

CountTaken(c, n) == IF c.free_clust = Ones \/ n > 0 THEN c
                    ELSE [c EXCEPT !.free_clust = @ + n, !.fsi = Dirty(@)]

\* free_clust changes by n, if it is known; FSInfo is to be written, if there is one.
Count(c, n) == IF c.free_clust = Ones THEN c
               ELSE [c EXCEPT !.free_clust = IF @ + n < 0 THEN Ones ELSE @ + n,
                              !.fsi = Dirty(@)]

\* A turn of remove_chain's loop: cluster val is freed, val becomes the next one.
FreeOne(c) ==
  LET free(d) == CASE d.val = 0 -> Ok([d EXCEPT !.val = EOC])
                   [] d.val = 1 -> Failed(d, "FR_INT_ERR")
                   [] d.val = Ones -> Failed(d, "FR_DISK_ERR")
                   [] OTHER -> Then(put_fat(d, c.val, 0), LAMBDA e : Count(e, 1))
  IN IF ~IsOk(c) \/ c.val >= n_fatent THEN c ELSE free(get_fat(c, c.val))

\* Each turn but the last finds a cluster to free.
remove_chain(c, clst) ==
  IF clst \in Cluster
  THEN Repeat(LAMBDA n, d : FreeOne(d), [c EXCEPT !.val = clst], Clusters + 1)
  ELSE Failed(c, "FR_INT_ERR")

\* The n-th cluster after start, counted round; 1 stands for no cluster.
Nth(start, n) == IF start + n < n_fatent THEN start + n ELSE start + n - Clusters

\* The search for a free cluster among `most' after start: val is what ends it, or 0.
Looking == -1
TryOne(c, clst) ==
  IF c.val # Looking THEN c
  ELSE [get_fat(c, clst) EXCEPT
          !.val = IF @ = 0 THEN clst ELSE IF @ \in {1, Ones} THEN @ ELSE Looking]

FindFree(c, start, most) ==
  [Repeat(LAMBDA n, d : TryOne(d, Nth(start, n)), [c EXCEPT !.val = Looking], most)
     EXCEPT !.val = IF @ = Looking THEN 0 ELSE @]

\* The new cluster is marked before it is linked.
Link(c, clst) ==
  LET ncl == c.val
      linked(d) == IF IsOk(d) THEN Count([d EXCEPT !.last_clust = ncl, !.val = ncl], -1)
                   ELSE [d EXCEPT !.val = IF d.res = "FR_DISK_ERR" THEN Ones ELSE 1]
  IN linked(Then(put_fat(c, ncl, EOC), LAMBDA d : IF clst = 0 THEN d ELSE put_fat(d, clst, ncl)))

\* A free cluster is looked for from start on, and linked to clst.
Stretch(c, clst, start) ==
  LET link(d) == IF d.val \in Cluster THEN Link(d, clst) ELSE d
  IN link(FindFree(c, start, Clusters))

create_chain_onward(c, clst) ==
  LET link(d) == IF d.val \in Cluster THEN Link(d, clst) ELSE d
      after(d) == IF d.val # EOC THEN d ELSE link(FindFree(d, clst, n_fatent - 1 - clst))
  IN IF clst = 0 THEN link(FindFree(c, 1, Clusters)) ELSE after(get_fat(c, clst))

create_chain(c, clst) ==
  LET hint == IF c.last_clust = 0 \/ c.last_clust >= n_fatent THEN 1 ELSE c.last_clust
      follow(d) == IF d.val < 2 THEN [d EXCEPT !.val = 1]
                   ELSE IF d.val = Ones \/ d.val < n_fatent THEN d ELSE Stretch(d, clst, clst)
  IN IF clst = 0 THEN Stretch(c, 0, hint) ELSE follow(get_fat(c, clst))

---------------------------------------------------------------------------
(* The root directory.                                                     *)

\* A turn of the search for an entry with one of these names; val is its index, if found.
ScanOne(c, i, names) ==
  LET look(d) == IF d.win[i].name \in names THEN [d EXCEPT !.val = i]
                 ELSE IF d.win[i] = Unused THEN Failed(d, "FR_NO_FILE") ELSE d
  IN IF ~IsOk(c) \/ c.val # 0 THEN c ELSE Then(move_window(c, Dir(i)), look)

Scan(c, names) ==
  LET end(d) == IF IsOk(d) /\ d.val = 0 THEN Failed(d, "FR_NO_FILE") ELSE d
  IN end(Repeat(LAMBDA i, d : ScanOne(d, i, names), [c EXCEPT !.val = 0], n_rootdir))

dir_find(c, name) == Scan(c, {name})

dir_register(c, name) ==
  LET enter(d) == IF d.res = "FR_NO_FILE" THEN Failed(d, "FR_DENIED")
                  ELSE Then(d, LAMBDA e : [e EXCEPT !.win[e.val] = [Unused EXCEPT !.name = name],
                                                    !.wflag = TRUE])
  IN enter(Scan(c, {Unused.name, Removed.name}))

dir_remove(c, i) ==
  Then(move_window(c, Dir(i)), LAMBDA d : [d EXCEPT !.win[i] = Removed, !.wflag = TRUE])

---------------------------------------------------------------------------
(* Volumes.                                                                *)

Initialized(stat) == IF stat = "STA_NOINIT" THEN "0" ELSE stat
ReopenedInWindow(c) == [c EXCEPT !.fs_type = 0, !.stat = Initialized(@)]
Reopened(c) == [c EXCEPT !.fs_type = 0, !.wflag = FALSE, !.winsect = NoSector,
                         !.stat = Initialized(@)]

\* The volume stays mounted while the drive is initialized, or gone; else the drive is
\* initialized, the boot sector is read anew, the window is dropped, and every open
\* file loses its volume.
Mount(c, known) ==
  Ok([c EXCEPT !.last_clust = IF known THEN c.win.next ELSE Ones,
               !.free_clust = IF known THEN c.win.free ELSE Ones,
               !.fsi = IF known THEN "clean" ELSE "off",
               !.fs_type = 1, !.id = @ + 1])

find_volume(c) ==
  LET info(d) == Mount(d, IsOk(d))
  IN IF c.fs_type # 0 /\ c.stat # "STA_NOINIT" THEN Ok(c)
     ELSE Then(disk_read(Reopened(c)),
               LAMBDA d : IF Fat32 THEN info(move_window(d, FSInfo)) ELSE Mount(d, FALSE))

\* The file at hand is on the volume that is mounted.
validate(c) ==
  IF c.fp.fs /\ c.fs_type # 0 /\ c.fp.id = c.id /\ c.stat # "STA_NOINIT"
  THEN Ok(c) ELSE Failed(c, "FR_INVALID_OBJECT")

---------------------------------------------------------------------------
(* Files.  A mode is [rd, wr, create], create being one of the FA_ flags.  *)

Closed == [fs |-> FALSE, id |-> 0, rd |-> FALSE, wr |-> FALSE, err |-> "FR_OK",
           written |-> FALSE, dirty |-> FALSE, fptr |-> 0, fsize |-> 0, sclust |-> 0,
           clust |-> 0, dsect |-> 0, buf |-> [i \in 0 .. SS - 1 |-> 0], dir_ptr |-> 0]

\* ABORT: the file object refuses everything from now on.
Abort(c, r) == [c EXCEPT !.fp.err = r, !.res = r]
OrAbort(c) == IF IsOk(c) THEN c ELSE Abort(c, c.res)
Reject(c) ==
  Then(validate(c), LAMBDA v : IF v.fp.err # "FR_OK" THEN Failed(v, v.fp.err) ELSE v)

OverwriteFreesFirst(c, i) ==
  IF c.win[i].clust = 0 THEN Ok(c)
  ELSE [move_window(remove_chain(c, c.win[i].clust), Dir(i)) EXCEPT
          !.win[i].clust = 0, !.win[i].size = 0, !.wflag = TRUE]

\* FA_CREATE_ALWAYS: the entry is emptied before its chain is given up, so that the
\* window is written in that order.
Overwrite(c, i) ==
  LET cl == c.win[i].clust
      d == [c EXCEPT !.win[i].clust = 0, !.win[i].size = 0, !.wflag = TRUE]
  IN IF cl = 0 THEN Ok(d)
     ELSE Then(remove_chain(d, cl),
               LAMBDA e : move_window([e EXCEPT !.last_clust = cl - 1], Dir(i)))

FileObject(c, i, mode, written) ==
  [c EXCEPT !.fp = [Closed EXCEPT
     !.fs = TRUE, !.id = c.id, !.rd = mode.rd, !.wr = mode.wr, !.written = written,
     !.sclust = c.win[i].clust, !.fsize = c.win[i].size, !.dir_ptr = i]]

\* The entry val is there already.
OpenEntry(c, mode) ==
  CASE mode.create = "NEW" -> Failed(c, "FR_EXIST")
    [] mode.create = "ALWAYS" ->
         Then(Overwrite(c, c.val), LAMBDA d : FileObject(d, c.val, mode, TRUE))
    [] OTHER -> FileObject(c, c.val, mode, FALSE)

f_open(c, name, mode) ==
  LET found(d) == IF d.res = "FR_NO_FILE" /\ mode.create # "EXISTING"
                  THEN Then(dir_register(Ok(d), name),
                            LAMBDA e : FileObject(e, e.val, mode, TRUE))
                  ELSE Then(d, LAMBDA e : OpenEntry(e, mode))
  IN Then(find_volume([c EXCEPT !.fp = Closed]), LAMBDA v : found(dir_find(v, name)))

\* The dirty sector of the file object is written back.
WriteBack(c) ==
  IF ~c.fp.dirty THEN Ok(c)
  ELSE Then(disk_write(c, Data(c.fp.dsect), c.fp.buf), LAMBDA d : [d EXCEPT !.fp.dirty = FALSE])

\* ... and another one takes its place, read from the card or not.
Load(c, sect, read) ==
  LET fill(d) == [d EXCEPT !.fp.dsect = sect, !.fp.buf = IF read THEN d.sec[Data(sect)] ELSE @]
  IN IF c.fp.dsect = sect THEN Ok(c)
     ELSE OrAbort(Then(WriteBack(c),
                       LAMBDA d : IF read THEN Then(disk_read(d), fill) ELSE fill(d)))

csect(fp) == (fp.fptr \div SS) % csize
sector(fp) == clust2sect(fp.clust) + csect(fp)

\* On a cluster boundary the next cluster becomes the current one: val of c.
Follow(c) ==
  IF c.val = 0 THEN Failed(c, "full")
  ELSE IF c.val = 1 THEN Abort(c, "FR_INT_ERR")
  ELSE IF c.val = Ones THEN Abort(c, "FR_DISK_ERR")
  ELSE Ok([c EXCEPT !.fp.clust = c.val, !.fp.sclust = IF @ = 0 THEN c.val ELSE @])

\* As many bytes as the current sector has left are taken from the buffer.
Pick(c, btr) ==
  LET o == c.fp.fptr % SS
      n == Least(SS - o, btr)
  IN [c EXCEPT !.out = @ \o [i \in 1 .. n |-> c.fp.buf[o + i - 1]], !.fp.fptr = @ + n]

\* Whole sectors are read past the buffer, which replaces one of them if dirty.
ReadDirect(c, cc) ==
  LET s(i) == sector(c.fp) + (i - 1) \div SS
      byte(i) == IF c.fp.dirty /\ c.fp.dsect = s(i) THEN c.fp.buf[(i - 1) % SS]
                 ELSE c.sec[Data(s(i))][(i - 1) % SS]
      bytes == [i \in 1 .. cc * SS |-> byte(i)]
  IN OrAbort(Then(disk_read(c),
                  LAMBDA d : [d EXCEPT !.out = @ \o bytes, !.fp.fptr = @ + cc * SS]))

\* On a cluster boundary the next cluster is looked up; a file that has none is damaged.
ReadCluster(c) ==
  IF csect(c.fp) # 0 THEN c
  ELSE Follow([(IF c.fp.fptr = 0 THEN [c EXCEPT !.val = c.fp.sclust] ELSE get_fat(c, c.fp.clust))
                 EXCEPT !.val = IF @ = 0 THEN 1 ELSE @])

ReadSectors(c, btr) ==
  LET cc == Least(btr \div SS, csize - csect(c.fp))
  IN IF clust2sect(c.fp.clust) = 0 THEN Abort(c, "FR_INT_ERR")
     ELSE IF cc > 0 THEN ReadDirect(c, cc)
     ELSE Then(Load(c, sector(c.fp), TRUE), LAMBDA d : Pick(d, btr))

\* A turn of f_read's loop: btr bytes are left to read.
ReadSome(c, btr) ==
  IF ~IsOk(c) \/ btr = 0 THEN c
  ELSE IF c.fp.fptr % SS # 0 THEN Pick(c, btr)
  ELSE Then(ReadCluster(c), LAMBDA d : ReadSectors(d, btr))

\* What is left of the file is a DWORD: behind the end it is a large number.
f_read(c, btr) ==
  LET n == IF c.fp.fptr > c.fp.fsize THEN btr ELSE Least(btr, c.fp.fsize - c.fp.fptr)
  IN Then(Reject(c), LAMBDA v :
       IF c.fp.rd
       THEN Repeat(LAMBDA k, d : ReadSome(d, c.fp.fptr + n - d.fp.fptr),
                   [v EXCEPT !.out = <<>>], n)
       ELSE Failed(v, "FR_DENIED"))

\* The buffer takes as many bytes as the current sector has left.
Put(c, data) ==
  LET o == c.fp.fptr % SS
      n == Least(SS - o, Len(data))
  IN [c EXCEPT !.fp.buf = [i \in 0 .. SS - 1 |->
                             IF i \in o .. o + n - 1 THEN data[i - o + 1] ELSE @[i]],
               !.fp.dirty = TRUE, !.fp.fptr = @ + n]

WriteSectors(c, sect, data, cc) ==
  Repeat(LAMBDA n, d : Then(d, LAMBDA e :
           disk_write(e, Data(sect + n - 1), [i \in 0 .. SS - 1 |-> data[(n - 1) * SS + i + 1]])),
         c, cc)

\* Whole sectors are written past the buffer, which is refreshed if it holds one of them.
WriteDirect(c, data, cc) ==
  LET k == c.fp.dsect - sector(c.fp)
      held == k \in 0 .. cc - 1
      written(d) ==
        [d EXCEPT !.fp.fptr = @ + cc * SS,
                  !.fp.buf = IF held THEN [i \in 0 .. SS - 1 |-> data[k * SS + i + 1]] ELSE @,
                  !.fp.dirty = @ /\ ~held]
  IN OrAbort(Then(WriteSectors(c, sector(c.fp), data, cc), written))

\* On a cluster boundary the next cluster is found, or made.
WriteCluster(c) ==
  IF csect(c.fp) # 0 THEN c
  ELSE Follow(IF c.fp.fptr = 0 /\ c.fp.sclust # 0 THEN [c EXCEPT !.val = c.fp.sclust]
              ELSE create_chain(c, IF c.fp.fptr = 0 THEN 0 ELSE c.fp.clust))

PutSectors(c, data) ==
  LET cc == Least(Len(data) \div SS, csize - csect(c.fp))
  IN IF clust2sect(c.fp.clust) = 0 THEN Abort(c, "FR_INT_ERR")
     ELSE IF cc > 0 THEN WriteDirect(c, data, cc)
     ELSE Then(Load(c, sector(c.fp), c.fp.fptr < c.fp.fsize), LAMBDA d : Put(d, data))

\* A turn of f_write's loop: data is what is left to write.
WriteSome(c, data) ==
  IF ~IsOk(c) \/ data = <<>> THEN c
  ELSE IF c.fp.fptr % SS # 0 THEN Put(c, data)
  ELSE Then(WriteCluster(c), LAMBDA d :
         Then(OrAbort(WriteBack(d)), LAMBDA e : PutSectors(e, data)))

\* When the disk is full, fewer bytes are written and the result is FR_OK.
f_write(c, data) ==
  LET left(d) == SubSeq(data, d.fp.fptr - c.fp.fptr + 1, Len(data))
      written(v) == Repeat(LAMBDA k, d : WriteSome(d, left(d)), v, Len(data))
      done(d) ==
        [d EXCEPT !.fp.fsize = IF d.fp.fptr > @ THEN d.fp.fptr ELSE @, !.fp.written = TRUE]
      end(d) == Then(IF d.res = "full" THEN Ok(d) ELSE d, LAMBDA e : done(e))
  IN Then(Reject(c), LAMBDA v : IF c.fp.wr THEN end(written(v)) ELSE Failed(v, "FR_DENIED"))

\* The sector under the pointer, 0 on a boundary, when the cluster is found.
SeekEnd(c, ofs) ==
  LET s == clust2sect(c.val)
  IN IF ofs % SS = 0 THEN Ok([c EXCEPT !.fp.fptr = @ + ofs, !.val = 0])
     ELSE IF s = 0 THEN Abort([c EXCEPT !.fp.fptr = @ + ofs], "FR_INT_ERR")
     ELSE Ok([c EXCEPT !.fp.fptr = @ + ofs, !.val = s + ofs \div SS])

\* A turn of f_lseek's loop: the chain is followed to the cluster of ofs, and stretched
\* in write mode, until the disk is full (val is 0).
SeekOne(c, ofs) ==
  LET step(d) == CASE d.val = 0 /\ c.fp.wr -> Ok(d)
                   [] d.val = Ones -> Abort(d, "FR_DISK_ERR")
                   [] d.val \in Cluster -> [d EXCEPT !.fp.clust = d.val, !.fp.fptr = @ + bcs]
                   [] OTHER -> Abort(d, "FR_INT_ERR")
  IN IF ~IsOk(c) \/ c.val = 0 \/ ofs - c.fp.fptr <= bcs THEN c
     ELSE step(IF c.fp.wr THEN create_chain(c, c.val) ELSE get_fat(c, c.val))

OnwardByStart(fp, ofs) == fp.fptr > 0 /\ ofs \div bcs >= fp.fptr \div bcs

\* The chain is followed from the current cluster, that of the byte before the position.
Onward(fp, ofs) == fp.fptr > 0 /\ (ofs - 1) \div bcs >= (fp.fptr - 1) \div bcs

\* The cluster to begin with, and the position of its first byte: the current one, the
\* first one, or a new one.
SeekStart(c, ofs) ==
  LET back == [c EXCEPT !.fp.fptr = 0]
      begin(d) == IF d.val \in {1, Ones} THEN d
                  ELSE [d EXCEPT !.fp.sclust = d.val, !.fp.clust = d.val]
  IN IF Onward(c.fp, ofs)
     THEN [c EXCEPT !.fp.fptr = ((@ - 1) \div bcs) * bcs, !.val = c.fp.clust]
     ELSE IF c.fp.sclust # 0 THEN begin([back EXCEPT !.val = c.fp.sclust])
     ELSE begin(create_chain(back, 0))

SeekTo(c, ofs) ==
  LET loop(d) == Repeat(LAMBDA n, e : SeekOne(e, ofs), d, ofs \div bcs)
      end(d) == Then(d, LAMBDA e : SeekEnd(e, IF e.val = 0 THEN bcs ELSE ofs - e.fp.fptr))
      go(d) == CASE d.val = 0 -> Ok(d)
                 [] d.val = 1 -> Abort(d, "FR_INT_ERR")
                 [] d.val = Ones -> Abort(d, "FR_DISK_ERR")
                 [] OTHER -> end(loop(d))
  IN IF ofs = 0 THEN [c EXCEPT !.fp.fptr = 0, !.val = 0] ELSE go(SeekStart(c, ofs))

\* The sector of the new position is loaded; a writer's file is stretched to it.
f_lseek(c, offset) ==
  LET fp == c.fp
      ofs == IF offset > fp.fsize /\ ~fp.wr THEN fp.fsize ELSE offset
      fill(d) == IF d.fp.fptr % SS # 0 THEN Load(d, d.val, TRUE) ELSE d
      grow(d) == IF d.fp.fptr <= fp.fsize THEN d
                 ELSE [d EXCEPT !.fp.fsize = d.fp.fptr, !.fp.written = TRUE]
  IN Then(Reject(c), LAMBDA v :
       Then(SeekTo(v, ofs), LAMBDA d : Then(fill(d), LAMBDA e : grow(e))))

\* The directory entry is written last.
f_sync(c) ==
  LET i == c.fp.dir_ptr
      enter(d) == [d EXCEPT !.win[i].size = c.fp.fsize, !.win[i].clust = c.fp.sclust,
                            !.wflag = TRUE, !.fp.written = FALSE]
      flush(v) == Then(WriteBack(v), LAMBDA d :
                    Then(move_window(d, Dir(i)), LAMBDA e : sync_fs(enter(e))))
  IN Then(validate(c), LAMBDA v : IF c.fp.written THEN flush(v) ELSE v)

f_close(c) == Then(f_sync(c), LAMBDA d : [d EXCEPT !.fp = Closed])

\* The chain ends with the cluster of the position.
Shorten(c) ==
  LET end(d) == CASE d.val = Ones -> Failed(d, "FR_DISK_ERR")
                  [] d.val = 1 -> Failed(d, "FR_INT_ERR")
                  [] d.val \in n_fatent .. Ones - 1 -> Ok(d)
                  [] OTHER -> Then(put_fat(d, c.fp.clust, EOC), LAMBDA e : remove_chain(e, d.val))
  IN IF c.fp.fptr = 0 THEN [remove_chain(c, c.fp.sclust) EXCEPT !.fp.sclust = 0]
     ELSE end(get_fat(c, c.fp.clust))

f_truncate(c) ==
  LET cut(v) == Shorten([v EXCEPT !.fp.fsize = v.fp.fptr, !.fp.written = TRUE])
  IN Then(Reject(c), LAMBDA v :
       IF ~v.fp.wr THEN Failed(v, "FR_DENIED")
       ELSE IF v.fp.fsize <= v.fp.fptr THEN v
       ELSE OrAbort(Then(cut(v), LAMBDA d : WriteBack(d))))

\* The entry is removed before its chain.
f_unlink(c, name) ==
  LET free(d, clst) == IF clst = 0 THEN d ELSE remove_chain(d, clst)
      unlink(found) == Then(dir_remove(found, found.val), LAMBDA d :
                         Then(free(d, found.win[found.val].clust), LAMBDA e : sync_fs(e)))
  IN Then(find_volume(c), LAMBDA v : Then(dir_find(v, name), LAMBDA d : unlink(d)))

\* The new entry, which dir_register has made, gets the old one's contents; then the old
\* one, number i, is removed.
Move(c, i, entry) ==
  dir_remove([c EXCEPT !.win[c.val].clust = entry.clust, !.win[c.val].size = entry.size], i)

\* The new entry is made before the old one is removed.
f_rename(c, old, name) ==
  LET move(d, i, entry) ==
        CASE IsOk(d) -> Failed(d, "FR_EXIST")
          [] d.res = "FR_NO_FILE" -> Then(dir_register(Ok(d), name), LAMBDA new :
                                       Then(Move(new, i, entry), LAMBDA e : sync_fs(e)))
          [] OTHER -> d
  IN Then(find_volume(c), LAMBDA v :
       Then(dir_find(v, old), LAMBDA d : move(dir_find(d, name), d.val, d.win[d.val])))

\* FAT32 and FAT16: the FAT is searched only if the number is not known; what was
\* counted before an error is kept.
CountOne(c, clst) ==
  LET count(d) == [d EXCEPT !.val = IF d.win[clst] = 0 THEN @ + 1 ELSE @]
  IN Then(c, LAMBDA d : Then(move_window(d, Fat(clst)), count))

CountFree(c) ==
  LET known(d) == [d EXCEPT !.free_clust = d.val, !.fsi = Dirty(@)]
  IN known(Repeat(LAMBDA n, d : CountOne(d, n + 1), [c EXCEPT !.val = 0], Clusters))

f_getfree(c) ==
  Then(find_volume(c), LAMBDA v :
    IF v.free_clust <= n_fatent - 2 THEN [v EXCEPT !.val = v.free_clust] ELSE CountFree(v))
===============================================================================
