------------------------------- MODULE IsfsFile -------------------------------
(***************************************************************************)
(* Files and directories of the mounted ISFS volumes: isfs.c and dotab.c   *)
(* of arm/storage/nand/isfs, the path lookup of super.c, isfs_read_volume  *)
(* of volume.c with the AES engine (crypto/aes.c) it decrypts with.        *)
(*                                                                         *)
(* A volume is a file table, a chain of clusters per file, a bank of the   *)
(* flash and a key; none of them changes while the loader runs.  The unit  *)
(* of data is an AES block: block u of cluster c of bank b is <<b, c, u>>  *)
(* when it is decrypted with the key of b and the block before it as IV,   *)
(* and "garbled" otherwise.  A path is the sequence of its parts between   *)
(* slashes, without the volume: "/d/x" is <<"", "d", "x">>.                *)
(*                                                                         *)
(* The calls are made by one thread and are one action each; a read of     *)
(* the flash, or the allocation of a buffer, may fail in any of them.      *)
(***************************************************************************)
EXTENDS Integers, Sequences, FiniteSets

CONSTANTS
  Volumes,     \* isfs_num_volumes()
  Fst, Fat,    \* of each volume: its file table and its chains
  Cluster,     \* AES blocks per cluster
  AesMax,      \* AES blocks per aes_command, 0x80
  Files, Dirs, \* handles
  Paths,       \* paths that are looked up
  Sizes,       \* lengths that are read
  Seeks        \* <<offset, whence>>

Nil == -1      \* 0xFFFF in `sub' and `sib', NULL
Last == -2     \* FAT_CLUSTER_LAST
Volume == 0 .. Volumes - 1
Empty == ""    \* the part of a path before a slash at its start, or between two

\* Entries on the same level or below have a lower rank: a table with a cycle
\* would keep isfs_find_fst from returning.  Where a chain ends is not a cluster.
ASSUME IsfsFileAssumption ==
  /\ Volumes \in Nat \ {0} /\ Cluster \in Nat \ {0} /\ AesMax \in Nat \ {0}
  /\ \A v \in Volume : \A n \in DOMAIN Fst[v] :
       LET e == Fst[v][n]
       IN  /\ e.type \in {"file", "dir", "unknown"} /\ e.name # Empty
           /\ e.sib \in (DOMAIN Fst[v] \ {0}) \cup {Nil}
           /\ e.type = "dir" => e.sub \in (DOMAIN Fst[v] \ {0}) \cup {Nil}
           /\ e.type = "file" => e.size \in Nat /\ e.sub \in DOMAIN Fat[v] \cup {Last}
  /\ \A v \in Volume : /\ 0 \in DOMAIN Fst[v] /\ Nil \notin DOMAIN Fst[v]
                       /\ Fst[v][0].type = "dir" /\ Fst[v][0].sib = Nil
  /\ \A v \in Volume : IsFiniteSet(DOMAIN Fst[v])
       /\ \E rank \in [DOMAIN Fst[v] -> 0 .. Cardinality(DOMAIN Fst[v]) - 1] :
            \A n \in DOMAIN Fst[v] :
              /\ Fst[v][n].sib # Nil => rank[Fst[v][n].sib] < rank[n]
              /\ Fst[v][n].type = "dir" /\ Fst[v][n].sub # Nil => rank[Fst[v][n].sub] < rank[n]
  /\ \A v \in Volume : \A c \in DOMAIN Fat[v] : Fat[v][c] \in DOMAIN Fat[v] \cup {Last}
  /\ Paths \subseteq Seq(STRING) /\ \A path \in Paths : Len(path) > 0 /\ path[1] = Empty
  /\ Sizes \subseteq Nat
  /\ Seeks \subseteq Int \X {"SET", "CUR", "END"}

VARIABLES
  initialized, mounted,  \* isfs_init; a mounted volume is also a device
  bank,                  \* the bank nand_enable_banks has selected
  key,                   \* the volume whose key the AES engine holds
  files, dirs,           \* the handles
  last                   \* history: the last call and what it returned

vars == <<initialized, mounted, bank, key, files, dirs, last>>

ClosedFile == [open |-> FALSE]
ClosedDir == [open |-> FALSE]
NoCall == [op |-> "none"]

Init ==
  /\ initialized = FALSE /\ mounted = [v \in Volume |-> FALSE]
  /\ bank = Nil /\ key = Nil
  /\ files = [h \in Files |-> ClosedFile]
  /\ dirs = [d \in Dirs |-> ClosedDir]
  /\ last = NoCall

---------------------------------------------------------------------------
\* isfs_find_fst, isfs_check_file and isfs_check_dir.  What is left of the path
\* is its parts from i on; `find' is what isfs_find_fst returns for an entry and an i.

\* while(*remaining == '/') remaining++
SkipSlashes(path, i) ==
  CHOOSE j \in i .. Len(path) :
    /\ \A k \in i .. j - 1 : path[k] = Empty
    /\ j = Len(path) \/ path[j] # Empty

\* strcmp of the whole path that is left with the entry's name.
isfs_check_fileFirst(v, path, n, i) == IF path[i] = Fst[v][n].name THEN n ELSE Nil
isfs_check_file(v, path, n, i) ==
  IF i = Len(path) /\ path[i] = Fst[v][n].name THEN n ELSE Nil

\* An empty part is any directory's name.
isfs_check_dir(v, path, n, i, find) ==
  LET e == Fst[v][n]
  IN  IF path[i] \notin {Empty, e.name} THEN Nil
      ELSE IF e.sub # Nil /\ i < Len(path) /\ ~(i + 1 = Len(path) /\ path[i + 1] = Empty)
           THEN find[<<e.sub, SkipSlashes(path, i + 1)>>]
           ELSE n

CheckEntry(v, path, n, i, find) ==
  CASE Fst[v][n].type = "file" -> isfs_check_file(v, path, n, i)
    [] Fst[v][n].type = "dir" -> isfs_check_dir(v, path, n, i, find)
    [] OTHER -> Nil

\* The siblings that follow the entry first, then the entry itself.
isfs_find_fst(v, path) ==
  LET find[q \in (DOMAIN Fst[v]) \X (1 .. Len(path))] ==
        LET sib == Fst[v][q[1]].sib
            found == IF sib # Nil THEN find[<<sib, q[2]>>] ELSE Nil
        IN  IF found # Nil THEN found ELSE CheckEntry(v, path, q[1], q[2], find)
  IN  find

Lookup(v, path) == isfs_find_fst(v, path)[<<0, 1>>]

---------------------------------------------------------------------------
\* fat[fat[... c]], n times.
NextCluster(v, c) == IF c \in DOMAIN Fat[v] THEN Fat[v][c] ELSE Last
Follow(v, c, n) ==
  LET to[k \in Nat] == IF k = 0 THEN c ELSE NextCluster(v, to[k - 1])
  IN  to[n]

\* aes_decrypt hands the engine AesMax blocks at a time.  Within a command each
\* block is the IV of the next; the first one starts from aes_empty_iv's or, when
\* keep_iv is set, from the one the command before has left.
keep_iv(command) == command > 0
IvAt(u) == IF u % AesMax = 0 /\ ~keep_iv(u \div AesMax) THEN "zero" ELSE "previous"

\* Block u of cluster c as isfs_read_volume leaves it in the buffer.
Block(b, k, c, u) ==
  IF k = b /\ IvAt(u) = (IF u = 0 THEN "zero" ELSE "previous")
  THEN <<b, c, u>> ELSE <<"garbled">>

\* What isfs_read_volume sets up before each cluster: bank and key.
SetUpKeyOnly(v) == key' = v /\ bank' = IF bank = Nil THEN v ELSE bank
SetUp(v) == key' = v /\ bank' = v

Size(f) == Fst[f.volume][f.fst].size
---------------------------------------------------------------------------
\* isfs_init: every superblock is read; isfs_load_super may fail for any volume.
isfs_init ==
  /\ ~initialized /\ initialized' = TRUE
  /\ mounted' \in [Volume -> BOOLEAN]
  /\ bank' = Volumes - 1
  /\ last' = NoCall
  /\ UNCHANGED <<key, files, dirs>>

\* isfs_fini: the handles stay, their device does not.
isfs_fini ==
  /\ initialized /\ initialized' = FALSE
  /\ mounted' = [v \in Volume |-> FALSE]
  /\ last' = NoCall
  /\ UNCHANGED <<bank, key, files, dirs>>

Stat(v, path) ==
  /\ mounted[v]
  /\ last' = [op |-> "stat", volume |-> v, path |-> path, fst |-> Lookup(v, path)]
  /\ UNCHANGED <<initialized, mounted, bank, key, files, dirs>>

\* _isfsdev_open_r with flags that ask for more than reading fails before isfs_open.
isfs_open(h, v, path) ==
  LET n == Lookup(v, path)
      ok == n # Nil /\ Fst[v][n].type = "file"
  IN  /\ mounted[v] /\ ~files[h].open
      /\ files' = IF ok
                  THEN [files EXCEPT ![h] =
                         [open |-> TRUE, volume |-> v, fst |-> n, offset |-> 0,
                          cluster |-> Fst[v][n].sub, seek |-> "none"]]
                  ELSE files
      /\ last' = [op |-> "open", volume |-> v, path |-> path,
                  fst |-> IF ok THEN n ELSE Nil]
      /\ UNCHANGED <<initialized, mounted, bank, key, dirs>>

isfs_close(h) ==
  /\ files[h].open /\ mounted[files[h].volume]
  /\ files' = [files EXCEPT ![h] = ClosedFile]
  /\ last' = NoCall
  /\ UNCHANGED <<initialized, mounted, bank, key, dirs>>

---------------------------------------------------------------------------
\* isfs_seek.  The sum of two offsets is unsigned: below zero it is beyond any size.
SeekFails(f, offset, whence) ==
  LET sum == f.offset + offset
  IN  IF whence = "SET" THEN offset < 0 \/ offset > Size(f)
      ELSE sum < 0 \/ sum > Size(f) \/ offset + Size(f) < 0

SeekTarget(f, offset, whence) ==
  CASE whence = "SET" -> offset
    [] whence = "CUR" -> f.offset + offset
    [] whence = "END" -> Size(f) + offset

\* while(size > 8 * PAGE_SIZE): the clusters that are left behind.
ClustersBehind(offset) == IF offset = 0 THEN 0 ELSE (offset - 1) \div Cluster

\* `seek' remembers a seek to the start of a cluster that is not the first one,
\* or beyond the end: the two the code does not handle.
SeekKind(f, offset) ==
  IF offset > Size(f) THEN "beyond"
  ELSE IF offset > 0 /\ offset % Cluster = 0 THEN "boundary" ELSE "inside"

Sought(f, to) ==
  [f EXCEPT !.offset = to, !.seek = SeekKind(f, to),
            !.cluster = Follow(f.volume, Fst[f.volume][f.fst].sub, ClustersBehind(to))]

isfs_seek(h, offset, whence) ==
  LET f == files[h]
  IN  /\ f.open /\ mounted[f.volume]
      /\ files' = IF SeekFails(f, offset, whence) THEN files
                  ELSE [files EXCEPT ![h] = Sought(f, SeekTarget(f, offset, whence))]
      /\ last' = NoCall
      /\ UNCHANGED <<initialized, mounted, bank, key, dirs>>

---------------------------------------------------------------------------
\* isfs_read

\* The file after `done' blocks: at the end of a cluster it goes on to the next.
AdvancedLate(f, done) ==
  [f EXCEPT !.offset = @ + done,
            !.cluster = IF done = 0 THEN @
                        ELSE Follow(f.volume, @, (f.offset + done - 1) \div Cluster
                                                    - f.offset \div Cluster)]
Advanced(f, done) ==
  [f EXCEPT !.offset = @ + done,
            !.cluster = Follow(f.volume, @, (f.offset + done) \div Cluster
                                               - f.offset \div Cluster)]

\* The blocks copied to the caller's buffer, cluster by cluster.
Copied(f, done) ==
  [n \in 1 .. done |->
     LET at == f.offset + n - 1
     IN  Block(bank', key', Follow(f.volume, f.cluster, at \div Cluster - f.offset \div Cluster),
               at % Cluster)]

\* The flash may fail at the start of the read or of any cluster after it.
MayFailAt(f, size) ==
  {done \in 0 .. size - 1 : done = 0 \/ (f.offset + done) % Cluster = 0}

\* A read from beyond the end is left out: its size wraps around and it leaves
\* the caller's buffer.
Readable(h) ==
  files[h].open /\ mounted[files[h].volume] /\ files[h].offset <= Size(files[h])

ReadTo(h, asked, done, rc) ==
  /\ files' = [files EXCEPT ![h] = Advanced(files[h], done)]
  /\ last' = [op |-> "read", file |-> files[h], asked |-> asked, rc |-> rc,
              data |-> Copied(files[h], done)]

isfs_read(h, asked) ==
  LET f == files[h]
      size == IF asked + f.offset > Size(f) THEN Size(f) - f.offset ELSE asked
  IN  /\ Readable(h)
      /\ \/ /\ size > 0 /\ SetUp(f.volume)
            /\ ReadTo(h, asked, size, size)
         \/ /\ SetUp(f.volume)                                \* -4
            /\ \E done \in MayFailAt(f, size) : ReadTo(h, asked, done, -1)
         \/ /\ size = 0 /\ UNCHANGED <<bank, key>>
            /\ ReadTo(h, asked, 0, 0)
         \/ /\ UNCHANGED <<bank, key>>                        \* -3
            /\ ReadTo(h, asked, 0, -1)
      /\ UNCHANGED <<initialized, mounted, dirs>>

---------------------------------------------------------------------------
\* Directories.  An empty one cannot be opened: isfs_diropen returns -2.
isfs_diropen(d, v, path) ==
  LET n == Lookup(v, path)
  IN  /\ mounted[v] /\ ~dirs[d].open
      /\ n # Nil /\ Fst[v][n].type = "dir" /\ Fst[v][n].sub # Nil
      /\ dirs' = [dirs EXCEPT ![d] = [open |-> TRUE, volume |-> v, dir |-> n,
                                      child |-> Fst[v][n].sub, listed |-> <<>>]]
      /\ last' = NoCall
      /\ UNCHANGED <<initialized, mounted, bank, key, files>>

\* isfs_dirread, which _isfsdev_dirnext_r turns into -1 when there is no child.
isfs_dirread(d) ==
  LET r == dirs[d]
  IN  /\ r.open /\ mounted[r.volume]
      /\ dirs' = IF r.child = Nil THEN dirs
                 ELSE [dirs EXCEPT ![d].child = Fst[r.volume][r.child].sib,
                                   ![d].listed = Append(@, r.child)]
      /\ last' = NoCall
      /\ UNCHANGED <<initialized, mounted, bank, key, files>>

\* The history `listed' starts anew.
isfs_dirreset(d) ==
  LET r == dirs[d]
  IN  /\ r.open /\ mounted[r.volume]
      /\ dirs' = [dirs EXCEPT ![d].child = Fst[r.volume][r.dir].sub, ![d].listed = <<>>]
      /\ last' = NoCall
      /\ UNCHANGED <<initialized, mounted, bank, key, files>>

isfs_dirclose(d) ==
  /\ dirs[d].open /\ mounted[dirs[d].volume]
  /\ dirs' = [dirs EXCEPT ![d] = ClosedDir]
  /\ last' = NoCall
  /\ UNCHANGED <<initialized, mounted, bank, key, files>>

FileCall(h) ==
  \/ isfs_close(h)
  \/ \E n \in Sizes : isfs_read(h, n)
  \/ \E s \in Seeks : isfs_seek(h, s[1], s[2])

DirCall(d) == isfs_dirread(d) \/ isfs_dirreset(d) \/ isfs_dirclose(d)

PathCall(handles, v, path) ==
  \/ Stat(v, path)
  \/ \E h \in handles : isfs_open(h, v, path)
  \/ \E d \in Dirs : isfs_diropen(d, v, path)

Call(handles) ==
  \/ isfs_init \/ isfs_fini
  \/ \E v \in Volume, path \in Paths : PathCall(handles, v, path)
  \/ \E h \in handles : FileCall(h)
  \/ \E d \in Dirs : DirCall(d)

---------------------------------------------------------------------------
\* Types of the handles and of what they point to.
TypeOK ==
  /\ initialized \in BOOLEAN /\ mounted \in [Volume -> BOOLEAN]
  /\ bank \in Volume \cup {Nil} /\ key \in Volume \cup {Nil}
  /\ \A h \in Files : files[h].open =>
       /\ files[h].volume \in Volume
       /\ files[h].fst \in DOMAIN Fst[files[h].volume]
       /\ files[h].offset \in Nat
       /\ files[h].cluster \in DOMAIN Fat[files[h].volume] \cup {Last}
  /\ \A d \in Dirs : dirs[d].open => dirs[d].child \in DOMAIN Fst[dirs[d].volume] \cup {Nil}

\* The clusters of file n, followed from its entry: what a reader of the flash
\* would take the file to be.
ClusterOf(v, n, offset) == Follow(v, Fst[v][n].sub, offset \div Cluster)

\* A handle stands in the cluster its offset falls in, also after a read that
\* failed half way: a caller that repeats the read gets the bytes that follow.
\* The exception is a seek to a cluster's start (isfs_seek's loop stops one
\* cluster short) or beyond the end.
PlaceIsRight ==
  /\ TypeOK
  /\ \A h \in Files : files[h].open /\ files[h].seek \in {"none", "inside"} =>
       files[h].cluster = ClusterOf(files[h].volume, files[h].fst, files[h].offset)

\* What a read delivers is the file's own bytes from where the handle stood, as
\* many as were asked for or are left, whichever volume and file the read before
\* it was from (isfs_read, isfs_read_volume, aes_decrypt).
ReadIsRight ==
  last.op = "read" /\ last.rc >= 0 /\ last.file.seek \in {"none", "inside"} =>
    LET f == last.file
        left == Size(f) - f.offset
    IN  /\ last.rc = IF last.asked < left THEN last.asked ELSE left
        /\ last.data = [n \in 1 .. last.rc |->
             <<f.volume, ClusterOf(f.volume, f.fst, f.offset + n - 1),
               (f.offset + n - 1) % Cluster>>]

\* The entries from n to the end of its list, and the children of directory n.
Siblings(v, n) ==
  LET from[m \in DOMAIN Fst[v] \cup {Nil}] ==
        IF m = Nil THEN <<>> ELSE <<m>> \o from[Fst[v][m].sib]
  IN  from[n]
Children(v, n) == Siblings(v, Fst[v][n].sub)

IsNamed(v, m, name) == Fst[v][m].name = name /\ Fst[v][m].type # "unknown"

\* No two entries of a directory have the same name.
ASSUME NamesAssumption ==
  \A v \in Volume : \A n \in DOMAIN Fst[v] : Fst[v][n].type = "dir" =>
    LET s == Children(v, n)
    IN  \A k, l \in DOMAIN s :
          Fst[v][s[l]].type # "unknown" /\ IsNamed(v, s[k], Fst[v][s[l]].name) => k = l

\* The entry that names the child of n with that name, if there is one.
Child(v, n, name) ==
  LET s == Children(v, n)
      named == {k \in DOMAIN s : IsNamed(v, s[k], name)}
  IN  IF Fst[v][n].type # "dir" \/ named = {} THEN Nil
      ELSE s[CHOOSE k \in named : TRUE]

\* The entry the first i parts of a path name, by walking the tree down from the root.
Walk(v, path, i) ==
  LET to[k \in Nat] ==
        IF k = 0 THEN 0
        ELSE IF to[k - 1] = Nil \/ path[k] = Empty THEN to[k - 1]
        ELSE Child(v, to[k - 1], path[k])
  IN  to[i]

\* "x/" names a directory.
Named(v, path) ==
  LET n == Walk(v, path, Len(path))
  IN  IF n # Nil /\ path[Len(path)] = Empty /\ Fst[v][n].type # "dir" THEN Nil ELSE n

\* Two slashes at the end are taken for any directory's name.
EndsTwice(path) == Len(path) > 2 /\ path[Len(path)] = Empty /\ path[Len(path) - 1] = Empty

\* A path that names something finds exactly that, though the search tries the
\* siblings from the last to the first and takes an empty part for any name; and
\* a path that names nothing never yields a file (isfs_find_fst; it may yield an
\* empty directory on the way, which isfs_check_dir returns in its place).
LookupIsRight ==
  last.op \in {"stat", "open"} /\ ~EndsTwice(last.path) =>
    LET n == Named(last.volume, last.path)
    IN  /\ last.fst # Nil /\ Fst[last.volume][last.fst].type = "file" => last.fst = n
        /\ n # Nil /\ last.op = "stat" => last.fst = n
        /\ n # Nil /\ last.op = "open" /\ Fst[last.volume][n].type = "file" => last.fst = n

\* A directory has been listed, each child once and in order, when
\* _isfsdev_dirnext_r returns -1, however often it was reset before.
ListedWhole ==
  \A d \in Dirs : dirs[d].open =>
    LET all == Children(dirs[d].volume, dirs[d].dir)
    IN  /\ Len(dirs[d].listed) <= Len(all)
        /\ dirs[d].listed = SubSeq(all, 1, Len(dirs[d].listed))
        /\ dirs[d].child = Nil => dirs[d].listed = all

\* Directories are what their lists make them: for a path through them, and to list.
TreeIsRight == LookupIsRight /\ ListedWhole
===============================================================================
