-------------------------------- MODULE Ancast --------------------------------
(***************************************************************************)
(* ancast_ppc_load of arm/storage/ancast.c: the PowerPC's kernel image is  *)
(* read from slc to its load address and checked, by stdio calls that end  *)
(* in the ones of IsfsFile.  Other code uses the volumes before and after, *)
(* not during.                                                             *)
(*                                                                         *)
(* An image is what its bytes say: the magic, the header's end (which      *)
(* depends on the signature's type), the target, whether there is a load   *)
(* address for the device, the length of the body, and whether the body's  *)
(* hash is that of the header.  Lengths are in AES blocks.  stdio is       *)
(* external: an fseek or an fread is one call of the device.               *)
(***************************************************************************)
EXTENDS IsfsFile

CONSTANTS
  ImageFile,                \* the handle of ctx.file
  ImageVolume, ImagePath,   \* "slc:/sys/title/00050010/1000400a/code/kernel.img"
  Buffer,                   \* sizeof(buffer), 0x200 bytes
  Images                    \* what kernel.img may be

ASSUME AncastAssumption ==
  /\ ImageFile \in Files /\ ImageVolume \in Volume /\ ImagePath \in Paths
  /\ Buffer \in 1 .. Cluster
  /\ Images \subseteq [magic : BOOLEAN, header : {Nil} \cup 1 .. Buffer, target : {"ppc", "other"},
                       device : BOOLEAN, body : Nat, hash : BOOLEAN]

VARIABLES
  img,       \* the image on the flash
  at,        \* where ancast_ppc_load is: "none", its steps, "returned"
  length,      \* ctx->size
  seen,      \* did the buffer get the file's first bytes?
  mem,       \* the blocks at the load address
  vector,    \* was an address returned?
  faulted    \* history: has a read of this load failed?

NoImage == [magic |-> FALSE, header |-> Nil, target |-> "other", device |-> FALSE,
            body |-> 0, hash |-> FALSE]

avars == <<img, at, length, seen, mem, vector, faulted>>
allvars == <<vars, avars>>

AncastInit ==
  /\ Init
  /\ img = NoImage
  /\ at = "none" /\ length = 0 /\ seen = FALSE /\ mem = <<>>
  /\ vector = FALSE /\ faulted = FALSE

Step(from, to) == at = from /\ at' = to
GiveUp(from) == Step(from, "returned") /\ UNCHANGED <<img, length, seen, mem, vector, faulted>>

\* What a file that is shorter than its header says of its target: zeros.
HeaderRead == img.header <= length
Whole == img.header + img.body

---------------------------------------------------------------------------
\* ancast_init.  The loader has nothing else open on the volumes when it comes
\* here; what the image is matters from here on.
Open ==
  /\ \A h \in Files : ~files[h].open
  /\ \A d \in Dirs : ~dirs[d].open
  /\ img' \in Images
  /\ \/ /\ isfs_open(ImageFile, ImageVolume, ImagePath)
        /\ Step("none", IF files'[ImageFile].open THEN "seek end" ELSE "returned")
     \/ /\ ~mounted[ImageVolume] /\ UNCHANGED vars /\ Step("none", "returned")
  /\ UNCHANGED <<length, seen, mem, vector, faulted>>

SeekEnd ==
  /\ Step("seek end", "rewind")
  /\ isfs_seek(ImageFile, 0, "END")
  /\ length' = files'[ImageFile].offset
  /\ UNCHANGED <<img, seen, mem, vector, faulted>>

Rewind ==
  /\ \/ Step("rewind", "buffer") \/ Step("rewind again", "judge") \/ Step("rewind to load", "load")
  /\ isfs_seek(ImageFile, 0, "SET")
  /\ UNCHANGED <<img, length, seen, mem, vector, faulted>>

\* fread of at most the buffer; nobody looks at its result.
ReadBuffer ==
  /\ Step("buffer", "rewind again")
  /\ isfs_read(ImageFile, IF Buffer < length THEN Buffer ELSE length)
  /\ seen' = (last'.rc > 0)
  /\ faulted' = (last'.rc < 0)
  /\ UNCHANGED <<img, length, mem, vector>>

\* No magic, or a signature of no known type: the file is not closed.
NotAncast ==
  /\ ~seen \/ ~img.magic \/ img.header = Nil
  /\ GiveUp("judge") /\ UNCHANGED vars

\* The target of ancast_ppc_load, and the load address of ancast_load.
ForThisProcessor == HeaderRead /\ img.target = "ppc" /\ img.device
Judge ==
  /\ seen /\ img.magic /\ img.header # Nil
  /\ IF ForThisProcessor
     THEN Step("judge", "rewind to load") /\ UNCHANGED vars
     ELSE Step("judge", "returned") /\ isfs_close(ImageFile)
  /\ UNCHANGED <<img, length, seen, mem, vector, faulted>>

---------------------------------------------------------------------------
\* ancast_load
Load ==
  /\ isfs_read(ImageFile, Whole)
  /\ Step("load", IF last'.rc = Whole THEN "hash" ELSE "short")
  /\ mem' = last'.data
  /\ faulted' = (faulted \/ last'.rc < 0)
  /\ UNCHANGED <<img, length, seen, vector>>

\* The blocks of the whole image, as they are on the flash.
Content ==
  LET n == Lookup(ImageVolume, ImagePath)
  IN  [b \in 1 .. Whole |->
         <<ImageVolume, ClusterOf(ImageVolume, n, b - 1), (b - 1) % Cluster>>]

BodyOf(blocks) == SubSeq(blocks, img.header + 1, Whole)
HashMatches == img.hash /\ BodyOf(mem) = BodyOf(Content)

\* memcmp of the hashes; when they differ the file is not closed.
WrongHash == GiveUp("hash") /\ ~HashMatches /\ UNCHANGED vars

\* ancast_fini, then `return errno': when that is zero ancast_ppc_load goes on
\* with the ctx that ancast_fini has zeroed, and the address it returns is NULL.
Short == isfs_close(ImageFile) /\ GiveUp("short")

ReturnAnyway ==
  /\ Step("hash", "returned")
  /\ isfs_close(ImageFile)
  /\ vector' = TRUE
  /\ UNCHANGED <<img, length, seen, mem, faulted>>
\* dc_flushrange, ancast_fini, and ctx.body
ReturnVector ==
  /\ Step("hash", "returned")
  /\ HashMatches
  /\ isfs_close(ImageFile)
  /\ vector' = TRUE
  /\ UNCHANGED <<img, length, seen, mem, faulted>>

AncastStep ==
  \/ SeekEnd \/ Rewind \/ ReadBuffer \/ NotAncast \/ Judge
  \/ Load \/ WrongHash \/ Short \/ ReturnVector

Others ==
  /\ at = "none"
  /\ Call(Files \ {ImageFile})
  /\ UNCHANGED avars

\* Another call has a ctx of its own; a file this one left open is lost.
Again ==
  /\ at = "returned" /\ at' = "none"
  /\ files' = [files EXCEPT ![ImageFile] = ClosedFile] /\ last' = NoCall
  /\ img' = NoImage /\ length' = 0 /\ seen' = FALSE /\ mem' = <<>>
  /\ vector' = FALSE /\ faulted' = FALSE
  /\ UNCHANGED <<initialized, mounted, bank, key, dirs>>

AncastNext == Others \/ Open \/ AncastStep \/ Again

AncastSpec == AncastInit /\ [][AncastNext]_allvars

---------------------------------------------------------------------------
\* An address is returned only for an image that is in memory as it is on the
\* flash, whole, for this processor and with the hash its header gives, whatever
\* reads failed on the way and whatever the volumes were used for before.
VectorIsVerified ==
  vector => /\ img.magic /\ img.target = "ppc" /\ img.device /\ img.hash
            /\ mem = Content

\* An image that is sound and fits its file is loaded unless a read fails: the
\* size taken at its end, where isfs_seek may leave the handle one cluster short,
\* does no harm.
SoundIsLoaded ==
  LET n == Lookup(ImageVolume, ImagePath)
  IN  /\ at = "returned" /\ seen /\ ~faulted
      /\ img.magic /\ img.header # Nil /\ ForThisProcessor /\ img.hash
      /\ Whole <= Fst[ImageVolume][n].size
      => vector

\* ctx.file is closed when ancast_ppc_load returns, unless the file is not an
\* image or its hash is wrong.
ClosedUnlessRejected ==
  at = "returned" /\ files[ImageFile].open =>
    ~seen \/ ~img.magic \/ img.header = Nil \/ ~img.hash

\* The outcome of ancast_ppc_load is right: all three.
ImageIsRight == VectorIsVerified /\ SoundIsLoaded /\ ClosedUnlessRejected
===============================================================================
