# wiiu-loader in TLA+

wiiu-loader runs on the Wii U's ARM9 ("Starbuck") after a boot exploit. It brings
up the SD card and the NAND, loads an ELF for the PowerPC, starts the PowerPC and
then serves it over a mailbox until the machine is switched off. There is one core,
no operating system, and one interrupt handler; the hard parts are the interplay
of that handler with the code it interrupts, and the stores (ISFS superblocks, ELF
headers, card state) that are read from media that may be damaged.

## 1. Inventory

| component | code | state | operations | what is hard |
|---|---|---|---|---|
| SD host driver | `arm/storage/sd/sdhc.c` | `intr_status`, `data_command`, the controller's registers | `sdhc_exec_command` and its parts, `sdhc_intr`, resets | the handler and the program share `intr_status`; the handler sends commands itself |
| SD card | `arm/storage/sd/sdcard.c` | `card` (inserted, selected, new_card, rca) | attach, discovery, select, read, write | discovery runs in the interrupt handler; checked state is stale when used |
| Sector layer | `fatfs/diskio.c` | bounce buffer | chunked reads and writes | chunk boundaries, a card exchanged between chunks |
| FatFs | `fatfs/ff.c` | `FATFS` (window, free count), `FIL` (position, buffer) | mount, open, read, write, seek, truncate, sync, unlink, rename | several copies of a sector; several disk accesses a call, each of which may fail |
| Device table of the SD card | `fatfs/elm.c` | open files of the C library | the same for `fopen` and its kin | modes, error codes |
| Interrupts | `arm/system/irq.c`, `irq_asm.S` | mask and flag registers | dispatch, enable, `irq_kill`, `irq_wait` | order of acknowledging and serving; sleeping without losing a wake-up |
| NAND driver | `arm/storage/nand/nand.c` | `irq_flag`, controller | page reads, ECC | one completion per wait, wait for interrupt |
| ISFS superblocks | `nand/isfs/super.c`, `volume.c` | superblock of each volume | find, load, retry | newest valid of many superblocks |
| ISFS files | `nand/isfs/isfs.c`, `dotab.c` | handles, bank, AES key and IV | stat, open, seek, read, directories | cluster boundaries, reads that fail half way, global keys |
| Ancast images | `arm/storage/ancast.c` | `ctx`, the image in memory | `ancast_ppc_load` | errors that look like success |
| PowerPC start | `arm/system/ppc.c`, `ppc_elf.c` | stub memory, entry point | load ELF, race the boot ROM, jump | damaged or unusual ELF files; mailbox hand-shake |
| Application | `arm/application.c`, `ipc_protocol.h` | IPC registers | load, quiesce, serve PPC commands | order of shutting devices down; commands while quiescing |
| Caches | `arm/system/memory.c` | data cache, AHB buffers | flush, invalidate | two processors and one word |
| Crypto | `arm/crypto/` | AES and SHA engines | chunked runs, HMAC, OTP, SEEPROM | chaining of IVs from chunk to chunk |
| Time | `common/utils.c` | 32-bit timer | `udelay` | wrap-around |
| System management | `arm/system/smc.c`, `i2c.c` | I2C controller | power, reset, reads | order of writes |
| Console | `arm/video/gfx.c`, `system/serial.c` | cursor, line buffer | print | wrapping, full buffer |
| Exceptions, panic | `system/exception.c`, `common/utils.c` | none | dump and stop | none |

Not this project's logic: FatFs's code pages, images, link scripts, headers of register
definitions, the build tools. `ff.c` comes from elsewhere too, but the loader configures
it, and what it does when a disk access fails or a card is exchanged is the loader's
behaviour, so it is modelled.

### How the components meet

- The C library's calls on a file of the SD card go to `elm.c`, FatFs, `disk_read` and
  `disk_write`, `sdcard_read` and `sdcard_write`, `sdhc_exec_command`; that waits in
  `sdhc_wait_intr` for bits of `hp->intr_status`. FatFs asks `disk_status` at every call
  whether the card it has mounted is still there.
- `irq_handler` runs between any two instructions of the program: for SD0 it calls
  `sdhc_intr`, which sets bits of `intr_status`, and on an error or a card change sends
  commands of its own (`sdcard_abort`, `sdcard_attach`). In IRQ mode `sdhc_wait_intr`
  polls `sdhc_intr` itself, so activations nest. For NAND it sets `irq_flag`.
- ISFS reads pages through the NAND driver, decrypts them with the AES engine, and decides
  on superblocks by the results.
- `app_run` loads OpenBIOS with `ppc_load_file`, which calls `ppc_prepare` in the middle
  of it, which loads the signed kernel with `ancast_ppc_load`; the ARM and the PowerPC then
  share memory (the mailbox at `0x14000000`) and the IPC registers.

### What makes each component correct

- SD host: success means the data moved; a failure leaves the controller free; DMA never
  outlives its caller; no wake-up is lost; every command ends.
- SD card: a transfer reaches only the card FatFs knows, and `card` always describes
  one card.
- FatFs: a call that succeeds has its effect on its file and no other; a disk error or a
  pulled card costs only what was being changed; no cluster is lost or shared.
- Interrupts and NAND: the core never sleeps with nothing to wake it, a wait never
  ends on another command's completion, and a page reported as read is the page.
- ECC: one wrong bit is repaired, two are never repaired into a third.
- ISFS: the newest usable superblock is chosen; a damaged one costs one generation; reads
  return the file's own bytes, paths find what they name.
- Ancast: an address is returned only for an image that is whole, verified and in memory.
- PowerPC: "ready" means that it waits; it starts last, at the entry point; nothing else
  runs while OpenBIOS is loaded; messages are answered once each.

## 2. Modules

| module | models | extends |
|---|---|---|
| `SdHost` | `sdhc.c`: exec, start, wait, transfer, interrupt, resets; the nested commands of `sdcard_abort` and a discovery | |
| `SdHostProofs` | theorems about `SdHost`: types, STOP_TRANSMISSION, DMA, whose status, what a result means | `SdHost` |
| `SdCard` | `sdcard.c`: attach, discovery, select, acknowledge, read, write; `diskio.c` | |
| `SdCardProofs` | theorems about `SdCard`: all its safety properties | `SdCard` |
| `FatFs` | `ff.c` as operators: disk access, window, FAT, directory, files | |
| `FileSpec` | the abstract specification: what files on a removable card promise | |
| `FatDev` | `elm.c`: the calls on files, cards pulled and inserted, disk errors | `FatFs`, instance of `FileSpec` |
| `FatFsProofs` | what each function of `ff.c` keeps and changes | `FatFs` |
| `FatDevProofs` | theorems about `FatDev`: types, short writes and seeks, sound chains, positions | `FatDev`, `FatFsProofs` |
| `IsfsSuper`, `IsfsSuperProofs` | `isfs_init`, `isfs_load_super`, `isfs_find_super`, `isfs_read_volume` | |
| `IsfsFile` | `isfs.c`, `dotab.c`, the lookup of `super.c`, clusters of `volume.c` and `aes_decrypt` | |
| `Ancast` | `ancast_ppc_load` over the calls of `IsfsFile` | `IsfsFile` |
| `IsfsFileProofs` | theorems about `IsfsFile` and `Ancast` | `Ancast` |
| `Nand` | `nand_read_page`, `nand_wait_irq`, `nand_initialize`, `irq_handler`, `irq_kill`, `irq_wait` | |
| `NandEcc` | `nand_ecc_correct` | |
| `NandRead` | the two together | `Nand`, `NandEcc` |
| `NandProofs` | theorems about `Nand`, `NandEcc` and `NandRead` | `NandRead` |
| `PpcElf` | `ppc_load_file` | |
| `PpcStart`, `PpcStartProofs` | `ppc_prepare`, the stubs, `app_run`, `app_run_sram`, the PowerPC, the ARM's cache line of the mailbox | `PpcElf` |
| `MC*` | values for TLC | |

The names of actions and variables follow the code (`intr_status`, `data_command`,
`irq_flag`, `new_card`, ...); `PROJECT.json` maps each definition to its lines. One
action is the code between two points where another actor can intervene in a way that
matters. Definitions such as `FinishNoRestart` or `CheckNewNever`, which stand before the
definition they vary and are used by no specification, are small deviations from the code
that the properties must notice.

**SdHost.** One core runs everything, so activations are a stack: level 0 is the program,
each level above it one activation of `sdhc_intr` with the command it may have in
progress. Only the top level runs, and the controller runs beside it. Interrupts are
precise: the program steps only while none is pending. `ERR` is derived from
`EINTR_STATUS`; buffer-ready bits are left out because the driver uses DMA; the
signal-enable registers, the responses and `intr_error_status` (which nothing reads) are
abstracted. `sdhc_intr` is four steps, between which the controller goes on: read the
status (`Intr`), acknowledge it (`IntrAck`), reset the lines and send STOP_TRANSMISSION
after an error (`IntrError`), and the rest (`Finish`, `FinishCard`). Both halves of the
status word are cleared by writing ones, and `HWRITE2` writes the whole word
(`bus_space_write_2`): line 833 clears every error with the bits it acknowledges, one that
came after the read included, so that the abort runs with no error pending; line 845 clears
every `NINTR_STATUS` bit that came since, those of STOP_TRANSMISSION included
(`WriteNintr`, `WriteEintr`). A poll of `sdhc_wait_intr` and its load of `intr_status` are one step; the
load and the store of `intr_status &= ~status` are two, for the handler may come between.
Whether the controller raises TRANSFER_COMPLETE at the end of a busy phase is chosen at
the start. Clocking, bus width and power are left to `SdCard`, where they succeed or fail.

**SdCard.** A command is one step here: the card carries it out, or it fails (`SdHost`
says how). Cards are numbered as they are inserted, and `rca`, `sdhc_blockmode` and
`num_sectors` are the number of the card they were read from, so a mixture of two cards
shows. A command during which the handler ran (`hit`) fails, or goes on with an answer of
any card seen so far: more than the controller can do, so what holds here holds there.
`sdhc_host_reset` takes the bus power and the pending status bits away, as a reset of all
of the controller does. `sdcard_read` and `sdcard_write` make the same checks and share
the actions; the handler's `sdcard_attach` runs in full, at any depth. The history
variables say what the properties need of the past: `strays` counts the commands a card
has carried out without being acknowledged, `wiped` is set when a failed discovery's reset
clears the event of a card while another discovery is under way. Not in it: the write of
`sdhc.c:845`, at the end of the service of an error, clears a card event that came during
that service (`SdHost` has it). For a new card to go unnoticed that way, the old one must
be removed and the new one inserted within one such service.

**FatFs, FatDev.** One thread makes the calls, so a call is one action; but its disk
accesses, in the function's order, are all there, and the call may meet a disk error at
any of them: `made` counts the accesses, number `bad` of them fails and, if the card is
pulled there (`gone`), so do those after it. Each function of `ff.c` is an operator on a
context: the `FATFS` structure with its window, the sectors of the card, the result. A loop
is a function of its turn (`Repeat`). A sector is a function from what it holds (entries,
bytes) to values. `volume` is the card whose volume is mounted: a card that is pulled before
anything used it was never mounted, and the files of the one before it count again. `Init`
mounts the first card as `ELM_Mount`
does; the two cards hold a file of two clusters and a nearly full FAT. `_FS_LOCK` is 0 in
`ffconf.h`, so the callers are those FatFs then asks for: no file is opened twice, or
removed or renamed while it is open.

**FileSpec** knows nothing of clusters, windows or buffers. A file is a sequence of bytes;
a call has its effect, is refused for a reason the caller can see, or fails because of the
card, and then what it was changing is uncertain (`unsure`). `unsynced` are the files
whose changes may be lost with the card. `FatDev` gives its `files` and `open` by reading
the card's sectors through the window and the buffers (`View`).

**Nand, NandEcc, NandRead.** The program's control point and the handler's are separate;
`irq_handler` runs when something is pending, enabled and not masked by `irq_kill`. Two
facts about the hardware are constants: whether interrupt flags follow levels or edges,
and whether writing ones to `NAND_CTRL` clears its error bit. In `NandEcc` addresses of
bits are sets of bit positions and exclusive or is a symmetric difference, so an ECC word
is computed by counting. That the controller computes this Hamming code is assumed; it is
the code the correction undoes. `NandRead` puts the correction where the program calls it,
and the handler may interrupt it there.

**IsfsSuper.** A slot of the flash is what reading it gives: the result of every page, the
magic, the generation, the copies its HMAC matches. The flash holds slots with distinct
generations, which is what a writer that increments the generation leaves. `Examine`,
`Found` and `NotFound` are the loop of `isfs_find_super` and its result, `Accept` and
`Reject` the loop of `isfs_load_super`, `NextVolume` that of `isfs_init`.

**IsfsFile, Ancast.** The unit of data is an AES block; it is itself when it is decrypted
with its bank's key and the right IV, and garbled otherwise. A path is the sequence of its
parts. `isfs_find_fst` is a function of the entry and the part of the path it is called
with, defined by its own recursion; `ClusterOf`, `Walk` and `Children` say what its answers
and the loops over the FAT are compared with. The file table is taken to have no cycle (the
code would not return) and no two entries of one directory with the same name. A read may
fail at each cluster. `Ancast` is the one caller that checks what it
gets: the magic, the length, the target and the hash are what the image says they are, and
between two loads anything else may use the volumes.

**PpcElf, PpcStart.** A program header is what the loop makes of it (skipped, out of
bounds, empty, with data). The counter `count` is modelled as the code has it: `fread`
overwrites it. Headers beyond `phdrs` are memory the code should not read and may be
anything. The mailbox exists twice, in memory and in the ARM's cache, where a line may be
evicted at any time. The boot ROM may win or lose the race, or refuse the image. Parsing
`rtc.xml` is the choice of whether it gives a bias; the flush of the ROM state and of the
image body is one step with the poll it belongs to. OpenBIOS is taken to send a message
only when `X1` is clear, and to read the answer after the ARM has cleared it.

## 3. Runs

| run | shows | distinct states |
|---|---|---|
| `sdhost` | with two errors and a card change at any point, on a controller that interrupts at the end of busy phases or not: DMA ends before its caller returns (up to the first card change); STOP_TRANSMISSION only for a transfer; no transfer stalls at a DMA boundary; what `sdhc_exec_command` returns is true; `intr_status` is the command's own; every command ends | 1,218,867 |
| `sdhost_lost_wakeup` | **violated**: the `&=` of `sdhc.c:781` can drop a TRANSFER_COMPLETE the handler has just set | |
| `sdhost_overwrite` | **violated**: a card interrupt between ARGUMENT and COMMAND lets the program's command start with the discovery's argument | |
| `sd_card` | cards swapped four times at any point of discoveries, nested discoveries and chunked transfers: a transfer that succeeds has moved the right sectors of the acknowledged card; the window that is left open lets one command through and no second; `card` is never half of two cards; no insertion is overlooked; everything returns | 791,364 |
| `fatfs` | four calls of any kind on two handles, a disk error at any access, a card pulled at any access and another inserted: `FatDev` implements `FileSpec`; the card is sound at every moment; clusters are neither lost nor counted twice; short writes mean a full card; positions and clusters agree | 318,567 |
| `fatfs_ftruncate` | **violated**: `ftruncate` of `elm.c` leaves `clust` at the new end of the file | |
| `nand_read` | page reads from the command to the corrected page, every fault of up to three bits in a page of two words, SD interrupts at any point: waits end, only on their own command, and never sleep for ever; a page reported as read is the page; one is refused only for a reason; SD interrupts are served | 579,272 |
| `isfs_mount` | two volumes, every fault of a slot: the newest usable superblock is mounted; a volume is given up only when there is none; retries descend; mounting ends | 413,696 |
| `isfs_corrected` | **violated**: a superblock whose header cluster needed ECC correction is passed over (`super.c:189` wants a result of zero) | |
| `isfs_file` | two volumes, two file handles, a directory, loads of the kernel image between other calls, reads failing at any cluster: handles stand where they should, reads give the file's bytes, paths and directories are right, an address is returned exactly for images that are whole and verified | 78,307 |
| `ppc_start` | every header table, file error and race: the loader and the start of the PowerPC, then three messages | 124,836 |
| `ppc_load_done` | **violated**: "ELF: load done." though a segment after a header without data was never loaded (`ppc_elf.c:136`) | |

A property may be the conjunction of named parts that belong together: `ResultIsTrue`
(`SuccessMeansMoved`, `FailureQuietsBus`), `TreeIsRight`, `ImageIsRight`,
`CounterHarmless`, `Served`. `Coherent`, `PositionIsPlaced` and `PlaceIsRight` carry the
type invariant of their modules; those of the modules with proofs are theorems.

**Bounds.** `MaxLevel` of `SdHost` is one more than the errors and card changes of a run
can nest. One card change shows every interleaving of one discovery with one command; two
errors show one during the recovery from another. Four swaps in `SdCard` let a discovery be
interrupted by three others, or a card be exchanged twice under one transfer; `MaxNest` is
as many as swaps, so that no interrupt is held back. Two blocks a chunk and up to five
sectors give none, one, exactly one full, two and three chunks. The same properties hold
with five swaps (2.2 million states) and with six (10.4 million).

`FatDev` has four clusters of two sectors of two bytes, three FAT entries a sector and one
directory entry a sector: chains cross FAT sectors, the directory has more than one
sector, the card and the directory fill up, reads and writes of five bytes start inside a
sector, take whole sectors and end inside one, and cross a cluster. Four calls are opening
two files and a call on each, or an open, a change, a close and a look; a behaviour that
meets an error or an exchange has three. `Wrap` stands for 2^32: a negative offset becomes
larger than any file.

Two volumes of two slots let a newest slot be damaged, an older one taken and the next
volume begin after success or failure; three pages have one outside of the header's
cluster. In `isfs_file` files have none, two and two and a half clusters, with a chain
that is not in the order of the flash; a cluster is two commands of the engine. Three
address bits are the least for which two wrong ECC bits, a wrong data bit and a wrong ECC
half differ; the code is linear, so two contents suffice; three wrong bits show what lies
beyond the promise. `PhdrMax` three with tables of up to four headers reaches past the
array. `MaxMessages` three has a message answered, printed, and one more.

**Fairness.** `WF(Software)` for SD: the core always runs something and every poll loop
counts down; nothing is assumed of the card or the controller. `WF(Driver)` in `SdCard`:
the processor executes the program or the handler; nothing makes anyone change cards or
call FatFs. NAND: the core runs (stated for the part of `Nand` and the part of `NandEcc`
of the program), the controller ends what it started, and strong fairness for the handler,
since the program opens and closes the interrupt mask in its loop and an interrupt pending
whenever it is open is taken in the end. ISFS: `WF(Mount)`, a loop of the program.
PowerPC: weak fairness for the ARM and for the PowerPC, each of which executes on its own;
`ppc_prepare`'s wait has no limit, and `PrepareReturns` says when it needs none. `FatDev`
and `IsfsFile` have whole calls as actions and no liveness property, so no fairness.

**Deadlock** is checked except in `fatfs` and `fatfs_ftruncate` (the bound on calls ends a
behaviour), `ppc_start` and `ppc_load_done` (panic, power-off and reboot stop the machine).

## 4. Findings

The five violated properties quote comments or messages of the code. Two concern the SD
driver: it was written for an operating system that masks interrupts around these
sections, and here nothing does. They need the interrupt to fall into a window of a few
instructions (`sdhc.c:781`) or a card pulled at the right moment (`sdhc.c:671`).
`isfs_find_super` and `isfs_read_volume` lose a correctable superblock; the loader then
mounts an older one. `ppc_load_file` loses segments of an ELF file that has a PT_LOAD
header without data between two with data. `_ELM_ftruncate_r` restores the position of a
file but not its cluster, so the next write goes elsewhere in the file.

What else came up while modelling. It is in the models, as the code has it, and the
properties say so where they make an exception.

- SD host: a controller that raises TRANSFER_COMPLETE for R1B commands (`sdhc.c:771`) can
  end the next command's wait too early; properties that start with `Undisturbed` exclude it.
  A second card change during the discovery for the first leaves its CARD bit in
  `intr_status` (`sdhc.c:864`): the wait the discovery returns to ends at once, on a bit
  outside its mask, without a reset, and the command goes on after its caller has returned;
  `DmaOnlyForWaitingCaller` therefore speaks of the first change only. An error reported
  between the read of `EINTR_STATUS` (`sdhc.c:829`) and line 833 is cleared unseen, and
  line 845 clears bits nobody has seen: the wait such a bit was for runs into its timeout,
  which resets the lines, so the command fails rather than lies. A card event lost at line
  845 is not reported again.
- SD card: nothing closes the window between the check of `new_card` and the end of the
  command (`disturbed`; `OneStray` bounds the damage). A failed discovery resets the host
  and with it a pending card event: that card stays out of use until the next change
  (`failed`), or is taken for its own by the discovery that was interrupted (`wiped`).
- FatFs: `f_getfree` keeps the partial count of a scan that failed; `f_truncate` frees the
  chain before the entry says so; `f_sync` clears FA__WRITTEN before `sync_fs`, so a second
  `fsync` succeeds though the first failed; while `disk_status` is STA_NODISK without
  STA_NOINIT the volume counts as valid, and accesses served by the window succeed with no
  card.
- `elm.c`: SEEK_END is `fsize - pos`; a negative offset becomes a huge DWORD, and a seek to
  it stretches a writer's file over the whole card; `ftruncate` on a file opened for
  reading moves its position.
- ISFS: `isfs_seek` to a multiple of the cluster size stops one cluster short (a seek
  to zero does not); SEEK_END tests `file->offset + offset` and
  lets a handle leave the file; an empty directory in the middle of a path is returned for
  the whole path, two slashes at the end name any directory, an empty directory cannot be
  opened. `ancast_ppc_load` leaves the file open when the image is rejected, and goes
  on with a zeroed `ctx` after a short read that set no `errno`.
- `ppc_load_file`: `fseek`'s -1 returned as `-res` becomes a success, and so does `-errno`
  when nothing set `errno`; `ppc_prepare` cannot say that it failed.
- `udelay` with a target just below 2^32 can miss it and wait for the timer to wrap around;
  `nand_read_page` lets `PAGE_COUNT` itself through (`pageno > PAGE_COUNT`). Not modelled.

## 5. Proofs

Each theorem holds for every value of the constants that satisfies the module's assumption.

- **SdHost**: `TypeCorrect`; `AbortCorrect`, from the invariant that `data_command` is set
  only while the program's transfer is in progress and never while an abort runs;
  `DmaCorrect`: from the boundary until DMA_ADDR is rewritten, the interrupt is pending or
  in the `status` of some activation. Both need `StackInv` (levels above the top are
  clean, only the program sends data commands); `DmaCorrect` also needs `QuietInv`: when
  line 845 clears a DMA bit nobody has seen, the lines have been reset and no transfer is
  on the bus. `StatusCorrect` and `DmaCallerCorrect`
  follow from `CalmInv`, `ResultCorrect` from `ResultInv` on top of it. The properties speak
  of one moment of a command; the invariants follow each status bit from the controller's
  register, read (`ReadInv`: what was read is pending until it is acknowledged), through the `status` of the activation that serves it (`Served`), `intr_status`
  and the copy in a register (`old`) to the level that waits for it (`Waiting`), say which
  of them may hold a bit in each phase of the bus, and that a bit that is not the awaited
  one comes only with an error, which resets the lines (`OnlyWithError`, `TellsOrError`).
- **SdCard**: all four safety properties and the types, for any number of cards, nested
  discoveries, blocks and sectors. `CoherentCorrect` from `StateInv`, which says what state
  the card in the slot can be in at each point of the discovery on top, and that a level
  the handler has hit finds the card off or `Settled` (selected and recorded);
  `NoticedCorrect` from `NoticedInv`: unless an event is pending or a discovery is about to
  set `new_card`, the card is new, acknowledged, wiped or out of use. Both make
  `TransferCorrect` (through `ExecInv` and `MovedInv`, which follow a transfer chunk by
  chunk) and `StrayCorrect` (`StrayInv`) inductive.
- **IsfsSuper**: `TypeCorrect`, `NewestCorrect`, `GivenUpCorrect`, `RetriesCorrect`.
  `NewestUsable` is not inductive: it says nothing while the search runs. `IInv` adds that
  every usable slot of the current volume is below `generation` (`AllBelow`), that `newest`
  is the best of the slots looked at so far (`NewestSoFar`), that a chosen slot has the
  generation it is read for (`Chosen`), and what was found for the volumes already done.
- **Nand**: `WaitCorrect`, `SleepCorrect`, `QuietCorrect` from `WaitInv`, which follows a
  completion through its stages (running, signalled, quieted, acknowledged, served) while
  the program waits, and says that there is none when it does not. `FailureCorrect` adds
  `ErrorKept`: from the end of a failed command until the program reads the error bit, it
  is set; this needs `~AckClearsError`. Both kinds of interrupt flags are covered.
- **NandEcc**: `PassedCorrect`, `UnformattedCorrect`, `GivenUpCorrect`. The lemmas compute
  what flipping one bit does to the parities (`EccFlip`), that a fault of at most two bits
  has one of three shapes (`FaultShape`), and that the syndrome tells them apart
  (`SyndromeTells`).
- **NandRead**: `Implements`: every step of the whole is a step or a stutter of each part,
  so that the invariants of the parts hold of it; `ReadTypeCorrect`, `PageCorrect` and
  `RefusalCorrect` combine them where the program takes the result of the correction.
- **IsfsFile**: `LookupRight`: for every acyclic file table the search, which follows the
  list of siblings to its end before it looks at an entry, finds what the walk down the tree
  finds. The provers have no induction over data: it is replaced by `Least` (a nonempty set
  of naturals has a least element, from the library's well-foundedness of < on Nat), and
  `RecursionExists` shows that a recursion along a rank defines a function (`FollowStep`,
  `SiblingsStep`, `FindStep`, `WalkStep`). In a list the entry with the name decides
  (`FindInList`); along the path `CheckRight` is the step of the induction, and `Passed` says
  that the walk has reached the entry the search is at. `CallRight`: every call keeps
  `HandlesRight`. Its heart is that a handle's cluster is that of its offset (`InPlace`)
  and that what was listed and what follows the child are together the directory's children
  (`DirRight`).
- **Ancast**: `PlacesAreRight`, `ReadsAreRight`, `TreesAreRight` follow from `HandlesRight`,
  and `ImagesAreRight` from `LoadRight`: before each read the handle is at the start of the
  image, a load comes after the header's acceptance, and its short end has a reason.
- **PpcStart**: `CounterCorrect` from `LoadInv`, whose heart is `Counted`: until a header
  with data is met the counter is the number of headers left, right after one it is 1, and
  otherwise all data is behind; `ReadyCorrect`, `HeldCorrect` and `StartedCorrect` from
  `HandInv`, which relates the ARM's place, the PowerPC's place and the mailbox in memory
  and in the cache; `ServedCorrect` from `MessageInv`, which follows a message from OpenBIOS's
  write to the ARM's write-back: who has it in hand (`InHand`), what has been printed by
  then (`Printed`), where the answer is (`AnswerReady`, `Replies`); and `TypeCorrect`.

- **FatFs, FatDev**: `TypeCorrect`, `AlwaysShortMeansFull`, `CardsStaySound` and
  `PositionsStayPlaced`. `FatFsProofs` has a lemma for
  each function of `ff.c`: from any context of the right types, whatever sector is in the
  window and whichever access fails, it makes one of the right types, and says what it
  leaves alone. The sectors are seen through the window (`Over`), which holds what a sector
  of its kind holds, is dirty only for one that may change, and else agrees with the card
  (`Coherent`): `sync_window` and `move_window` do not change that view, and `put_fat`
  changes one entry of it. A file without an error that is not at its beginning has a first
  and a current cluster (`Headed`). That a loop is a function at all is `LoopExists`; what
  holds after each turn is a set of contexts (`Searched`, `Reading`, `Writing`, `Follows`,
  `Counting`). `FindFreeType` shows that the search wraps around the FAT and meets every
  cluster (`NthCovers`), and `WriteFileType` and `LseekType` that the loops end, at the goal
  or where no cluster is free. `FatDevProofs` puts the calls between `Begins` and `Return`;
  `TypeInv` is the inductive invariant. The assumptions say that the cards hold sectors of
  the right types at first; the first two theorems need no more and hold for damaged cards.
  A chart of a FAT (`Chart`, `Charted`) gives each cluster the entry it belongs to and its
  place in the chain: chains that do not meet and end, without a recursive definition.
  `FileCallsKeepChains` follows one through `f_read`, `f_write` and `f_lseek`, on the card
  (`TableC`) and through the window (`TableV`); `TruncateKeepsChains` does so for
  `f_truncate`, which cuts one chain (`CutAt`) and frees its end in any order (`Freed`).
- **The chains of a card**: `CardsStaySound` and `PositionsStayPlaced`, on cards that were
  sound when they were inserted (`FatDevSound`). Neither property is inductive: both speak of
  moments between calls, and of the card or of the view. `SoundInv` says that there is a
  chart by which the entries on the card are right, and one by which the entries seen
  through the window are and the open files are at their places (`Upright`); which
  entries are excepted (`Exempt`: of files that were cut or renamed, and are still to be
  written or had a call fail on them); that no two open files share a name, a reader has
  nothing to write but an empty file, and no handle is newer than the volume (`Orderly`);
  and that a card that was pulled takes what was to be written with it. Each call goes
  through its steps on charts: a chain that grows (`ExtendsUpright`), an entry that is
  stamped with what the file has become (`StampUpright`), a file that is cut
  (`CutUpright`), an entry added, removed or emptied while its chain is freed
  (`TidyUpright`, `LooseUpright`), a file object filled from an entry (`OpenedUpright`); a
  call that is stopped by a disk error ends in one of these states too, on the card as well.
  `Upright` asks for nothing once a call failed on every file, as `CardIsSound` does. What a
  chart has to do with `Chain`, which is a loop, is said by `ChartedChain` (the clusters of a
  chart's chain, one after the other), and for the cards at first by `StraightCharts`, which
  makes a chart of chains that end and do not meet.

Checked by TLC only: all liveness properties (the prover has no rules for fairness and
ENABLED), and of `FatDev` `ClustersAccounted` and the refinement of `FileSpec`
(`FilesAreKept`). The first needs charts that leave no cluster out, together with the count
of the free ones; the second the bytes in the clusters, the window of each file and the
card, next to the chains.

## 6. Not modelled

`PROJECT.json` gives the reason for each part. More than half of the source is tables of
characters (the code pages of FatFs, about 30,000 lines) and a picture: they hold no state
and no behaviour, so the share of lines that is modelled stays small whatever is added.

- FatFs: entries of FAT12 that straddle two sectors, the mirror of the FAT, long names and
  sub-directories, the read-only attribute, a root directory of FAT32 that grows, fast
  seek, the wrap-around of a file's size at 4 GB, `f_stat`, `f_opendir`, `f_readdir`,
  `f_mkdir`, `f_mkfs`; the conversion of names in `elm.c`. The loader itself only reads
  files.
- ISFS: the prefix of a path that names the volume (`isfs_do_volume`, whose `memcpy` has no
  bound), reads from beyond a file's end, `isfs_commit_super` and the writer under it
  (`NAND_WRITE_ENABLED` is 0).
- SHA, HMAC, the OTP and the SEEPROM: hashes are oracles. The AHB buffers and page tables of
  `memory.c`; `smc.c`, `i2c.c`, `udelay`; exceptions, the console, the first-stage loader.
- `ppc_load_mem`, `ppc_jump`, `ancast_iop_load`, the asynchronous calls of `sdcard.c`: they
  have no caller.
- ELF headers are abstracted to whether they pass the checks: `addr + len` wraps around in
  32 bits and `p_filesz` is not compared with `p_memsz`, so a damaged header may pass
  (`ppc_elf.c:52`).

## 7. What could follow

1. On top of `SoundInv`, that no cluster is lost, for `ClustersAccounted`, and what the
   clusters hold, for the refinement of `FileSpec`.
2. Directories and sub-directories in `FatFs` and `FatDev`, with `f_mkdir` and `f_readdir`.
3. The destination of a segment in `PpcElf`, as 32-bit addresses, for the check of
   `ppc_elf.c:52`.
4. The AHB buffers of `memory.c` around DMA at buffers that share a cache line.
