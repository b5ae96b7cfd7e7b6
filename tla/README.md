# TLA+ models of the boot programs and of pc-zmanager

This directory holds TLA+ models of the core logic of this repository, the TLC
configurations that check them on small instances, and proofs that TLAPS checks
for every value of the constants.  `PROJECT.json` lists the components, the
runs, the lines each definition translates, the hazards and the theorems.

## The system

The repository holds a fork of FreeBSD 9.1's `sys/boot` (`boot/`), a tool that
makes fonts for its boot screen (`boot-aux/`), and a Qt manager for ZFS pools
(`pc-zmanager/`).

The boot chain is a sequence of programs, each of which finds and runs the next:

    firmware -> boot sector (pmbr, mbr, boot0)
             -> second stage, which knows one file system
                (gptboot, boot2, zfsboot)
             -> loader: disk driver, block cache, Forth scripts, loading of the
                kernel and its modules, countdown, boot
             -> kernel

| Part | State it keeps | Operations | What is hard about it |
| --- | --- | --- | --- |
| `gptboot` (`common/gpt.c`, `i386/gptboot`) | two copies of the partition table on disk and in memory, `curent`, `bootonce` | `gptread`, `gptfind`, `gptbootfailed`, `gptupdate`, `main`'s loop and prompt | power loss between sector writes, failing writes, reboots in the middle of a one-shot boot |
| the other second stages (`boot2` of four platforms, `boot1` of two, `zfsboot`) | the device named, the superblock and the one-block caches of `ufsread.c`, the vdevs and the heap of `zfsboot` | configuration file, key, command line, `load`, probing of drives | caches kept while the user names another device, reads that fail half way, a drive told to the loader that is not the one read |
| devices and disks (`devicename.c`, `disk.c`, `biosdisk.c`, `bioscd.c` and their copies) | open devices, slice and partition tables, the current device, counts of opens | parse and format a name, open, list, close, transfer | five formats of tables read by five programs, guesses, errors between allocations, pieces and retries |
| ZFS of the loader (`zfs/zfsimpl.c`, `zfs.c`) | pools and vdevs found so far, mounts, open files, one block buffer | probe, read a block, mount, look up, read, list, name a dataset | labels of different ages in any order, missing disks and bad copies, a cache keyed by the address of a local variable, circles of links |
| block cache (`common/bcache.c`) | slots with block number, stamp, count; one unit | `bcache_init`, `bcache_strategy` with read, write, lookup, insert, invalidate, flush | stale contents: media changes, writes past the cache, a clock that moves, duplicated blocks |
| command line (`interp*.c`, `commands.c`, `ls.c`) | variables, the lines of scripts in memory, the words of the last line | `parse`, `include`, the prompt, `set`, `show`, `help`, ... | scripts in scripts that free the arguments of the command that runs them |
| Forth (`boot/ficl`) | dictionary with a word under construction, stacks, input source, search order | the words of `words.c`, exceptions, `EVALUATE`, `CATCH` | compiling words in any order, cut by errors; what outlives a line that fails; double-cell arithmetic |
| preloaded files (`common/module.c`, `load_elf*.c`) | the list of files, the load address, the list of directories, two environment variables | `load`, `load -k`, `load -t`, `unload`, dependency loading, ELF images | recursion with rollback: cycles, wrong versions, failures at any depth; symbols that cannot be read |
| boot (`common/boot.c`, `libi386/time.c`) | the countdown, the list of kernels, `autoboot_tried` | `boot`, `autoboot`, `boot <kernel>`, the prompt | the clock passes midnight, keys race with it, half-loaded kernels |
| hand-over (`bootinfo*.c`, `metadata.c` of twelve platforms) | metadata of the files | `bi_load`, `md_load` | a list of records that holds its own end, padded for the kernel's word |
| consoles and screens (`console.c`, `comconsole.c`, `vidconsole.c`, ...) | which are active, speed and port, a character kept by polling, an escape sequence half read | probe, set, change, put, get | variables set before the port is in use, broken escape sequences |
| network (`dev_net.c`, `pxe.c` and four drivers) | count of opens, socket, addresses, descriptors shared with hardware | open, close, `net_getparams`, get, put | answers in part, retries after a failure, frames that are late |
| AT91 boards (`arm/at91`) | server, blocks received, flash and EEPROM, boot commands | TFTP, XMODEM, prompt, write | packets lost, repeated and late, pages that cannot be written, power loss |
| pool tab of `pc-zmanager` | a copy of the machine's pools, pointers into it, `needRefresh` | refresh, the context menu and its 17 entries, the dialogs | the copy is out of date, pools share names, a command fails half way |
| device tab, file system tab, property dialog | lists made from `gpart`, `glabel`, `mount` and `zfs`; three lists of edits | refresh, menus and their commands, edits | clones and promotion, gaps and sizes, a command of two that fails, names that are edited |

How they interact: the cache sits between the disk driver and every file system
of the loader; `boot` calls the loading code of `module.c` and looks at the list
it leaves, which the hand-over then writes out for the kernel; `gptboot` leaves
attributes in the partition table for the start-up scripts of the booted system
and for its own next run; `boot2` and `zfsboot` tell the loader which drive and
partition they read; Forth runs the loader's commands and the other way round;
`pc-zmanager` talks to the machine only through the output of `zpool(8)`,
`zfs(8)` and `gpart(8)`, which others run too.

The components that are not modelled are listed in `PROJECT.json` with reasons;
see also "Not modelled" below.

## Modules

| Module | Models | Form |
| --- | --- | --- |
| `GptBoot` | `gpt.c`, `gptboot.c` | state machine |
| `GptBootProofs` | | theorems about `GptBoot` |
| `BCache` | `bcache.c`, with `bd_realstrategy` as the device below | state machine |
| `BlockDev` | what `dv_strategy` promises | abstract specification that `BCache` implements |
| `BCacheProofs` | | theorems about `BCache` |
| `Preload` | `module.c`, decisions of `load_elf.c` | state machine with an explicit call stack |
| `Boot` | `boot.c`, `time.c`, `interact()` | extends `Preload`, composes with its actions |
| `BootProofs` | | theorems about `Preload` and `Boot` |
| `HandOver` | `bootinfo*.c` and `metadata.c` of twelve platforms | operators, one step per attempt to boot |
| `Elf` | `load_elf.c`, `load_elf_obj.c`, `reloc_elf.c` | operators from file and fault to memory, one step per file |
| `DevName` | six `devicename.c` | operators on tokens |
| `Disks` | `disk.c`, `biosdisk.c` (i386, pc98), disks of U-Boot, PS3, userboot | extends `DevName`; state machine |
| `DiskIo` | `bd_io`, `bd_realstrategy` | state machine, one step per try |
| `BiosCd` | `bioscd.c` of i386 and pc98 | state machine, one step per try; composes with `DiskIo` (`TransfersSpec`) |
| `TransferProofs` | | theorem about `DiskIo` and `BiosCd` |
| `Boot2` | four `boot2.c`, `bd_init`, `extract_currdev` | extends `Disks`; state machine |
| `Ufs` | `ufsread.c`, `boot1.c` of powerpc and sparc64, the ELF loading of `boot2` | state machine |
| `ZfsBoot` | `zfsboot.c`, `biosmem.c`, sparc64's `zbread` | state machine |
| `ZfsPool` | `zfsimpl.c` up to `zio_read`, `zfs_probe_dev` | state machine |
| `ZfsPoolProofs` | | theorems about `ZfsPool` |
| `ZfsFile` | `zfsimpl.c` from `dnode_read` on, `zfs.c` | state machine with fairness |
| `ZfsFileProofs` | | theorem about `ZfsFile` |
| `Ficl` | `vm.c`, `words.c`, `dict.c`, `stack.c`, `ficl.c`, `search.c` | state machine, one step per word |
| `FiclMath` | `math64.c`, `sysdep.c`, number words | operators against a reference definition |
| `FiclWords` | words on memory, strings, stacks, environment, files (`words.c`, `loader.c`) | operators from machine to machine |
| `Shell` | `interp*.c`, `commands.c`, `ls.c` | operators for lines, state machine for scripts |
| `Consoles`, `Terminal` | `console.c`, the console drivers; `vidconsole.c` of i386 and pc98, `ps3cons.c` | state machines |
| `Net` | `dev_net.c`, `pxe.c`, `efinet.c`, `ofw_net.c`, U-Boot's `net.c`, `ps3net.c` | state machine |
| `Tftp`, `Xmodem`, `BootCommands` | `arm/at91` | state machines; `Tftp` composes with `Net` (`NetworkSpec`) |
| `NetProofs` | | theorem about `Net` and `Tftp` |
| `ZPools` | pool tab of `zmanagerwindow.cpp`, `dialogname.cpp`, `dialognewpool.cpp` | state machine |
| `ZPoolsProofs` | | theorems about `ZPools` |
| `ZDevices`, `ZFileSystems`, `ZProps` | device tab, file system tab, `dialogfsprop.cpp` | state machines |
| `MCGptBoot`, `MCPreload`, `MCBoot`, `MCZfs`, `MCFicl`, `MCZManager` | | constants and compositions for TLC |
| `MCDisks` | | everything before the loader and below its file systems |
| `MCLoader` | | the rest of the loader and the AT91 boards |

Modules that are about different parts of one program and share no variable are
checked in one run: the MC module has a variable that picks the part a behaviour
is about, the others rest in one state.  A property of such a run is a
conjunction named for what the part promises; the conjuncts are named and
commented where they are defined.

A definition keeps the name of the function it translates.  `PROJECT.json` gives
its lines; a helper whose lines lie inside those of the definition it helps is not
always listed again.  A definition whose
comment begins with "Mutant of" is a plausible bug; it is not used by the
specification, only to see that a property would notice it.  `PROJECT.json`
names one for each property of a run; the others in the modules show that
further conjuncts of the same property can be broken.

### GptBoot

`disk` holds, for each copy of the table, the attributes of every entry and the
attributes its checksum covers; a copy is valid when the two are equal.  Entry
attributes are reduced to `BOOTME`, `BOOTONCE` and `BOOTFAILED`; everything
else in an entry never changes.  `mem` and `lba` are `table_primary`,
`table_backup` and whether their header addresses are set.  `todo` holds the sectors that
`gptbootconv` or `gptupdate` still has to write: every `drvwrite()` is a step of
its own, so `PowerOff` and a failed write can come between any two of them.
`gptfind`, `Config` (the configuration file), `KeyHit`, `BootExec`, `BootFails`
and `Prompt` follow `main()`.  `load()` is reduced to whether it returns.

### BCache and BlockDev

One request at a time runs through `lookup`, `fill`, `transfer` and `insert` for
reads and `invalidate`, `write` and `insert` for writes.  `Tick` may advance the
clock between them, at most once during a request (a request takes less than a
second); `Swap` changes a removable medium.  `bc_count` is an `int` that is
assigned from an `unsigned` counter: `Signed` keeps the wrap at `Half` (2^31 in
the code, 2 in the instances, so that it happens).  `BlockDev` performs a request
in one step or fails; the refinement mapping in `BCache` (`Device`) hides the
slots.  `disturbed` is history: a change of the disk behind the cache, and whether a
block was ever in two slots (`Twice`), after which a write that fails leaves an old copy.

### Preload and Boot

What is on the disk is a constant catalogue of files: kind, size, versions it
provides and dependencies, with `linker.hints` per directory.  `mod_loadkld` and
`file_load_dependencies` call each other; `stack` holds their frames and every
call and return is a step.  Placement (`Dest`, `roundup`) and the rollback
(`Discard`) are those of the code, and so is what `memtop` limits: what is read
from the file (`ReadEnd`) must end below it, symbol tables (`Syms`) that do not are
skipped, and the zeroed memory behind what was read is not checked at all
(`kern_bzero` ignores what `arch_copyin` returns).  `Packed` therefore says of the
zeroed end of an image only that no other file lies in it.  `Boot` adds the program counter
`bpc` of `boot.c`: `loadakernel` goes through the names of `bootfile`, `autoboot`
counts down with `time()`, which adds a day when the BIOS clock goes backwards.
The loads it needs are Preload's own actions.

Simplifications: every image is longer than its first page, whose copy is not
checked either (`load_elf.c:336`), so that a page that does not fit fails with the
read behind it; the current device does not change; `loader.4th` redefines `boot`, the model has the
builtin; kernel arguments and `getrootmount`, which only set environment
variables, are left out.

### ZPools

`pools` is the machine: state, name and devices of every pool.  `Pools` and
`Disks` are the window's copy, set only by `refreshState`.  `lastSelectedPool`
is an index into `Pools`, `None` for NULL and `Stale` for a pointer that a
refresh has left behind.  Opening a menu, choosing an entry and closing it are
three steps, because the event loop runs between them; a dialog is a choice made
with the entry.  `zpoolRename` is two steps, its export and its import.  The
operators `zpool_*` say what `zpool(8)` may do (external: modelled from its use);
each may also refuse, or do its work and print a warning.  `Other` is anybody
else who runs `zpool`.  Active pools have different names (`Machines`), exported and
destroyed ones may share theirs.  An access through a bad pointer ends in the state
`"undefined"`, from which nothing is claimed.

Left out: raidz groups and the items of groups themselves, device states other
than offline, destroyed pools too damaged to be listed, the event loop that
`runShellCommand` may run.

### ZDevices, ZFileSystems, ZProps

`geom` is the machine of the device tab: disks, tables, partitions, labels,
mounts.  A line of `gpart list` is a record, and the list is made line by line as
`GetCurrentTopology` does.  Names are tuples in which a further digit of the unit
is an element, so that `startsWith` confuses `ada1` and `ada10` as it does in the
code (`geomLevel`).  The commands of the menu are `gpart`, `newfs` and `mount` commands (external), each of which
may refuse.  `deviceAddPartition` is an add and a `newfs`, and the second may fail.

In the file system tab paths stay sequences of characters, because the tree is
built by comparing the starts of strings: `AddItem` is the first pass of
`on_fspoolList_currentItemChanged` and `Reorder` the second.  `zfs_promote`,
`Moved`, `Dependents` and the like say what `zfs(8)` does.

`ZProps` keeps the dialog's two lists, properties and rows, the three lists
`fsEditProps` pairs by position, and which buttons are enabled: that is computed
when another row becomes current, and not when a row is added.

### ZfsPool and ZfsFile

`machine` has the label, the uberblocks and the blocks of every disk: a block
verifies or does not (checksums, compression and raidz are in `zfssubr.c`,
outside the repository, and external).  Disks are probed in any order, with labels of
any age.  `vdev_init_from_nvlist` walks the tree of a label node by node
(a recursive function of the position).  A vdev has one link, `v_childlink`, for the list
of children it is in, so `STAILQ_INSERT_TAIL` of a vdev that is already in another list
cuts that list (`Joined`); whether any label has moved a vdev to another parent is
`NoneMoved`.  Reading goes through `zio_read`, `v_read` and the tree of vdevs as in the
code.

`ZfsFile` has objects instead of bytes: dnodes, micro and fat zaps, directories,
links, spill blocks, datasets.  Everything is read through `Fetch`, the one-block
cache, whose key is the address of a dnode (in an open file, in a mount, in the pool, or
a local variable: `Addresses`), so that a wrong hit shows as the wrong block.  A lookup is
one step per path component, and which block is bad is fixed when it begins.  What is left
of a path after a link is moved within `path[]` by `strcpy` (`Overruns`): `at` is where it
lies there, and `PathSize` (13 in the run, 1024 in the code) the size of that array; a copy that
overlaps or leaves it does not come back, and the lookup stays in "overrun".  Names are taken
to be shorter than `element[256]`.  When the pool's properties cannot be read
`zfs_get_root` goes on with the root dataset; a listing ends at the first error, as in its
caller `ls`.

### Ficl, FiclMath, FiclWords

`Ficl` runs a line word by word: dictionary entries are sequences of cells, `calls`
is the C stack of nested inner loops, and every exception unwinds it as `Unwind`
does.  `Lines` are given as tokens.  `FiclMath` checks every double cell of 8 bits
against dividend = quotient * divisor + remainder, printing and reading against
the value of the digits.  `FiclWords` has bytes of 8
values and a dictionary of 14 to 24 of them, and lets each word start on twenty
stacks; a pad of eight bytes and an input of six let `WORD` pass the pad.

### DevName, Disks, DiskIo, BiosCd, Boot2

A medium is a function of sectors that hold tables, labels or nothing, with the
places its partitions really have (`truth`) for the properties only.  `fault` picks
one read that fails.  `heap` counts what is allocated.  `Boot2` extends `Disks` so
that the loader's own `extract_currdev` and `Opendisk` judge what a second stage
hands over; the boards without a loader are held to the slice they look for
(`At91Agrees`, `RootAgrees`).  `DiskIo` and `BiosCd` are loops of pieces and tries; the BIOS may fail
after any number of sectors.  The loader's memory lies below the end of base memory or
above 1 MB (`biosmem.c`), so no buffer reaches across LOW (`IoAssumption`).  Nothing is
assumed of the length of a track: a pc98 may bounce by way of a buffer longer than half a
segment (`LongTrack`), and a CD piece given up after three tries is in `lost`.

### Ufs and ZfsBoot

The unit of `Ufs` is a sector that holds an inode, a directory entry, an address or
a piece of a file.  `hurt` becomes true when a failed read has left a buffer that
does not belong to its key, from which nothing is claimed any more (see the
disagreements).  `ZfsBoot` has drives with labels at partitions, a heap of `dsk`
structures and pointers into it.

### HandOver, Elf, Shell, Consoles, Terminal, Net

`HandOver` records every `copyin`; the kernel's walk of the records is the
reference.  ia64 copies page by page from the beginning of its source again (`Torn`); a page
has 64 bytes in the run (`PBVM_PAGE_SIZE`), so that records and variables cross one.  `Elf` has cells for headers, symbols, relocations and strings.  `Shell`
gives each string an owner and forgets it when `parse` is called again; `dangling` says
which strings were used after that.
`Consoles` numbers what is typed per source; a port has a divisor, computed from the speed
and read back as the code does, and the variables of the port may be there from the start.  `Terminal` gives the same characters
to three screens and to a sheet of paper.  `Net` chooses the answers of BOOTP, RARP
and bootparams anew for each question and has one frame queue per driver; each step of a
driver's start may fail, and the driver is used as that step left it.

### Tftp, Xmodem, BootCommands

A packet of `Tftp` that was sent once may arrive at any later time, any number of
times or never, those of an earlier download too; the server opens a transfer for
every request it gets, so a repeated request makes two.  The line of `Xmodem`
loses or changes bytes, the sender repeats.  `BootCommands` has memory as
characters, because words are cut and put together again in place; the power may
go at any byte written to the EEPROM.

## Runs

`CHECK_DEADLOCK FALSE` is set everywhere: the programs may stop (a kernel was
started, the machine is off, nobody opens another menu), and the bounds stop
them too.

| Run | Checks | States |
| --- | --- | --- |
| `gpt_boot` | `TypeOK`, `CurentInTable`, `TableSurvives`, `OneShot`, `FallbackComplete`, `NoRetry`, `SearchEnds` | 1.8 M |
| `bcache_fresh` | `TypeOK`, `Fresh`, `Coherent` | 3.5 M |
| `bcache_device` | `ImplementsDevice`, `Returns` | 363 k |
| `bcache_bypass` | `BypassCoherent`, violated | |
| `preload` | `LaidOut`, `Complete`, `AllOrNothing` | 916 k |
| `boot` | `BootsKernel`, `GivesUpRightly`, `NotEarly` | 3.4 M |
| `boot_wait` | `Unattended`, `Ends` | 30 k |
| `zmanager` | `PoolsSafe`, `DevicesSafe`, `DataSetsSafe`, `RequestsSound`, `RightTarget` | 954 k |
| `zfs` | `PoolSafe`, `GoodCopyIsRead`, `FileSafe`, `LookupEnds` | 313 k |
| `ficl` | `FiclSafe`, `NumbersAndWords` | 350 k |
| `disks` | `DisksSafe`, `TransfersSafe`, `StagesSafe` | 132 k |
| `loader` | `HandedOver`, `LoadedRight`, `ScreenSafe`, `LinesSafe`, `NetworkSafe`, `At91Safe` | 782 k |

**gpt_boot.**  Four entries in two sectors, three of them bootable, every
starting combination of no flag, `BOOTME` and `BOOTME|BOOTONCE`, two power
cycles, one failed read or write.  Two power cycles are the shortest history in
which a one-shot boot is tried, cut off and judged by the next run; two sectors
are the fewest with a write order.  It shows that a table survives any one
mishap, that a one-shot boot stays one-shot across crashes and is recorded in both
copies, that the start-up scripts find `BOOTONCE` alone only on the entry they run
from (`OneShot` is `OnceOnly`, `OnceMeansBooted` and `CopiesAgree`), that the
fallback tries every `BOOTME` entry exactly once, unless the one-shot entry was
the last of the table, and that the search ends.

**bcache_fresh, bcache_device, bcache_bypass.**  Four slots for two blocks, so that a
request for both goes through the cache: a write can fail after its first block, a block
can be in two slots, and three requests insert more often than the counter can count.
Three requests are what it takes to fill a slot other than 0, or two slots with one
block, and then to fail.  `BCacheDevice.cfg` has two units so that the flush between
units is needed.  `BCacheBypass.cfg` has two slots, and a request for both blocks is more
than half the cache and bypasses it.  The refinement holds with fixed media and without
bypassing writes; the third run shows why the second condition is there.  (That `Fresh`
holds after such writes too is proved; in the first run `Swap` changes the disk behind
the cache instead.)

**preload, boot, boot_wait.**  The catalogue of `MCPreload` has two modules that
require each other, a module that fails at its last dependency after three files
were loaded for it, a hint for a file that is not there, two versions of one
module in two directories, two kernels and a file that is neither; memory runs
out in some orders and not in others.  Five commands are needed to load a
kernel, fill memory, fail, change the path and load again.  `LaidOut` says that
files do not overlap and follow one another to the load address, modules on
pages, the one kernel first and no code twice.  The day of `Boot` has three
seconds, so that the countdown crosses midnight in most behaviours.

**zmanager.**  Pools: none, a mirror, two pools with a spare, two exported pools
with the same name beside an active one, a destroyed pool beside an exported one
of the same name; three menus and one change made by others.  Three menus let a
command leave the window out of date, a second one act on that, and a third one
meet the result.  Devices: an empty disk, one with a GPT, one with an MBR and a
BSD label in a slice, and a second disk with such a label, a name that begins with that of
the first and a pool member known by its label; three commands create a table, fill a gap
and delete again.
Datasets: a pool with a file system, a snapshot and a clone; three commands are
enough to clone, promote and destroy.  Properties: five edits rename, add, revert
and remove one property after another.

**zfs.**  Three disks in machines that differ in the age of labels and uberblocks,
in mirrors with a member replaced, missing, offline or known by two names, and in
which copies are damaged, probed in every order.  Files in two file systems with
a micro and a fat directory of two leaves, links to relative, absolute and
circular targets, indirect blocks and a spill block; three operations on two
file slots, so that a slot is used, closed and used again; one bad block.

**ficl.**  Six lines of one control word each, which is what a definition with a
complete `CASE`, or with a loop and a word to spare, takes; four lines that catch and
throw through `EVALUATE` and locals, three defining lines.  Cells of 4 bits with
every dividend and divisor and five bases.

**disks.**  Nine media (GPT with gaps and protective entries, MBR with a chain of three
extended tables, dedicated and bare disks, pc98 tables, a floppy) opened, listed and
closed by five loaders with one failing read; transfers on a drive of three
cylinders with bounce buffers of two sectors and on a pc98 whose tracks are longer than half a
segment; CD transfers of up to five sectors
with a buffer of two; 19 command lines, one with partition c of a slice without a label, given to four second stages; UFS volumes of
two partitions with an indirect block and a superblock, an inode or an address that
cannot be read; ZFS boot programs on machines with good, bad and empty drives.

**loader.**  Kernels with one and two modules and environments of lengths that need
padding on twelve platforms; ELF files with two segments, tables of symbols and
each read failing; speeds that have a divisor and some that have not, variables of the
serial port there before it is probed; three rows of four columns and words of escape sequences;
scripts that include others, one of which is not there; two interfaces and four
opens, with every step of a start failing; two downloads from two servers of one, three, four and five blocks with block numbers modulo four;
images of up to five packets; stored commands that just do and just do not fit.

### Fairness

`FairSpec` of `GptBoot` and `BCache` and `FairBoot` assume weak fairness of the
program's own steps: they are straight-line code on one processor with
interrupts served by the firmware, nothing else is scheduled.  Power loss, keys,
commands and media changes get no fairness.  `FairBoot` also assumes that the
clock goes on.  `Unattended` speaks of countdowns whose end `time()` can show:
see the second midnight below.  `GoesOn` of `ZfsFile` assumes that a lookup which can
go on does, again one program alone on a processor; `LookupEnds` then says that
circles of links end by the count of links and not by luck.

## What is proved

Every theorem is about the specification the runs check and holds for every value
of the constants that meets the assumptions.  The last step of each combines three
facts: the initial states satisfy an inductive invariant, every step keeps it, and
it implies the property.  There is one lemma per action.

| Theorem | Property | Inductive invariant |
| --- | --- | --- |
| `GptBootProofs.TypeCorrect`, `NeverPastTable`, `Survives` | `TypeOK`, `CurentInTable`, `TableSurvives` | `IndInv` |
| `GptBootProofs.OneShotOnce` | `OneShot` | `IndInv`, `Searching`, `OnceInv` |
| `GptBootProofs.TriesEveryEntry`, `NeverRetries` | `FallbackComplete`, `NoRetry` | `IndInv`, `SearchInv` |
| `BCacheProofs.CacheTypes`, `NeverTooOld` | `TypeOK`, `Fresh` | `FreshInv` |
| `BCacheProofs.ReadsAgree` | `Coherent` | `CoherentInv` |
| `BCacheProofs.CacheIsDevice` | `ImplementsDevice` | `CoherentInv`, `Clean` |
| `BootProofs.FilesLaidOut`, `DependenciesComplete`, `LoadsAllOrNothing` | `LaidOut`, `Complete`, `AllOrNothing` | `LoadInv` |
| `BootProofs.ExecutesAKernel`, `CountdownNotEarly` | `BootsKernel`, `NotEarly` | `BootInv` |
| `BootProofs.GivesUpOnlyInVain` | `GivesUpRightly` | `TriedInv` |
| `ZPoolsProofs.PoolTabSafe`, `CommandsHitTarget` | `PoolsSafe`, `RightTarget` | `PoolsInv` |
| `TransferProofs.TransfersArrive` | `TransfersSafe` | `IoInv`, `CdInv` |
| `NetProofs.NetworkIsSafe` | `NetworkSafe` | `DevInv`, `NicOK`, `TftpInv` |
| `ZfsPoolProofs.ZfsPoolSafe`, `ZfsGoodCopy` | `PoolSafe`, `GoodCopyIsRead` | `ZfsInv` |
| `ZfsFileProofs.ZfsFileSafe` | `FileSafe` | `FileInv` |

**GptBoot** (every table length, entries per sector, set of bootable entries and
bound).  `TableSurvives` alone is not inductive: it says nothing of a copy that is
half written.  `Synced` adds that a copy which was never hit differs from memory only
in sectors that are still to be written and that its header is among them as long as
any sector is; the header's write, which sets the checksum, then finds the table equal
to memory.

`OneShot` speaks of entries tried in earlier power cycles.  `OnceInv` follows the flag
through the two copies: an entry that was started is armed neither in memory nor in any
copy that checks (`TriedUnarmed`), the one about to be started has already lost `BOOTME`
in every copy in use (`StartUnarmed`), `BOOTONCE` alone appears only by that route
(`PureOnce`), a copy that is not in use does not check and is not written (`Unused`),
and the copies are equal as long as none was hit (`Twins`).  It is claimed while no
access to the disk has failed, as `OneShot` is.  The theorem has the hypothesis `N % EPS = 0`:
`gptbootconv` skips a last sector that is not full (`gpt.c:244`), and an entry in it
would stay armed.  Tables have 128 entries, four to a sector.

`FallbackComplete` and `NoRetry` need to know where the two passes of `gptfind` are.
`Behind` says that the entries a pass looks for and has gone by were tried, `Ahead` that
the flags beyond it are those that were read, `FirstPass` and `Spent` when `bootonce`
has fallen and which one-shot entries `gptbootfailed` has taken out.  Both stop
holding when a command names a partition, and the properties say so.

**BCache** (every cache size, disk, timeout, number of units and wrap of the counter).
`Base` fixes where the loops are; for `Fresh`, `SlotsHeld` says that a slot holds what
its block held at most a second before its stamp, and `BufHeld` the same for the part of
the buffer that is already final.  For `Coherent` the difficulty is the duplicated block:
`bcache_insert` does not look at slot 0, so a block can be in slot 0 and in another
slot, and `bcache_invalidate` clears only the first.  `OneEach` says slot 0 is the only
exception, `ZeroClear` and `Late` that the surviving copy is never the one in slot 0 and
is overwritten by the insert that follows the write.  When the write fails there is no
insert: `OnceEach` says that without `"twice"` no block is in two slots, so that nothing of
the request is left when the write begins.

`CacheIsDevice` is the refinement: initial states map to initial states of `BlockDev`,
and every step to a step or a stutter (`DeviceStep`, by actions).  It is stated of
behaviours that stay `Undisturbed`: no medium changed, no write went past the cache and none
failed after a block came to be in two slots.  `bcache_bypass` shows that the second
condition is needed, and `Coherent` fails without the third; the configuration of
`bcache_device` excludes all three by its constants.

**Preload and Boot** (every catalogue of files, path, memory size and sequence of
commands and failures).  `LoadInv` describes the recursion through `stack`: each frame
has the file whose dependencies it loads and the next one to look at (`Frames`); what
every prefix of the list that a roll-back may return to requires is in that prefix or
asked for by an open frame (`Resolved`, over `Lengths`); cutting the list back to the
outermost frame's file gives what the command found (`Undo`).  Without the prefixes
`Complete` is not inductive: a roll-back at depth two would uncover a list of which
nothing was known.  `BootInv` adds where `boot.c` is (`BootControl`) and that the seconds
left of a countdown are those the clock has still to show, over a midnight too
(`Counting`).

`GivesUpRightly` is about all names tried so far, each with the directories of its own
moment.  `Tried` says that none of them leads to a kernel that fits *with the present
directories*, which holds because `moduledir_rebuild` changes nothing when it is called
a second time (`RebuiltStays`).  For that the model gives the rebuilt list by position
(`Nth`, `Those`) instead of with `SelectSeq`, whose definition is recursive.

**ZPools** (every set of pools and devices, sharing names in any way `Machines` allows).
`Agree` says when the window shows the machine; `Window` that the active pools come
first in the list, which is why a command that gives a name meets the active pool of
that name; `Chose` what an open menu was made for, and that no refresh is due while it is
open; `Renaming` that the import of a rename is for the pool that was exported;
`Waiting` covers the time before the first refresh.  `CommandsHitTarget` is an action property
from the same invariant.

**DiskIo and BiosCd** (every geometry, buffer, length, and every sequence of calls that
fail after any number of sectors).  `ReadSoFar` and `WrittenSoFar` say what is true
between two tries: up to `p` everything is in its place, beyond it there is the old
contents or, after a try that failed half way, already the right one, so a retry does
no harm.  `LoopOK` ties `p`, `resid` and `dblk` together and knows whether and where the
transfer is bounced.  The arithmetic is in lemmas: cylinder, head and sector give back
the block (`RoundTrip`), and the half of the bounce buffer that is used lies in one
segment if the buffer is at most half as long as one (`BounceInSegment`), which is what
`LongTrack` excepts.  `CdInv` does the same for the CD, where a piece that failed three times
is in `lost`: `bc_read` reports it as read, and the theorem says nothing of its contents.

**Net and Tftp** (every answer of the network, every firmware, every number and length
of frames, every set of files, hosts and downloads, and every modulus of block numbers
above one).  The parts share nothing, so the invariant is a conjunction of one for each.
`Counts` ties files, opens and the socket together and keeps apart the device that is
opened only once, whose count is never taken back; `Known` says that a server that is
known, whether or not a file is open, is the one the variables name, and that one is known
while the device is open unless no answer named it (`alone`), and `Handles` that
PXE, once it has given the kernel a handle, keeps that server.  For the drivers `InOrder`
puts the frames that wait behind those that were delivered, in the queue as well as in the
PlayStation's one descriptor, and `Left` does the same for what is sent.

`StoredRight` is about packets of any age.  `PacketOK` says of every packet ever sent what
it may still do: a block is one its transfer has sent, and an acknowledgement for a transfer of
*this* download goes to the port that is followed and is for a block already stored.  From
that, `Opened91` bounds how far a transfer has come: at most one block further than the
client, and never past the number that wraps, since no client acknowledges block 0.  So a
number names one block, and the next block is the right one.  `StoredRight` states two
exceptions: the file of exactly 2^16 blocks, and a download that a late first block of an
earlier transfer began, which then stores that transfer's file.

**ZfsPool** (every set of devices, labels, trees, uberblocks and damaged blocks, and every
order of probing).  `ZfsInv` has a part for vdevs and one for pools.  `VdevInv` says that
an open descriptor and its vdev know each other (`Owned`), that every vdev is one some label
described (`Known`), that a vdev without children is healthy only when it is open
(`LeafOpen`), that nothing healthy lacks a descriptor except tops (`OnlyTops`), that a disk
no label calls bad stays healthy (`Unmarked`) and, as long as no label moves a vdev to
another parent, that children are those the labels list (`Kin`), that a healthy vdev's
children are open (`KidsOpen`) and that a top lists every disk of the label that made it
(`Complete`).  `AllHealthy` is apart because it does not hold between the walk and
`vdev_set_state`.  `PoolInv` has one pool per guid, every top and member in it, and no
uberblock of a member newer than the pool's (`Newest`).

The walk over a label is the hard part: between two nodes the table is neither the old nor
the new one.  `Linked` and `MidWalk` say what the list of each parent is after `i` nodes, and
the proof is an induction over `i`.  The library's induction theorems cannot be instantiated
here, so induction is derived from `WFMin` (a set of numbers has a least element, `NatInd`),
and each recursive function is first shown to exist (`Walk`, `Best`).

**ZfsFile** (every collection of objects that meets `FileAssumption`, every path, size, seek
and bad block, files opened, closed and opened again at one address in any order).  The
question is whether the one block buffer can be taken for a block of another object.  The
argument has three layers.

- A *chain* of requests asks for one object as long as it stays at one address, and starts
  and ends at known ones (`Chain`, `Runs`).  A chain that begins with an address about which
  the buffer is right is answered rightly to its end (`FetchRun`, by induction over its
  length).  Every list of requests in the code is such a chain (`RootRun`, `MountRight`, `DirRun`,
  `LookupRun`, `RlookupRun`, `BlocksAre`, `ListRun`).
- `Held` says about which addresses the buffer is right between calls: those that outlive a
  call, which are the pool's, zfsboot's static mount and the open files.  Nothing is known of local
  variables and of mounts, which are allocated anew; there the proof needs that each use
  of such an address comes after a request for another one, so that the key cannot match.
  `zfs_close` has to forget the key, because `LookupDone` puts another dnode at that address.
- `LookOK` says of a lookup under way that the rest of the path, from the object reached and
  with the links left, means what the whole path meant.  `Resolve` is that meaning, a
  recursive function with no measure that decreases (a link may lengthen the path); it is shown
  to have a solution because it calls itself only in last place (`SolutionExists`).

`Shown` says that a directory's list is what lies before the place reached, none of it past
the end as `zfs_readdir` sees it; `DevOK` that the device in use is the dataset its name
means, and `RoundTrip` (an induction down the names and up the directories) that the way back
gives the name.

Assumptions: `GptAssumption`, `InitFlagsAssumption`, `ConfigsAssumption`,
`BCacheAssumption`, `ValuesAssumption`, `CatalogueAssumption`, `BootAssumption`,
`ZPoolsAssumption`, `IoAssumption`, `CdAssumption`, `NetAssumption`, `TftpAssumption`,
`PoolAssumption`, `FileAssumption`, `BootfsAssumption`.  They give the types of the
constants and that sets which are chosen from are not empty.  Beyond that,
`ZPoolsAssumption` says that the machine's sets are finite and NULL is no pool, and
`IoAssumption` that a segment has room for the bounce buffer of a floppy twice (64 KB,
against 18 sectors) and that no buffer reaches across the first megabyte.  `TftpAssumption`
says that a file has at least one block (TFTP ends a file with a short one, an empty one if
need be), that no host is called "none" and that there is more than one block number.
`PoolAssumption` says that a label's tree is one (parents first, disks at the bottom) and
that a guid stands for one vdev in labels of any age: one pool, one type, and at the top
always or never.  `FileAssumption` says that the pool is well formed: a name in a directory
leads to a file, a directory, a link or nothing, the leaves of a fat zap are its blocks 1 to
`num_leafs` in order, a file system has a root directory, and the directories of datasets
are a tree; `BootfsAssumption` that `BootfsNames` is the name of the default dataset.
TLC evaluates all of them on the instances of the runs.

Only model-checked:

- All liveness (`SearchEnds`, `Returns`, `Unattended`, `Ends`, `LookupEnds`): fairness
  and `ENABLED` are out of the prover's reach.
- `Disks`, `Ufs`, `HandOver`, `Shell` and `BootCommands` use `RECURSIVE` operators, under
  which the prover loses its arithmetic; `ZDevices`, `Terminal`, `FiclMath` and others fold
  over lists with the operators of the community modules, whose definitions it cannot
  unfold.  Where the recursion is a function over `0 .. n`, as in `ZfsPool` and `ZfsFile`, the
  induction can be done by hand; these would first have to be written that way.  So
  `DevicesSafe`, `DataSetsSafe`, `NumbersAndWords`, `DisksSafe`, `StagesSafe`, `HandedOver`,
  `LoadedRight`, `ScreenSafe` and `LinesSafe` stay with TLC.
- `FiclSafe` is about the lines of the run: it is not claimed for arbitrary ones, since many
  words take cells without a check (see the disagreements).
- `RequestsSound` and `At91Safe`, parts of which could be proved; see the plan.

## Findings

The run `bcache_bypass` ends in a violation (`BypassCoherent`, `bcache.c:244`): a
large write goes past the cache and leaves the old contents in it, although the
comment at `bcache.c:124` says that a write populates the cache with the new values.

### Further disagreements

These were met while translating.  The models follow the code; the properties
state the exception where there is one.  The first seven contradict a comment, a
manual page or a message of the repository.

- `gpt.c:115`: `gptfind` raises `curent` and gives up at the end of the table before
  it looks at `bootonce`, so when the failed one-shot entry is the last one the
  `BOOTME` entries are never tried (`FallbackComplete` has the exception).
- `load_elf.c:197`: `kernelname` is set before the image is read and stays when that
  fails; `loader.4th:73` takes it for a loaded kernel.
- `zmanagerwindow.cpp:1843`: the item "No pools available, right click to create a
  new one..." has no data, and the menu reads the first pool of an empty list.
- `zmanagerwindow.cpp:2946`: the second pass over the datasets finds parents by the
  start of a string: after `t/ab` was cloned to `t/a`, the item of `t/a` is hung
  below itself and three items cannot be reached any more.
- `arm/at91/boot2/boot2.c:308`: `dskread` takes the start of the second slice
  whichever slice its loop has found, where the comment says "this partition".
- `dev_net.c:129`: with `NETIF_OPEN_CLOSE_ONCE`, after the interface was closed for
  another one, the other one is never opened and its file gets the socket -1.
- `comconsole.c:187`: `comconsole_speed` or `comconsole_port` set before the serial
  port is in use only change the variable, and the port overwrites it when it
  starts; `loader.8:419` says that changes take effect immediately.

Boot and block cache:

- `gpt.c:244`: `gptbootconv` divides the number of entries by the entries per
  sector and misses a last sector that is not full.
- `gpt.c:366`: a command that names another partition during a one-shot boot
  calls `gptread` again, which marks the entry in use as failed.
- `bcache.c:274`: `bcache_insert` starts its search at slot 1; a block in slot 0
  can be inserted twice, and a write of it that fails half way clears one of the two: the
  other shows the old contents until it expires (`Coherent` states the exception).
- `bcache.c:236`: when the cache could not be allocated, the first request
  flushes it all the same, through control blocks that were freed.
- `module.c:986`: new directories are appended, so the search order is not the
  order of `module_path` once that has changed; `module.c:910`: the hints of a path
  are kept when the current device changes.
- `boot.c:288`: an empty name in the list of kernels ends the list.
- `time.c:83`: only one midnight is added; a countdown that crosses a second one
  (over 24 hours) does not end.

ZFS of the loader (`zfsimpl.c`, `zfs.c`):

- `zfsimpl.c:571`: a vdev has one link for `spa_vdevs` and for every list of children.  A
  label of another age that lists it below another parent cuts the list it was in, and a
  healthy disk with the only good copy of a block is not read any more; a vdev that is a top
  in one label and a child in another makes a circle (excluded by `PoolAssumption`).  Found when `GoodCopyIsRead`
  could not be proved without `NoneMoved`.
- A newer label that is refused half way has already changed states below a top whose own
  state is not computed again; the state of a top that is a mere "replacing" is not taken
  back when a disk below it is marked (`OnlineMeansOpen` has both exceptions).
- A probe makes its vdev HEALTHY whatever a newer label said of it; children that an
  older label does not list are not linked when that label came first; `spa_txg` is
  raised before the tree is accepted; only the first label of a disk is read; a
  replacing vdev below a mirror never becomes HEALTHY.
- A failed read leaves a new block in `dnode_read`'s buffer under the old key.
- `fzap_lookup` follows a null pointer for an empty bucket, `fzap_rlookup` hashes an
  uninitialised buffer, `zfs_readdir` misses the last leaf (`zap_list` does not).
- `zfs_read` past the end of the file wraps; the error of `objset_get_dnode` after a
  link is ignored.
- `zfsimpl.c:1963`: the tail of a path is moved with an overlapping `strcpy`, with no bound
  of `path[1024]`: a link to a longer link (`sub/kernel` with `sub -> go`, `go -> boot`), or a
  circle of two lengths, with a name after it makes a copy that never ends, before
  `symlinks_followed` counts out.  The run has both and a path one byte too long;
  `LookupEnds` and `OpenResolves` state the exception.

Disks, second stages:

- `disk:` without a unit gives unit -1, and `bdinfo[-1]` is read on i386; the
  `parsedev` of U-Boot, PS3 and EFI use an uninitialised pointer there.  `bd_getdev`
  opens and never closes.  `fmtdev` prints slice 0 as no slice.
- Nested extended partitions are taken relative to the inner one, so that the third table of
  a chain is looked for in the wrong place (`StartsRight` excepts it); `bd_bestslice`
  returns 0 and never -1, and the caller indexes `slicetab[-1]`; the one of pc98
  always returns 0; a table whose length is no multiple of the entries per sector
  loses its end; `disk_openmbr` with slice -1 reads `slicetab[-2]`, and
  `disk_readslicetab` succeeds without a table; `disk_printgpt` prints the position
  instead of the index, so `lsdev` of userboot misnames what follows a hole (`ListsRight`
  excepts it).
- U-Boot: the count of opens rises when a nested open fails and is set to 1 by every
  one that works (`uboot/lib/disk.c:475`), an unknown partition opens at offset 0, the
  label's index is not checked.  PS3: `od_start` is not set for an unknown partition.
- `bioscd.c`: `bc_read` forgets that the third try failed and never returns an error,
  so `EIO` in `bc_strategy` cannot happen; a drive that could not be added is opened
  as unit -1; only the start of the buffer is compared with 1 MB, as `bd_io` does too.
- pc98's `biosdisk.c:855`: a bounce buffer of a whole track of up to 255 sectors; neither
  half of one longer than half a segment need lie in one (`Addressable` excepts it).
- `boot2`: a device specification refused half way leaves type, unit, slice and
  partition changed while drive and `dsk_meta` are not; `-n` after a failed automatic
  boot leaves nothing to be typed on i386 and pc98 (the ARM boards do not look at it); from
  partition c of a slice without a label the loader is started with a device it cannot open
  (`LoaderAgrees` says so); pc98 ignores the number before the colon and its
  `bd_init` can overrun `bdinfo`; ARM's `dskread` raises `dsk_meta` before the
  superblock is known, and ixp425 never resets `disk_layout`; at91 declares `dsk_meta`
  with another type than `ufsread.c`; a SCSI disk booted as drive 0 is taken for 0x80.
- `ufsread.c`: a failed read clobbers the block buffer while `blkmap` and `inomap` keep
  their keys; `size - fs_off` wraps past the end.  `boot1` ignores all errors of the
  firmware's read and the handle 0; `bootargs` of a two-digit partition lacks its
  terminator.  `boot2` loads a stale second program header of a file that has one.
- `zfsboot`: a pool named by the user is never initialised (`zfs_spa_init`); after a
  failed first mount `load` and the listing use it all the same; the comment says that a
  drive is skipped and the code ends the loop; `int13probe` compares with `!=` where the
  loader has `>`; the pool is switched before dataset and mount are known to be good;
  `bios_extmem` is cut to 32 bits.

Forth (`boot/ficl`):

- `WHILE` swaps two pairs without looking at the tags; an immediate word that compiles
  `IF` while interpreting appends to the last word; `:noname` keeps the number of
  locals; `fRestart` may be stale after a text that ends inside a parsing word; `CATCH`
  leaves a smudged word of a nested `EVALUATE`; `resolveAbsBranch` only warns and
  `markBranch` pushes without a check; `searchPush` and `dictCheck` allow one wordlist
  too many.
- `5.` pushes 0 below the number; division by zero is not caught, and the portable
  `ficlLongDiv` never ends on it; ia64 and sparc64 split products at 32 bits with
  64-bit cells; `tempBase` keeps the base when the number is refused.
- `TYPE`, `UM/MOD`, `ALLOCATE`, `FREE`, `RESIZE`, `DNEGATE`, `2LITERAL`, `USER`, the
  words of the search order and `hash` take cells without a check; `WORD` writes one
  or two bytes past the pad for 254 or 255 characters (`PadBounds` excepts them, the run
  meets them); locals are taken from the stack without a check, and on an empty stack the
  machine's own header is read (`wild`, after which the model follows it no further); `findfile` frees neither string and `setenv`
  loses one when memory runs out; the line of `ficlExecFD` and the arguments of `ccall`
  are not bounded; `ALLOT` at an odd address may pass the end by less than a cell;
  `FORGET` cleans one wordlist.

Command line, ELF, hand-over:

- `malloc(sizeof(char *) * ac + 1)`; `args[ac] = NULL` with a full array; a value that
  does not fit moves the index past the buffer; `$` at the end of a line loses the last
  word; any quote closes any other; `@-` is not both prefixes; the prompt reads past
  the end of `${`; after a nested script failed the message prints the name of a command
  that was freed (`ScriptsRight` excepts it); leaving
  the pager in `more` is an error, inside a help entry it ends the entry only; `help`
  loses its strings and trusts `loaddev`.
- `fpcopy` copies past `p_filesz` of the first page; errors of `parse_modmetadata` refuse
  the module in one loader and not in the other; of two sections with one offset the
  second is not read; symbol tables are given room twice.
- `rootdev` is not set when `getdev` fails; userboot pads a 32-bit kernel's records to the
  host's word, so that the kernel's walk does not find them (`WalkRight` walks them as the
  host would); `--s` is a switch on two platforms only; U-Boot changes metadata in place;
  ia64's copy functions do not advance their source over a page boundary: of a record, a
  value or a variable that crosses one only the first piece is right (`WalkRight`, `EnvRight`).

Consoles and network:

- The hint for the kernel is made once: its hooks refuse every later value, so that a port
  that is moved, or given another speed, leaves an old one (`comconsole.c:220`); a speed for
  which there is no divisor is taken and believed, and the line runs at another; a variable
  set before the port is in use never reaches it (`VariablesTrue`); `comc_probe` uses a string
  after `unsetenv` freed it; a console that is not present is activated by its name; the
  FireWire console is probed active and never chosen.  Screens: i386's CD moves only the
  program's cursor, CM has no bound, pc98 scrolls text but not colours and clears one cell
  too many, `ESC[;5H` forgets its argument.  EFI's `getchar` blocks and returns 0 for a
  function key.
- `dev_net.c:240` says RARP is used if any parameter is missing, the code looks at our
  address only; an address left by a failed attempt makes the retry succeed without a server,
  and so does an answer that names none (the property says that then none is known);
  `ps3net_get` returns an error number as a length; `ofwn_put` pads the length it
  compares and not the one it writes; failures of `efinet_init` are not heard, the interface is
  used without filters or not started, and when the protocol could not be opened a pointer
  that was not set is followed; `pxe_init`
  leaves `pxe_call` set when its last query fails; `nfs_root_node` keeps a closed
  descriptor.

AT91 boards:

- A short block ends the download even if it is not the one expected; the local port is
  the same for every download, so a late first block of an earlier transfer begins the next,
  and is acknowledged to the hardware address of the server before, which `SetServerIPAddress`
  keeps; block 65536 has number 0 and is not stored (`emac.c:206`):
  a file that ends with it is reported complete (`emac.c:217`), a longer one never ends;
  every packet restarts
  the timeout; requests for any address are answered; `tftp` without a name uses NULL.
- XMODEM: the number of packet 4 is taken for the end when the start of the packet is
  lost; `SPI_WriteFlash` overwrites its source, so the retries of `boot0spi` write what
  the flash answered (and end in "Bad Readback"); `bootspi` never reads back; the wait of
  `boot0spi` is inverted.
- Two spaces inside a boot command cut it; ten words are refused although there is room;
  after the boot commands there is no prompt; power loss during a write leaves a mixture
  of commands without a checksum.

pc-zmanager:

- `:1554`: "Rename pool" is offered on blank space, where the selected pool is NULL,
  freed, or one that is not active.  `:711`: a device that `zpool` names by a label is not
  marked as used and offered for new pools.  `:2564`: when the import after the export of a
  rename fails, the window is not refreshed.  `:1858`: a spare that serves two pools is
  removed from the first of the list.  A pool `tank` also shows the datasets of `tank2`.
- `startsWith` takes the disk `ada10`, listed after `ada1`, for a slice, and its slices for
  partitions (`ListComplete` says so); a pool's device that has a label is offered for
  deletion (`RequestsSound` says so); a right click on blank space in
  the device tab follows NULL; after `gpart add` worked and `newfs` failed the window is not
  refreshed; a labelled device mounted by its plain name cannot be unmounted; a change of
  the unit of size forgets the granularity; fields of `glabel` and `mount` are read before
  they are counted.
- Cloning the root of a pool always fails and leaves a snapshot; promote is offered for
  unmounted clones only; a clone below its origin that is promoted makes a circle.
- Property dialog: an added property that is renamed keeps its old name as data; a name
  refused and then taken gives two values; a reverted addition is still sent, empty; the
  buttons Inherit and Revert follow NULL on a row that was added and has no name yet, because
  they are those of the row before (`NoNull` says so); so does a right click on blank space.
  `:1064` reads the mark of an added property behind the end of the list; the model takes
  it to be "Added".

## Not modelled

- The Forth scripts (`support.4th`, `menu.4th`): programs in a language whose
  interpreter is modelled; their choice of kernel and modules ends in the builtin
  commands of `Preload` and `Boot`.
- First stages in assembly, BTX, and the start-up and memory management of the other
  platforms: processor modes and firmware calls without state that could be wrong later.
- `fdt_loader_cmd.c`, FireWire, `smbios.c`, `biosacpi.c`, `isapnp.c`: tables of hardware
  and firmware that are copied or printed.
- The boot screen, fonts, pictures; registers of the AT91 chip, its SD card and FPGA.
- Ficl's debugger, decompiler, object-oriented words; raidz groups and pool properties in
  `pc-zmanager`.

## Plan

1. Proofs for the state machines that have none and use no `RECURSIVE` operator:
   `Xmodem` (what arrives is the image), `Consoles`, `ZfsBoot` (pointers into the heap
   of `dsk`).  Each needs its specification and its property stated in the module
   itself, the way `BiosCd` states `TransfersSpec` and `TransfersSafe`.
2. `ZProps` (`RequestsSound`) with the three lists in the invariant.
3. The choice of kernel and modules by `support.4th` on top of `Preload`.
