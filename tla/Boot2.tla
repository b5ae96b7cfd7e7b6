------------------------------- MODULE Boot2 -------------------------------
(***************************************************************************)
(* The second stages that read UFS: boot2.c of i386, of pc98 and of the two *)
(* ARM boards.  They find a partition, read a configuration line, wait for  *)
(* a key, and load the loader or a kernel; a command line may name another   *)
(* device, another file and options.  On i386 and pc98 what they hand over   *)
(* is what the loader starts from (bd_init, extract_currdev).                 *)
(* A command line is a sequence of arguments, a device specification a        *)
(* record of its fields.                                                      *)
(***************************************************************************)
EXTENDS Disks

CONSTANTS
    CmdLines,       \* what is typed, or stands in /boot/config
    Machines2,      \* the BIOS drives of the behaviours, with the program they boot
    MAXBDDEV        \* room in bdinfo
ASSUME Boot2Assumption == MAXBDDEV \in Nat \ {0}

VARIABLES
    prog,           \* boot2, pc98, at91, ixp425
    bios,           \* the drives the BIOS has
    dsk,            \* drive, type, unit, slice, part, start, init
    dsk_meta,       \* dsk.start and the superblock are those of dsk
    layout,         \* disk_layout of ixp425
    opts, kname, autoboot,
    b2pc,           \* config, wait, prompt, exec
    torn,           \* a device was refused half way since the last that was not; on ixp425 also
                    \* that a second device is tried
    booted          \* what the program was handed, and where it was read
b2vars == <<prog, bios, dsk, dsk_meta, layout, opts, kname, autoboot, b2pc, torn, booted>>

WHOLE_DISK_SLICE == 1
COMPATIBILITY_SLICE == 0
BASE_SLICE == 2
RAW == 2            \* RAW_PART, counted from 0
DRV_HARD == 128
None == [prog |-> "none"]

-----------------------------------------------------------------------------
(* Partitions: dskread while dsk_meta is 0.  `dsk' changes even when it fails. *)
Found(ok, d) == [ok |-> ok, dsk |-> d]
Table(l) == IF Sector(l).k = "boot" THEN Sector(l).tab ELSE [i \in 1 .. NDOSPART |-> [typ |-> "none", act |-> FALSE, start |-> 0, size |-> 0]]
\* Beyond the table lies memory nobody has written; a refused slice may lead there.
Entry(tab, i) == IF i \in 1 .. NDOSPART THEN tab[i] ELSE [typ |-> "none", act |-> FALSE, start |-> 0, size |-> 0]
Least(S) == CHOOSE i \in S : \A j \in S : i <= j
Bsd(tab) == {i \in 1 .. NDOSPART : tab[i].typ = "bsd"}
Active(tab) == {i \in Bsd(tab) : tab[i].act}
\* The label at the start of a slice.
OnLabel(d, start, raw) ==
    LET lp == Sector(start + LABELSECTOR)
        d1 == [d EXCEPT !.start = start]
        d2 == [d1 EXCEPT !.type = IF prog = "boot2" /\ ~d.init /\ disk.scsi THEN "da" ELSE @, !.init = TRUE]
    IN  IF lp.k # "label" THEN Found(raw, d1)
        ELSE IF d.part >= Len(lp.parts) \/ lp.parts[d.part + 1].size = 0 THEN Found(FALSE, d2)
        ELSE Found(TRUE, [d2 EXCEPT !.start = start + lp.parts[d.part + 1].off - lp.parts[RAW_PART].off])
\* i386: the active FreeBSD slice, else the first one, else the whole disk.
boot2_dskread(d) ==
    LET tab == Table(0)
        sl == IF d.slice >= BASE_SLICE \/ Bsd(tab) = {} THEN d.slice
              ELSE Least(IF Active(tab) # {} /\ d.slice = WHOLE_DISK_SLICE THEN Active(tab) ELSE Bsd(tab)) + 1
        d1 == [d EXCEPT !.slice = IF @ = WHOLE_DISK_SLICE THEN sl ELSE @, !.start = 0]
        e == Entry(tab, IF sl = COMPATIBILITY_SLICE THEN 1 ELSE sl - 1)
    IN  IF d.drive \notin bios THEN Found(FALSE, [d EXCEPT !.start = 0])
        ELSE IF sl = WHOLE_DISK_SLICE THEN OnLabel(d1, 0, d.part = RAW)
        ELSE IF e.typ # "bsd" THEN Found(FALSE, d1)
        ELSE OnLabel(d1, e.start, d.part = RAW)
\* pc98: the table is the second sector, and a floppy has none.
pc98_dskread(d) ==
    LET tab == Table(1)
        sl == IF d.slice >= BASE_SLICE \/ Bsd(tab) = {} THEN d.slice ELSE Least(Bsd(tab)) + 1
        d1 == [d EXCEPT !.slice = sl, !.start = 0]
    IN  IF d.type = "fd" THEN Found(d.drive \in bios, [d EXCEPT !.start = 0])
        ELSE IF d.drive \notin bios THEN Found(FALSE, [d EXCEPT !.start = 0])
        ELSE IF sl = WHOLE_DISK_SLICE THEN OnLabel(d1, 0, d.part = RAW)
        ELSE IF Entry(tab, sl - 1).typ # "bsd" THEN Found(FALSE, d1)
        ELSE OnLabel(d1, Entry(tab, sl - 1).start, d.part = RAW)
\* at91 looks for a slice and then takes the second one.
at91_dskread(d) ==
    IF Bsd(Table(0)) = {} THEN Found(FALSE, [d EXCEPT !.start = 0])
    ELSE LET start == Table(0)[2].start IN OnLabel([d EXCEPT !.part = 0], start, FALSE)
\* ixp425 knows disks without slices, slices without a label, and both.  bootslice is dsk.slice here.
DL(d, old, start) ==
    LET lp == Sector(start + LABELSECTOR)
        raw == d.slice = 4 /\ start = 0
    IN  CASE lp.k # "label" -> "SLICE" [] raw -> "RAW" [] old # "UNKNOWN" -> old [] d.slice = 0 -> "RAW" [] OTHER -> "SLICEPART"
ixp425_dskread(d) ==
    LET tab == Table(0)
        i == IF d.slice # 0 THEN d.slice ELSE IF Active(tab) = {} THEN 0 ELSE Least(Active(tab))
        start == IF i = 0 THEN 0 ELSE Entry(tab, i).start
        d1 == [d EXCEPT !.slice = IF i = 4 /\ start = 0 THEN 0 ELSE i]
    IN  IF d.slice # 0 /\ Entry(tab, d.slice).typ # "bsd" THEN Found(FALSE, [d EXCEPT !.start = 0]) @@ [layout |-> layout]
        ELSE OnLabel(d1, start, TRUE) @@ [layout |-> DL([d EXCEPT !.slice = i], layout, start)]
dskread(d) == CASE prog = "boot2" -> boot2_dskread(d) [] prog = "pc98" -> pc98_dskread(d)
                [] prog = "at91" -> at91_dskread(d) [] OTHER -> ixp425_dskread(d)

\* lookup: the superblock is looked for where dskread has found the partition.  On ARM dskread itself
\* raises dsk_meta, before the superblock is known to be one.
Mounted == IF dsk_meta THEN Found(TRUE, dsk) ELSE dskread(dsk)
HasUfs(m) == m.ok /\ m.dsk.start \in DOMAIN disk.ufs
Meta(m) == IF prog \in {"boot2", "pc98"} THEN HasUfs(m) ELSE m.ok
Layout(m) == IF "layout" \in DOMAIN m THEN m.layout ELSE layout
lookup(m, path) == IF HasUfs(m) /\ path \in DOMAIN disk.ufs[m.dsk.start] THEN disk.ufs[m.dsk.start][path] ELSE "none"

-----------------------------------------------------------------------------
(* parse: a state of dsk, options and name, until an argument is refused. *)
OPTSTR == IF prog \in {"boot2", "pc98"} THEN {"D", "h", "a", "C", "c", "d", "g", "m", "n", "p", "q", "r", "s", "v"} ELSE {"a", "g", "n", "r", "s", "v"}
Toggle(S, c) == IF c \in S THEN S \ {c} ELSE S \union {c}
ParseOpt(s, cs) == FoldLeft(LAMBDA r, c : IF r.err THEN r
                                        ELSE IF c = "P" /\ prog \in {"boot2", "pc98"} THEN [r EXCEPT !.opts = @ \union {"D", "h"}]   \* no keyboard
                                        ELSE IF c \notin OPTSTR THEN [r EXCEPT !.err = TRUE]
                                        ELSE [r EXCEPT !.opts = Toggle(@, c)], s, cs)
ParseName(s, name) == IF name = "" THEN s ELSE IF name = "toolong" THEN [s EXCEPT !.err = TRUE] ELSE [s EXCEPT !.kname = name]
Refused(s, d) == [s EXCEPT !.dsk = d, !.err = TRUE, !.torn = TRUE]
BiosBase == IF prog = "boot2" THEN [ad |-> DRV_HARD, da |-> DRV_HARD, fd |-> 0] ELSE [ad |-> 128, da |-> 160, fd |-> 144]
\* Mutant of ParseDev: the partition that was found before is kept.
ParseDevKeeps(s, a) ==
    IF a.drv > 9 \/ a.nm \notin {"ad", "da", "fd"} \/ a.unit > 9 \/ a.slice > NDOSPART \/ a.part > 7 THEN [s EXCEPT !.err = TRUE]
    ELSE [s EXCEPT !.dsk.type = a.nm, !.dsk.unit = a.unit, !.dsk.slice = a.slice + 1, !.dsk.part = a.part, !.torn = FALSE]
\* drv:nm(unit,slice,part)name -- a field of 10 or more is not a digit, a slice of -1 is left out
ParseDev(s, a) ==
    LET d1 == [s.dsk EXCEPT !.type = a.nm, !.unit = a.unit]
        d2 == [d1 EXCEPT !.slice = IF a.slice = -1 THEN WHOLE_DISK_SLICE ELSE a.slice + 1]
        d3 == [d2 EXCEPT !.part = a.part]
        drv == IF a.drv = -1 \/ prog = "pc98" THEN a.unit ELSE a.drv
    IN  IF a.drv > 9 \/ a.nm \notin {"ad", "da", "fd"} THEN [s EXCEPT !.err = TRUE]
        ELSE IF a.unit > 9 THEN Refused(s, d1)
        ELSE IF d2.slice > NDOSPART + 1 THEN Refused(s, d2)
        ELSE IF a.part > 7 THEN Refused(s, d3)
        ELSE ParseName([s EXCEPT !.dsk = [d3 EXCEPT !.drive = BiosBase[a.nm] + drv], !.meta = FALSE, !.torn = FALSE], a.name)
\* ixp425: ad0s<slice><part>:name, or ad0<part>:name
ParseAd0(s, a) ==
    LET d1 == [s.dsk EXCEPT !.slice = IF a.slice = -1 THEN 0 ELSE a.slice]
        d2 == [d1 EXCEPT !.part = a.part]
    IN  IF a.nm # "ad" THEN ParseName(s, "other")      \* taken for a file name
        ELSE IF a.slice # -1 /\ a.slice \notin 1 .. 4 THEN Refused(s, d1)
        ELSE IF a.part > 7 THEN Refused(s, d2)
        ELSE ParseName([s EXCEPT !.dsk = d2, !.meta = FALSE, !.torn = layout # "UNKNOWN"], a.name)
boot2_parse(s, a) == CASE a.k = "opt" -> ParseOpt(s, a.cs) [] a.k = "name" -> ParseName(s, a.name) [] OTHER -> ParseDev(s, a)
pc98_parse(s, a) == CASE a.k = "opt" -> ParseOpt(s, a.cs) [] a.k = "name" -> ParseName(s, a.name) [] OTHER -> ParseDev(s, a)
ixp425_parse(s, a) == CASE a.k = "opt" -> ParseOpt(s, a.cs) [] a.k = "name" -> ParseName(s, a.name) [] OTHER -> ParseAd0(s, a)
\* at91 has no devices.
at91_parse(s, a) == CASE a.k = "opt" -> ParseOpt(s, a.cs) [] a.k = "name" -> ParseName(s, a.name) [] OTHER -> ParseName(s, "other")
ParseArg(s, a) ==
    IF s.err THEN s
    ELSE CASE prog = "boot2" -> boot2_parse(s, a) [] prog = "pc98" -> pc98_parse(s, a)
           [] prog = "ixp425" -> ixp425_parse(s, a) [] OTHER -> at91_parse(s, a)
parse(d, meta, cmd) == FoldLeft(ParseArg, [dsk |-> d, meta |-> meta, opts |-> opts, kname |-> kname, torn |-> torn, err |-> FALSE], cmd)
Apply(s) == opts' = s.opts /\ torn' = s.torn

-----------------------------------------------------------------------------
\* load(): from the device of state s; a read may fail, and then nothing is started.
Load(s, fails, formats) ==
    \E m \in {IF s.meta THEN Found(TRUE, s.dsk) ELSE dskread(s.dsk)} : \E ok \in {lookup(m, s.kname) \in formats /\ ~fails} :
        /\ dsk' = m.dsk /\ dsk_meta' = Meta(m) /\ layout' = IF s.meta THEN layout ELSE Layout(m)
        /\ booted' = IF ok THEN [prog |-> prog, dsk |-> m.dsk, opts |-> s.opts, kname |-> s.kname, layout |-> IF s.meta THEN layout ELSE Layout(m)] ELSE None
        /\ IF ok THEN b2pc' = "exec" /\ kname' = s.kname
           ELSE b2pc' = "prompt" /\ kname' = IF b2pc = "wait" THEN "kernel" ELSE s.kname
boot2_load(s, fails) == Load(s, fails, {"elf", "zmagic"})
pc98_load(s, fails) == Load(s, fails, {"elf", "zmagic"})
at91_load(s, fails) == Load(s, fails, {"elf"})
ixp425_load(s, fails) == Load(s, fails, {"elf"})
load(s, fails) == CASE prog = "boot2" -> boot2_load(s, fails) [] prog = "pc98" -> pc98_load(s, fails)
                    [] prog = "at91" -> at91_load(s, fails) [] OTHER -> ixp425_load(s, fails)

\* main up to the key: the line of /boot/config.  Only i386 and pc98 try a loader first.
Config(cmd, default, waits) ==
    /\ b2pc = "config"
    /\ \E m \in {Mounted} : \E s \in {parse(m.dsk, Meta(m), IF lookup(m, "config") # "none" THEN cmd ELSE <<>>)} :
        /\ dsk' = s.dsk /\ dsk_meta' = s.meta /\ layout' = Layout(m) /\ Apply(s)
        /\ autoboot' = ~s.err
        /\ kname' = IF s.kname = "" THEN default ELSE s.kname
        /\ b2pc' = IF s.kname = "" /\ ~s.err /\ waits THEN "wait" ELSE "prompt"
        /\ UNCHANGED <<prog, bios, booted>>
boot2_main(cmd) == prog = "boot2" /\ Config(cmd, "loader", TRUE)
pc98_main(cmd) == prog = "pc98" /\ Config(cmd, "loader", TRUE)
at91_main(cmd) == prog = "at91" /\ Config(cmd, "kernel", FALSE)
ixp425_main(cmd) == prog = "ixp425" /\ Config(cmd, "kernel", FALSE)
ReadConfig(cmd) == boot2_main(cmd) \/ pc98_main(cmd) \/ at91_main(cmd) \/ ixp425_main(cmd)
\* -n: no key is looked for.
keyhit == "n" \notin opts
\* Nobody has pressed a key: the loader.
AutoLoad(fails) ==
    /\ b2pc = "wait"
    /\ load([dsk |-> dsk, meta |-> dsk_meta, opts |-> opts, kname |-> kname], fails)
    /\ UNCHANGED <<prog, bios, opts, autoboot, torn>>
KeyPressed == /\ b2pc = "wait" /\ keyhit /\ b2pc' = "prompt"
              /\ UNCHANGED <<prog, bios, dsk, dsk_meta, layout, opts, kname, autoboot, torn, booted>>
\* One turn of the loop.  Without a key, and only the first time, the line is empty.  With -n i386 and
\* pc98 never see a character again (xgetc), while the getc of the ARM boards does not know the option.
Typed == keyhit \/ (~autoboot /\ prog \in {"at91", "ixp425"})
Prompt(cmd, fails) ==
    /\ b2pc = "prompt" /\ ((cmd = <<>> /\ autoboot) \/ Typed)
    /\ \E s \in {parse(dsk, dsk_meta, cmd)} :
        /\ autoboot' = FALSE /\ Apply(s)
        /\ IF s.err THEN dsk' = s.dsk /\ dsk_meta' = s.meta /\ kname' = s.kname /\ UNCHANGED <<layout, booted, b2pc>>
           ELSE load(s, fails)
        /\ UNCHANGED <<prog, bios>>

\* What the earlier stage passes: the drive, and a slice or none.
Type0(drive) == IF prog = "boot2" THEN IF drive >= DRV_HARD THEN "ad" ELSE "fd"
                ELSE IF drive \in 128 .. 143 THEN "ad" ELSE IF drive \in 160 .. 175 THEN "da" ELSE "fd"
\* pc98 looks for the slice that holds the cylinder it was read from.
check_slice(slice) == IF slice \in Bsd(Table(1)) THEN BASE_SLICE + slice - 1 ELSE WHOLE_DISK_SLICE
Boot2Init ==
    /\ prog \in {"boot2", "pc98", "at91", "ixp425"}
    /\ bios \in {m.bios : m \in {m \in Machines2 : m.prog = prog}}
    /\ \E drive \in bios, slice \in 0 .. NDOSPART :
        LET ty == Type0(drive)
            sl == CASE prog = "boot2" -> slice + 1 [] prog = "pc98" -> IF ty = "fd" THEN WHOLE_DISK_SLICE ELSE check_slice(slice) [] OTHER -> 0
        IN  dsk = [drive |-> drive, type |-> ty, unit |-> drive % 16, slice |-> sl, part |-> 0, start |-> 0, init |-> FALSE]
    /\ dsk_meta = FALSE /\ layout = "UNKNOWN" /\ opts = {} /\ kname = "" /\ autoboot = TRUE /\ b2pc = "config" /\ torn = FALSE /\ booted = None
Boot2Next == \/ \E cmd \in CmdLines : ReadConfig(cmd)
             \/ KeyPressed
             \/ \E fails \in BOOLEAN : AutoLoad(fails) \/ \E cmd \in CmdLines : Prompt(cmd, fails)

-----------------------------------------------------------------------------
(* The next stage: the drives the loader finds, and the device it starts on. *)
\* bd_init: floppies, then hard disks, each up to the first that does not answer.
Run0(base) == LET n == CHOOSE n \in 0 .. 16 : (\A i \in 0 .. n - 1 : base + i \in bios) /\ base + n \notin bios IN [i \in 1 .. n |-> base + i - 1]
Cut(seq) == SubSeq(seq, 1, IF Len(seq) < MAXBDDEV THEN Len(seq) ELSE MAXBDDEV)
i386_bd_init == Cut(Run0(0) \o Run0(DRV_HARD))
\* pc98 steps over missing floppies and SCSI disks.
Present(base, n) == SelectSeq([i \in 1 .. n |-> base + i - 1], LAMBDA u : u \in bios)
pc98_bd_init == Present(144, 4) \o Run0(128) \o Present(160, 6)
bdinfo == IF prog = "boot2" THEN i386_bd_init ELSE pc98_bd_init
bd_unit2bios(unit) == IF unit \in 0 .. Len(bdinfo) - 1 THEN bdinfo[unit + 1] ELSE -1
bd_bios2unit(biosdev) == IF \E i \in DOMAIN bdinfo : bdinfo[i] = biosdev THEN Least({i \in DOMAIN bdinfo : bdinfo[i] = biosdev}) - 1 ELSE -1
\* MAKEBOOTDEV and B_SLICE
MAKEBOOTDEV(d) == [slice |-> d.slice, unit |-> d.unit, part |-> d.part, type |-> d.type]
extract_currdev(bootdev, bi_bios_dev) ==
    LET biosdev == IF bi_bios_dev = 0 /\ bootdev.type # "fd" THEN DRV_HARD + bootdev.unit ELSE bi_bios_dev
        unit == bd_bios2unit(biosdev)
    IN  Dev(IF unit = -1 THEN 0 ELSE unit, bootdev.slice - 1, bootdev.part)
\* extract_currdev of pc98 is the same but for the drives it guesses.
pc98_extract_currdev(bootdev, bi_bios_dev) ==
    LET unit == bd_bios2unit(bi_bios_dev) IN Dev(IF unit = -1 THEN 0 ELSE unit, bootdev.slice - 1, bootdev.part)
Currdev == IF prog = "boot2" THEN extract_currdev(MAKEBOOTDEV(booted.dsk), booted.dsk.drive)
           ELSE pc98_extract_currdev(MAKEBOOTDEV(booted.dsk), booted.dsk.drive)

Bios98 == prog \in {"boot2", "pc98"}
\* Partition c of a slice without a label: boot2 reads the slice, and the loader has no such device.
Unlabelled == booted.dsk.part = RAW /\ Sector(booted.dsk.start + LABELSECTOR).k # "label"
\* The loader starts on the drive and at the partition its own file was read from, whatever slice was
\* guessed and whatever was typed on the way, unless a specification was refused half way; but from an
\* unlabelled slice it starts on a device that it cannot open (boot2.c:515, biosdisk.c:718).
LoaderAgrees == booted # None /\ Bios98 /\ ~torn =>
    LET r == Opendisk([Currdev EXCEPT !.unit = 0], NoFault)
    IN  /\ bd_unit2bios(Currdev.unit) = booted.dsk.drive
        /\ IF Unlabelled THEN r.err = "ENOENT" ELSE r.err = "0" /\ r.start = booted.dsk.start
\* While dsk_meta says so, the superblock in memory is that of the partition dsk names.
MetaFresh == dsk_meta /\ Bios98 /\ ~torn => dskread(dsk).ok /\ dskread(dsk).dsk = dsk
\* The root device that ixp425 writes into the kernel is where the kernel was read, as long as no
\* second device was tried (fixup_boot_drv; disk_layout is never reset).
RootName(d, lay) == <<d.slice, IF lay = "SLICE" THEN -1 ELSE d.part>>
fixup_boot_drv == RootName(booted.dsk, booted.layout)
RootAgrees == booted # None /\ prog = "ixp425" /\ ~torn =>
    LET root == fixup_boot_drv
        slice == IF root[1] = 0 THEN 0 ELSE Table(0)[root[1]].start
    IN  booted.dsk.start = IF root[2] = -1 THEN slice
                           ELSE slice + Sector(slice + LABELSECTOR).parts[root[2] + 1].off - Sector(slice + LABELSECTOR).parts[RAW_PART].off
\* at91 reads the kernel from partition a of the FreeBSD slice it has looked for, if that is the second:
\* it takes the second one in any case (dskread, boot2.c:308).
At91Agrees == booted # None /\ prog = "at91" /\ Least(Bsd(Table(0))) = 2 =>
    LET slice == Table(0)[Least(Bsd(Table(0)))].start
        lp == Sector(slice + LABELSECTOR)
    IN  booted.dsk.start = slice + lp.parts[1].off - lp.parts[RAW_PART].off
Boot2Safe == LoaderAgrees /\ MetaFresh /\ RootAgrees /\ At91Agrees
=============================================================================
