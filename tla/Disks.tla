------------------------------- MODULE Disks -------------------------------
(***************************************************************************)
(* Disks, slices and partitions of the loaders: biosdisk.c on i386 and      *)
(* pc98, disk.c below userboot, and the disks of U-Boot and of the PS3.     *)
(* A medium holds sectors that fdisk, bsdlabel and gpart have written and,   *)
(* for the properties, where its partitions really are.  Opening a device   *)
(* reads the tables again each time; one read of them may fail.              *)
(***************************************************************************)
EXTENDS DevName

CONSTANTS
    Media,          \* the disks of the behaviours: records with the sectors and the truth
    NEXTDOSPART,    \* room in the slice table
    MaxOpen,        \* bound: devices open at a time
    MaxCount        \* bound: stor_open_count, which failed opens raise
ASSUME DisksAssumption == NEXTDOSPART \in Nat \ (0 .. 3) /\ {MaxOpen, MaxCount} \subseteq Nat \ {0}

VARIABLES
    plat, disk,     \* the platform and its only disk
    currdev,        \* the environment variable
    opens,          \* the open_file's of the devices that are open
    heap,           \* how many open_disk structures and partition arrays are allocated
    leaked,         \* open_disk structures bd_getdev has left behind
    stor,           \* stor_open_count, and whether U-Boot has the device open
    listed,         \* the names the last lsdev printed
    wild            \* the program has followed a pointer to nowhere
diskvars == <<plat, disk, currdev, opens, heap, leaked, stor, listed, wild>>

-----------------------------------------------------------------------------
(* Sectors.  A fault is a read that fails: a sector, and for the sectors of *)
(* the partition table in which of the two passes.                          *)
LABELSECTOR == 1
NDOSPART == 4
RAW_PART == 3       \* 'c', counted from 1
NoFault == <<-1, 0>>
Sector(l) == IF l \in DOMAIN disk.sector THEN disk.sector[l] ELSE [k |-> "blank"]
Reads(l, kind, fault) == fault # <<l, 1>> /\ Sector(l).k = kind
Unreadable(l, fault) == fault = <<l, 1>>

Wild == -2          \* a start that is read from nowhere
\* `held': the partition arrays that are still allocated on return.
Result(err, start, dev, parts) == [err |-> err, start |-> start, dev |-> dev, parts |-> parts, held |-> IF parts = <<>> THEN 0 ELSE 1]
Error(e, dev) == Result(e, 0, dev, <<>>)

-----------------------------------------------------------------------------
(* GPT *)
\* The protective entry comes first, or whatever follows it is let pass.
RECURSIVE Protective(_, _, _)
Protective(tab, i, n) ==
    IF i > NDOSPART THEN n = 1
    ELSE IF tab[i].typ = "pmbr" THEN Protective(tab, i + 1, n + 1)
    ELSE (n = 1 \/ tab[i].typ = "none") /\ Protective(tab, i + 1, n)
\* U-Boot's reading: nothing but one protective entry.
ProtectiveOnly(tab) == /\ Cardinality({i \in 1 .. NDOSPART : tab[i].typ = "pmbr"}) = 1
                       /\ \A i \in 1 .. NDOSPART : tab[i].typ \in {"pmbr", "none"}
Used(e) == e.type # "nil" /\ e.start # 0 /\ e.end >= e.start
\* Whole sectors of the table only.
TableSectors(hdr) == hdr.table .. hdr.table + (hdr.entries \div hdr.eps) - 1
Entries(hdr) == LET n == (hdr.entries \div hdr.eps) * hdr.eps
                IN  [i \in 1 .. n |-> Sector(hdr.table + ((i - 1) \div hdr.eps)).ents[((i - 1) % hdr.eps) + 1]]
\* gp_index counts the unused entries too.
\* Mutant of GptParts: gp_index counts the entries in use.
GptPartsDense(hdr) == LET used == SelectSeq([i \in 1 .. Len(Entries(hdr)) |-> Entries(hdr)[i] @@ [index |-> i]], Used)
                      IN  [i \in DOMAIN used |-> [used[i] EXCEPT !.index = i]]
GptParts(hdr) == SelectSeq([i \in 1 .. Len(Entries(hdr)) |-> Entries(hdr)[i] @@ [index |-> i]], Used)
\* disk_readgpt and its copies: the table is read once to count and once to copy.
GptChecks == CASE plat \in {"i386", "userboot"} -> Protective(Sector(0).tab, 1, 0)
               [] plat = "uboot" -> ProtectiveOnly(Sector(0).tab)
               [] OTHER -> TRUE
disk_readgpt(fault) ==
    IF Unreadable(0, fault) THEN [err |-> "EIO"]
    ELSE IF Sector(0).k # "boot" THEN [err |-> "ENXIO"]
    ELSE IF ~GptChecks THEN [err |-> "EINVAL"]
    ELSE IF Unreadable(1, fault) THEN [err |-> "EIO"]
    ELSE IF Sector(1).k # "gpt" THEN [err |-> "EINVAL"]
    ELSE IF \E l \in TableSectors(Sector(1)) : fault = <<l, 1>> THEN [err |-> "EIO"]
    ELSE LET Copied(parts) == IF parts # <<>> /\ \E l \in TableSectors(Sector(1)) : fault = <<l, 2>> THEN [err |-> "EIO", parts |-> <<>>]
                              ELSE [err |-> "0", parts |-> parts]
         IN  Copied(GptParts(Sector(1)))

\* PREF_*: the smaller, the better; the first of the best is taken, 0 if there is none.
Best(pref) == LET good == {i \in DOMAIN pref : pref[i] < 7}
              IN  IF good = {} THEN 0 ELSE CHOOSE i \in good : \A j \in good : pref[i] < pref[j] \/ (pref[i] = pref[j] /\ i <= j)
disk_bestgpt(parts) == Best([i \in DOMAIN parts |-> CASE parts[i].type = "ms" -> 6 [] parts[i].type \in {"ufs", "zfs"} -> 2 [] OTHER -> 7])

disk_opengpt(dev, fault) ==
    LET Numbered(parts) == {i \in DOMAIN parts : parts[i].index = dev.slice}
        Opened(parts, i) == IF i = 0 THEN Error("ENOENT", dev)
                            ELSE Result("0", parts[i].start, [dev EXCEPT !.slice = parts[i].index], parts)
        Search(t) == IF t.err # "0" THEN Error(t.err, dev)
                     ELSE IF dev.slice < 0 THEN Result("0", 0, dev, t.parts)
                     ELSE IF dev.part # GPT THEN Error("ENOENT", dev)
                     ELSE IF dev.slice = 0 THEN Opened(t.parts, disk_bestgpt(t.parts))
                     ELSE Opened(t.parts, IF Numbered(t.parts) = {} THEN 0 ELSE CHOOSE i \in Numbered(t.parts) : TRUE)
    IN  Search(disk_readgpt(fault))
\* The same search in biosdisk.c, which keeps the array for lsdev.
bd_open_gpt(dev, fault) == disk_opengpt(dev, fault)

\* U-Boot and PS3: a number that is not in the table opens the disk from where od_start points.
stor_open_gpt(dev, fault) ==
    LET Numbered(parts, pnum) == {i \in DOMAIN parts : parts[i].index = pnum}
        Opened(parts, pnum) == Result("0", IF Numbered(parts, pnum) = {} THEN 0 ELSE parts[CHOOSE i \in Numbered(parts, pnum) : TRUE].start,
                                      [dev EXCEPT !.slice = pnum, !.part = GPT], parts)
        Search(t) == IF t.err # "0" THEN Error(t.err, dev)
                     ELSE Opened(t.parts, IF t.parts # <<>> /\ dev.slice = 0 THEN t.parts[1].index ELSE dev.slice)
    IN  Search(disk_readgpt(fault))
\* od_start is not initialised there.
ps3disk_open_gpt(dev, fault) == LET Od(r) == IF r.err = "0" /\ r.start = 0 THEN [r EXCEPT !.start = Wild] ELSE r
                                IN  Od(stor_open_gpt(dev, fault))

-----------------------------------------------------------------------------
(* MBR, extended partitions and BSD labels *)
\* A table in an extended partition: its entries are appended, then searched in turn.
RECURSIVE bd_checkextended(_, _, _)
bd_checkextended(tab, i, fault) ==
    IF tab[i].size = 0 \/ tab[i].typ # "ext" \/ ~Reads(tab[i].start, "boot", fault) THEN tab
    ELSE LET found == SelectSeq(Sector(tab[i].start).tab, LAMBDA e : e.size # 0)
             all == tab \o [j \in DOMAIN found |-> [found[j] EXCEPT !.start = @ + tab[i].start]]
         IN  IF Len(all) > NEXTDOSPART THEN SubSeq(all, 1, NEXTDOSPART)
             ELSE FoldLeft(LAMBDA t, j : bd_checkextended(t, j, fault), all, [j \in 1 .. Len(all) - Len(tab) |-> Len(tab) + j])
disk_checkextended(tab, i, fault) == bd_checkextended(tab, i, fault)
disk_readslicetab(fault) == FoldLeft(LAMBDA t, i : disk_checkextended(t, i, fault), Sector(0).tab, <<1, 2, 3, 4>>)
Dedicated(tab) == tab[4].typ = "bsd" /\ tab[4].start = 0 /\ tab[4].size = 50000
bd_bestslice(tab) == Best([i \in DOMAIN tab |->
    CASE tab[i].typ = "bsd" -> IF tab[i].act THEN 1 ELSE 2
      [] tab[i].typ = "linux" -> IF tab[i].act THEN 3 ELSE 4
      [] tab[i].typ = "dos" -> IF tab[i].act THEN 5 ELSE 6
      [] OTHER -> 7])
disk_bestslice(tab) == bd_bestslice(tab)

\* The unsliced: part, with the disklabel of the slice at `sector'.
OpenLabel(dev, sector, fault) ==
    LET lp == Sector(sector + LABELSECTOR)
    IN  IF dev.part < 0 THEN Result("0", sector, dev, <<>>)
        ELSE IF Unreadable(sector + LABELSECTOR, fault) THEN Error("EIO", dev)
        ELSE IF lp.k # "label" THEN Error("ENOENT", dev)
        ELSE IF dev.part >= Len(lp.parts) THEN Error("EPART", dev)
        ELSE Result("0", lp.parts[dev.part + 1].off - lp.parts[RAW_PART].off + sector, dev, <<>>)
\* The slice at an index of the table; index 0 is the entry before the table.
OpenSlice(dev, slice, tab, fault) ==
    IF slice = 0 THEN Result("0", Wild, [dev EXCEPT !.slice = 0], <<>>)
    ELSE OpenLabel([dev EXCEPT !.slice = slice], tab[slice].start, fault)
RawIsA(dev, tab, slice) == IF slice > 0 /\ tab[slice].typ = "bsd" /\ dev.part < 0 THEN [dev EXCEPT !.part = 0] ELSE dev

bd_open_mbr(dev, fault) ==
    LET In(tab, slice) == OpenSlice(RawIsA(dev, tab, slice), slice, tab, fault)
        Sliced(tab) == IF dev.slice > Len(tab) THEN Error("ENOENT", dev)
                       ELSE IF Dedicated(tab) THEN OpenLabel(dev, 0, fault)
                       ELSE In(tab, IF dev.slice = 0 THEN bd_bestslice(tab) ELSE dev.slice)
    IN  IF Unreadable(0, fault) THEN Error("EIO", dev)
        ELSE IF Sector(0).k # "boot" THEN IF dev.slice > 0 THEN Error("ENOENT", dev) ELSE OpenLabel(dev, 0, fault)
        ELSE IF dev.slice = -1 THEN OpenLabel(dev, 0, fault) ELSE Sliced(disk_readslicetab(fault))
\* Without a magic number there is no table, and it is looked at all the same; so is the entry before the first.
disk_openmbr(dev, fault) ==
    LET In(tab, slice) == IF slice < 0 THEN Result("0", Wild, dev, <<>>) ELSE OpenSlice(dev, slice, tab, fault)
        Sliced(tab) == IF dev.slice > Len(tab) THEN Error("EPART", dev)
                       ELSE IF Dedicated(tab) THEN OpenLabel(dev, 0, fault)
                       ELSE In(tab, IF dev.slice = 0 THEN disk_bestslice(tab) ELSE dev.slice)
    IN  IF Unreadable(0, fault) THEN Error("EIO", dev)
        ELSE IF Sector(0).k # "boot" THEN Result("0", Wild, dev, <<>>) ELSE Sliced(disk_readslicetab(fault))
\* The table of a pc98 is the second sector, and bd_bestslice never finds a slice.
bd_open_pc98(dev, fault) ==
    LET tab == Sector(1).tab
    IN  IF disk.floppy THEN OpenLabel(dev, 0, fault)
        ELSE IF Unreadable(0, fault) THEN Error("EIO", dev)
        ELSE IF Sector(0).k # "boot" THEN IF dev.slice > 0 THEN Error("ENOENT", dev) ELSE OpenLabel(dev, 0, fault)
        ELSE IF ~Reads(1, "boot", fault) THEN Error("EIO", dev)
        ELSE IF dev.slice = -1 THEN OpenLabel(dev, 0, fault)
        ELSE IF dev.slice > NDOSPART THEN Error("ENOENT", dev)
        ELSE OpenSlice(RawIsA(dev, tab, dev.slice), dev.slice, tab, fault)
\* U-Boot knows labels of whole disks only, and takes the offset as it is.
stor_open_bsdlabel(dev, fault) ==
    LET lp == Sector(LABELSECTOR)
    IN  IF Unreadable(LABELSECTOR, fault) THEN Error("ERDLAB", dev)
        ELSE IF lp.k # "label" THEN Error("EUNLAB", dev)
        ELSE Result("0", IF dev.slice + 1 \in DOMAIN lp.parts THEN lp.parts[dev.slice + 1].off ELSE Wild, [dev EXCEPT !.part = BSDLABEL], <<>>)

Else(r, s) == IF r.err = "0" THEN r ELSE [s EXCEPT !.held = @ + r.held]
\* disk.c frees its tables before it returns.
disk_open(dev, fault) == [Else(disk_opengpt(dev, fault), disk_openmbr(dev, fault)) EXCEPT !.parts = <<>>, !.held = 0]
userdisk_open(dev, fault) == disk_open(dev, fault)
bd_opendisk(dev, fault) == Else(bd_open_gpt(dev, fault), bd_open_mbr(dev, fault))
pc98_bd_opendisk(dev, fault) == bd_open_pc98(dev, fault)
stor_opendev(dev, fault) == Else(stor_open_gpt(dev, fault), stor_open_bsdlabel(dev, fault))
Opendisk(dev, fault) == CASE plat = "i386" -> bd_opendisk(dev, fault) [] plat = "pc98" -> pc98_bd_opendisk(dev, fault)
                          [] plat = "userboot" -> userdisk_open(dev, fault) [] plat = "uboot" -> stor_opendev(dev, fault)
                          [] OTHER -> ps3disk_open_gpt(dev, fault)

-----------------------------------------------------------------------------
(* lsdev: the names it prints, as token sequences *)
SliceName(j) == <<"disk", "0", "s", Digits[j + 1]>>
FS(p) == p.fs \in {"ffs", "swap", "vinum"}
\* The partitions of a label; uboot shows every type it knows.
bd_printbsdslice(sector, prefix, fault) ==
    IF ~Reads(sector + LABELSECTOR, "label", fault) THEN {}
    ELSE LET parts == Sector(sector + LABELSECTOR).parts
         IN  {Append(prefix, Letters[i]) : i \in {i \in DOMAIN parts : FS(parts[i]) \/ (disk.floppy /\ plat \in {"i386", "pc98"} /\ i = 1 /\ parts[i].fs = "unused")}}
bd_printslice(e, prefix, fault) == CASE e.typ = "bsd" -> bd_printbsdslice(e.start, prefix, fault)
                                     [] e.typ \in {"none", "ext"} -> {}
                                     [] OTHER -> {prefix}
Slices(tab, fault) == UNION {bd_printslice(tab[j], SliceName(j), fault) : j \in DOMAIN tab}
bd_printgptpart(p) == <<"disk", "0", "p", Digits[p.index + 1]>>
\* bd_print opens the whole disk and shows what the tables of that disk say.
bd_print(fault) ==
    LET t == disk_readgpt(fault)
        tab == disk_readslicetab(fault)
    IN  IF t.err = "0" THEN {bd_printgptpart(t.parts[i]) : i \in DOMAIN t.parts}
        ELSE IF ~Reads(0, "boot", fault) THEN {}
        ELSE IF Dedicated(tab) THEN bd_printbsdslice(0, <<"disk", "0">>, fault)
        ELSE Slices(tab, fault)
\* The listing of a pc98, whose lines are those of i386.
pc98_bd_printbsdslice(sector, prefix, fault) == bd_printbsdslice(sector, prefix, fault)
pc98_bd_printslice(e, prefix, fault) == IF e.typ = "bsd" THEN pc98_bd_printbsdslice(e.start, prefix, fault) ELSE bd_printslice(e, prefix, fault)
pc98_bd_print(fault) == IF disk.floppy \/ ~Reads(0, "boot", fault) \/ ~Reads(1, "boot", fault) THEN {}
                        ELSE UNION {pc98_bd_printslice(Sector(1).tab[j], SliceName(j), fault) : j \in 1 .. NDOSPART}
\* disk_print numbers GPT partitions by their place in the array.
disk_printgptpart(p) == bd_printgptpart(p)
disk_printgpt(parts) == {disk_printgptpart([parts[i] EXCEPT !.index = i]) : i \in DOMAIN parts}
disk_printbsdslice(sector, prefix, fault) == bd_printbsdslice(sector, prefix, fault)
disk_printslice(e, prefix, fault) == IF e.typ = "bsd" THEN disk_printbsdslice(e.start, prefix, fault) ELSE bd_printslice(e, prefix, fault)
disk_printmbr(tab, fault) == UNION {disk_printslice(tab[j], SliceName(j), fault) : j \in DOMAIN tab}
disk_print(fault) ==
    LET t == disk_readgpt(fault)
    IN  IF t.err = "0" THEN disk_printgpt(t.parts)
        ELSE IF ~Reads(0, "boot", fault) THEN {} ELSE disk_printmbr(disk_readslicetab(fault), fault)
userdisk_print(fault) == disk_print(fault)
stor_print_gpt(t) == {bd_printgptpart(t.parts[i]) : i \in DOMAIN t.parts}
stor_print_bsdlabel(fault) ==
    LET parts == Sector(LABELSECTOR).parts
    IN  IF ~Reads(LABELSECTOR, "label", fault) THEN {}
        ELSE {<<"disk", "0", Letters[i]>> : i \in {i \in DOMAIN parts : i # RAW_PART /\ parts[i].size # 0 /\ parts[i].fs # "none"}}
stor_print_one(fault) == LET t == disk_readgpt(fault) IN IF t.err = "0" THEN stor_print_gpt(t) ELSE stor_print_bsdlabel(fault)
Listing(fault) == CASE plat = "i386" -> bd_print(fault) [] plat = "pc98" -> pc98_bd_print(fault) [] plat = "userboot" -> userdisk_print(fault)
                    [] plat = "uboot" -> stor_print_one(fault) [] OTHER -> {}

-----------------------------------------------------------------------------
(* The reference count of U-Boot devices: every open that works sets it to 1. *)
StorOpened(s, ok) == [count |-> IF ok THEN 1 ELSE IF s.count > 0 THEN s.count + 1 ELSE 0, open |-> TRUE]
StorClosed(s) == [count |-> s.count - 1, open |-> s.open /\ s.count # 1]
stor_closedev == stor' = IF plat = "uboot" THEN StorClosed(stor) ELSE stor
OnStor(ok) == stor' = IF plat = "uboot" THEN StorOpened(stor, ok) ELSE stor

\* devopen: a device specification, or a path on currdev.
devopen(spec, fault) ==
    /\ ~wild /\ Len(opens) < MaxOpen /\ stor.count < MaxCount
    /\ \E p \in {getdev(plat, currdev, spec)} :
           \/ /\ p.err = "undefined" /\ wild' = TRUE /\ UNCHANGED <<opens, heap, stor>>
           \/ /\ p.err = "0" /\ p.dev.type = "DISK"
              /\ IF p.dev.unit < 0 /\ plat # "userboot" THEN wild' = TRUE /\ UNCHANGED <<opens, heap, stor>>     \* bdinfo[-1]
                 ELSE IF p.dev.unit # 0 THEN UNCHANGED <<opens, heap, stor, wild>>
                 ELSE \E r \in {Opendisk(p.dev, fault)} :
                      /\ opens' = IF r.err = "0" THEN Append(opens, [asked |-> p.dev, dev |-> r.dev, start |-> r.start, parts |-> r.parts # <<>>])
                                  ELSE opens
                      /\ heap' = [od |-> heap.od + (IF r.err = "0" /\ plat # "userboot" THEN 1 ELSE 0), parts |-> heap.parts + r.held]
                      /\ wild' = (r.err = "0" /\ r.start = Wild)
                      /\ OnStor(r.err = "0")
    /\ UNCHANGED <<plat, disk, currdev, leaked, listed>>
\* What closing gives back; disk.c has nothing to give.
bd_closedisk(i) == [od |-> heap.od - 1, parts |-> heap.parts - (IF opens[i].parts THEN 1 ELSE 0)]
pc98_bd_closedisk(i) == bd_closedisk(i)
ps3disk_close(i) == bd_closedisk(i)
bd_close(i) ==
    /\ ~wild /\ opens' = RemoveAt(opens, i)
    /\ heap' = CASE plat = "userboot" -> heap [] plat = "pc98" -> pc98_bd_closedisk(i) [] plat = "ps3" -> ps3disk_close(i) [] OTHER -> bd_closedisk(i)
    /\ stor_closedev
    /\ UNCHANGED <<plat, disk, currdev, leaked, listed, wild>>
\* lsdev opens the whole disk and closes it again, unless that fails.
lsdev(fault) ==
    \E r \in {Opendisk(Dev(0, -1, -1), fault)} :
    LET opened == plat \in {"userboot", "ps3"} \/ r.err = "0"
        \* disk_readslicetab gives disk_printmbr a table and a count it has not set
        lost == plat = "userboot" /\ disk_readgpt(fault).err # "0" /\ ~Unreadable(0, fault) /\ Sector(0).k # "boot"
    IN  /\ ~wild /\ stor.count < MaxCount
        /\ listed' = IF opened /\ ~lost THEN Listing(fault) ELSE {}
        /\ wild' = lost
        /\ stor' = CASE plat # "uboot" -> stor [] opened -> StorClosed(StorOpened(stor, TRUE)) [] OTHER -> StorOpened(stor, FALSE)
        /\ heap' = [heap EXCEPT !.parts = @ + (IF r.err # "0" THEN r.held ELSE 0)]
        /\ UNCHANGED <<plat, disk, currdev, opens, leaked>>
\* The number of the root device for the kernel: the disk is opened for its label and not closed.
Getdev(fault) ==
    \E p \in {parsedev(plat, currdev)} :
    /\ ~wild /\ p.err = "0" /\ p.dev.type = "DISK" /\ p.dev.unit = 0
    /\ \E r \in {Opendisk(p.dev, fault)} :
        /\ r.err = "0" /\ r.start # Wild /\ leaked < 1
        /\ leaked' = leaked + 1
        /\ heap' = [od |-> heap.od + 1, parts |-> heap.parts + r.held]
        /\ UNCHANGED <<plat, disk, currdev, opens, stor, listed, wild>>
bd_getdev(fault) == plat = "i386" /\ Getdev(fault)
pc98_bd_getdev(fault) == plat = "pc98" /\ Getdev(fault)
\* `set currdev=': a value that does not parse is refused.
setcurrdev(spec) ==
    /\ ~wild
    /\ \E p \in {parsedev(plat, spec)} :
           /\ currdev' = IF p.err = "0" THEN spec ELSE currdev
           /\ wild' = (p.err = "undefined")
    /\ UNCHANGED <<plat, disk, opens, heap, leaked, stor, listed>>

-----------------------------------------------------------------------------
CONSTANTS DevSpecs, Currdevs       \* what the user opens, and sets currdev to
Faults == {NoFault} \union {<<l, 1>> : l \in DOMAIN disk.sector} \union {<<l, 2>> : l \in {l \in DOMAIN disk.sector : Sector(l).k = "ents"}}
\* extract_currdev: the slice and the partition the earlier stage has passed.
DisksInit ==
    /\ plat \in {"i386", "pc98", "userboot", "uboot", "ps3"}
    /\ disk \in {m \in Media : plat \in m.plats}
    /\ currdev = fmtdev(plat, disk.bootdev)
    /\ opens = <<>> /\ heap = [od |-> 0, parts |-> 0] /\ leaked = 0
    /\ stor = [count |-> 0, open |-> FALSE] /\ listed = {} /\ wild = FALSE
DisksNext ==
    \/ \E fault \in Faults :
           \/ \E spec \in DevSpecs : devopen(spec, fault)
           \/ \E name \in listed : devopen(Append(name, ":"), fault)
           \/ lsdev(fault)
           \/ bd_getdev(fault)
           \/ pc98_bd_getdev(fault)
    \/ \E i \in DOMAIN opens : bd_close(i)
    \/ \E spec \in Currdevs : setcurrdev(spec)
DisksSpec == DisksInit /\ [][DisksNext]_diskvars

-----------------------------------------------------------------------------
\* Where a device that names a partition lies; names the disk does not have are not in the domain.
Names(dev) == <<dev.slice, dev.part>> \in DOMAIN disk.truth
\* A file that is open on a partition of the disk starts where that partition starts, whatever was
\* read on the way and whatever could not be read (bd_open_gpt, bd_open_mbr and their copies); but
\* not in the third table of an extended partition and below (disk.deep), whose link counts from the
\* first table and is taken from the one before it (biosdisk.c:762-771, disk.c:147-156).
StartsRight == ~wild => \A file \in Range(opens) :
    Names(file.asked) /\ file.asked.slice \notin disk.deep => file.start = disk.truth[<<file.asked.slice, file.asked.part>>]
\* Where the loader does not guess, a partition the disk does not have is not opened (i386, pc98); a
\* dedicated disk and the floppies of a pc98 answer to every slice.
Unsliced == disk.floppy \/ (Sector(0).k = "boot" /\ Dedicated(Sector(0).tab))
NothingElse == ~wild /\ plat \in {"i386", "pc98"} /\ ~Unsliced =>
    \A file \in Range(opens) : file.asked.slice > 0 => Names(file.asked) \/ file.asked.part = -1
\* lsdev shows partitions the disk has and no others, whichever sector cannot be read; but
\* userboot, which numbers a GPT with a hole by the places of its array (disk.c:756) and so
\* shows names from 1 on, as many as there are partitions.
Renumbered == plat = "userboot" /\ Sector(1).k = "gpt" /\ \E i \in DOMAIN GptParts(Sector(1)) : GptParts(Sector(1))[i].index # i
ListsRight == LET shown == {parsedev(plat, Append(n, ":")).dev : n \in listed}
              IN  \A d \in shown : Names(d) \/ (Renumbered /\ d.slice \in 1 .. Len(GptParts(Sector(1))))
\* What lsdev calls a device leads to it when it is opened, and so does the name fmtdev gives it.
NamesAgree == ~wild => \A file \in Range(opens) :
    LET again == parsedev(plat, fmtdev(plat, file.dev))
    IN  again.err = "0" /\ Opendisk(again.dev, NoFault).start = file.start
\* Every open_disk and every partition array belongs to an open file (bd_opendisk's and bd_open_gpt's
\* ways out), but for those bd_getdev has left.
WithParts == Cardinality({i \in DOMAIN opens : opens[i].parts})
HeapRight == /\ plat # "userboot" => heap.od = Len(opens) + leaked
             /\ heap.parts >= WithParts
             /\ heap.parts <= WithParts + leaked
DisksSafe == StartsRight /\ NothingElse /\ ListsRight /\ NamesAgree /\ HeapRight
=============================================================================
