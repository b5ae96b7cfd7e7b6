------------------------------ MODULE MCDisks ------------------------------
(***************************************************************************)
(* Disks for model checking.  `part' says what a behaviour is about: the    *)
(* loaders' devices, a transfer, a CD, a second stage that reads UFS, or one  *)
(* of UFS and ZFS below the boot stages, which `stage' tells apart; the      *)
(* others rest.                                                             *)
(***************************************************************************)
EXTENDS Boot2, BiosCd, Ufs, ZfsBoot, TLC
VARIABLES part, stage
Ent(t, a, b) == [type |-> t, start |-> a, end |-> b]
Nil == Ent("nil", 0, 0)
Sl(t, act, a, n) == [typ |-> t, act |-> act, start |-> a, size |-> n]
No == Sl("none", FALSE, 0, 0)
Boot(tab) == [k |-> "boot", tab |-> tab]
P(fs, off) == [fs |-> fs, off |-> off, size |-> IF fs = "unused" THEN 0 ELSE 1]
Label(ps) == [k |-> "label", parts |-> ps]
Medium(plats, sector, truth, bootdev) == [plats |-> plats, sector |-> sector, truth |-> truth, bootdev |-> bootdev, floppy |-> FALSE,
    scsi |-> FALSE, deep |-> {}, ufs |-> [start \in {} |-> {}]]
Pmbr == Boot(<<Sl("pmbr", FALSE, 1, 9), No, No, No>>)
Hdr(n) == [k |-> "gpt", table |-> 2, entries |-> n, eps |-> 2]
Ents(a, b) == [k |-> "ents", ents |-> <<a, b>>]
Nowhere == <<-1, -1>> :> 0
\* A table with a hole, and one without.  The protective entry is a slice, where the GPT cannot be read.
GptHole == Medium({"i386", "userboot", "uboot", "ps3"}, 0 :> Pmbr @@ 1 :> Hdr(4) @@ 2 :> Ents(Nil, Ent("ufs", 10, 12)) @@ 3 :> Ents(Ent("swap", 20, 22), Ent("ufs", 30, 30)),
    <<2, 255>> :> 10 @@ <<3, 255>> :> 20 @@ <<4, 255>> :> 30 @@ <<1, -1>> :> 1 @@ Nowhere, Dev(0, 2, 255))
GptFull == [GptHole EXCEPT !.sector[2] = Ents(Ent("boot", 8, 8), Ent("ufs", 10, 12)), !.truth = @ @@ <<1, 255>> :> 8]
\* Primary and extended slices, labels with relative and with absolute offsets.  The third table
\* of the chain is at 20 + 16; where the loaders look for it, a table of other days is left.
Ebr(a, b) == Boot(<<a, b, No, No>>)
MbrSectors == 0 :> Boot(<<Sl("dos", FALSE, 4, 4), Sl("bsd", TRUE, 10, 8), Sl("ext", FALSE, 20, 20), Sl("bsd", FALSE, 50, 5)>>)
    @@ 11 :> Label(<<P("ffs", 0), P("swap", 4), P("unused", 0)>>) @@ 51 :> Label(<<P("ffs", 52), P("unused", 0), P("unused", 50)>>)
    @@ 20 :> Ebr(Sl("linux", FALSE, 1, 4), Sl("ext", FALSE, 8, 8)) @@ 28 :> Ebr(Sl("dos", FALSE, 2, 3), Sl("ext", FALSE, 16, 4))
    @@ 36 :> Ebr(Sl("linux", FALSE, 1, 3), No) @@ 44 :> Ebr(Sl("linux", FALSE, 1, 2), Sl("ext", FALSE, 3, 1))
Mbr == [Medium({"i386", "userboot"}, MbrSectors,
    <<1, -1>> :> 4 @@ <<2, 0>> :> 10 @@ <<2, 1>> :> 14 @@ <<2, 2>> :> 10 @@ <<4, 0>> :> 52 @@ <<4, 1>> :> 0 @@ <<4, 2>> :> 50
    @@ <<5, -1>> :> 21 @@ <<7, -1>> :> 30 @@ <<9, -1>> :> 37 @@ Nowhere, Dev(0, 2, 0)) EXCEPT !.deep = {9}]
\* The same disk read by i386: a slice with a label is its first partition.
MbrI386 == [Mbr EXCEPT !.plats = {"i386"}, !.truth = @ @@ <<2, -1>> :> 10 @@ <<4, -1>> :> 52]
MbrUser == [Mbr EXCEPT !.plats = {"userboot"}, !.truth = @ @@ <<2, -1>> :> 10 @@ <<4, -1>> :> 50]
Ded == Medium({"i386"}, 0 :> Boot(<<No, No, No, Sl("bsd", TRUE, 0, 50000)>>) @@ 1 :> Label(<<P("ffs", 0), P("swap", 6), P("unused", 0)>>),
    <<-1, 0>> :> 0 @@ <<-1, 1>> :> 6 @@ <<-1, 2>> :> 0 @@ <<0, 0>> :> 0 @@ Nowhere, Dev(0, 0, 0))
\* No boot sector: a label on the whole disk.
Bare == [Medium({"i386", "pc98", "uboot"}, 0 :> [k |-> "blank"] @@ 1 :> Label(<<P("ffs", 0), P("swap", 6), P("unused", 0)>>),
    <<-1, 0>> :> 0 @@ <<-1, 1>> :> 6 @@ <<-1, 2>> :> 0 @@ Nowhere, Dev(0, -1, 0)) EXCEPT !.floppy = FALSE]
BareI386 == [Bare EXCEPT !.plats = {"i386", "pc98"}]
BareUboot == [Bare EXCEPT !.plats = {"uboot"}, !.truth = <<0, 0>> :> 0 @@ <<1, 0>> :> 6 @@ <<2, 0>> :> 0 @@ Nowhere, !.bootdev = Dev(0, 0, 0)]
Floppy == [Bare EXCEPT !.plats = {"i386", "pc98"}, !.floppy = TRUE, !.sector[1] = Label(<<P("unused", 0), P("unused", 0), P("unused", 0)>>), !.truth[<<-1, 1>>] = 0]
Pc98 == Medium({"pc98"}, 0 :> Boot(<<No, No, No, No>>) @@ 1 :> Boot(<<Sl("dos", FALSE, 4, 4), Sl("bsd", TRUE, 10, 8), No, No>>)
    @@ 11 :> Label(<<P("ffs", 0), P("swap", 4), P("unused", 0)>>),
    <<1, -1>> :> 4 @@ <<2, -1>> :> 10 @@ <<2, 0>> :> 10 @@ <<2, 1>> :> 14 @@ <<2, 2>> :> 10 @@ <<3, -1>> :> 0 @@ <<4, -1>> :> 0 @@ Nowhere, Dev(0, 2, 0))
MCMedia == {GptHole, GptFull, MbrI386, MbrUser, Ded, BareI386, BareUboot, Floppy, Pc98}
D(s) == <<"disk", "0">> \o s \o <<":">>
MCDevSpecs == {D(s) : s \in {<<>>, <<"a">>, <<"b">>, <<"p", "2">>, <<"p", "4">>, <<"p", "9">>, <<"s", "0">>, <<"s", "1">>, <<"s", "2">>, <<"s", "2", "b">>, <<"s", "4", "a">>,
                             <<"s", "5">>, <<"s", "7">>, <<"s", "9">>, <<"p">>, <<"x">>}}
    \union {<<"boot">>, <<"disk", "1", ":">>, <<"disk", ":">>, <<"net", "0", ":">>}
MCCurrdevs == {D(<<>>), D(<<"a">>), D(<<"s", "2">>), D(<<"p", "4">>), D(<<"x">>)}

-----------------------------------------------------------------------------
(* The second stages.  A label with a root and a file system of its own. *)
Root == [config |-> "text", loader |-> "elf", kernel |-> "elf"]
Bare2 == [loader |-> "junk", kernel |-> "zmagic"]
Mbr2 == [MbrI386 EXCEPT !.plats = {}, !.ufs = 10 :> Root @@ 14 :> Bare2 @@ 52 :> Root @@ 0 :> Root]
\* The active slice is not the first; a slice without a label.
Mbr3 == [Mbr2 EXCEPT !.sector[0] = Boot(<<Sl("bsd", FALSE, 50, 5), Sl("bsd", TRUE, 10, 8), Sl("bsd", FALSE, 30, 5), No>>), !.ufs = @ @@ 30 :> Root, !.scsi = TRUE]
Ded2 == [Ded EXCEPT !.plats = {}, !.ufs = 0 :> Root @@ 6 :> Bare2]
Bare3 == [BareI386 EXCEPT !.plats = {}, !.ufs = 0 :> Root]
Pc98b == [Pc98 EXCEPT !.plats = {}, !.ufs = 10 :> Root @@ 14 :> Bare2]
Floppy2 == [Floppy EXCEPT !.plats = {}, !.ufs = 0 :> Root, !.sector[1] = Label(<<P("ffs", 0), P("unused", 0), P("unused", 0)>>)]
Media2(p) == CASE p = "boot2" -> {Mbr2, Mbr3, Ded2, Bare3} [] p = "pc98" -> {Pc98b, Bare3} [] p = "at91" -> {Mbr2, Mbr3} [] OTHER -> {Mbr2, Mbr3, Ded2}
DevArg(drv, nm, unit, slice, p, name) == [k |-> "dev", drv |-> drv, nm |-> nm, unit |-> unit, slice |-> slice, part |-> p, name |-> name]
NameArg(n) == [k |-> "name", name |-> n]
OptArg(cs) == [k |-> "opt", cs |-> cs]
MCCmdLines == {<<>>, <<OptArg(<<"n">>)>>, <<OptArg(<<"v", "x">>)>>, <<OptArg(<<"P", "q">>), NameArg("kernel")>>, <<NameArg("kernel")>>, <<NameArg("toolong")>>,
    <<DevArg(-1, "ad", 0, -1, 0, "")>>, <<DevArg(-1, "ad", 0, 2, 1, "kernel")>>, <<DevArg(-1, "da", 1, 4, 0, "loader")>>, <<DevArg(1, "ad", 0, 2, 0, "")>>,
    <<DevArg(-1, "fd", 0, -1, 0, "loader")>>, <<DevArg(-1, "ad", 11, 2, 0, "")>>, <<DevArg(-1, "da", 0, 9, 0, "")>>, <<DevArg(-1, "ad", 0, 1, 12, "")>>,
    <<DevArg(12, "ad", 0, 2, 0, "")>>, <<DevArg(-1, "xx", 0, 2, 0, "")>>, <<DevArg(-1, "ad", 0, 3, 0, "kernel"), OptArg(<<"v">>)>>, <<DevArg(-1, "ad", 0, 1, 0, "")>>,
    <<DevArg(-1, "ad", 0, 3, 2, "loader")>>}   \* partition c, of a slice that need not have a label

MCMachines2 == {[prog |-> "boot2", bios |-> {0, 128, 129}], [prog |-> "boot2", bios |-> {128}], [prog |-> "pc98", bios |-> {145, 128, 161}],
                [prog |-> "at91", bios |-> {128}], [prog |-> "ixp425", bios |-> {128}]}

-----------------------------------------------------------------------------
(* Volumes for Ufs. *)
\* A volume: superblock at 8, inodes at 20, the files laid out by the caller.
Ino(size, db, ib) == [k |-> "ino", size |-> size, db |-> db, ib |-> ib]
Dirent(n, i, t) == [k |-> "dirent", name |-> n, ino |-> i, type |-> t]
At9(a, f) == [x \in {a + i - 1 : i \in DOMAIN f} |-> f[x - a + 1]]
Ph(t, o, fs, ms, v) == [k |-> "ph", type |-> t, offset |-> o, filesz |-> fs, memsz |-> ms, vaddr |-> v]
Dat(id, n) == [i \in 1 .. n |-> [k |-> "data", of |-> id, i |-> i]]
RootDir(x) == <<Dirent("dot", 2, "dir"), Dirent("boot", 3, "dir"), Dirent(x, 5, "reg")>>
BootDir == <<Dirent("dot", 3, "dir"), Dirent("loader", 4, "reg")>>
\* two loadable segments, the second behind the indirect block
Elf(id) == <<[k |-> "eh", phoff |-> 1, phnum |-> 3], Ph("NOTE", 4, 1, 1, 90), Ph("LOAD", 4, 3, 3, 50), Ph("LOAD", 7, 4, 5, 60)>> \o Dat(id, 7)
Small(id) == <<[k |-> "eh", phoff |-> 1, phnum |-> 1], Ph("LOAD", 2, 1, 2, 50)>> \o Dat(id, 1)
Volume(id, x, tail) ==
  LET elf == Elf(id) IN
  [sec |-> 8 :> [k |-> "sb", at |-> 8, inodes |-> 20] @@ At9(22, <<Ino(3, <<30, 0>>, 0), Ino(2, <<34, 0>>, 0), Ino(11, <<38, 42>>, 46), Ino(3, <<60, 0>>, 0)>>)
     @@ At9(30, RootDir(x)) @@ At9(34, BootDir) @@ At9(38, SubSeq(elf, 1, 4)) @@ At9(42, SubSeq(elf, 5, 8)) @@ At9(46, [i \in 1 .. 4 |-> [k |-> "addr", a |-> IF i = 1 THEN tail ELSE 0]]) @@ At9(tail, SubSeq(elf, 9, 11)) @@ At9(60, Small(id)),
   files |-> 2 :> RootDir(x) @@ 3 :> BootDir @@ 4 :> elf @@ 5 :> Small(id),
   tree |-> <<"boot", "loader">> :> 4 @@ <<x>> :> 5]
Blank == [sec |-> 8 :> Junk9, files |-> <<>>, tree |-> <<>>]
MCVolumes == {<<Volume("a", "x", 50), Volume("b", "y", 54)>>, <<Blank, Volume("a", "x", 50)>>}
MCPaths == {<<"boot", "loader">>, <<"x">>, <<"x", "loader">>}
MCFaults == {-1, 8, 24, 46}

-----------------------------------------------------------------------------
(* Machines with ZFS *)
Vd(pool, guid) == [pool |-> pool, guid |-> guid]
E(z, start) == [zfs |-> z, start |-> start]
Dr(labels, gpt, mbr, bad) == [labels |-> labels, gpt |-> gpt, mbr |-> mbr, bad |-> bad, sane |-> TRUE]
NoLabels == [x \in {} |-> Vd("NULL", 0)]
Two == 10 :> Vd("tank", 1) @@ 20 :> Vd("dozer", 2) @@ 30 :> Vd("tank", 3)
Gpt1(bad) == Dr(Two, <<<<E(FALSE, 4), E(TRUE, 10)>>, <<E(TRUE, 20), E(TRUE, 30)>>>>, <<10, 0, 20, 30>>, bad)
Whole == Dr(0 :> Vd("dozer", 4), <<>>, <<0, 0, 0, 0>>, {})
Empty9 == Dr(NoLabels, <<>>, <<5, 0, 0, 0>>, {})
Segm(b, l) == [type |-> "memory", base |-> b, length |-> l]
Maps == {<<>>, <<Segm(0, 2), Segm(4, 40), Segm(60, 20)>>, <<Segm(0, 1), Segm(4, 10), [type |-> "acpi", base |-> 20, length |-> 30]>>, <<Segm(4, 70), Segm(50, 4)>>, <<Segm(4, 30), Segm(40, 14), Segm(64, 9)>>}
Ds(files, good) == [files |-> files, good |-> good]
Pools9 == [tank |-> [bootfs |-> "root", datasets |-> [root |-> Ds({"config", "loader", "kernel"}, TRUE), alt |-> Ds({"loader", "kernel"}, TRUE), torn |-> Ds({}, FALSE)]],
           dozer |-> [bootfs |-> "none", datasets |-> [root |-> Ds({"loader"}, TRUE)]]]
Mach(boot, drives, smap) == [boot |-> boot, drives |-> drives, numdrives |-> 3, smap |-> smap, e801 |-> 0, e88 |-> 20, int12 |-> 2, pools |-> Pools9]
MCZMachines == {Mach(128, 128 :> Gpt1(bad) @@ 129 :> Whole @@ 130 :> Empty9, s) : bad \in {{}, {1}, {2}, {3}, {0}, {10}}, s \in Maps}
    \union {Mach(129, 128 :> Gpt1({}) @@ 129 :> d @@ 130 :> [Gpt1({}) EXCEPT !.sane = FALSE], <<Segm(4, 40)>>) : d \in {Whole, Empty9}}
    \union {Mach(128, 128 :> Empty9, <<>>), [Mach(0, 0 :> Empty9 @@ 128 :> Whole, <<>>) EXCEPT !.e801 = 30]}
A9(pool, ds, name) == [k |-> "pool", pool |-> pool, ds |-> ds, name |-> name]
MCZCmds == {<<>>, <<[k |-> "name", name |-> "kernel"]>>, <<A9("tank", "", "kernel")>>, <<A9("tank", "alt", "kernel"), [k |-> "opt"]>>, <<A9("tank", "alt", ""), A9("tank", "lost", "")>>, <<A9("tank", "torn", "")>>,
            <<A9("dozer", "", "")>>, <<A9("none", "", "")>>, <<[k |-> "list"]>>, <<[k |-> "status"]>>, <<[k |-> "badopt"]>>}

FirstUfs == (vols = CHOOSE v \in Volumes : TRUE) /\ uprog = "boot2" /\ u = Static(1)
FirstZfs == (mach = CHOOSE m \in ZMachines : TRUE) /\ zprog = "zfsboot"
StagesInit == stage \in {"ufs", "zfs"} /\ UfsInit /\ ZfsBootInit /\ (stage = "ufs" => FirstZfs) /\ (stage = "zfs" => FirstUfs)
RestStages == stage = "none" /\ UfsInit /\ ZfsBootInit /\ FirstUfs /\ FirstZfs
StagesNext == \/ stage = "ufs" /\ UfsNext /\ UNCHANGED <<stage, zbvars>>
              \/ stage = "zfs" /\ ZfsBootNext /\ UNCHANGED <<stage, ufsvars>>
stagevars == <<stage, ufsvars, zbvars>>

-----------------------------------------------------------------------------
\* In the second a track is longer than half a segment.
MCGeometries == {[cyls |-> 3, hds |-> 2, sec |-> 3], [cyls |-> 3, hds |-> 1, sec |-> 5]}
MCCdDrives == 128 :> [answers |-> TRUE, scsi |-> FALSE, type |-> 0] @@ 160 :> [answers |-> FALSE, scsi |-> TRUE, type |-> 5] @@ 161 :> [answers |-> TRUE, scsi |-> TRUE, type |-> 0]
Rest2 == prog = "none" /\ bios = {} /\ dsk = <<>> /\ dsk_meta = FALSE /\ layout = "" /\ opts = {} /\ kname = "" /\ autoboot = FALSE
         /\ b2pc = "" /\ torn = FALSE /\ booted = None
RestIo == od = [platter |-> <<>>] /\ req = NoReq /\ io = Idle /\ memory = <<>>
RestCd == CdInit /\ ~bc.pc98
RestDisks(p, d) == plat = p /\ disk = d /\ currdev = <<>> /\ opens = <<>> /\ heap = [od |-> 0, parts |-> 0] /\ leaked = 0
                   /\ stor = [count |-> 0, open |-> FALSE] /\ listed = {} /\ wild = FALSE
MCInit == \/ part = "disks" /\ DisksInit /\ Rest2 /\ RestIo /\ RestCd /\ RestStages
          \/ part = "io" /\ IoInit /\ Rest2 /\ RestDisks("i386", BareI386) /\ RestCd /\ RestStages
          \/ part = "cd" /\ CdInit /\ Rest2 /\ RestDisks("i386", BareI386) /\ RestIo /\ RestStages
          \/ part = "boot2" /\ RestIo /\ RestCd /\ RestStages /\ (\E p \in {"boot2", "pc98", "at91", "ixp425"} : \E d \in Media2(p) :
                 prog = p /\ RestDisks(IF p = "pc98" THEN "pc98" ELSE "i386", d)) /\ Boot2Init
                 /\ (disk.scsi => 0 \notin bios)      \* a floppy has no label of a SCSI disk
          \/ part = "stages" /\ StagesInit /\ Rest2 /\ RestDisks("i386", BareI386) /\ RestIo /\ RestCd
MCNext == /\ UNCHANGED part
          /\ \/ part = "disks" /\ DisksNext /\ UNCHANGED <<b2vars, iovars, cdvars, stagevars>>
             \/ part = "io" /\ IoNext /\ UNCHANGED <<b2vars, diskvars, cdvars, stagevars>>
             \/ part = "cd" /\ CdNext /\ UNCHANGED <<b2vars, diskvars, iovars, stagevars>>
             \/ part = "boot2" /\ Boot2Next /\ UNCHANGED <<diskvars, iovars, cdvars, stagevars>>
             \/ part = "stages" /\ StagesNext /\ UNCHANGED <<b2vars, diskvars, iovars, cdvars>>
MCSpec == MCInit /\ [][MCNext]_<<diskvars, iovars, cdvars, b2vars, stagevars, part>>

\* The stages before the loader read the file that is named from the device that is
\* named, and tell the next program that device: boot2, its UFS and boot1, zfsboot.
StagesSafe == (part = "boot2" => Boot2Safe) /\ (stage = "ufs" => UfsSafe) /\ (stage = "zfs" => ZfsBootSafe)
=============================================================================
