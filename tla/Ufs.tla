-------------------------------- MODULE Ufs --------------------------------
(***************************************************************************)
(* ufsread.c, the UFS of the boot blocks, and the programs that load a file *)
(* with it: boot1 of powerpc and sparc64 and, for the choice of segments,    *)
(* boot2.  One inode, one block and one indirect block are kept between       *)
(* calls.  The unit of the model is a sector: a sector holds an inode, a       *)
(* directory entry, an address or a piece of a file.                           *)
(***************************************************************************)
EXTENDS Naturals, Integers, Sequences, FiniteSets, SequencesExt

CONSTANTS
    Volumes,        \* the partitions: sectors, and for the properties what their files hold
    NDADDR,         \* direct blocks of an inode
    VBLK, FSBLK,    \* sectors of a virtual block and of a file system block
    NINDIR,         \* addresses of an indirect block
    UfsPaths, UfsSizes, UfsOffsets,     \* what the programs look up and read
    UfsFaults       \* sectors a read of which may fail, and -1 for none
ASSUME UfsAssumption == {NDADDR, VBLK, FSBLK, NINDIR} \subseteq Nat \ {0} /\ FSBLK % VBLK = 0 /\ NINDIR % (FSBLK \div VBLK) = 0

VARIABLES
    uprog,          \* who reads: boot2, whose driver reports errors, or chrp, sparc64, whose drivers do not
    vols,           \* the partitions Open Firmware offers, or the one boot2 has found
    u,              \* the static variables: of fsread, fs_off, ep, and which partition is open
    uread,          \* the last call of fsread from outside, and what it returned
    ulookup,        \* the last path looked up and its inode
    segs,           \* what load has put into memory: address -> value
    upc             \* mount, ready, entered, panic
ufsvars == <<uprog, vols, u, uread, ulookup, segs, upc>>

ROOTINO == 2
Junk9 == [k |-> "junk"]
SomeJunk(n) == [i \in 1 .. n |-> Junk9]
Min9(a, b) == IF a < b THEN a ELSE b
\* What the sector holds; beyond the file system lies nothing of use.
Sec(s, a) == IF a \in DOMAIN vols[s.dev].sec THEN vols[s.dev].sec[a] ELSE Junk9
NoPh == [k |-> "ph", type |-> "none", offset |-> 0, filesz |-> 0, memsz |-> 0, vaddr |-> 0]
Static(dev) == [dev |-> dev, ep |-> <<NoPh, NoPh>>, meta |-> FALSE, sb |-> Junk9, ino |-> 0, blk |-> 0, ind |-> 0, dp |-> Junk9, blkbuf |-> SomeJunk(VBLK), indbuf |-> SomeJunk(VBLK), off |-> 0,
           hurt |-> {}]         \* the buffers a failed read has left with other contents than their keys say

-----------------------------------------------------------------------------
(* dskread: the drive fails at one sector, or nowhere.  Open Firmware's      *)
(* errors are not looked at, and the buffer keeps what it had.                *)
Hits(fault, a, n) == fault \in a .. a + n - 1
Filled(s, buf, a, n) == [i \in DOMAIN buf |-> IF i <= n THEN Sec(s, a + i - 1) ELSE buf[i]]
boot2_driver(s, which, a, n, fault) == IF Hits(fault, a, n) THEN [ok |-> FALSE, s |-> [s EXCEPT ![which] = SomeJunk(VBLK), !.hurt = @ \union {which}]]
                                       ELSE [ok |-> TRUE, s |-> [s EXCEPT ![which] = Filled(s, @, a, n), !.hurt = @ \ {which}]]
chrp_dskread(s, which, a, n, fault) == [ok |-> TRUE, s |-> IF Hits(fault, a, n) THEN [s EXCEPT !.hurt = @ \union {which}]
                                                          ELSE [s EXCEPT ![which] = Filled(s, @, a, n), !.hurt = @ \ {which}]]
sparc64_dskread(s, which, a, n, fault) == chrp_dskread(s, which, a, n, fault)
Dskread(s, which, a, n, fault) == CASE uprog = "boot2" -> boot2_driver(s, which, a, n, fault) [] uprog = "chrp" -> chrp_dskread(s, which, a, n, fault)
                                    [] OTHER -> sparc64_dskread(s, which, a, n, fault)

\* The superblock: places are tried until one holds it.
RECURSIVE Superblock(_, _, _)
Superblock(s, places, fault) ==
    IF places = <<>> THEN [ok |-> FALSE, s |-> s]                     \* Not ufs
    ELSE LET hit == fault = places[1]
             t == [s EXCEPT !.sb = IF hit THEN (IF uprog = "boot2" THEN Junk9 ELSE @) ELSE Sec(s, places[1])]
         IN  IF hit /\ uprog = "boot2" THEN [ok |-> FALSE, s |-> t]
             ELSE IF t.sb.k = "sb" /\ t.sb.at = places[1] THEN [ok |-> TRUE, s |-> [t EXCEPT !.meta = TRUE]]
             ELSE Superblock(t, Tail(places), fault)
sblock_try == <<8, 4, 0>>
INO_TO_VBA(s, ino) == s.sb.inodes + ((ino \div VBLK) * VBLK)

\* The inode; its block goes through the buffer of the data.
\* Mutant of ReadInode: the keys of the old inode's blocks survive.
ReadInodeKeeps(s, ino, fault) ==
    LET Take(r) == IF ~r.ok THEN r ELSE [r EXCEPT !.s = [@ EXCEPT !.dp = r.s.blkbuf[(ino % VBLK) + 1], !.ino = ino, !.off = 0]]
    IN  Take(Dskread(s, "blkbuf", INO_TO_VBA(s, ino), VBLK, fault))
ReadInode(s, ino, fault) ==
    LET Take(r) == IF ~r.ok THEN r
                   ELSE [r EXCEPT !.s = [@ EXCEPT !.dp = r.s.blkbuf[(ino % VBLK) + 1], !.ino = ino, !.off = 0, !.blk = 0, !.ind = 0,
                                           !.hurt = IF "blkbuf" \in @ THEN {"dp"} ELSE {}]]    \* the block key is cleared with it
    IN  Take(Dskread(s, "blkbuf", INO_TO_VBA(s, ino), VBLK, fault))

\* The address of the block that holds fs_off: an inode's own, or one of its indirect block.
BlockAddr(s, lbn, fault) ==
    LET n == NINDIR \div (FSBLK \div VBLK)
        vbaddr == s.dp.ib + (((lbn - NDADDR) \div n) * VBLK)
        Take(r) == IF ~r.ok THEN [ok |-> FALSE, s |-> r.s, a |-> Junk9]
                   ELSE [ok |-> TRUE, s |-> [r.s EXCEPT !.ind = vbaddr], a |-> r.s.indbuf[((lbn - NDADDR) % n) + 1]]
    IN  IF lbn < NDADDR THEN [ok |-> TRUE, s |-> s, a |-> [k |-> "addr", a |-> s.dp.db[lbn + 1]]]
        ELSE IF lbn >= NDADDR + NINDIR THEN [ok |-> FALSE, s |-> s, a |-> Junk9]
        ELSE Take(IF s.ind = vbaddr THEN [ok |-> TRUE, s |-> s] ELSE Dskread(s, "indbuf", vbaddr, VBLK, fault))
\* sblksize: the last direct block of a file is as long as the file needs.
sblksize(size, lbn) == IF lbn >= NDADDR \/ size >= (lbn + 1) * FSBLK THEN FSBLK ELSE size - (lbn * FSBLK)
\* The loop of fsread, nb sectors from fs_off.
RECURSIVE Pieces(_, _, _, _)
Pieces(s, nb, fault, got) ==
    IF nb = 0 THEN [ok |-> TRUE, s |-> s, data |-> got]
    ELSE LET lbn == s.off \div FSBLK
             inblk == s.off % FSBLK
             len == Min9(sblksize(s.dp.size, lbn) - ((inblk \div VBLK) * VBLK), VBLK)
             n == Min9(len - (inblk % VBLK), nb)
             Copied(r, vbaddr) == IF ~r.ok THEN [ok |-> FALSE, s |-> r.s, data |-> got]
                                  ELSE Pieces([r.s EXCEPT !.blk = vbaddr, !.off = @ + n], nb - n, fault,
                                              got \o SubSeq(r.s.blkbuf, (inblk % VBLK) + 1, (inblk % VBLK) + n))
             From(t, vbaddr) == Copied(IF t.blk = vbaddr THEN [ok |-> TRUE, s |-> t] ELSE Dskread(t, "blkbuf", vbaddr, len, fault), vbaddr)
             Found(b) == IF ~b.ok \/ b.a.k # "addr" THEN [ok |-> FALSE, s |-> b.s, data |-> got]
                         ELSE From(b.s, b.a.a + ((inblk \div VBLK) * VBLK))
         IN  Found(BlockAddr(s, lbn, fault))
\* A junk inode leads anywhere; the model stops there.
IsInode(dp) == dp.k = "ino"
fsread(s, ino, nbyte, fault) ==
    LET Reads(i) == IF ~i.ok \/ ~IsInode(i.s.dp) \/ i.s.off > i.s.dp.size THEN [ok |-> FALSE, s |-> i.s, data |-> <<>>]
                    ELSE Pieces(i.s, Min9(nbyte, i.s.dp.size - i.s.off), fault, <<>>)
        Mounted(m) == IF ~m.ok THEN [ok |-> FALSE, s |-> m.s, data |-> <<>>]
                      ELSE IF ino = 0 THEN [ok |-> TRUE, s |-> m.s, data |-> <<>>]
                      ELSE Reads(IF m.s.ino = ino THEN [ok |-> TRUE, s |-> m.s] ELSE ReadInode(m.s, ino, fault))
    IN  Mounted(IF s.meta THEN [ok |-> TRUE, s |-> s] ELSE Superblock([s EXCEPT !.ino = 0], sblock_try, fault))

\* fsfind: a directory sector by sector.  A sector that is no directory entry is stepped over.
RECURSIVE Search(_, _, _, _)
Search(s, name, ino, fault) ==
    LET Look(r) == IF ~r.ok \/ r.data = <<>> THEN [s |-> r.s, type |-> "none", ino |-> ino]
                   ELSE IF r.data[1].k = "dirent" /\ r.data[1].name = name THEN [s |-> r.s, type |-> r.data[1].type, ino |-> r.data[1].ino]
                   ELSE Search(r.s, name, ino, fault)
    IN  Look(fsread(s, ino, 1, fault))
fsfind(s, name, ino, fault) == Search([s EXCEPT !.off = 0], name, ino, fault)
RECURSIVE Walks(_, _, _, _, _)
Walks(s, path, ino, type, fault) ==
    IF path = <<>> THEN [s |-> s, ino |-> IF type = "reg" THEN ino ELSE 0]
    ELSE IF type # "dir" THEN [s |-> s, ino |-> 0]
    ELSE LET On(f) == IF f.type = "none" THEN [s |-> f.s, ino |-> 0] ELSE Walks(f.s, Tail(path), f.ino, f.type, fault)
         IN  On(fsfind(s, path[1], ino, fault))
lookup9(s, path, fault) == Walks(s, path, ROOTINO, "dir", fault)

-----------------------------------------------------------------------------
(* Loading an ELF file: the header, then each program header and what it names. *)
Put(mem, addr, vals) == [a \in DOMAIN mem \union (addr .. addr + Len(vals) - 1) |-> IF a \in addr .. addr + Len(vals) - 1 THEN vals[a - addr + 1] ELSE mem[a]]
Stopped(s) == [ok |-> FALSE, s |-> s, mem |-> <<>>]
IsHeader(r, k) == r.ok /\ r.data # <<>> /\ r.data[1].k = k
Zeros(n) == [i \in 1 .. n |-> "zero"]
\* boot1: each PT_LOAD as it comes.
RECURSIVE Segments(_, _, _, _, _, _)
Segments(s, ino, eh, i, fault, mem) ==
    IF i = eh.phnum THEN [ok |-> TRUE, s |-> s, mem |-> mem]
    ELSE LET Copied(c, ph) == IF ~c.ok \/ Len(c.data) # ph.filesz THEN Stopped(c.s)
                              ELSE Segments(c.s, ino, eh, i + 1, fault, Put(mem, ph.vaddr, c.data \o Zeros(ph.memsz - ph.filesz)))
             Load(t, ph) == IF ph.type # "LOAD" THEN Segments(t, ino, eh, i + 1, fault, mem)
                            ELSE Copied(fsread([t EXCEPT !.off = ph.offset], ino, ph.filesz, fault), ph)
             Header(h) == IF ~IsHeader(h, "ph") THEN Stopped(h.s) ELSE Load(h.s, h.data[1])
         IN  Header(fsread([s EXCEPT !.off = eh.phoff + i], ino, 1, fault))
\* boot2: headers are read into ep until two are loadable, then both elements are loaded.
RECURSIVE ReadEp(_, _, _, _, _, _)
ReadEp(s, ino, eh, i, j, fault) ==
    IF i = eh.phnum \/ j = 2 THEN [ok |-> TRUE, s |-> s]
    ELSE LET Keep(t, ph) == ReadEp([t EXCEPT !.ep[j + 1] = ph], ino, eh, i + 1, IF ph.type = "LOAD" THEN j + 1 ELSE j, fault)
             Header(h) == IF ~IsHeader(h, "ph") THEN [ok |-> FALSE, s |-> h.s] ELSE Keep(h.s, h.data[1])
         IN  Header(fsread(IF i = 0 THEN [s EXCEPT !.off = eh.phoff] ELSE s, ino, 1, fault))
RECURSIVE LoadEp(_, _, _, _, _)
LoadEp(s, ino, i, fault, mem) ==
    IF i > 2 THEN [ok |-> TRUE, s |-> s, mem |-> mem]
    ELSE LET Copied(c) == IF ~c.ok \/ Len(c.data) # s.ep[i].filesz THEN Stopped(c.s)
                          ELSE LoadEp(c.s, ino, i + 1, fault, Put(mem, s.ep[i].vaddr, c.data))
         IN  Copied(fsread([s EXCEPT !.off = s.ep[i].offset], ino, s.ep[i].filesz, fault))
boot2_elf(s, ino, eh, fault) == LET Loaded(e) == IF ~e.ok THEN Stopped(e.s) ELSE LoadEp(e.s, ino, 1, fault, <<>>)
                                IN  Loaded(ReadEp(s, ino, eh, 0, 0, fault))
chrp_load(s, ino, eh, fault) == Segments(s, ino, eh, 0, fault, <<>>)
sparc64_load9(s, ino, eh, fault) == Segments(s, ino, eh, 0, fault, <<>>)
\* The file is looked up, and its header read from the start.
Loads(path, fault) ==
    LET Elf(t, ino, eh) == CASE uprog = "boot2" -> boot2_elf(t, ino, eh, fault) [] uprog = "chrp" -> chrp_load(t, ino, eh, fault)
                             [] OTHER -> sparc64_load9(t, ino, eh, fault)
        Header(h, ino) == IF ~IsHeader(h, "eh") THEN Stopped(h.s) ELSE Elf(h.s, ino, h.data[1])
        Found(l) == IF l.ino = 0 THEN Stopped(l.s) ELSE Header(fsread(l.s, l.ino, 1, fault), l.ino)
    IN  Found(lookup9(u, path, fault))

-----------------------------------------------------------------------------
(* The programs.  boot2 comes back to its prompt; boot1 tries one file. *)
NoRead == [ino |-> 0, off |-> 0, n |-> 0, ok |-> FALSE, data |-> <<>>, hurt |-> FALSE]
NoLookup == [path |-> <<>>, ino |-> 0, hurt |-> FALSE]
\* A fault that is not reported hurts the call it happens in as well.
Hurt(fault) == u.hurt # {} \/ (uprog # "boot2" /\ fault # -1)
\* chrp tries the partitions of the boot path in turn, sparc64 the one it was given.
mount(dev, fault, last) ==
    \E r \in {fsread([u EXCEPT !.dev = dev], 0, 0, fault)} :
        /\ u' = r.s
        /\ upc' = IF r.ok THEN "ready" ELSE IF last THEN "panic" ELSE "mount"
        /\ UNCHANGED <<uprog, vols, uread, ulookup, segs>>
chrp_main(fault) == upc = "mount" /\ uprog = "chrp" /\ mount(u.dev + 1, fault, u.dev + 1 = Len(vols))
sparc64_main(fault) == upc = "mount" /\ uprog = "sparc64" /\ mount(u.dev, fault, TRUE)
\* parse of boot2: another device.
OtherDevice(dev) == /\ upc = "ready" /\ uprog = "boot2" /\ u' = [u EXCEPT !.dev = dev, !.meta = FALSE]
                    /\ ulookup' = NoLookup /\ uread' = NoRead /\ UNCHANGED <<uprog, vols, segs, upc>>
Lookup(path, fault) ==
    /\ upc = "ready" /\ uprog = "boot2"
    /\ \E l \in {lookup9(u, path, fault)} :
        /\ u' = l.s /\ ulookup' = [path |-> path, ino |-> l.ino, hurt |-> u.hurt # {} \/ l.s.hurt # {} \/ (fault # -1 /\ l.ino = 0)]
        /\ uread' = NoRead /\ UNCHANGED <<uprog, vols, segs, upc>>
\* The callers of fsread set fs_off themselves; a first read starts at 0.
Fsread(off, n, fault) ==
    LET ino == ulookup.ino
        s == IF u.ino = ino THEN [u EXCEPT !.off = off] ELSE u
    IN  /\ upc = "ready" /\ uprog = "boot2" /\ ino # 0
        /\ \E r \in {fsread(s, ino, n, fault)} :
           /\ u' = r.s
           /\ uread' = [ino |-> ino, off |-> IF u.ino = ino THEN off ELSE 0, n |-> n, ok |-> r.ok, data |-> r.data, hurt |-> u.hurt # {}]
        /\ UNCHANGED <<uprog, vols, ulookup, segs, upc>>
Load9(path, fault) ==
    /\ upc = "ready"
    /\ \E r \in {Loads(path, fault)} :
        /\ u' = r.s /\ segs' = [path |-> path, mem |-> r.mem, hurt |-> Hurt(fault)]
        /\ upc' = IF r.ok THEN "entered" ELSE IF uprog = "boot2" THEN "ready" ELSE "panic"
        /\ ulookup' = NoLookup /\ uread' = NoRead /\ UNCHANGED <<uprog, vols>>

UfsInit == /\ uprog \in {"boot2", "chrp", "sparc64"} /\ vols \in Volumes
           /\ \E dev \in DOMAIN vols : u = Static(IF uprog = "chrp" THEN 0 ELSE dev)
           /\ upc = IF uprog = "boot2" THEN "ready" ELSE "mount"
           /\ uread = NoRead /\ ulookup = NoLookup /\ segs = [path |-> <<>>, mem |-> <<>>, hurt |-> FALSE]
UfsNext == \/ \E fault \in UfsFaults : \/ chrp_main(fault) \/ sparc64_main(fault)
                                       \/ \E path \in UfsPaths : Lookup(path, fault) \/ Load9(path, fault)
                                       \/ \E off \in UfsOffsets, n \in UfsSizes : Fsread(off, n, fault)
           \/ \E dev \in DOMAIN vols : OtherDevice(dev)

-----------------------------------------------------------------------------
Files == vols[u.dev].files          \* what the files of the open partition hold
Tree == vols[u.dev].tree            \* and their names
Part9(f, off, n) == SubSeq(f, off + 1, Min9(off + n, Len(f)))
\* What fsread returns is the file's, from fs_off on and as much as there is, whatever was read before, in
\* whichever file and on whichever partition, and whatever could not be read, as long as no failed read
\* has left a buffer that does not belong to its key (inomap, blkmap, indmap).
ReadsRight == uread.ok /\ ~uread.hurt => uread.data = Part9(Files[uread.ino], uread.off, uread.n)
\* A path leads to its file, and to nothing else (lookup, fsfind).
LookupRight == ulookup # NoLookup /\ ~ulookup.hurt => ulookup.ino = IF ulookup.path \in DOMAIN Tree THEN Tree[ulookup.path] ELSE 0
\* What is entered is the whole program of that file: all the loadable segments, or with boot2 the first two
\* when there are two, and nothing else.
Loadables(f) == SelectSeq(SubSeq(f, f[1].phoff + 1, f[1].phoff + f[1].phnum), LAMBDA ph : ph.type = "LOAD")
Wanted(f) == LET phs == Loadables(f) IN FoldLeft(LAMBDA mem, ph : Put(mem, ph.vaddr, Part9(f, ph.offset, ph.filesz) \o (IF uprog = "boot2" THEN <<>> ELSE Zeros(ph.memsz - ph.filesz))),
                                                 <<>>, IF uprog = "boot2" THEN SubSeq(phs, 1, 2) ELSE phs)
LoadsWhole == upc = "entered" /\ ~segs.hurt =>
    LET f == Files[Tree[segs.path]] IN (uprog = "boot2" => Len(Loadables(f)) >= 2) => segs.mem = Wanted(f)
UfsSafe == ReadsRight /\ LookupRight /\ LoadsWhole
=============================================================================
