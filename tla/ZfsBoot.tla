------------------------------ MODULE ZfsBoot ------------------------------
(***************************************************************************)
(* zfsboot and gptzfsboot, the second stages that read ZFS, the memory map   *)
(* they share with the loader (bios_getmem), and sparc64's zfsboot, which     *)
(* reads a boot program from behind the labels (zbread).                      *)
(* A vdev keeps the pointer to the dsk structure it was found through, so     *)
(* dsk structures are a heap and a pointer is an index of it.  What ZFS makes *)
(* of the labels is ZfsPool's and ZfsFile's subject; here a label names its   *)
(* pool, and a pool its datasets and the files they hold.                     *)
(***************************************************************************)
EXTENDS Integers, Sequences, FiniteSets, SequencesExt

CONSTANTS
    ZMachines,      \* boot drive, drives, memory map, pools
    ZCmds,          \* command lines: sequences of arguments
    DEV,            \* DEV_BSIZE
    BUF,            \* READ_BUF_SIZE / DEV_BSIZE
    MEG, HALF, HEAP_MIN, TOP4G  \* 1 MB, 512 KB, 3 MB and 4 GB in units of the memory map
ASSUME ZfsBootAssumption == {DEV, BUF, MEG, HALF, HEAP_MIN} \subseteq Nat \ {0} /\ TOP4G > MEG + HEAP_MIN

VARIABLES
    zprog,          \* zfsboot, gptzfsboot
    mach,
    mem,            \* bios_getmem: basemem, extmem, high_heap_base, high_heap_size, memtop
    zs,             \* heap of dsk structures, vdevs, pools in the order found, spa
    next,           \* the drive probed next
    zfsmount, zkname, zauto, zpc,
    zbooted,        \* what was handed over
    zio             \* the last transfer: what was asked for, and the bytes got
zbvars == <<zprog, mach, mem, zs, next, zfsmount, zkname, zauto, zpc, zbooted, zio>>

HARD == 128
NoPool == "NULL"

-----------------------------------------------------------------------------
(* Memory *)
IsMem(s) == s.type = "memory"
Smap(m, s) ==
    LET size == IF s.base + s.length > TOP4G THEN TOP4G - s.base ELSE s.length IN
    [m EXCEPT !.basemem = IF IsMem(s) /\ s.base = 0 /\ s.length >= HALF THEN s.length ELSE @,
              !.extmem = IF IsMem(s) /\ s.base = MEG THEN s.length % TOP4G ELSE @,
              !.size = IF IsMem(s) /\ s.base > MEG /\ s.base < TOP4G /\ size > @ THEN size ELSE @,
              !.base = IF IsMem(s) /\ s.base > MEG /\ s.base < TOP4G /\ size > m.size THEN s.base ELSE @]
\* The older calls, then the last 3 MB of extended memory when no segment will do.
Compat(m, b) ==
    LET ext == IF m.extmem # 0 THEN m.extmem ELSE IF b.e801 > 0 THEN b.e801 ELSE b.e88
        m1 == [m EXCEPT !.basemem = IF @ = 0 THEN b.int12 ELSE @, !.extmem = ext, !.memtop = MEG + ext]
    IN  IF ext >= HEAP_MIN /\ m.size < HEAP_MIN THEN [m1 EXCEPT !.size = HEAP_MIN, !.base = MEG + ext - HEAP_MIN] ELSE m1
bios_getmem(b) == Compat(FoldLeft(Smap, [basemem |-> 0, extmem |-> 0, size |-> 0, base |-> 0, memtop |-> 0], b.smap), b)
\* The loader has the same code, and sets memtop.
libi386_bios_getmem(b) == bios_getmem(b)

-----------------------------------------------------------------------------
(* Transfers: vdev_read by whole sectors through rdbuf, zbread of any bytes. *)
\* The bytes of a disk are their addresses.
Bytes(a, n) == [i \in 1 .. n |-> a + i - 1]
Least9(a, b) == IF a < b THEN a ELSE b
Chunks[lba \in Nat, nb \in Nat] == IF nb = 0 THEN <<>> ELSE LET k == Least9(nb, BUF) IN Bytes(lba * DEV, k * DEV) \o Chunks[lba + k, nb - k]
vdev_read(start, off, bytes) == IF off % DEV # 0 \/ bytes % DEV # 0 THEN <<-1>> ELSE Chunks[(off \div DEV) + start, bytes \div DEV]
Zb[poff \in Nat, stop \in Nat, fault \in Int] ==
    IF poff >= stop THEN <<>>
    ELSE LET lb == (stop + DEV - 1) \div DEV
             nb == Least9(lb - (poff \div DEV), BUF)
             far == ((poff \div DEV) + nb) * DEV
             len == IF far > stop THEN stop - poff ELSE far - poff
             zbuf == Bytes((poff \div DEV) * DEV, nb * DEV)
         IN  IF fault \in (poff \div DEV) .. (poff \div DEV) + nb - 1 THEN <<>>
             ELSE SubSeq(zbuf, (poff % DEV) + 1, (poff % DEV) + len) \o Zb[poff + len, stop, fault]
zbread(off, bytes, fault) == Zb[off, off + bytes, fault]

-----------------------------------------------------------------------------
(* Drives *)
Drive(d) == mach.drives[d]
\* The BIOS counts the drives, answers for this one, and gives it sectors.
int13probe(d) == d \in DOMAIN mach.drives /\ Cardinality({x \in DOMAIN mach.drives : x >= HARD}) # d - HARD /\ Drive(d).sane
malloc(s, dsk) == [s EXCEPT !.heap = Append(@, dsk)]
\* A label is found and its vdev is not yet known; the pool is told on request.
vdev_probe(p) ==
    LET d == p.s.heap[p.cur]
        labels == Drive(d.drive).labels
        found == d.start \in DOMAIN labels /\ d.start \notin Drive(d.drive).bad
        l == labels[d.start]
    IN  IF ~found THEN [p EXCEPT !.ok = FALSE]
        ELSE [p EXCEPT !.ok = TRUE,
                       !.s.vdevs = IF \E v \in @ : v.guid = l.guid THEN {IF v.guid = l.guid THEN [v EXCEPT !.dsk = p.cur, !.drive = d.drive, !.start = d.start] ELSE v : v \in @}
                                   ELSE @ \union {[guid |-> l.guid, pool |-> l.pool, dsk |-> p.cur, drive |-> d.drive, start |-> d.start]},
                       !.s.pools = IF \E i \in DOMAIN @ : @[i] = l.pool THEN @ ELSE Append(@, l.pool),
                       !.s.spa = IF p.want THEN l.pool ELSE @]
copy_dsk(p) == [p EXCEPT !.s = malloc(@, p.s.heap[p.cur]), !.cur = Len(p.s.heap) + 1, !.want = FALSE]
\* Mutant of TryAt: the dsk structure is used again for the next partition.
TryAtNoCopy(p, start) == LET q == vdev_probe([p EXCEPT !.s.heap[p.cur].start = start]) IN IF q.ok THEN [q EXCEPT !.want = FALSE] ELSE q
\* A partition: the structure is the vdev's if there is one there.
TryAt(p, start) == LET q == vdev_probe([p EXCEPT !.s.heap[p.cur].start = start]) IN IF q.ok THEN copy_dsk(q) ELSE q
TryEnts(p, ents) == FoldLeft(LAMBDA q, e : IF e.zfs THEN TryAt(q, e.start) ELSE q, p, ents)
\* A table sector that cannot be read ends the search.
TryGpt(p, d, n) == FoldLeft(LAMBDA q, i : IF q.stop \/ 1 + i \in d.bad THEN [q EXCEPT !.stop = TRUE] ELSE TryEnts(q, d.gpt[i]), p, [i \in 1 .. n |-> i])
TryMbr(p, d) == IF 0 \in d.bad THEN p ELSE FoldLeft(LAMBDA q, start : IF start = 0 THEN q ELSE TryAt(q, start), p, d.mbr)
probe_drive(s, cur, want) ==
    LET d == Drive(s.heap[cur].drive)
        p == vdev_probe([s |-> s, cur |-> cur, want |-> want, ok |-> FALSE, stop |-> FALSE])
    IN  IF p.ok THEN p.s
        ELSE IF zprog = "gptzfsboot" /\ 1 \in d.bad THEN p.s
        ELSE IF zprog = "gptzfsboot" /\ d.gpt # <<>> THEN TryGpt(p, d, Len(d.gpt)).s
        ELSE TryMbr(p, d).s

ProbeBoot ==
    /\ zpc = "boot"
    /\ zs' = probe_drive(malloc(zs, [drive |-> mach.boot, start |-> 0]), 1, TRUE)
    /\ zpc' = "drives"
    /\ UNCHANGED <<zprog, mach, mem, next, zfsmount, zkname, zauto, zbooted, zio>>
\* The other drives; one that does not answer ends the loop.
ProbeNext ==
    /\ zpc = "drives"
    /\ IF next >= HARD + mach.numdrives \/ (next # mach.boot /\ ~int13probe(next)) THEN zpc' = "choose" /\ UNCHANGED <<next, zs>>
       ELSE /\ next' = next + 1 /\ UNCHANGED zpc
            /\ zs' = IF next = mach.boot THEN zs ELSE probe_drive(malloc(zs, [drive |-> next, start |-> 0]), Len(zs.heap) + 1, FALSE)
    /\ UNCHANGED <<zprog, mach, mem, zfsmount, zkname, zauto, zbooted, zio>>

-----------------------------------------------------------------------------
(* Pools and datasets.  Only the pool of the start is initialised: parse       *)
(* does not call zfs_spa_init, and reading through an empty MOS divides by 0.  *)
Mount0 == [spa |-> NoPool, objset |-> "none", root |-> "none"]
Datasets(pool) == mach.pools[pool].datasets
Inited(pool) == pool = zs.inited
\* Mounting: the pool is taken first, the object set next, its number last.
zfs_mount(m, pool, ds) ==
    LET root == IF ds = "" THEN mach.pools[pool].bootfs ELSE ds
        m1 == [m EXCEPT !.spa = pool]
    IN  IF root \notin DOMAIN Datasets(pool) THEN [ok |-> FALSE, m |-> m1]
        ELSE IF ~Datasets(pool)[root].good THEN [ok |-> FALSE, m |-> [m1 EXCEPT !.objset = "junk"]]
        ELSE [ok |-> TRUE, m |-> [spa |-> pool, objset |-> root, root |-> root]]
zfs_lookup(m, path) == IF m.objset \in DOMAIN Datasets(m.spa) /\ path \in Datasets(m.spa)[m.objset].files THEN path ELSE "none"
Usable(m) == m.spa # NoPool /\ m.objset # "none" /\ Inited(m.spa)

\* One argument.  An option changes nothing here; unlike boot2's it goes on as a
\* file name that is empty by then.
ParsePool(s, a) ==
    IF a.pool \notin Range(zs.pools) THEN [s EXCEPT !.err = TRUE]
    ELSE IF ~Inited(a.pool) THEN [s EXCEPT !.spa = a.pool, !.trap = TRUE, !.err = TRUE]
    ELSE IF a.ds # "" /\ a.ds \notin DOMAIN Datasets(a.pool) THEN [s EXCEPT !.spa = a.pool, !.err = TRUE]
    ELSE LET r == zfs_mount(s.m, a.pool, a.ds) IN [s EXCEPT !.spa = a.pool, !.m = r.m, !.err = ~r.ok, !.kname = IF r.ok /\ a.name # "" THEN a.name ELSE @]
Parse1(s, a) == CASE s.err -> s
                  [] a.k = "status" \/ a.k = "badopt" -> [s EXCEPT !.err = TRUE]
                  [] a.k = "list" -> [s EXCEPT !.err = TRUE, !.trap = ~Usable(s.m)]
                  [] a.k = "opt" -> s
                  [] a.k = "name" -> [s EXCEPT !.kname = a.name]
                  [] a.k = "pool" -> ParsePool(s, a)
zparse(cmd) == FoldLeft(Parse1, [spa |-> zs.spa, m |-> zfsmount, kname |-> zkname, err |-> FALSE, trap |-> FALSE], cmd)
\* The file is looked up in the mount, and read through the current pool.
zload(s, fails) ==
    CASE ~Usable(s.m) -> zpc' = "trap" /\ UNCHANGED zbooted
      [] Usable(s.m) /\ (zfs_lookup(s.m, s.kname) = "none" \/ fails) -> zpc' = "prompt" /\ UNCHANGED zbooted
      [] OTHER -> zpc' = "exec" /\ zbooted' = [file |-> s.kname, found |-> <<s.m.spa, s.m.objset>>, read |-> s.spa, guid |-> s.spa, pool |-> s.m.spa, root |-> s.m.root]
Set(s) == /\ zs' = [zs EXCEPT !.spa = s.spa]
          /\ zfsmount' = s.m

\* The first pool of the boot drive, or the first of all; its configuration.
Choose(mosbad) ==
    LET spa == IF zs.spa # NoPool THEN zs.spa ELSE IF zs.pools = <<>> THEN NoPool ELSE zs.pools[1]
        r == IF mosbad THEN [ok |-> FALSE, m |-> zfsmount] ELSE zfs_mount(zfsmount, spa, "")
        has == r.ok /\ zfs_lookup(r.m, "config") # "none"
    IN  /\ zpc = "choose"
        /\ IF spa = NoPool THEN zpc' = "stop" /\ UNCHANGED <<zs, zfsmount, zauto, zkname>>
           ELSE /\ zs' = [zs EXCEPT !.spa = spa, !.inited = IF mosbad THEN @ ELSE spa]
                /\ zfsmount' = r.m
                /\ zauto' = r.ok
                /\ zkname' = IF has THEN "cmd" ELSE zkname
                /\ zpc' = "config"
        /\ UNCHANGED <<zprog, mach, mem, next, zbooted, zio>>
Config9(cmd) ==
    /\ zpc = "config"
    /\ IF zkname = "cmd"
       THEN LET s == [zparse(cmd) EXCEPT !.kname = IF @ = "cmd" THEN "" ELSE @] IN
            /\ Set(s) /\ zauto' = (zauto /\ ~s.err)
            /\ zkname' = IF zauto' /\ s.kname = "" THEN "loader" ELSE s.kname
            /\ zpc' = IF s.trap THEN "trap" ELSE IF zauto' /\ s.kname = "" THEN "wait" ELSE "prompt"
       ELSE /\ UNCHANGED <<zs, zfsmount, zauto>>
            /\ zkname' = IF zauto THEN "loader" ELSE ""
            /\ zpc' = IF zauto THEN "wait" ELSE "prompt"
    /\ UNCHANGED <<zprog, mach, mem, next, zbooted, zio>>
\* No key was pressed: the loader, and a kernel if that fails.
Auto(fails) ==
    /\ zpc = "wait"
    /\ zload([spa |-> zs.spa, m |-> zfsmount, kname |-> zkname], fails)
    /\ zkname' = "kernel"
    /\ UNCHANGED <<zprog, mach, mem, zs, next, zfsmount, zauto, zio>>
Key9 == /\ zpc = "wait" /\ zpc' = "prompt"
        /\ UNCHANGED <<zprog, mach, mem, zs, next, zfsmount, zkname, zauto, zbooted, zio>>
\* A line is typed, or the time runs out on an empty one.
Prompt9(cmd, fails) ==
    /\ zpc = "prompt"
    /\ LET s == zparse(cmd) IN
       /\ Set(s) /\ zkname' = s.kname /\ zauto' = FALSE
       /\ IF s.trap THEN zpc' = "trap" /\ UNCHANGED zbooted
          ELSE IF s.err THEN UNCHANGED <<zpc, zbooted>> ELSE zload(s, fails)
    /\ UNCHANGED <<zprog, mach, mem, next, zio>>
\* One transfer of the boot programs.
Transfer(off, n, start, fault) ==
    /\ zpc = "boot" /\ zio = <<>>
    /\ zio' = [vdev |-> vdev_read(start, off, n), zb |-> zbread(off, n, fault), off |-> off, n |-> n, start |-> start, fault |-> fault]
    /\ zpc' = "io"
    /\ UNCHANGED <<zprog, mach, mem, zs, next, zfsmount, zkname, zauto, zbooted>>

ZfsBootInit ==
    /\ zprog \in {"zfsboot", "gptzfsboot"} /\ mach \in ZMachines
    /\ mem = bios_getmem(mach)
    /\ zs = [heap |-> <<>>, vdevs |-> {}, pools |-> <<>>, spa |-> NoPool, inited |-> NoPool]
    /\ next = HARD /\ zfsmount = Mount0 /\ zkname = "" /\ zauto = TRUE /\ zpc = "boot" /\ zbooted = <<>> /\ zio = <<>>
ZfsBootNext ==
    \/ ProbeBoot \/ ProbeNext \/ Key9
    \/ \E mosbad \in BOOLEAN : Choose(mosbad)
    \/ \E cmd \in ZCmds : Config9(cmd)
    \/ \E fails \in BOOLEAN : Auto(fails) \/ \E cmd \in ZCmds : Prompt9(cmd, fails)
    \/ \E off \in 0 .. 5, n \in 1 .. 9, start \in {0, 3}, fault \in {-1, 3} : Transfer(off, n, start, fault)

-----------------------------------------------------------------------------
\* Every vdev is still read where its label was found.
VdevsRight == \A v \in zs.vdevs : zs.heap[v.dsk] = [drive |-> v.drive, start |-> v.start]
\* Without an unreadable sector the drives before the first that does not answer have all been looked at.
Parts(d) == IF 0 \in DOMAIN d.labels THEN {0}
            ELSE DOMAIN d.labels \intersect (IF zprog = "gptzfsboot" /\ d.gpt # <<>> THEN {e.start : e \in {x \in UNION {Range(d.gpt[i]) : i \in DOMAIN d.gpt} : x.zfs}} ELSE Range(d.mbr) \ {0})
Looked == {d \in DOMAIN mach.drives : Drive(d).bad = {} /\ (d = mach.boot \/ d < next)}
AllFound == zpc \notin {"boot", "drives", "io"} => \A d \in Looked : \A p \in Parts(Drive(d)) : \E v \in zs.vdevs : v.guid = Drive(d).labels[p].guid
\* The pool that is booted without being asked for another is one of the boot drive's, if that has any.
BootPool == zpc \in {"config", "wait"} /\ Drive(mach.boot).bad = {} /\ Parts(Drive(mach.boot)) # {} /\ zs.spa = zfsmount.spa =>
    zs.spa \in {Drive(mach.boot).labels[p].pool : p \in Parts(Drive(mach.boot))}
\* The file, its contents, and the pool and the root the kernel is told are of one file system.
OneFileSystem == zbooted # <<>> => zbooted.found = <<zbooted.read, zbooted.root>> /\ zbooted.pool = zbooted.read /\ zbooted.guid = zbooted.pool
\* The heap lies in memory the BIOS has reported.
Reported == {[base |-> MEG, length |-> mem.extmem]} \union {s \in Range(mach.smap) : IsMem(s)}
HeapInMemory == mem.size > 0 => \E s \in Reported : s.base <= mem.base /\ mem.base + mem.size <= s.base + s.length /\ mem.base + mem.size <= TOP4G
\* A transfer gets the bytes that were asked for, in order; up to the buffer that failed.
TransferRight == zio # <<>> =>
    /\ (zio.off % DEV = 0 /\ zio.n % DEV = 0) => zio.vdev = Bytes((zio.start * DEV) + zio.off, zio.n)
    /\ zio.zb = Bytes(zio.off, Len(zio.zb)) /\ Len(zio.zb) <= zio.n
    /\ (zio.fault = -1 => Len(zio.zb) = zio.n)
\* What zfsboot promises: probing leaves every vdev readable where it was found and the right pool
\* chosen, whichever sectors cannot be read; a kernel comes from the file system it is told; the heap is memory.
ZfsBootSafe == VdevsRight /\ AllFound /\ BootPool /\ OneFileSystem /\ HeapInMemory /\ TransferRight
=============================================================================
