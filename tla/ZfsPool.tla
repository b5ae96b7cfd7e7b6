------------------------------ MODULE ZfsPool ------------------------------
(***************************************************************************)
(* The loader's view of ZFS pools: boot/zfs/zfsimpl.c, boot/zfs/zfs.c.      *)
(*                                                                         *)
(* arch_zfs_probe() calls zfs_probe_dev() for every disk and partition, in  *)
(* whatever order the firmware reports them.  vdev_probe() builds pools and *)
(* vdevs from the labels it meets, which may be of different ages, may be   *)
(* seen twice through two device names, or may describe vdevs the loader    *)
(* cannot read.  After that pools are opened and read.                      *)
(***************************************************************************)
EXTENDS Integers, Sequences, FiniteSets, SequencesExt, TLC

CONSTANTS Devices,      \* device names that are probed
          Machines,     \* what may be on them: functions from Devices to images
          BlockPtrs,    \* block pointers that are read: sequences of DVAs
          RootBp,       \* ub_rootbp: where the MOS is
          Guids,        \* of vdevs
          Nil           \* NULL


\* An image is a record: label, uberblocks (ring, in the order of the slots)
\* and the set of blocks with a good checksum.
\* A label tree is a sequence of nodes, parents first (the nvlist's own order).
Nodes == [guid : Guids, up : Guids \union {Nil}, type : STRING, flag : STRING, id : Nat, nparity : 1 .. 3]
\* Parents come first and the nodes below one follow it; a vdev that is not at the top has nothing but disks below it.
TreeOK(t) ==
    /\ t \in Seq(Nodes) /\ t # <<>> /\ t[1].up = Nil
    /\ \A i, j \in DOMAIN t : t[i].guid = t[j].guid => i = j
    /\ \A i \in 2 .. Len(t) : \E j \in 1 .. i - 1 : t[j].guid = t[i].up /\ t[j].type # "disk" /\ t[j].up \in {Nil, t[1].guid}
    /\ \A i \in 2 .. Len(t), j \in 2 .. Len(t) : t[i].up = t[j].guid => \A k \in j + 1 .. i : t[k].up = t[j].guid
\* What the label must have before a pool is made for it.
LabelUsable(lab) == lab.kind = "vdev"
LabelOK(lab) == lab.txg \in Nat /\ TreeOK(lab.tree) /\ lab.guid \in Guids
\* A guid stands for one vdev: labels of any age agree on its pool and its type and, if it is at the top, on that
\* and on its number, which no other top of the pool has; the disk that has the label is a disk wherever it is listed.
Agreeing(la, lb) ==
    /\ \A i \in DOMAIN la.tree, j \in DOMAIN lb.tree : la.tree[i].guid = lb.tree[j].guid =>
           la.pool = lb.pool /\ la.tree[i].type = lb.tree[j].type /\ (i = 1 => j = 1)
    /\ la.pool = lb.pool => (la.tree[1].guid = lb.tree[1].guid <=> la.tree[1].id = lb.tree[1].id)
    /\ \A j \in DOMAIN lb.tree : lb.tree[j].guid = la.guid => lb.tree[j].type = "disk"
ASSUME PoolAssumption ==
    /\ Nil \notin Guids /\ Nil \notin Devices
    /\ \A m \in Machines :
          /\ DOMAIN m = Devices /\ \A d \in Devices : m[d].uberblocks \in Seq([txg : Nat, timestamp : Nat])
          /\ \A d \in Devices : LabelUsable(m[d].label) => LabelOK(m[d].label)
          /\ \A d, e \in Devices : LabelUsable(m[d].label) /\ LabelUsable(m[e].label) => Agreeing(m[d].label, m[e].label)

VARIABLES machine, zfs_vdevs, zfs_pools, fd, probed
zvars == <<machine, zfs_vdevs, zfs_pools, fd, probed>>

BootTypes == {"mirror", "disk", "raidz", "replacing"}
\* Flags of a vdev in a label; the first that is set counts.
Flags == {"OFFLINE", "REMOVED", "FAULTED", "DEGRADED", "CANT_OPEN"}

-----------------------------------------------------------------------------
(* The vdev tree. *)

\* last is the tail of the list of children, which STAILQ_INSERT_TAIL writes to.
vdev_create(n) == [type |-> n.type, id |-> n.id, nparity |-> n.nparity, state |-> "OFFLINE",
                       phys_read |-> Nil, children |-> <<>>, last |-> Nil]

Supported(n) == n.type \in BootTypes
\* The first node, in the order of the walk, that makes it give up.
Stop(t) == IF \A i \in DOMAIN t : Supported(t[i]) THEN Len(t) + 1
           ELSE CHOOSE i \in DOMAIN t : ~Supported(t[i]) /\ \A j \in 1 .. i - 1 : Supported(t[j])

\* A new vdev, or one known from an older label, takes the state the label gives.
RefreshedState(n, state, fresh) == IF fresh /\ n.flag \in Flags THEN n.flag ELSE state

\* One call of vdev_init_from_nvlist without its loop over the children.
InitNode(n, vs, newer) ==
    LET isnew == n.guid \notin DOMAIN vs
        v == IF isnew THEN vdev_create(n) ELSE vs[n.guid]
        w == [v EXCEPT !.state = RefreshedState(n, v.state, isnew \/ newer)] IN
    [g \in DOMAIN vs \union {n.guid} |-> IF g = n.guid THEN w ELSE vs[g]]

\* A vdev has one link for all the lists it is in: the next of x becomes NULL, the next of y becomes x.
UpTo(s, g) == IF \E k \in DOMAIN s : s[k] = g THEN SubSeq(s, 1, CHOOSE k \in DOMAIN s : s[k] = g) ELSE s
Joined(s, y, x) == IF \E k \in DOMAIN UpTo(s, x) : UpTo(s, x)[k] = y THEN Append(UpTo(UpTo(s, x), y), x) ELSE UpTo(s, x)
STAILQ_INSERT_TAIL(vs, p, x) ==
    [g \in DOMAIN vs |->
        [vs[g] EXCEPT !.children = IF g = p /\ vs[p].last = Nil THEN <<x>> ELSE Joined(vs[g].children, vs[p].last, x),
                      !.last = IF g = p THEN x ELSE vs[g].last]]
\* Node j is done after node i: the next node is not below it.
Done(t, i, j) == i + 1 \notin DOMAIN t \/ t[i + 1].up # t[j].guid
LinkNode(old, vs, n) == IF n.up = Nil \/ n.up \in DOMAIN old THEN vs ELSE STAILQ_INSERT_TAIL(vs, n.up, n.guid)
\* The call for node i; it is linked to its parent, if that is new, when its own subtree is done, and so is
\* its parent when this was the last below it (trees are no deeper than a mirror, a replacing vdev and its disks).
InitCall(t, old, vs, i, newer) ==
    LET made == InitNode(t[i], vs, newer)
        one == IF Done(t, i, i) THEN LinkNode(old, made, t[i]) ELSE made
        up == {j \in 1 .. i - 1 : t[j].guid = t[i].up /\ Done(t, i, i) /\ Done(t, i, j)} IN
    IF up = {} THEN one ELSE LinkNode(old, one, t[CHOOSE j \in up : TRUE])
vdev_init_from_nvlist(t, old, newer) ==
    LET walk[i \in 0 .. Len(t)] == IF i = 0 THEN old
                                   ELSE IF i < Stop(t) THEN InitCall(t, old, walk[i - 1], i, newer) ELSE walk[i - 1]
    IN  walk[Len(t)]

Bad(vs, g) == {k \in DOMAIN vs[g].children : vs[vs[g].children[k]].state # "HEALTHY"}
TopState(vs, g) ==
    LET v == vs[g] IN
    IF v.children = <<>> THEN v.state
    ELSE IF Bad(vs, g) = {} THEN "HEALTHY"
    ELSE CASE v.type = "mirror" -> IF Bad(vs, g) # DOMAIN v.children THEN "DEGRADED" ELSE "OFFLINE"
           [] v.type = "raidz" -> IF Cardinality(Bad(vs, g)) > v.nparity THEN "OFFLINE" ELSE "DEGRADED"
           [] OTHER -> v.state
vdev_set_state(vs, g) == [vs EXCEPT ![g].state = TopState(vs, g)]

-----------------------------------------------------------------------------
(* Pools and uberblocks. *)

spa_create(lab) == [guid |-> lab.pool, name |-> lab.name, txg |-> 0, vdevs |-> <<>>, inited |-> FALSE,
                    uberblock |-> [txg |-> 0, timestamp |-> 0, from |-> Nil]]
spa_find_by_guid(ps, g) ==
    IF \E i \in DOMAIN ps : ps[i].guid = g THEN CHOOSE i \in DOMAIN ps : ps[i].guid = g ELSE 0
\* Two pools may have one name: the first that was met is taken.
spa_find_by_name(ps, nm) ==
    IF \E i \in DOMAIN ps : ps[i].name = nm
    THEN CHOOSE i \in DOMAIN ps : ps[i].name = nm /\ \A j \in 1 .. i - 1 : ps[j].name # nm ELSE 0

\* Mutant of Newer: the timestamp is not looked at.
NewerTxg(up, best) == up.txg > best.txg
Newer(up, best) == up.txg > best.txg \/ (up.txg = best.txg /\ up.timestamp > best.timestamp)
\* The loop over the uberblocks of one label; a slot with txg 0 does not verify.
BestUberblock(spa, img, dev) ==
    LET ring == img.uberblocks
        best[i \in 0 .. Len(ring)] ==
            IF i = 0 THEN spa.uberblock
            ELSE IF ring[i].txg > 0 /\ ring[i].txg >= spa.txg /\ Newer(ring[i], best[i - 1])
            THEN [txg |-> ring[i].txg, timestamp |-> ring[i].timestamp, from |-> dev] ELSE best[i - 1]
    IN  best[Len(ring)]

AddTop(spa, top) == IF \E i \in DOMAIN spa.vdevs : spa.vdevs[i] = top THEN spa
                    ELSE [spa EXCEPT !.vdevs = Append(@, top)]

AlreadyInited(g) == g \in DOMAIN zfs_vdevs /\ zfs_vdevs[g].phys_read # Nil

\* vdev_probe, all of it: label, pool, tree, own vdev, state, uberblocks.
vdev_probe(dev) ==
    LET img == machine[dev]
        lab == img.label
        ps == IF spa_find_by_guid(zfs_pools, lab.pool) = 0 THEN Append(zfs_pools, spa_create(lab)) ELSE zfs_pools
        p == spa_find_by_guid(ps, lab.pool)
        newer == lab.txg > ps[p].txg
        ps1 == IF newer THEN [ps EXCEPT ![p].txg = lab.txg] ELSE ps
        alias == AlreadyInited(lab.guid)
        vs == vdev_init_from_nvlist(lab.tree, zfs_vdevs, newer)
        top == lab.tree[1].guid
        ps2 == [ps1 EXCEPT ![p] = AddTop(@, top)]
        own == [vs EXCEPT ![lab.guid].phys_read = dev, ![lab.guid].state = "HEALTHY"] IN
    IF ~LabelUsable(lab) THEN UNCHANGED <<zfs_vdevs, zfs_pools, fd>>
    ELSE IF alias THEN zfs_pools' = ps1 /\ UNCHANGED <<zfs_vdevs, fd>>
    ELSE IF Stop(lab.tree) <= Len(lab.tree) THEN zfs_vdevs' = vs /\ zfs_pools' = ps1 /\ UNCHANGED fd
    ELSE IF lab.guid \notin DOMAIN vs THEN zfs_vdevs' = vs /\ zfs_pools' = ps2 /\ UNCHANGED fd
    ELSE /\ zfs_vdevs' = vdev_set_state(own, top)
         /\ zfs_pools' = [ps2 EXCEPT ![p].uberblock = BestUberblock(ps2[p], img, dev)]
         /\ fd' = fd \union {dev}

\* A descriptor stays open exactly for the vdevs that were taken.
zfs_probe_dev(dev) ==
    /\ dev \notin probed /\ probed' = probed \union {dev}
    /\ vdev_probe(dev)
    /\ UNCHANGED machine

-----------------------------------------------------------------------------
(* Reading. *)

vdev_read_phys(dev, blk) == dev # Nil /\ blk \in machine[dev].good
\* External (zfssubr.c): enough columns that read back.
vdev_raidz_read(g, blk) ==
    LET v == zfs_vdevs[g]
        ok == {k \in DOMAIN v.children : /\ zfs_vdevs[v.children[k]].state = "HEALTHY"
                                         /\ vdev_read_phys(zfs_vdevs[v.children[k]].phys_read, blk)} IN
    Cardinality(ok) >= Len(v.children) - v.nparity

vdev_disk_read(g, blk) == vdev_read_phys(zfs_vdevs[g].phys_read, blk)
vdev_replacing_read(g, blk) ==
    LET v == zfs_vdevs[g] IN
    /\ v.children # <<>> /\ zfs_vdevs[v.children[1]].state = "HEALTHY"
    /\ vdev_disk_read(v.children[1], blk)
\* A leaf or a replacing vdev below a mirror.
KidRead(g, blk) == IF zfs_vdevs[g].type = "replacing" THEN vdev_replacing_read(g, blk) ELSE vdev_disk_read(g, blk)
HealthyKids(g) == {k \in DOMAIN zfs_vdevs[g].children : zfs_vdevs[zfs_vdevs[g].children[k]].state = "HEALTHY"}
\* Mutant of vdev_mirror_read: the answer of the first healthy child is final.
vdev_mirror_readFirst(g, blk) ==
    \E k \in HealthyKids(g) : (\A j \in HealthyKids(g) : k <= j) /\ KidRead(zfs_vdevs[g].children[k], blk)
vdev_mirror_read(g, blk) == \E k \in HealthyKids(g) : KidRead(zfs_vdevs[g].children[k], blk)

v_read(g, blk) ==
    CASE zfs_vdevs[g].type = "mirror" -> vdev_mirror_read(g, blk)
      [] zfs_vdevs[g].type = "raidz" -> vdev_raidz_read(g, blk)
      [] OTHER -> KidRead(g, blk)

\* The vdev of a DVA is the first of the pool with that id.
DvaTop(spa, id) == {k \in DOMAIN spa.vdevs : zfs_vdevs[spa.vdevs[k]].id = id /\ \A j \in 1 .. k - 1 : zfs_vdevs[spa.vdevs[j]].id # id}

\* A gang header is read with the same DVAs; its constituents are pointers of their own.
DvaRead(spa, dva) == \E k \in DvaTop(spa, dva.vdev) : v_read(spa.vdevs[k], dva.blk)
zio_read_gang(spa, bp, dva) ==
    /\ \E i \in DOMAIN bp : DvaRead(spa, bp[i])
    /\ \A part \in dva.gang : DvaRead(spa, part)
DvaWorks(spa, bp, dva) == IF dva.gang = {} THEN DvaRead(spa, dva)
                          ELSE DvaTop(spa, dva.vdev) # {} /\ zio_read_gang(spa, bp, dva)
zio_read(spa, bp) == \E i \in DOMAIN bp : DvaWorks(spa, bp, bp[i])

\* zfs_dev_open: the pool by guid, then zfs_spa_init, once; probing is over by then.
zfs_spa_init(p) ==
    /\ probed = Devices /\ ~zfs_pools[p].inited
    /\ zio_read(zfs_pools[p], RootBp)
    /\ zfs_pools' = [zfs_pools EXCEPT ![p].inited = TRUE]
    /\ UNCHANGED <<machine, zfs_vdevs, fd, probed>>

\* spa_status: what "lsdev -v" prints for a pool.
TopIn(spa, i, states) == zfs_vdevs[spa.vdevs[i]].state \in states
spa_status(spa) ==
    IF spa.vdevs # <<>> /\ \A i \in DOMAIN spa.vdevs : TopIn(spa, i, {"HEALTHY"}) THEN "HEALTHY"
    ELSE IF \E i \in DOMAIN spa.vdevs : TopIn(spa, i, {"HEALTHY", "DEGRADED"}) THEN "DEGRADED" ELSE "CLOSED"

zfs_init == zfs_vdevs = <<>> /\ zfs_pools = <<>> /\ fd = {} /\ probed = {}
ZfsPoolInit == machine \in Machines /\ zfs_init
ZfsPoolNext == \/ \E dev \in Devices : zfs_probe_dev(dev)
               \/ \E p \in DOMAIN zfs_pools : zfs_spa_init(p)
ZfsPoolSpec == ZfsPoolInit /\ [][ZfsPoolNext]_zvars

-----------------------------------------------------------------------------
States == Flags \union {"HEALTHY"}
ZfsPoolTypeOK ==
    /\ DOMAIN machine = Devices /\ fd \subseteq probed /\ probed \subseteq Devices
    /\ \A g \in DOMAIN zfs_vdevs :
          /\ zfs_vdevs[g].state \in States /\ zfs_vdevs[g].phys_read \in fd \union {Nil}
          /\ \A k \in DOMAIN zfs_vdevs[g].children : zfs_vdevs[g].children[k] \in DOMAIN zfs_vdevs
    /\ \A p \in DOMAIN zfs_pools : \A k \in DOMAIN zfs_pools[p].vdevs : zfs_pools[p].vdevs[k] \in DOMAIN zfs_vdevs

\* Whatever the order of the probes and the age of the labels, the uberblock of
\* a pool is the newest valid one, by txg and then by timestamp, of the disks
\* that were taken, among those no older than the newest label (vdev_probe).
NewestUberblock ==
    \A p \in DOMAIN zfs_pools : \A dev \in fd : LET spa == zfs_pools[p] IN
        machine[dev].label.pool = spa.guid =>
            \A i \in DOMAIN machine[dev].uberblocks : LET up == machine[dev].uberblocks[i] IN
                up.txg >= spa.txg /\ up.txg > 0 =>
                    /\ up.txg <= spa.uberblock.txg
                    /\ up.txg = spa.uberblock.txg => up.timestamp <= spa.uberblock.timestamp

\* Each open descriptor serves the one vdev its label names: a disk that is met
\* again through another device name is not taken twice, and a device whose
\* label is refused is closed (vdev_probe, zfs_probe_dev).
DescriptorsOwned ==
    /\ fd = {zfs_vdevs[g].phys_read : g \in DOMAIN zfs_vdevs} \ {Nil}
    /\ \A g \in DOMAIN zfs_vdevs : zfs_vdevs[g].phys_read # Nil => machine[zfs_vdevs[g].phys_read].label.guid = g

\* The labels met so far; whether one of them was refused; whether they disagree on the parent of a vdev.
Met == {machine[dev].label : dev \in {d \in probed : LabelUsable(machine[d].label)}}
Accepted(lab) == Stop(lab.tree) > Len(lab.tree) /\ \E i \in DOMAIN lab.tree : lab.tree[i].guid = lab.guid
NoneMoved == \A la, lb \in Met : \A i \in DOMAIN la.tree, j \in DOMAIN lb.tree :
                la.tree[i].guid = lb.tree[j].guid => la.tree[i].up = lb.tree[j].up
\* A pool that is reported as online has every disk below it open, also when labels of different age
\* have been merged, and healthy unless a label was refused half way (vdev_set_state, spa_status).
\* The state of a top that is a mere "replacing" is not taken back when a disk below it is marked.
\* When a vdev is below another parent in another label, its one link is in two lists and nothing is said.
OnlineMeansOpen ==
    \A p \in DOMAIN zfs_pools : spa_status(zfs_pools[p]) = "HEALTHY" =>
        \A k \in DOMAIN zfs_pools[p].vdevs : LET v == zfs_vdevs[zfs_pools[p].vdevs[k]] IN
            /\ v.children = <<>> => v.phys_read # Nil
            /\ NoneMoved => \A c \in DOMAIN v.children : zfs_vdevs[v.children[c]].phys_read # Nil
            /\ NoneMoved /\ (\A lab \in Met : Accepted(lab)) /\ v.type \in {"mirror", "raidz"} => \A c \in DOMAIN v.children : zfs_vdevs[v.children[c]].state = "HEALTHY"

\* A pool is what its newest members say, and every member in use is open, once
\* (vdev_probe, vdev_set_state, spa_status).
PoolSafe == ZfsPoolTypeOK /\ NewestUberblock /\ DescriptorsOwned /\ OnlineMeansOpen

\* A vdev that is down for good in the reading of some label of the pool.
EverMarked(g) == \E lab \in Met : \E i \in DOMAIN lab.tree : lab.tree[i].guid = g /\ lab.tree[i].flag \in Flags
ListedEverywhere(g, pool) ==
    \A lab \in Met : lab.pool = pool =>
        Stop(lab.tree) > Len(lab.tree) /\ \E i \in DOMAIN lab.tree : lab.tree[i].guid = g /\ lab.tree[i].up \in {Nil, lab.tree[1].guid}
\* As long as one disk of a mirror (or a plain disk) that no label calls bad and
\* every label lists has a good copy of a block, the block can be read, in
\* whichever order the disks were found and however many other copies fail
\* their checksum (vdev_mirror_read, zio_read).
GoodCopyIsRead ==
    \A p \in DOMAIN zfs_pools : \A bp \in BlockPtrs : \A dev \in fd :
        LET lab == machine[dev].label IN
        (/\ lab.pool = zfs_pools[p].guid /\ lab.tree[1].type \in {"mirror", "disk"}
         /\ ~EverMarked(lab.guid) /\ ListedEverywhere(lab.guid, lab.pool) /\ NoneMoved
         /\ \E i \in DOMAIN bp : bp[i].vdev = lab.tree[1].id /\ bp[i].gang = {} /\ bp[i].blk \in machine[dev].good)
        => zio_read(zfs_pools[p], bp)
=============================================================================
