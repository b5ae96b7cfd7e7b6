------------------------------ MODULE ZfsFile ------------------------------
(***************************************************************************)
(* Files, directories and datasets of the loader's ZFS: boot/zfs/zfsimpl.c  *)
(* from dnode_read on, boot/zfs/zfs.c.                                      *)
(*                                                                         *)
(* Every byte is read through dnode_read() and its one-block cache, which   *)
(* is keyed by the ADDRESS of a dnode, often that of a local variable, and  *)
(* a block number.  `cache' is that block; a block is named by its object   *)
(* and its number, so that a wrong hit shows as a wrong name.               *)
(***************************************************************************)
EXTENDS Integers, Sequences, FiniteSets, SequencesExt, TLC

CONSTANTS Objects,      \* what is on the disk: for each object its dnode
          FsBase,       \* distance between the objects of two file systems
          Slots,        \* heap addresses of struct file
          ZPaths,       \* what is opened: a dataset, 0 for the default one, and names
          ListPaths,    \* what zfsboot is asked to list
          BootfsNames,  \* name of the dataset that bootfs, or else the root, means
          DevSpecs,     \* dataset paths that are parsed
          MosDir, Depth,
          SeekOffs, ReadSizes,
          BadBlocks,    \* blocks of which one at a time may fail to read
          DPB,          \* dnodes per block of the meta dnode
          BSIZE,        \* bytes per data block
          PathSize,     \* bytes of path[] in zfs_lookup
          MaxOps, MaxFaults,
          None, Junk    \* no value; contents that make no sense

\* A directory or another list of names and objects; the leaves of a fat one are its blocks 1 .. num_leafs.
ZapOK(z) ==
    /\ z.kind \in {"micro", "fat"} /\ DOMAIN z.entries \subseteq STRING /\ z.chunks \in Seq(STRING \union {None})
    /\ z.kind = "fat" => /\ z.num_leafs \in Nat /\ z.at \in [DOMAIN z.chunks -> 1 .. z.num_leafs]
                         /\ \A i, j \in DOMAIN z.chunks : i <= j => z.at[i] <= z.at[j]
Typed(o, types) == o \in DOMAIN Objects /\ Objects[o].type \in types
\* The object of that name in a list; None if there is none.
Entry(o, name) == IF name \in DOMAIN Objects[o].zap.entries THEN Objects[o].zap.entries[name] ELSE None
\* An object says what it has to; the names of a directory are of files, directories and links, or of nothing;
\* the directories of datasets are a tree.
ObjectOK(o) ==
    LET d == Objects[o]
        kids == Objects[d.child_dir_zapobj].zap IN
    /\ d.type \in {"dir", "file", "link"} => d.attr \in {"znode", "bonus", "spill", "none"}
    /\ d.type = "dir" => ZapOK(d.zap) /\ \A nm \in DOMAIN d.zap.entries : LET v == d.zap.entries[nm] IN
                             v \in Nat /\ (v \in DOMAIN Objects => Typed(v, {"dir", "file", "link"}))
    /\ d.type = "file" => d.size \in Nat /\ d.maxblkid \in Nat
    /\ d.type = "link" => d.target.names \in Seq(STRING)
    /\ d.type = "dataset" => d.fs \in Nat \union {None} /\ (d.fs # None => ZapOK(Objects[1 + d.fs].zap) /\ Typed(Entry(1 + d.fs, "ROOT"), {"dir"}))
    /\ d.type = "dsl_dir" => /\ Typed(d.head_dataset_obj, {"dataset"}) /\ Objects[d.head_dataset_obj].dir_obj = o
                             /\ ZapOK(kids) /\ \A nm \in DOMAIN kids.entries :
                                    /\ Typed(kids.entries[nm], {"dsl_dir"}) /\ Objects[kids.entries[nm]].parent_obj = o
                                    /\ \A n \in DOMAIN kids.entries : kids.entries[n] = kids.entries[nm] => n = nm
\* The pool's own directory has a root dataset, and bootfs if it is set.
PoolOK == LET root == Entry(MosDir, "root_dataset")
              props == Entry(MosDir, "pool_props") IN
    /\ ZapOK(Objects[MosDir].zap) /\ Typed(root, {"dsl_dir"}) /\ Objects[root].parent_obj = 0
    /\ props # None => ZapOK(Objects[props].zap) /\ (Entry(props, "bootfs") \in {None, 0} \/ Typed(Entry(props, "bootfs"), {"dataset"}))
\* File systems, by the number their objects start from; a dataset without one is a volume.
FileSystems == {Objects[d].fs : d \in {x \in DOMAIN Objects : Objects[x].type = "dataset"}} \ {None}
\* Addresses of dnodes: in an open file, in a mount, on the stack, in the pool.
Addresses == {"file", "mount"} \X (Slots \union {"static"}) \union {"local", "spa"} \X {"dn", "dir", "propdir", "child_dir_zap", "mos"}
ASSUME FileAssumption ==
    /\ DOMAIN Objects \subseteq Nat \ {0} /\ (\A o \in DOMAIN Objects : ObjectOK(o)) /\ PoolOK
    /\ \A path \in ZPaths \union ListPaths : path.names \in Seq(STRING) /\ (path.ds = 0 \/ Typed(path.ds, {"dataset"}))
    /\ \A path \in ListPaths : path.ds = 0
    /\ DevSpecs \subseteq Seq(STRING) /\ BootfsNames \in Seq(STRING) /\ \A names \in DevSpecs \union {BootfsNames} : Len(names) <= Depth
    /\ ReadSizes \subseteq Nat /\ "static" \notin Slots
    /\ BSIZE \in Nat \ {0} /\ PathSize \in Nat /\ Depth \in Nat /\ MaxOps \in Nat /\ MaxFaults \in Nat
    /\ None \notin Nat /\ None \notin STRING /\ None \notin Addresses

VARIABLES cache, files, op, result, dev, ops, ffaults, tainted
fvars == <<cache, files, op, result, dev, ops, ffaults, tainted>>

Mos == 31         \* the meta dnode of the pool's own objects
Meta(fs) == 30 + fs \* that of a file system, whose objects are numbered from fs
Indirect == -1    \* numbers of an indirect block, a spill block and an object set
Spill == -2
ObjSet == -3
Idle == [k |-> "idle"]
MLINKS == 10      \* symlinks_followed

-----------------------------------------------------------------------------
(* The block cache. *)

\* A block that is asked for: address of the dnode, object the dnode is of, number.
Req(addr, o, bn) == [addr |-> addr, o |-> o, bn |-> bn]
\* Blocks read for it: an indirect block first if the object has one.
Levels(o, bn) == IF o \in DOMAIN Objects /\ Objects[o].nlevels = 2 THEN <<<<o, Indirect>>, <<o, bn>>>> ELSE <<<<o, bn>>>>

\* Mutant of Load: the block number is not compared.
LoadAnyBlock(a, r, bad) ==
    IF a.obj = r.addr THEN [a EXCEPT !.bufs = Append(@, a.buf)]
    ELSE [obj |-> r.addr, bn |-> r.bn, buf |-> <<r.o, r.bn>>, bufs |-> Append(a.bufs, <<r.o, r.bn>>), err |-> FALSE]
\* One round of dnode_read's loop.  A read that fails has overwritten the buffer
\* but not the key.
Load(a, r, bad) ==
    LET lv == Levels(r.o, r.bn) IN
    IF a.err THEN a
    ELSE IF a.obj = r.addr /\ a.bn = r.bn THEN [a EXCEPT !.bufs = Append(@, a.buf)]
    ELSE IF \E i \in DOMAIN lv : lv[i] \in bad THEN [a EXCEPT !.buf = Junk, !.err = TRUE]
    ELSE [obj |-> r.addr, bn |-> r.bn, buf |-> Last(lv), bufs |-> Append(a.bufs, Last(lv)), err |-> FALSE]

\* The requests of a function in their order, up to the first that fails.
Fetch(c, reqs, bad) ==
    LET run[i \in 0 .. Len(reqs)] ==
            IF i = 0 THEN [obj |-> c.obj, bn |-> c.bn, buf |-> c.buf, bufs |-> <<>>, err |-> FALSE]
            ELSE CHOOSE x \in {Load(a, reqs[i], bad) : a \in {run[i - 1]}} : TRUE IN
    run[Len(reqs)]
Cache(f) == [obj |-> f.obj, bn |-> f.bn, buf |-> f.buf]
\* The buffer was taken for a block that it does not hold.
Wrong(f, reqs) == \E i \in DOMAIN f.bufs : f.bufs[i] # <<reqs[i].o, reqs[i].bn>>

\* objset_get_dnode: the block of the meta dnode, which is at address addr, with dnode n.
objset_get_dnode(addr, os, n) == <<Req(addr, os, (n % FsBase) \div DPB)>>
MosDnode(n) == objset_get_dnode(<<"spa", "mos">>, Mos, n)
\* The object set is inside the mount, in the heap, one for each open file; zfsboot's is static.
FsDnode(s, fs, n) == objset_get_dnode(<<"mount", s>>, Meta(fs), n)
\* A microzap is one block; a fat zap has a header and the leaf of the name's hash.
\* In a fat zap a name that is not in its bucket is looked up through a null
\* pointer; what is there is taken not to match.
mzap_lookup(addr, o) == <<Req(addr, o, 0)>>
fzap_lookup(addr, o, name) == <<Req(addr, o, 0), Req(addr, o, Objects[o].zap.leaf[name])>>
zap_lookup(addr, o, name) == IF Objects[o].zap.kind = "micro" THEN mzap_lookup(addr, o) ELSE fzap_lookup(addr, o, name)

\* zfs_get_root: bootfs if it is set, otherwise the root dataset, and what is read for each.
BootfsReqs == LET props == Entry(MosDir, "pool_props") IN
    MosDnode(MosDir) \o zap_lookup(<<"local", "dir">>, MosDir, "pool_props") \o
    (IF props = None THEN <<>> ELSE MosDnode(props) \o zap_lookup(<<"local", "propdir">>, props, "bootfs"))
RootReqs == zap_lookup(<<"local", "dir">>, MosDir, "root_dataset") \o MosDnode(Entry(MosDir, "root_dataset"))
RootHead == Objects[Entry(MosDir, "root_dataset")].head_dataset_obj
DefaultRoot ==
    LET props == Entry(MosDir, "pool_props") IN
    IF props # None /\ Entry(props, "bootfs") \notin {None, 0} THEN [v |-> Entry(props, "bootfs"), reqs |-> BootfsReqs]
    ELSE [v |-> RootHead, reqs |-> BootfsReqs \o RootReqs]
\* When the properties cannot be read, the root dataset is taken although bootfs may be set.
GotRoot(f, h) ==
    IF f.err /\ Len(f.bufs) \in 1 .. Len(BootfsReqs) - 1
    THEN [v |-> RootHead, f |-> h, wrong |-> Wrong(f, DefaultRoot.reqs) \/ Wrong(h, RootReqs)]
    ELSE [v |-> DefaultRoot.v, f |-> f, wrong |-> Wrong(f, DefaultRoot.reqs)]
zfs_get_root(c, bad) ==
    CHOOSE g \in {GotRoot(f, Fetch(Cache(f), RootReqs, bad)) : f \in {Fetch(c, DefaultRoot.reqs, bad)}} : TRUE
\* The dataset that is meant: 0 is the default one.
RootOr(ds, c, bad) == IF ds = 0 THEN zfs_get_root(c, bad) ELSE [v |-> ds, f |-> Fetch(c, <<>>, bad), wrong |-> FALSE]

-----------------------------------------------------------------------------
(* Path lookup: one step per path element; the dnode `dn' is a local variable.  *)
(* A block that is bad stays so for the whole call.                            *)

BadSets == {{}} \union {{b} : b \in BadBlocks}
Faults(bad) == /\ ffaults' = ffaults + Cardinality(bad) /\ ffaults' <= MaxFaults
               /\ tainted' = (tainted \/ bad # {})
Call == op = Idle /\ ops < MaxOps /\ ops' = ops + 1
Dir(o) == o \in DOMAIN Objects /\ Objects[o].type = "dir"
Link(o) == o \in DOMAIN Objects /\ Objects[o].type = "link"
Opened(path, dn) == result' = [k |-> "open", path |-> path, dn |-> dn]
RootOf(fs) == Entry(1 + fs, "ROOT")

\* zfs_dnode_stat: where the attributes are kept.  A spill block is read past the cache.
zfs_dnode_stat(o, bad) == /\ o \in DOMAIN Objects
                          /\ Objects[o].attr \in {"znode", "bonus"} \/ (Objects[o].attr = "spill" /\ <<o, Spill>> \notin bad)

\* zfs_mount, zfs_mount_dataset: the default dataset is looked up, the dataset's
\* dnode gives its object set, which is read into the mount.
zfs_mount_dataset(ds) == MosDnode(ds)
Mounted(g, f) == IF g.f.err THEN g ELSE [v |-> g.v, f |-> f, wrong |-> g.wrong \/ Wrong(f, zfs_mount_dataset(g.v))]
zfs_mount(ds, c, bad) ==
    CHOOSE m \in {Mounted(g, Fetch(Cache(g.f), zfs_mount_dataset(g.v), bad)) : g \in {RootOr(ds, c, bad)}} : TRUE
\* zfs_lookup up to its loop: the root directory's dnode.
Begin(s, path, fs, c, bad) ==
    LET reqs == FsDnode(s, fs, 1) \o zap_lookup(<<"local", "dn">>, 1 + fs, "ROOT") \o FsDnode(s, fs, RootOf(fs))
        f == Fetch(c, reqs, bad) IN
    /\ cache' = Cache(f)
    /\ IF f.err \/ Wrong(f, reqs) THEN UNCHANGED op /\ Opened(path, IF f.err THEN None ELSE Junk)
       ELSE /\ op' = [k |-> "lookup", slot |-> s, path |-> path, fs |-> fs, dn |-> RootOf(fs), obj |-> RootOf(fs),
                      p |-> path.names, at |-> None, links |-> 0, bad |-> bad]
            /\ UNCHANGED result

\* zfs_dev_open mounts the dataset; one that is not a file system (fs is None) is refused.
zfs_dev_open(m, bad) == ~m.f.err /\ <<m.v, ObjSet>> \notin bad /\ ~m.wrong /\ Objects[m.v].fs # None
\* open(): the device first, then zfs_open, which allocates struct file.
zfs_open(s, path, bad) ==
    /\ Call /\ Faults(bad) /\ files[s] = None
    /\ \E m \in {zfs_mount(path.ds, cache, bad)} :
       IF ~zfs_dev_open(m, bad)
       THEN cache' = Cache(m.f) /\ UNCHANGED op /\ Opened(path, IF m.wrong THEN Junk ELSE None)
       ELSE Begin(s, path, Objects[m.v].fs, Cache(m.f), bad)
    /\ UNCHANGED <<files, dev>>

\* zfsboot's `?': the path is looked up below the static mount, which was set up at the start.
list(path, bad) ==
    /\ Call /\ Faults(bad) /\ Begin("static", path, Objects[DefaultRoot.v].fs, cache, bad)
    /\ UNCHANGED <<files, dev>>

\* The body of the loop in zfs_lookup.  After a link the dnode to go on from is
\* read again, and an error of that read is ignored.
Fail(dn) == op' = Idle /\ Opened(op.path, dn)
MoreLinks(n) == n <= MLINKS
\* Mutant of Counted: links are not counted.
CountedNot(n) == n
Counted(n) == n + 1
\* The target is in the dnode if it is short, otherwise in the link's first block.
TargetReqs(v) == IF Objects[v].target.inbonus THEN <<>> ELSE <<Req(<<"local", "dn">>, v, 0)>>
\* Bytes of names with a slash before each, and of a link's target.
Bytes(names) == FoldLeft(LAMBDA n, name : n + Len(name) + 1, 0, names)
LinkSize(t) == Bytes(t.names) - (IF t.names = <<>> THEN 0 ELSE 1) + (IF t.abs THEN 1 ELSE 0)
\* What is left of the path is moved behind the place of the target with strcpy(), before
\* the target is read.  Once it lies in path[] itself the two may overlap: if it moves up by
\* no more than its length its NUL is lost and the copy never ends.  Nothing keeps it inside
\* path[] either.  op.at is the place of the next name in path[]: behind so many slashes and
\* the names that have been passed; None while the path is the caller's.
Overruns(v) ==
    LET size == LinkSize(Objects[v].target)
        tail == Bytes(Tail(op.p))
        src == op.at.slashes + Bytes(op.at.passed) + Len(Head(op.p)) IN
    \/ size + tail >= PathSize
    \/ op.at # None /\ tail > 0 /\ size \in src + 1 .. src + tail
Follow(v, f, bad) ==
    LET t == Objects[v].target
        from == IF t.abs THEN RootOf(op.fs) ELSE op.obj
        start == [slashes |-> (IF t.abs THEN 1 ELSE 0) + (IF t.names = <<>> THEN 1 ELSE 0), passed |-> <<>>] IN
    IF Overruns(v) THEN op' = [k |-> "overrun"] /\ cache' = Cache(f) /\ UNCHANGED result ELSE
    \E h \in {Fetch(Cache(f), TargetReqs(v), bad)} :
    IF h.err \/ Wrong(h, TargetReqs(v)) THEN Fail(IF h.err THEN None ELSE Junk) /\ cache' = Cache(h) ELSE
    \E g \in {Fetch(Cache(h), FsDnode(op.slot, op.fs, from), bad)} :
        /\ op' = [op EXCEPT !.dn = IF g.err THEN v ELSE from, !.obj = from, !.p = t.names \o Tail(@), !.at = start,
                            !.links = Counted(@)]
        /\ cache' = Cache(g) /\ UNCHANGED result
Pass(at, name) == IF at = None THEN None ELSE [at EXCEPT !.passed = Append(@, name)]
zfs_lookup(bad) ==
    /\ op.k = "lookup" /\ op.p # <<>>
    /\ \/ ~(zfs_dnode_stat(op.dn, bad) /\ Dir(op.dn)) /\ Fail(None) /\ UNCHANGED cache
       \/ /\ zfs_dnode_stat(op.dn, bad) /\ Dir(op.dn)
          /\ LET v == Entry(op.dn, Head(op.p))
                 reqs == zap_lookup(<<"local", "dn">>, op.dn, Head(op.p)) \o (IF v = None THEN <<>> ELSE FsDnode(op.slot, op.fs, v)) IN
             \E f \in {Fetch(cache, reqs, bad)} :
                IF f.err THEN Fail(None) /\ cache' = Cache(f)
                ELSE IF Wrong(f, reqs) THEN Fail(Junk) /\ cache' = Cache(f)
                ELSE IF v = None \/ ~zfs_dnode_stat(v, bad) THEN Fail(None) /\ cache' = Cache(f)
                ELSE IF ~Link(v) THEN op' = [op EXCEPT !.dn = v, !.obj = v, !.p = Tail(@), !.at = Pass(@, Head(op.p))] /\ cache' = Cache(f) /\ UNCHANGED result
                ELSE IF ~MoreLinks(op.links) THEN Fail(None) /\ cache' = Cache(f)
                ELSE Follow(v, f, bad)
    /\ UNCHANGED <<files, ops, dev, ffaults, tainted>>

LookupDone ==
    /\ op.k = "lookup" /\ op.p = <<>> /\ op.slot \in Slots
    /\ files' = [files EXCEPT ![op.slot] = [dn |-> op.dn, seekp |-> 0, chunk |-> 0, listed |-> {}, done |-> FALSE]]
    /\ Opened(op.path, op.dn) /\ op' = Idle
    /\ UNCHANGED <<cache, dev, ops, ffaults, tainted>>

\* The dnode is in the heap: its address may be reused, so the cache forgets it.
zfs_close(s) ==
    /\ op = Idle /\ files[s] # None
    /\ cache' = [obj |-> None, bn |-> cache.bn, buf |-> cache.buf] /\ files' = [files EXCEPT ![s] = None]
    /\ UNCHANGED <<op, result, dev, ops, ffaults, tainted>>

-----------------------------------------------------------------------------
(* Reading, seeking and listing. *)

IsFile(s) == files[s] # None /\ files[s].dn \in DOMAIN Objects /\ Objects[files[s].dn].type = "file"
\* Blocks of n bytes at off; past the last block dnode_read gives up.
BlocksAt(addr, o, off, n) ==
    IF n = 0 THEN <<>> ELSE [i \in 1 .. (off + n - 1) \div BSIZE - off \div BSIZE + 1 |-> Req(addr, o, off \div BSIZE + i - 1)]
\* size_t: past the end of the file the count wraps and is as good as unlimited.
ReadCount(o, seekp, size) ==
    IF seekp + size <= Objects[o].size THEN size
    ELSE IF seekp <= Objects[o].size THEN Objects[o].size - seekp
    ELSE BSIZE * (Objects[o].maxblkid + 2)

zfs_stat(s, bad) == zfs_dnode_stat(files[s].dn, bad)
zfs_read(s, size, bad) ==
    /\ IsFile(s) /\ Call /\ Faults(bad)
    /\ IF ~zfs_stat(s, bad)
       THEN /\ result' = [k |-> "read", dn |-> files[s].dn, seekp |-> files[s].seekp, size |-> size, err |-> TRUE, data |-> <<>>]
            /\ UNCHANGED <<cache, files>> ELSE
       LET o == files[s].dn
           off == files[s].seekp
           n == ReadCount(o, off, size)
           reqs == BlocksAt(<<"file", s>>, o, off, n)
           left == Objects[o].maxblkid + 1 - off \div BSIZE
           inside == SubSeq(reqs, 1, IF left < Len(reqs) THEN left ELSE Len(reqs))
           f == Fetch(cache, inside, bad)
           err == f.err \/ Len(inside) < Len(reqs)
           got == {b \in off .. off + n - 1 : b \div BSIZE - off \div BSIZE < Len(f.bufs)} IN
       /\ cache' = Cache(f)
       /\ files' = IF err THEN files ELSE [files EXCEPT ![s].seekp = @ + n]
       /\ result' = [k |-> "read", dn |-> o, seekp |-> off, size |-> size, err |-> err,
                     data |-> [b \in got |-> f.bufs[b \div BSIZE - off \div BSIZE + 1]]]
    /\ UNCHANGED <<op, dev>>

zfs_seek(s, where, off) ==
    /\ IsFile(s) /\ Call
    /\ LET o == files[s].dn
           to == CASE where = "SET" -> off [] where = "CUR" -> files[s].seekp + off [] where = "END" -> Objects[o].size - off IN
       to \in 0 .. BSIZE * (Objects[o].maxblkid + 1) /\ files' = [files EXCEPT ![s].seekp = to]
    /\ UNCHANGED <<cache, op, result, dev, ffaults, tainted>>

\* zfs_readdir: the next used chunk.  Leaves are blocks 1 .. num_leafs, and the
\* end is taken to be at block num_leafs.
Chunks(o) == Objects[o].zap.chunks
Leaf(o, i) == IF Objects[o].zap.kind = "micro" THEN 0 ELSE Objects[o].zap.at[i]
AtEof(o, i) == \/ i > Len(Chunks(o))
               \/ Leaf(o, i) > 1 /\ Leaf(o, i) >= Objects[o].zap.num_leafs
UsedAfter(o, i) == {j \in i + 1 .. Len(Chunks(o)) : Chunks(o)[j] # None}
NextChunk(o, i) == IF UsedAfter(o, i) = {} THEN Len(Chunks(o)) + 1
                   ELSE CHOOSE j \in UsedAfter(o, i) : \A k \in UsedAfter(o, i) : j <= k
\* Blocks it reads: the only one of a microzap while there are chunks; the header and the
\* first leaf at first, then every leaf on the way to the next used chunk or to the end.
DirBlocks(addr, o, c, j) ==
    LET fat == Objects[o].zap.kind = "fat"
        from == IF fat /\ c > 0 THEN Leaf(o, c) + 1 ELSE 0
        last == IF AtEof(o, j) THEN Objects[o].zap.num_leafs - 1 ELSE Leaf(o, j)
        to == IF fat THEN IF c = 0 /\ last < 1 THEN 1 ELSE last
              ELSE IF c = 0 \/ c < Len(Chunks(o)) THEN 0 ELSE -1 IN
    [i \in 1 .. to - from + 1 |-> Req(addr, o, from + i - 1)]
\* Its callers (readdirfd in the command ls) stop at the first error as at the end.
zfs_readdir(s, bad) ==
    /\ files[s] # None /\ Dir(files[s].dn) /\ ~files[s].done /\ op = Idle /\ Faults(bad)
    /\ LET o == files[s].dn
           j == NextChunk(o, files[s].chunk)
           reqs == IF zfs_stat(s, bad) THEN DirBlocks(<<"file", s>>, o, files[s].chunk, j) ELSE <<>>
           f == Fetch(cache, reqs, bad)
           err == f.err \/ ~zfs_stat(s, bad) IN
       /\ cache' = Cache(f)
       /\ result' = [k |-> "readdir", dn |-> o, listed |-> IF Wrong(f, reqs) THEN Junk ELSE files[s].listed, eof |-> AtEof(o, j) /\ ~err]
       /\ files' = IF err \/ AtEof(o, j) \/ Wrong(f, reqs) THEN [files EXCEPT ![s].done = TRUE]
                   ELSE [files EXCEPT ![s].chunk = j, ![s].listed = @ \union {Chunks(o)[j]}]
    /\ UNCHANGED <<op, dev, ops>>

\* zap_list: a microzap is in its first block, a fat zap in its header and all its
\* leaves; what is not a directory has no zap's magic number.
ListReqs(o) == <<Req(<<"local", "dn">>, o, 0)>> \o
               (IF Dir(o) /\ Objects[o].zap.kind = "fat" THEN [i \in 1 .. Objects[o].zap.num_leafs |-> Req(<<"local", "dn">>, o, i)] ELSE <<>>)
mzap_list(o) == {Chunks(o)[i] : i \in DOMAIN Chunks(o)} \ {None}
fzap_list(o, leaves) == {Chunks(o)[i] : i \in {j \in DOMAIN Chunks(o) : Leaf(o, j) \in leaves}} \ {None}
zap_list(bad) ==
    /\ op.k = "lookup" /\ op.p = <<>> /\ op.slot = "static"
    /\ LET f == Fetch(cache, ListReqs(op.dn), bad)
           leaves == {f.bufs[i][2] : i \in 2 .. Len(f.bufs)} IN
       /\ cache' = Cache(f) /\ op' = Idle
       /\ result' = [k |-> "list", path |-> op.path, dn |-> op.dn, err |-> f.err \/ ~Dir(op.dn),
                     listed |-> IF Wrong(f, ListReqs(op.dn)) THEN Junk ELSE IF ~Dir(op.dn) \/ f.bufs = <<>> THEN {}
                                ELSE IF Objects[op.dn].zap.kind = "micro" THEN mzap_list(op.dn) ELSE fzap_list(op.dn, leaves)]
    /\ UNCHANGED <<files, dev, ops, ffaults, tainted>>

-----------------------------------------------------------------------------
(* Datasets: names to objects and back.  dev is the zfs_devdesc in use.  A walk *)
(* is the object it ends at, None if a name is missing, and what it reads.      *)

RootDir == [v |-> Entry(MosDir, "root_dataset"),
            reqs |-> MosDnode(MosDir) \o zap_lookup(<<"local", "dir">>, MosDir, "root_dataset")]
ChildDir(w, name) ==
    IF w.v = None THEN w
    ELSE LET z == Objects[w.v].child_dir_zapobj IN
         [v |-> Entry(z, name),
          reqs |-> w.reqs \o MosDnode(w.v) \o MosDnode(z) \o zap_lookup(<<"local", "child_dir_zap">>, z, name)]
zfs_lookup_dataset(names) ==
    LET down[i \in 0 .. Len(names)] ==
            IF i = 0 THEN RootDir ELSE CHOOSE x \in {ChildDir(w, names[i]) : w \in {down[i - 1]}} : TRUE
        w == down[Len(names)] IN
    IF w.v = None THEN w
    ELSE [v |-> Objects[w.v].head_dataset_obj, reqs |-> w.reqs \o MosDnode(w.v)]

\* BootfsNames is the name of the default dataset; zfsboot, which can list, has mounted that.
ASSUME BootfsAssumption == /\ zfs_lookup_dataset(BootfsNames).v = DefaultRoot.v
                           /\ ListPaths # {} => Objects[DefaultRoot.v].fs # None

\* The name of an object in a directory.  In a fat zap the hash of an uninitialized
\* buffer selects the one entry that is compared with the object.
mzap_rlookup(z, v) == CHOOSE nm \in DOMAIN Objects[z].zap.entries : Objects[z].zap.entries[nm] = v
fzap_rlookup(z, v, lucky) == IF lucky THEN mzap_rlookup(z, v) ELSE None
zap_rlookup(z, v, lucky) == IF Objects[z].zap.kind = "fat" THEN fzap_rlookup(z, v, lucky) ELSE mzap_rlookup(z, v)
\* One directory up.
ParentDir(w, lucky) ==
    LET up == Objects[w.v].parent_obj
        z == Objects[up].child_dir_zapobj
        name == zap_rlookup(z, w.v, lucky)
        here == w.reqs \o MosDnode(w.v) IN
    IF w.v \in {None, 0} THEN w
    ELSE IF up = 0 THEN [w EXCEPT !.v = 0, !.reqs = here]
    ELSE [v |-> IF name = None THEN None ELSE up, names |-> <<name>> \o w.names,
          reqs |-> here \o MosDnode(up) \o MosDnode(z) \o <<Req(<<"local", "child_dir_zap">>, z, 0)>>]
zfs_rlookup(ds, lucky) ==
    LET up[i \in 0 .. Depth + 1] ==
            IF i = 0 THEN [v |-> Objects[ds].dir_obj, reqs |-> MosDnode(ds), names |-> <<>>]
            ELSE CHOOSE x \in {ParentDir(w, lucky) : w \in {up[i - 1]}} : TRUE IN
    up[Depth + 1]

zfs_parsedev(names, bad) ==
    /\ Call /\ Faults(bad)
    /\ LET w == IF names = <<>> THEN [v |-> 0, reqs |-> <<>>] ELSE zfs_lookup_dataset(names)
           f == Fetch(cache, w.reqs, bad)
           root == IF f.err THEN None ELSE IF Wrong(f, w.reqs) THEN Junk ELSE w.v IN
       /\ cache' = Cache(f)
       /\ dev' = IF root = None THEN dev ELSE [names |-> names, root |-> root]
       /\ result' = [k |-> "parsedev", names |-> names, root |-> root]
    /\ UNCHANGED <<files, op>>

\* zfs_fmtdev: root_guid 0 is replaced by the root dataset in the caller's devdesc too.
zfs_fmtdev(lucky, bad) ==
    /\ dev # None /\ dev.root # Junk /\ Call /\ Faults(bad)
    /\ \E g \in {RootOr(dev.root, cache, bad)} :
       LET w == zfs_rlookup(g.v, lucky)
           f == Fetch(Cache(g.f), w.reqs, bad)
           ok == ~g.f.err /\ ~f.err /\ w.v # None IN
       /\ cache' = IF g.f.err THEN Cache(g.f) ELSE Cache(f)
       /\ dev' = IF g.f.err THEN dev ELSE [dev EXCEPT !.root = g.v]
       /\ result' = [k |-> "fmtdev", names |-> IF ~ok THEN None ELSE IF g.wrong \/ Wrong(f, w.reqs) THEN Junk ELSE w.names]
    /\ UNCHANGED <<files, op>>

-----------------------------------------------------------------------------
ZfsFileInit == /\ cache = [obj |-> None, bn |-> 0, buf |-> Junk]
               /\ files = [s \in Slots |-> None] /\ op = Idle /\ result = [k |-> "none"]
               /\ ops = 0 /\ ffaults = 0 /\ tainted = FALSE /\ dev = None
Running == op.k = "lookup" /\ (LookupDone \/ zfs_lookup(op.bad) \/ zap_list(op.bad))
ZfsFileNext ==
    \/ Running
    \/ \E s \in Slots : zfs_close(s)
    \/ \E s \in Slots, off \in SeekOffs, w \in {"SET", "CUR", "END"} : zfs_seek(s, w, off)
    \/ \E bad \in BadSets :
          \/ \E s \in Slots, path \in ZPaths : zfs_open(s, path, bad)
          \/ \E path \in ListPaths : list(path, bad)
          \/ \E s \in Slots, n \in ReadSizes : zfs_read(s, n, bad)
          \/ \E s \in Slots : zfs_readdir(s, bad)
          \/ \E nm \in DevSpecs : zfs_parsedev(nm, bad)
          \/ \E lucky \in BOOLEAN : zfs_fmtdev(lucky, bad)
\* The loader has one thread: a lookup goes on.  This is WF_fvars(Running) written
\* out: Running is enabled while a lookup is under way, and only it changes op then.
GoesOn == []<>(op.k # "lookup") \/ []<><<op.k = "lookup">>_op
ZfsFileSpec == ZfsFileInit /\ [][ZfsFileNext]_fvars /\ GoesOn

-----------------------------------------------------------------------------
ZfsFileTypeOK ==
    /\ cache.obj \in Addresses \union {None}
    /\ \A s \in Slots : files[s] # None => files[s].dn \in DOMAIN Objects /\ files[s].seekp \in Nat
    /\ op.k \in {"idle", "lookup", "overrun"} /\ ffaults \in 0 .. MaxFaults /\ ops \in 0 .. MaxOps

\* What a path means, independently of the loop; fuel is how many links may be followed.
Resolve[a \in Nat \X FileSystems \X (DOMAIN Objects) \X Seq(STRING)] ==
    LET fuel == a[1]
        fs == a[2]
        o == a[3]
        names == a[4]
        nxt == IF names # <<>> /\ Dir(o) /\ Objects[o].attr # "none" THEN Entry(o, Head(names)) ELSE None IN
    IF names = <<>> THEN o
    ELSE IF nxt = None \/ ~zfs_dnode_stat(nxt, {}) THEN None
    ELSE IF ~Link(nxt) THEN Resolve[<<fuel, fs, nxt, Tail(names)>>]
    ELSE IF fuel = 0 THEN None
    ELSE LET t == Objects[nxt].target IN
         Resolve[<<fuel - 1, fs, IF t.abs THEN RootOf(fs) ELSE o, t.names \o Tail(names)>>]

\* While no read has failed, an open or a listing finds the object the path names
\* in the dataset that is meant, through directories of both kinds and through
\* relative, absolute and circular links, and fails exactly when there is none
\* (zfs_mount, zfs_lookup, zap_lookup): the one-block cache keyed by the address of
\* a local dnode, or of a mount that has been freed, never returns another object's block.
\* Excepted is a path of which more than path[] holds, or whose tail is moved over itself
\* (a link to a longer link, with names after it): zfs_lookup does not return from those
\* (zfsimpl.c:1963), see LookupEnds.
Named == [path \in ZPaths \union ListPaths |->
             LET ds == IF path.ds = 0 THEN DefaultRoot.v ELSE path.ds IN
             IF Objects[ds].fs = None THEN None
             ELSE Resolve[<<MLINKS + 1, Objects[ds].fs, RootOf(Objects[ds].fs), path.names>>]]
OpenResolves == result.k \in {"open", "list"} /\ ~tainted => result.dn = Named[result.path]

\* While no read has failed, the bytes a read delivers are those of the file at
\* the seek pointer, also when a struct file sits where a closed one was
\* (dnode_read, zfs_read, zfs_close).
FileBytesRight ==
    result.k = "read" /\ ~result.err /\ ~tainted =>
        \A b \in DOMAIN result.data : result.data[b] = <<result.dn, b \div BSIZE>>

\* A read that starts inside the file delivers all that was asked for or all
\* that is left, and never more than the caller's buffer holds (zfs_read).
ReadBounded ==
    result.k = "read" /\ ~result.err /\ result.seekp <= Objects[result.dn].size =>
        DOMAIN result.data = {b \in result.seekp .. result.seekp + result.size - 1 : b < Objects[result.dn].size}

\* While no read has failed, a directory that is read to its end has shown all its entries;
\* of a fat zap with several leaves the last one is left out (zfs_readdir).
ListsAll ==
    result.k = "readdir" /\ result.eof /\ ~tainted =>
        result.listed = {Chunks(result.dn)[i] : i \in {j \in DOMAIN Chunks(result.dn) :
                            Objects[result.dn].zap.kind = "fat" /\ Objects[result.dn].zap.num_leafs > 1
                                => Leaf(result.dn, j) < Objects[result.dn].zap.num_leafs}} \ {None}
\* zfsboot's listing shows every entry of a directory, of one with several leaves too (zap_list).
BootListsAll == result.k = "list" /\ ~result.err /\ ~tainted => result.listed = mzap_list(result.dn)

\* The name that zfs_fmtdev gives a device leads back to the dataset it was
\* parsed from; with no dataset it is that of bootfs (zfs_parsedev, zfs_rlookup).
DevRoundTrip ==
    result.k = "fmtdev" /\ ~tainted /\ result.names # None =>
        result.names = IF dev.names = <<>> THEN BootfsNames ELSE dev.names

\* While no read has failed, what is opened, read, listed and named is what is
\* on the disk, although one block buffer keyed by the address of a dnode, often
\* a local variable of an earlier call, serves all of them (dnode_read).
FileSafe == ZfsFileTypeOK /\ OpenResolves /\ FileBytesRight /\ ReadBounded /\ ListsAll /\ BootListsAll /\ DevRoundTrip

\* A lookup ends, links in circles included, also with names after the links
\* (zfs_lookup: symlinks_followed), unless the copy of those names runs over: that
\* strcpy() does not end (zfsimpl.c:1963).
LookupEnds == op.k = "lookup" ~> op.k \in {"idle", "overrun"}

=============================================================================
