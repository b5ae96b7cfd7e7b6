------------------------------- MODULE MCZfs -------------------------------
(***************************************************************************)
(* The two parts of the loader's ZFS for model checking: the disks and      *)
(* pools, and the files of a pool that has been found.  `part' says which    *)
(* one a behaviour is about; the other rests.                               *)
(***************************************************************************)
EXTENDS ZfsPool, ZfsFile
VARIABLE part

Node(g, up, type, flag) == [guid |-> g, up |-> up, type |-> type, flag |-> flag, id |-> 0, nparity |-> 1]
Lab(kind, g, txg, tree) == [kind |-> kind, guid |-> g, pool |-> "tank", name |-> "tank", txg |-> txg, tree |-> tree]

Mirror(fa, fb) == <<Node("M", "nil", "mirror", "none"), Node("A", "M", "disk", fa), Node("B", "M", "disk", fb)>>
Attached == Mirror("none", "none") \o <<Node("C", "M", "disk", "none")>>
Replacing(type) == <<Node("M", "nil", "mirror", "none"), Node("A", "M", "disk", "none"), Node("R", "M", type, "none"),
                         Node("B", "R", "disk", "none"), Node("C", "R", "disk", "none")>>
FirstReplaced == <<Node("M", "nil", "mirror", "none"), Node("R", "M", "replacing", "none"), Node("A", "R", "disk", "none"),
                   Node("C", "R", "disk", "none"), Node("B", "M", "disk", "none")>>
Spared == Mirror("OFFLINE", "none") \o <<Node("S", "M", "spare", "none"), Node("D", "S", "disk", "REMOVED"), Node("C", "S", "disk", "none")>>
Raidz == <<Node("Z", "nil", "raidz", "none"), Node("A", "Z", "disk", "none"), Node("B", "Z", "disk", "none"),
           Node("C", "Z", "disk", "none")>>
Up(txg, ts) == [txg |-> txg, timestamp |-> ts]
\* Two slots: txg 2 goes to the first, txg 1 and 3 to the second; txg 0 is a torn write.
Rings == {<<Up(2, 1), Up(1, 1)>>, <<Up(2, 2), Up(0, 0)>>, <<Up(2, 1), Up(3, 3)>>, <<Up(0, 0), Up(1, 1)>>}
NewTrees == {Mirror("OFFLINE", "none"), Mirror("none", "FAULTED"), Attached, Replacing("replacing"), Replacing("spare"),
             FirstReplaced, Spared}
Img(lab, ring, good) == [label |-> lab, uberblocks |-> ring, good |-> good]
OldOrNew(g, new) == {Lab("vdev", g, 1, Mirror("none", "none")), Lab("vdev", g, 2, new)}

\* A mirror some of whose labels are old; c is a new disk, an alias of a, or useless.
\* A label that does not list its own disk is refused as inconsistent.
Lists(tree, g) == \E i \in DOMAIN tree : tree[i].guid = g
Third(k, new, a) == CASE k = "new" -> Img(Lab("vdev", "C", 2, IF Lists(new, "C") THEN new ELSE Mirror("none", "none")),
                                          <<Up(2, 1), Up(3, 3)>>, {1, 2})
                     [] k = "alias" -> a
                     [] k = "log" -> Img(Lab("log", "C", 2, new), <<>>, {})
Merged ==
    UNION {UNION {{[a |-> ia, b |-> Img(lb, rb, gb), c |-> Third(k, new, ia)] :
        lb \in OldOrNew("B", new), rb \in Rings, gb \in {{2}, {1, 2}, {}}, k \in {"new", "alias", "log"}} :
        ia \in {Img(la, ra, {1}) : la \in OldOrNew("A", new), ra \in Rings}} : new \in NewTrees}
ThreeDisks == {[a |-> Img(Lab("vdev", "A", 1, Raidz), ra, {1}), b |-> Img(Lab("vdev", "B", 1, Raidz), ra, {1, 2}),
                c |-> Img(Lab(k, "C", 1, Raidz), ra, {2})] : ra \in Rings, k \in {"vdev", "destroyed"}}
Dva(blk, gang) == [vdev |-> 0, blk |-> blk, gang |-> gang]
MCRootBp == <<Dva(1, {}), Dva(2, {})>>
MCBlockPtrs == {<<Dva(1, {})>>, <<Dva(2, {})>>, MCRootBp, <<Dva(2, {[vdev |-> 0, blk |-> 1]})>>}
MCMachines == Merged \union ThreeDisks

-----------------------------------------------------------------------------

Micro(entries, chunks) == [kind |-> "micro", entries |-> entries, chunks |-> chunks, num_leafs |-> 0]
\* Two leaves; the pointer table is in the header.
Fat(entries, chunks, at, leaf) ==
    [kind |-> "fat", entries |-> entries, chunks |-> chunks, num_leafs |-> 2, at |-> at, leaf |-> leaf]
ZapOf(type, zap) == [type |-> type, nlevels |-> 1, zap |-> zap, attr |-> "znode"]
File(size, nlevels, attr) == [type |-> "file", nlevels |-> nlevels, size |-> size, maxblkid |-> (size - 1) \div BSIZE, attr |-> attr]
LinkTo(abs, names, inbonus) == [type |-> "link", nlevels |-> 1, attr |-> "bonus", target |-> [abs |-> abs, names |-> names, inbonus |-> inbonus]]
DslDir(up, zap, head) == [type |-> "dsl_dir", nlevels |-> 1, parent_obj |-> up, child_dir_zapobj |-> zap, head_dataset_obj |-> head]
DataSet(dir, fs) == [type |-> "dataset", nlevels |-> 1, dir_obj |-> dir, fs |-> fs]

\* The file system of dataset 19, the pool's own objects, and that of dataset 20;
\* dataset 18 is a volume.
OnDisk ==
    (1 :> ZapOf("master", Micro([ROOT |-> 2], <<>>))) @@
    (2 :> ZapOf("dir", Micro([boot |-> 3, lnk |-> 4, loop |-> 5, ring |-> 10, here |-> 22, hop |-> 23, go |-> 24, sub |-> 25, same |-> 26, twin |-> 27],
                             <<"boot", None, "lnk", "loop", "ring", "here", "hop", "go", "sub", "same", "twin">>))) @@
    (3 :> ZapOf("dir", Fat([kernel |-> 6, loader |-> 7, up |-> 8, damaged |-> 9, back |-> 28], <<"kernel", None, "up", "loader", "back", "damaged">>,
                           <<1, 1, 1, 2, 2, 2>>, [kernel |-> 1, up |-> 1, loader |-> 2, damaged |-> 2, back |-> 2]))) @@
    (4 :> LinkTo(FALSE, <<"boot", "up">>, FALSE)) @@
    (5 :> LinkTo(FALSE, <<"ring">>, TRUE)) @@
    (6 :> File(5, 2, "znode")) @@
    (7 :> File(3, 1, "spill")) @@
    (8 :> LinkTo(FALSE, <<"kernel">>, TRUE)) @@
    (9 :> File(1, 1, "none")) @@
    (10 :> LinkTo(TRUE, <<"loop">>, TRUE)) @@
    (22 :> LinkTo(FALSE, <<"boot">>, TRUE)) @@
    (23 :> LinkTo(FALSE, <<"here">>, TRUE)) @@
    (24 :> LinkTo(FALSE, <<"boot">>, TRUE)) @@
    (25 :> LinkTo(FALSE, <<"go">>, TRUE)) @@
    (26 :> LinkTo(FALSE, <<"twin">>, TRUE)) @@
    (27 :> LinkTo(FALSE, <<"same">>, TRUE)) @@
    (28 :> LinkTo(TRUE, <<"here">>, TRUE)) @@
    (11 :> ZapOf("mosdir", Micro([root_dataset |-> 12, pool_props |-> 13], <<>>))) @@
    (12 :> DslDir(0, 14, 18)) @@
    (13 :> ZapOf("props", Micro([bootfs |-> 19], <<>>))) @@
    (14 :> ZapOf("children", Micro([usr |-> 15], <<>>))) @@
    (15 :> DslDir(12, 16, 20)) @@
    (16 :> ZapOf("children", Fat([home |-> 17], <<>>, <<>>, [home |-> 1, usr |-> 1]))) @@
    (17 :> DslDir(15, 21, 19)) @@
    (18 :> DataSet(12, None)) @@
    (19 :> DataSet(17, 0)) @@
    (20 :> DataSet(15, 40)) @@
    (21 :> ZapOf("children", Micro([x \in {} |-> 0], <<>>))) @@
    (41 :> ZapOf("master", Micro([ROOT |-> 42], <<>>))) @@
    (42 :> ZapOf("dir", Micro([kernel |-> 43], <<"kernel">>))) @@
    (43 :> File(2, 1, "bonus"))
MCObjects == OnDisk
In(ds, names) == [ds |-> ds, names |-> names]
AskedFor == {In(0, nm) : nm \in {<<"lnk">>, <<"boot", "loader">>, <<"loop">>, <<"boot">>, <<"boot", "damaged">>}}
            \union {In(20, <<"kernel">>), In(18, <<>>)}
\* Names after links: two links of one length and a circle of such, which end; a longer
\* link after a shorter one, in a row or in a circle, and one byte too many for path[], which do not.
TailAfterLink == {In(0, nm) : nm \in {<<"hop", "kernel">>, <<"same", "x">>, <<"boot", "back", "kernel">>,
                                      <<"sub", "kernel">>, <<"loop", "x">>, <<"boot", "back", "damaged">>}}
MCZPaths == AskedFor \union TailAfterLink
MCListPaths == {In(0, <<"boot">>), In(0, <<>>)}
MCDevSpecs == {<<>>, <<"usr">>, <<"usr", "home">>, <<"home">>}
MCBadBlocks == {<<Meta(0), 1>>, <<6, Indirect>>, <<3, 1>>, <<7, Spill>>, <<4, 0>>, <<20, ObjSet>>, <<13, 0>>}
MCBootfsNames == <<"usr", "home">>

-----------------------------------------------------------------------------
MCInit == /\ part \in {"pool", "file"} /\ ZfsFileInit /\ zfs_init
          /\ machine \in IF part = "pool" THEN Machines ELSE {CHOOSE m \in Machines : TRUE}
MCNext == /\ UNCHANGED part
          /\ \/ part = "pool" /\ ZfsPoolNext /\ UNCHANGED fvars
             \/ part = "file" /\ ZfsFileNext /\ UNCHANGED zvars
MCSpec == MCInit /\ [][MCNext]_<<zvars, fvars, part>> /\ GoesOn
=============================================================================
