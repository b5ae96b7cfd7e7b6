----------------------------- MODULE MCZManager -----------------------------
(***************************************************************************)
(* The pool tab, the device tab, the file system tab and the property dialog   *)
(* for model checking.  `part' says which one a behaviour is about; the        *)
(* others rest.                                                                *)
(***************************************************************************)
EXTENDS ZDevices, ZFileSystems, ZProps, ZPools
CONSTANT Parts
VARIABLE part

\* Machines: two disks, the name of one the beginning of the name of the other; a slice and
\* a partition mounted or in a pool by label; the second disk with a table of its own.
A == <<"a">>
A10 == <<"a", 0>>
P(of, i, type, start, count) == [of |-> of, index |-> i, type |-> type, start |-> start, count |-> count]
Table(scheme, first, count) == [scheme |-> scheme, first |-> first, count |-> count]
Machine(table, parts, alias, mounted, inpool) ==
    [disks |-> <<A, A10>>, size |-> 10, table |-> table, parts |-> parts, alias |-> alias, mounted |-> mounted, inpool |-> inpool]
OneTable(n, t) == [m \in {n} |-> t]
MCGeoms == {
    Machine(<<>>, {}, {}, {}, {}),
    Machine(OneTable(A, Table("GPT", 1, 9)), {P(A, 1, "freebsd-ufs", 3, 2), P(A, 2, "freebsd-zfs", 8, 2)}, {<<"a", 1>>},
            {Label(<<"a", 1>>)}, {<<"a", 2>>}),
    Machine([m \in {A, <<"a", 1>>} |-> IF m = A THEN Table("MBR", 1, 9) ELSE Table("BSD", 0, 4)],
            {P(A, 1, "freebsd", 2, 4), P(<<"a", 1>>, 1, "freebsd-ufs", 2, 2)}, {}, {}, {}),
    Machine([m \in {A10, <<"a", 0, 1>>} |-> IF m = A10 THEN Table("MBR", 1, 9) ELSE Table("BSD", 0, 4)],
            {P(A10, 1, "freebsd", 2, 4), P(A10, 2, "freebsd", 7, 2), P(<<"a", 0, 1>>, 1, "freebsd-ufs", 2, 2)},
            {<<"a", 0, 2>>}, {}, {Label(<<"a", 0, 2>>)})}

\* Two pools; in one of them a file system, a snapshot of it and a clone of that.
T == <<"t">>
Path(names) == T \o FlattenSeq([i \in DOMAIN names |-> <<"/", names[i]>>])
Fs(m) == [kind |-> "filesystem", origin |-> <<>>, mounted |-> m, born |-> 0]
Snap == [Fs(FALSE) EXCEPT !.kind = "snapshot"]
CloneOf(o) == [Fs(FALSE) EXCEPT !.origin = o]
MCAlphabet == <<"@", "/", "_base", "a", "b", "c", "t">>
MCFsPools == <<T, <<"b">>>>
Roots == (T :> Fs(TRUE)) @@ (<<"b">> :> Fs(FALSE))
MCFsStart == LET snap == Path(<<"a">>) \o <<"@", "a">> IN
    {Roots @@ (Path(<<"a">>) :> Fs(FALSE)) @@ (snap :> Snap) @@ (Path(<<"c">>) :> CloneOf(snap))}
MCNewNames == {<<"a">>, <<"b">>, <<"a", "/", "b">>}

Prop(n, f, o) == [Name |-> n, Flags |-> f, ValidOptions |-> o]
MCKnown == <<Prop("atime", {"ISOPTION"}, {"on", "off"}), Prop("dedup", {"ISOPTION"}, {"on", "off"}),
             Prop("quota", {"ISSTRING"}, {}), Prop("used", {"READONLY"}, {})>>
MCDataSets == {("atime" :> "on") @@ ("quota" :> "5G") @@ ("used" :> "1G") @@ ("x:y" :> "v")}

\* Pools to start with, in some state, with their devices.
Of(d, g) == [dev |-> d, group |-> g, offline |-> FALSE]
Zpool(s, n, V) == [state |-> s, name |-> n, vdevs |-> V, was |-> None]
NoPool == Zpool("none", 1, {})
MCInitPools == {
    <<NoPool, NoPool, NoPool>>,
    <<Zpool("active", 1, {Of("ada0", "mirror-0"), Of("ada1", "mirror-0")}), NoPool, NoPool>>,
    <<Zpool("active", 1, {Of("ada0", "stripe"), Of("gpt2", "spare")}), Zpool("active", 2, {Of("ada1", "stripe")}), NoPool>>,
    <<Zpool("active", 2, {Of("ada0", "stripe")}), Zpool("exported", 1, {Of("ada1", "stripe")}),
      Zpool("exported", 1, {Of("gpt2", "stripe")})>>,
    <<Zpool("exported", 1, {Of("ada0", "stripe")}), Zpool("destroyed", 1, {Of("ada1", "stripe")}), NoPool>>}

\* What a behaviour is not about: no device, a pool without file systems, no property.
DevRests == geom = Machine(<<>>, {}, {}, {}, {}) /\ devices = <<>> /\ stale = TRUE /\ command = [k |-> "none", name |-> <<>>, start |-> 0, count |-> 0] /\ ncommands = 0
FsRests == sets = Roots /\ fspool = T /\ listed = FileSystems(Roots) /\ tree = on_fspoolList_currentItemChanged(listed, fspool) /\ told = FALSE /\ nfs = 0
PropsRest == fsprops = <<>> /\ refreshList /\ current = 0 /\ buttons = {} /\ renamed = FALSE /\ crashed = FALSE /\ edits = 0
PoolsRest == Init /\ pools = CHOOSE p \in InitPools : TRUE
MCInit == /\ part \in Parts
          /\ IF part = "devices" THEN DevInit ELSE DevRests
          /\ IF part = "filesystems" THEN FsInit ELSE FsRests
          /\ IF part = "properties" THEN PropsInit ELSE PropsRest
          /\ IF part = "pools" THEN Init ELSE PoolsRest
MCNext == /\ UNCHANGED part
          /\ \/ part = "devices" /\ DevNext /\ UNCHANGED <<fsvars, pvars, vars>>
             \/ part = "filesystems" /\ FsNext /\ UNCHANGED <<devvars, pvars, vars>>
             \/ part = "properties" /\ PropsNext /\ UNCHANGED <<devvars, fsvars, vars>>
             \/ part = "pools" /\ Next /\ UNCHANGED <<devvars, fsvars, pvars>>
MCSpec == MCInit /\ [][MCNext]_<<devvars, fsvars, pvars, vars, part>>

\* The file system tab (on_fspoolList_currentItemChanged) shows the datasets in their places,
\* and the property dialog asks zfs for what was edited (getAllChangedProps, getAllChangedValues).
DataSetsSafe == FileSystemsSafe /\ DialogSafe
=============================================================================
