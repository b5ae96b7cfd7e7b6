-------------------------------- MODULE ZPools --------------------------------
(***************************************************************************)
(* The pool tab of pc-zmanager: the window's copy of the machine's ZFS     *)
(* pools, the context menu on it, and the zpool commands its entries run   *)
(* (pc-zmanager/zmanagerwindow.cpp, dialogname.cpp, dialognewpool.cpp).    *)
(*                                                                         *)
(* The pools of the machine are the variable pools; they also change       *)
(* behind the window.  A dialog is a choice made while the menu is open.   *)
(***************************************************************************)
EXTENDS Integers, Sequences, FiniteSets, SequencesExt

CONSTANTS
    Ids,        \* guids of pools, integers
    PoolNames,  \* integers, in the order zpool status prints them
    Devs,       \* disks and partitions
    Labelled,   \* those which zpool names by a label
    Mirrors,    \* names of mirrors in a pool: mirror-0, mirror-1, ...
    None, Stale,
    InitPools,  \* the machines to start with
    MaxMenus, MaxOther  \* bounds: menus opened, changes made by others

Groups == {"stripe", "log", "cache", "spare"} \union Mirrors
Member == [dev : Devs, group : Groups, offline : BOOLEAN]
States == {"none", "active", "exported", "destroyed"}
\* was: what the labels of a pool imported read-only say, None for the others.
Pool == [state : States, name : PoolNames, vdevs : SUBSET Member,
         was : [state : {"exported", "destroyed"}, name : PoolNames] \union {None}]
\* zpool(8) keeps the names of active pools apart.
Machines == {f \in [Ids -> Pool] :
                \A p, q \in Ids : /\ f[p].state = "active" /\ f[q].state = "active"
                                  /\ f[p].name = f[q].name
                                  => p = q}

ASSUME ZPoolsAssumption ==
    /\ Ids \subseteq Int /\ PoolNames \subseteq Int /\ Labelled \subseteq Devs
    /\ Mirrors \intersect {"stripe", "log", "cache", "spare"} = {} /\ Mirrors # {}
    /\ IsFiniteSet(Ids) /\ IsFiniteSet(Devs)
    /\ {None, Stale} \intersect (Int \union [pool : Nat, dev : Devs]) = {} /\ None # Stale
    /\ InitPools \subseteq Machines /\ MaxMenus \in Nat /\ MaxOther \in Nat

VARIABLES
    pools,              \* the machine
    Pools,              \* the list of zpool_t, also the items of zpoolList
    Disks,              \* the disks and partitions of the list whose InPool is empty
    lastSelectedPool,   \* index into Pools, None for NULL, Stale after a refresh
    lastSelectedVdev,   \* [pool, dev], None or Stale
    needRefresh,
    menu,               \* entries of the open menu
    pc,         \* "idle", "menu", "renaming", "closing"; "undefined" after a bad access
    job,        \* what zpoolRename still has to import: [id, name]
    timer       \* ProgramInit's refresh is still to come

\* History, and what the bounds count.
VARIABLES
    clicked,    \* guid of the pool whose item, or device's item, was clicked
    fresh,      \* nobody else changed a pool since the last refresh
    unseen,     \* a command did its work but printed something, since the last refresh
    menus, others

window == <<Pools, Disks, timer>>
selection == <<lastSelectedPool, lastSelectedVdev, menu, clicked>>
vars == <<pools, window, selection, needRefresh, pc, job, fresh, unseen, menus, others>>

Init ==
    /\ pools \in InitPools
    /\ Pools = <<>> /\ Disks = {} /\ timer = TRUE
    /\ lastSelectedPool = None /\ lastSelectedVdev = None /\ menu = {} /\ clicked = None
    /\ needRefresh = FALSE /\ pc = "idle" /\ job = None
    /\ fresh = TRUE /\ unseen = FALSE /\ menus = 0 /\ others = 0

-----------------------------------------------------------------------------
(* zpool(8): the machines a command may lead to, none if it must refuse. *)

Active(n) == {p \in Ids : pools[p].state = "active" /\ pools[p].name = n}
Holds(p, d) == \E m \in pools[p].vdevs : m.dev = d
Live(d) == \E p \in Ids : pools[p].state \in {"active", "exported"} /\ Holds(p, d)
\* The labels of destroyed pools on devices that are used again are lost.
Wiped(S) == [p \in Ids |-> IF pools[p].state = "destroyed" /\ \E d \in S : Holds(p, d)
                           THEN [pools[p] EXCEPT !.state = "none"] ELSE pools[p]]
Added(g, S) == {[dev |-> d, group |-> g, offline |-> FALSE] : d \in S}
\* A pool that leaves: one imported read-only goes back to what its labels say.
Leave(p, state) == IF pools[p].was = None THEN [pools[p] EXCEPT !.state = state]
                   ELSE [pools[p] EXCEPT !.state = pools[p].was.state, !.name = pools[p].was.name, !.was = None]

zpool_leave(n, state) == {[pools EXCEPT ![p] = Leave(p, state)] : p \in Active(n)}
zpool_import(p, from, n, ro) ==
    IF pools[p].state # from \/ Active(n) # {} THEN {}
    ELSE {[pools EXCEPT ![p].state = "active", ![p].name = n,
                        ![p].was = IF ro THEN [state |-> from, name |-> pools[p].name] ELSE None]}
zpool_create(n, g, S) ==
    {[Wiped(S) EXCEPT ![p] = [state |-> "active", name |-> n, was |-> None,
                              vdevs |-> Added(IF g = "mirror" THEN CHOOSE x \in Mirrors : TRUE ELSE g, S)]] :
        p \in {x \in Ids : /\ pools[x].state = "none" /\ \A y \in Ids : y < x => pools[y].state # "none"
                           /\ Active(n) = {} /\ \A d \in S : ~Live(d)}}

\* Changes to the devices of a pool; one imported read-only refuses them.
Writable(n) == {p \in Active(n) : pools[p].was = None}
Slots(n, d, G) == {x \in Writable(n) \X Member :
                      x[2] \in pools[x[1]].vdevs /\ x[2].dev = d /\ x[2].group \in G}
Changed(p, out, in, S) == [Wiped(S) EXCEPT ![p].vdevs = (@ \ out) \union in]
Partners(x) == {m \in pools[x[1]].vdevs : m.group = x[2].group} \ {x[2]}
\* The name a new top-level vdev gets.
NewGroup(p, g) ==
    IF g # "mirror" THEN {g}
    ELSE LET free == {x \in Mirrors : \A m \in pools[p].vdevs : m.group # x}
         IN  IF free = {} THEN {} ELSE {CHOOSE x \in free : TRUE}

zpool_add(n, g, S) == IF \E d \in S : Live(d) THEN {}
                      ELSE UNION {{Changed(p, {}, Added(x, S), S) : x \in NewGroup(p, g)} : p \in Writable(n)}
zpool_attach(n, d, new) ==
    IF Live(new) THEN {}
    ELSE UNION {{Changed(x[1], {x[2]}, {[x[2] EXCEPT !.group = g]} \union Added(g, {new}), {new}) :
                    g \in IF x[2].group \in Mirrors THEN {x[2].group} ELSE NewGroup(x[1], "mirror")} :
                x \in Slots(n, d, {"stripe"} \union Mirrors)}
\* The last partner of a mirror is a single disk again.
zpool_detach(n, d) ==
    {Changed(x[1], {x[2]} \union Partners(x),
             IF Cardinality(Partners(x)) > 1 THEN Partners(x)
             ELSE {[m EXCEPT !.group = "stripe"] : m \in Partners(x)}, {}) :
        x \in {y \in Slots(n, d, Mirrors) : Partners(y) # {}}}
zpool_offline(n, d) ==
    {Changed(x[1], {x[2]}, {[x[2] EXCEPT !.offline = TRUE]}, {}) :
        x \in {y \in Slots(n, d, Mirrors) : \E m \in Partners(y) : ~m.offline}}
zpool_online(n, d) ==
    {Changed(x[1], {x[2]}, {[x[2] EXCEPT !.offline = FALSE]}, {}) : x \in Slots(n, d, Groups)}
zpool_remove(n, d) ==
    {Changed(x[1], {x[2]}, {}, {}) : x \in Slots(n, d, {"log", "cache", "spare"})}

-----------------------------------------------------------------------------
(* The window's copy. *)

\* GetCurrentTopology: what it reads from zpool status, zpool import and zpool import -D.
Shown(p) == [id |-> p, name |-> pools[p].name, state |-> pools[p].state,
             vdevs |-> pools[p].vdevs, readonly |-> pools[p].was # None]
ByName(p, q) == pools[p].name < pools[q].name
ById(p, q) == p < q
In(state) == {p \in Ids : pools[p].state = state}
\* The members of S in that order.
InOrder(S, Before(_, _)) ==
    CHOOSE s \in SetToSeqs(S) : \A i, j \in 1 .. Cardinality(S) : i < j => Before(s[i], s[j])
Items(ids) == [k \in DOMAIN ids |-> Shown(ids[k])]
ActivePools == Items(InOrder(In("active"), ByName))
ExportedPools == Items(InOrder(In("exported"), ById))
DestroyedPools == Items(InOrder(In("destroyed"), ById))
Listing == ActivePools \o ExportedPools \o DestroyedPools

\* Mutant of Marked: only the pools of zpool status mark their disks.
MarkedActive == {d \in Devs \ Labelled : \E p \in Ids : pools[p].state = "active" /\ Holds(p, d)}
\* A pool marks the disk that getDiskbyName finds for a vdev; it knows no labels, and the
\* members of destroyed pools are not marked.
Marked == {d \in Devs \ Labelled : Live(d)}

Dangling(ptr) == IF ptr = None THEN None ELSE Stale
\* Mutant of refreshState: the timer of ProgramInit repeats.
refreshStateRepeats ==
    /\ Pools' = Listing /\ Disks' = Devs \ Marked /\ UNCHANGED timer
    /\ lastSelectedPool' = Dangling(lastSelectedPool)
    /\ lastSelectedVdev' = Dangling(lastSelectedVdev)
    /\ fresh' = TRUE /\ unseen' = FALSE
refreshState ==
    /\ Pools' = Listing /\ Disks' = Devs \ Marked /\ timer' = FALSE
    /\ lastSelectedPool' = Dangling(lastSelectedPool)
    /\ lastSelectedVdev' = Dangling(lastSelectedVdev)
    /\ fresh' = TRUE /\ unseen' = FALSE

\* ProgramInit: a timer refreshes the window shortly after it opens, a menu open or not.
ProgramInit ==
    /\ timer /\ pc \in {"idle", "menu"}
    /\ refreshState
    /\ UNCHANGED <<pools, menu, clicked, needRefresh, pc, job, menus, others>>

Shows(k, d) == \E m \in Pools[k].vdevs : m.dev = d
\* The first vdev of that name in the list, whatever pool was clicked.
getVDevbyName(d) ==
    LET hits == {k \in 1 .. Len(Pools) : Shows(k, d)}
    IN  [pool |-> CHOOSE k \in hits : \A x \in hits : k <= x, dev |-> d]

-----------------------------------------------------------------------------
(* The context menu. *)

PoolMenu(k) ==
    CASE Pools[k].state = "active" -> {"create", "rename", "destroy", "add", "scrub", "export", "properties"}
      [] Pools[k].state \in {"exported", "destroyed"} -> {"import"}
BlankMenu == {"create", "rename"}
\* zpoolGetVDEVType and the masks; a vdev that zpool names by a label is no disk.
VdevMenu(m) ==
    LET disk == m.dev \notin Labelled IN
    {e \in {"attach", "detach", "offline", "online", "remove"} :
        CASE e = "attach" -> disk /\ m.group \in {"stripe"} \union Mirrors
          [] e = "detach" -> disk /\ m.group \in Mirrors
          [] e = "offline" -> disk /\ ~m.offline /\ m.group \in {"stripe"} \union Mirrors
          [] e = "online" -> m.offline
          [] e = "remove" -> disk /\ m.group \in {"log", "cache", "spare"}}

\* The vdev record lastSelectedVdev points to, and the name of its pool.
VdevAt(v) == CHOOSE m \in Pools[v.pool].vdevs : m.dev = v.dev
VdevPool == Pools[lastSelectedVdev.pool].name
VdevName == lastSelectedVdev.dev

ClickBlank ==
    /\ menu' = BlankMenu /\ clicked' = None
    /\ pc' = "menu" /\ UNCHANGED <<lastSelectedPool, lastSelectedVdev>>
ClickPool(k) ==
    /\ lastSelectedPool' = k /\ lastSelectedVdev' = None
    /\ menu' = PoolMenu(k) /\ clicked' = Pools[k].id /\ pc' = "menu"
\* The items below a disabled item are disabled too.
ClickVdev(k, d) ==
    /\ lastSelectedPool' = None /\ clicked' = Pools[k].id /\ pc' = "menu"
    /\ \/ /\ Pools[k].state = "active"
          /\ lastSelectedVdev' = getVDevbyName(d)
          /\ menu' = VdevMenu(VdevAt(getVDevbyName(d)))
       \/ /\ Pools[k].state # "active"
          /\ menu' = BlankMenu /\ UNCHANGED lastSelectedVdev
\* The item "No pools available" has no index: its data reads as 0, and Pools.at(0) of an
\* empty list is taken for the selected pool: an assertion fails, or it happens to be NULL.
ClickNoPools ==
    /\ Pools = <<>> /\ ~timer
    /\ \/ pc' = "undefined" /\ UNCHANGED selection
       \/ /\ lastSelectedPool' = None /\ lastSelectedVdev' = None
          /\ menu' = BlankMenu /\ clicked' = None /\ pc' = "menu"

zpoolContextMenu ==
    /\ pc = "idle" /\ menus < MaxMenus /\ menus' = menus + 1
    /\ needRefresh' = FALSE
    /\ \/ ClickBlank \/ ClickNoPools
       \/ \E k \in 1 .. Len(Pools) : ClickPool(k) \/ \E m \in Pools[k].vdevs : ClickVdev(k, m.dev)
    /\ UNCHANGED <<pools, window, job, fresh, unseen, others>>

\* The menu is gone: refresh if a slot asked for it.
\* Mutant of Closed: needRefresh is not looked at.
ClosedNoRefresh ==
    /\ pc = "closing" /\ pc' = "idle" /\ menu' = {}
    /\ UNCHANGED <<window, lastSelectedPool, lastSelectedVdev, fresh, unseen, pools, clicked,
                   needRefresh, job, menus, others>>
Closed ==
    /\ pc = "closing" /\ pc' = "idle" /\ menu' = {}
    /\ \/ needRefresh /\ refreshState
       \/ ~needRefresh /\ UNCHANGED <<window, lastSelectedPool, lastSelectedVdev, fresh, unseen>>
    /\ UNCHANGED <<pools, clicked, needRefresh, job, menus, others>>

-----------------------------------------------------------------------------
(* The slots. *)

\* processzpoolErrors takes anything that was printed for an error.  W holds the machines
\* the command may lead to; it may also refuse.
Did(W) == pools' \in W /\ needRefresh' = TRUE /\ UNCHANGED unseen
Printed(W) == \/ pools' \in W /\ unseen' = TRUE /\ UNCHANGED needRefresh
              \/ UNCHANGED <<pools, unseen, needRefresh>>
zpool(W) == Did(W) \/ Printed(W)

Chosen(e) == pc = "menu" /\ e \in menu
Slot == pc' = "closing" /\ UNCHANGED <<window, selection, job, fresh, menus, others>>

Escape == pc = "menu" /\ Slot /\ UNCHANGED <<pools, needRefresh, unseen>>

\* DialogNewPool offers the disks and partitions that are in no pool, and wants one at least.
Picked == SUBSET Disks \ {{}}

\* DialogName refuses the names of the pools that are active in the window.
UsedNames == {Pools[k].name : k \in {x \in 1 .. Len(Pools) : Pools[x].state = "active"}}

SelName == Pools[lastSelectedPool].name
zpoolCreate ==
    /\ Chosen("create") /\ Slot
    /\ \E n \in PoolNames, g \in {"stripe", "mirror"}, S \in Picked :
          (g = "mirror" => Cardinality(S) > 1) /\ zpool(zpool_create(n, g, S))
\* The type of the pool fixes the type of what is added, and of a mirror the size too.
Fits(vdevs, g, S) ==
    LET striped == \E m \in vdevs : m.group = "stripe" /\ m.dev \notin Labelled
        sizes == {Cardinality({x \in vdevs : x.group = m.group}) : m \in {y \in vdevs : y.group \in Mirrors}}
    IN  CASE striped -> g = "stripe"
          [] ~striped /\ sizes # {} -> /\ g = "mirror"
                                       /\ (\A m \in vdevs : m.group # "stripe") => Cardinality(S) \in sizes
          [] OTHER -> g \in {"stripe", "mirror"} /\ (g = "mirror" => Cardinality(S) > 1)
\* zpoolAdd; zpoolAddLog, zpoolAddCache and zpoolAddSpare
zpoolAdd ==
    /\ Chosen("add") /\ Slot
    /\ \E g \in {"stripe", "mirror", "log", "cache", "spare"}, S \in Picked :
          /\ g \in {"log", "cache", "spare"} \/ Fits(Pools[lastSelectedPool].vdevs, g, S)
          /\ zpool(zpool_add(SelName, g, S))
zpoolDestroy == Chosen("destroy") /\ Slot /\ zpool(zpool_leave(SelName, "destroyed"))
zpoolExport == Chosen("export") /\ Slot /\ zpool(zpool_leave(SelName, "exported"))
\* No change of the pools' layout, but commands all the same.
zpoolScrub == Chosen("scrub") /\ Slot /\ zpool({pools})
zpoolEditProperties ==
    /\ Chosen("properties") /\ Slot
    /\ needRefresh' = TRUE /\ UNCHANGED <<pools, unseen>>

\* Mutant of zpoolImport: the pool is named instead of given by its guid.
zpoolImportByName ==
    /\ Chosen("import") /\ Slot
    /\ \E n \in PoolNames \ UsedNames, ro \in BOOLEAN,
          p \in {q \in Ids : pools[q].name = SelName} :
          zpool(zpool_import(p, Pools[lastSelectedPool].state, n, ro))
\* Import, and recovery of a destroyed pool: Type holds the guid.
zpoolImport ==
    /\ Chosen("import") /\ Slot
    /\ \E n \in PoolNames \ UsedNames, ro \in BOOLEAN :
          zpool(zpool_import(Pools[lastSelectedPool].id, Pools[lastSelectedPool].state, n, ro))

\* The menu on blank space offers it as well: lastSelectedPool may then be NULL, a pointer
\* into the old list, or a pool that is not active and thus has no guid property.
zpoolRename ==
    /\ Chosen("rename")
    /\ UNCHANGED <<window, selection, fresh, menus, others, needRefresh>>
    /\ \/ lastSelectedPool \in {None, Stale} /\ pc' = "undefined" /\ UNCHANGED <<pools, job, unseen>>
       \/ /\ lastSelectedPool \notin {None, Stale}
          /\ \/ Pools[lastSelectedPool].readonly /\ pc' = "closing" /\ UNCHANGED <<pools, job, unseen>>
             \/ /\ ~Pools[lastSelectedPool].readonly
                /\ LET W == zpool_leave(SelName, "exported") IN
                   \/ /\ pools' \in W /\ pc' = "renaming" /\ UNCHANGED unseen
                      /\ \E n \in PoolNames \ UsedNames :
                            job' = [id |-> IF Pools[lastSelectedPool].state = "active"
                                           THEN Pools[lastSelectedPool].id ELSE None, name |-> n]
                   \/ pools' \in W /\ pc' = "closing" /\ unseen' = TRUE /\ UNCHANGED job
                   \/ pc' = "closing" /\ UNCHANGED <<pools, unseen, job>>

\* Its second command.  Without a guid zpool looks for the one exported pool of the new name.
zpoolRename2 ==
    /\ pc = "renaming" /\ pc' = "closing" /\ job' = None
    /\ LET named == {p \in Ids : pools[p].state = "exported" /\ pools[p].name = job.name}
           W == IF job.id # None THEN zpool_import(job.id, "exported", job.name, FALSE)
                ELSE IF Cardinality(named) = 1 THEN zpool_import(CHOOSE p \in named : TRUE, "exported", job.name, FALSE)
                ELSE {}
       IN  \/ Did(W)
           \/ pools' \in W \union {pools} /\ unseen' = TRUE /\ UNCHANGED needRefresh
    /\ UNCHANGED <<window, selection, fresh, menus, others>>

zpoolAttachDevice == Chosen("attach") /\ Slot /\ \E d \in Disks : zpool(zpool_attach(VdevPool, VdevName, d))
zpoolDetachDevice == Chosen("detach") /\ Slot /\ zpool(zpool_detach(VdevPool, VdevName))
zpoolOfflineDevice == Chosen("offline") /\ Slot /\ zpool(zpool_offline(VdevPool, VdevName))
zpoolOnlineDevice == Chosen("online") /\ Slot /\ zpool(zpool_online(VdevPool, VdevName))
zpoolRemoveDevice == Chosen("remove") /\ Slot /\ zpool(zpool_remove(VdevPool, VdevName))

\* The button beside the first error, and zpoolClear: a clear leaves offline devices offline.
Faulty(k) == Pools[k].state = "active" /\ \E m \in Pools[k].vdevs : m.offline
on_toolButton_clicked ==
    /\ pc = "idle"
    /\ \E k \in 1 .. Len(Pools) :
          /\ Faulty(k) /\ \A x \in 1 .. k - 1 : ~Faulty(x)
          /\ \/ refreshState /\ lastSelectedPool' = Stale /\ needRefresh' = TRUE
             \/ /\ lastSelectedPool' = k /\ needRefresh' = FALSE
                /\ UNCHANGED <<window, lastSelectedVdev, fresh, unseen>>
    /\ UNCHANGED <<pools, menu, clicked, pc, job, menus, others>>

-----------------------------------------------------------------------------
(* Everything else on the machine that runs zpool commands. *)
Other ==
    /\ pc # "undefined" /\ others < MaxOther /\ others' = others + 1
    /\ \/ \E n \in PoolNames, s \in {"destroyed", "exported"} : pools' \in zpool_leave(n, s)
       \/ \E p \in Ids, n \in PoolNames, s \in {"destroyed", "exported"} : pools' \in zpool_import(p, s, n, FALSE)
       \/ \E n \in PoolNames, d \in Devs : pools' \in zpool_create(n, "stripe", {d}) \union zpool_offline(n, d)
       \* a spare may serve several pools
       \/ \E n \in PoolNames, p \in Ids, m \in Member :
             /\ m \in pools[p].vdevs /\ m.group = "spare" /\ pools[p].state = "active"
             /\ \E q \in Writable(n) : ~Holds(q, m.dev) /\ pools' = Changed(q, {}, {m}, {})
    /\ fresh' = FALSE
    /\ UNCHANGED <<window, selection, needRefresh, pc, job, unseen, menus>>

Next ==
    \/ ProgramInit \/ zpoolContextMenu \/ Escape \/ Closed
    \/ zpoolCreate \/ zpoolAdd \/ zpoolDestroy \/ zpoolExport \/ zpoolScrub \/ zpoolEditProperties
    \/ zpoolImport \/ zpoolRename \/ zpoolRename2
    \/ zpoolAttachDevice \/ zpoolDetachDevice \/ zpoolOfflineDevice \/ zpoolOnlineDevice \/ zpoolRemoveDevice
    \/ on_toolButton_clicked \/ Other

Spec == Init /\ [][Next]_vars

-----------------------------------------------------------------------------
Entries == {"create", "rename", "destroy", "add", "scrub", "export", "import", "properties",
            "attach", "detach", "offline", "online", "remove"}

(* Types; an index selected in the list is an index of the list. *)
TypeOK ==
    /\ pools \in [Ids -> Pool]
    /\ \A k \in 1 .. Len(Pools) : /\ Pools[k].id \in Ids /\ Pools[k].state \in States \ {"none"}
                                  /\ Pools[k].vdevs \subseteq Member
    /\ Disks \subseteq Devs /\ timer \in BOOLEAN
    /\ lastSelectedPool \in (1 .. Len(Pools)) \union {None, Stale}
    /\ \/ lastSelectedVdev \in {None, Stale}
       \/ lastSelectedVdev.pool \in 1 .. Len(Pools) /\ lastSelectedVdev.dev \in Devs
    /\ menu \subseteq Entries /\ clicked \in Ids \union {None}
    /\ pc \in {"idle", "menu", "renaming", "closing", "undefined"}
    /\ job \in {None} \union [id : Ids \union {None}, name : PoolNames]
    /\ needRefresh \in BOOLEAN /\ fresh \in BOOLEAN /\ unseen \in BOOLEAN
    /\ menus \in 0 .. MaxMenus /\ others \in 0 .. MaxOther

(* What the slots take for granted: while a menu is open the record its entries will follow *)
(* is one of the present list, no matter when a refresh freed the old one, and in the state *)
(* the entry is for.  zpoolCreate follows none; for zpoolRename this does not hold.         *)
OnPool == {"destroy", "add", "scrub", "export", "properties"}
OnVdev == {"attach", "detach", "offline", "online", "remove"}
PointersValid ==
    pc = "menu" =>
        /\ menu \intersect OnPool # {} =>
              lastSelectedPool \in 1 .. Len(Pools) /\ Pools[lastSelectedPool].state = "active"
        /\ "import" \in menu =>
              lastSelectedPool \in 1 .. Len(Pools) /\ Pools[lastSelectedPool].state # "active"
        /\ menu \intersect OnVdev # {} =>
              /\ lastSelectedVdev \notin {None, Stale} /\ lastSelectedVdev.pool \in 1 .. Len(Pools)
              /\ Pools[lastSelectedVdev.pool].state = "active" /\ Shows(lastSelectedVdev.pool, VdevName)

(* A command changes the pool that was clicked and no other, although most commands give a  *)
(* pool by its name only and several pools can have one name: for an import and for the     *)
(* second half of a rename even if the list is out of date, for the rest if it is not.      *)
(* Apart from it a pool can only be created, or lose what was left of it after a destroy.   *)
(* A spare that serves two active pools is the exception: see getVDevbyName.                *)
Exact == (fresh /\ ~unseen) \/ menu = {"import"} \/ pc = "renaming"
SharedSpare == \E p, q \in Ids, d \in Devs : /\ p # q /\ Holds(p, d) /\ Holds(q, d)
                                             /\ pools[p].state = "active" /\ pools[q].state = "active"
RightTarget ==
    [][others' = others /\ clicked # None /\ Exact /\ ~SharedSpare =>
          \A p \in Ids \ {clicked} :
             \/ pools'[p] = pools[p]
             \/ pools[p].state = "none" /\ pools'[p].state = "active"
             \/ pools[p].state = "destroyed" /\ pools'[p].state = "none"]_vars

(* Between two menus the window shows the pools as they are, unless somebody else changed   *)
(* them or a command did something and printed something.                                   *)
ViewAgrees == pc = "idle" /\ ~timer /\ fresh /\ ~unseen => Pools = Listing

(* A device the dialogs offer for a new pool belongs to no pool that is or can be imported, *)
(* as long as the list is up to date and zpool does not know the device by a label.         *)
OfferedFree == pc = "menu" /\ fresh /\ ~unseen => \A d \in Disks \ Labelled : ~Live(d)

(* What the pool tab promises between commands: it follows no freed record, shows what is  *)
(* there, and offers only what is free.                                                    *)
PoolsSafe == TypeOK /\ PointersValid /\ ViewAgrees /\ OfferedFree
=============================================================================
