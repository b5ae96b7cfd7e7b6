------------------------------ MODULE ZDevices ------------------------------
(***************************************************************************)
(* The device tab of pc-zmanager (zmanagerwindow.cpp, dialogpartition.cpp,   *)
(* dialogmount.cpp): the list of disks, slices and partitions the window     *)
(* makes from what gpart, glabel and mount print, the menu on it and the     *)
(* commands of the menu.                                                    *)
(*                                                                         *)
(* A line of output is a record.  A name is a letter for the driver and unit, *)
(* 0 for a further digit of the unit and then indexes: <<"a">> and <<"a", 0>> *)
(* are two disks (ada1 and ada10), <<"a", 1>> and <<"a", 0, 1>> slices of     *)
(* them and <<"a", 1, 1>> a partition.                                       *)
(***************************************************************************)
EXTENDS Integers, Sequences, FiniteSets, SequencesExt

CONSTANTS Geoms,        \* machines to start with
          SliderMax,    \* largest position of the slider (2^31 in the code)
          MaxCommands   \* bound of the model

VARIABLES geom,         \* the machine: disks, table, parts, alias, mounted, inpool
          devices,      \* the window's Disks
          stale,       \* the machine changed and the window was not refreshed
          command,      \* the last gpart command that was run
          ncommands
devvars == <<geom, devices, stale, command, ncommands>>

-----------------------------------------------------------------------------
(* External: what the tools print.  Parents come before their slices, the    *)
(* providers of a geom in the order of their indexes.                        *)

PartName(p) == Append(p.of, p.index)
PartsOf(g, n) == SetToSortSeq({p \in g.parts : p.of = n}, LAMBDA p, q : p.index < q.index)
ByStart(g, n) == SetToSortSeq({p \in g.parts : p.of = n}, LAMBDA p, q : p.start < q.start)
\* The geoms with a table, each disk before its slices.
Tables(g) ==
    FlattenSeq([i \in DOMAIN g.disks |->
        SelectSeq(<<g.disks[i]>> \o [j \in DOMAIN PartsOf(g, g.disks[i]) |-> PartName(PartsOf(g, g.disks[i])[j])],
                  LAMBDA n : n \in DOMAIN g.table)])
Line(k, v) == [k |-> k, v |-> v]
ProviderLines(p) ==
    <<Line("name", PartName(p)), Line("mediasize", p.count), Line("sectorsize", 1), Line("type", p.type),
      Line("index", p.index), Line("end", p.start + p.count - 1), Line("start", p.start)>>
\* gpart list: a geom without partitions has no list of providers, every one has a consumer.
gpart_list(g) ==
    FlattenSeq([i \in DOMAIN Tables(g) |->
        LET n == Tables(g)[i]
            ps == PartsOf(g, n) IN
        <<Line("geom", n), Line("scheme", g.table[n].scheme)>>
        \o (IF ps = <<>> THEN <<>> ELSE <<Line("providers", 0)>> \o FlattenSeq([j \in DOMAIN ps |-> ProviderLines(ps[j])]))
        \o <<Line("consumers", 0), Line("name", n), Line("mediasize", g.table[n].count), Line("sectorsize", 1)>>])
gpart_show(g) ==
    FlattenSeq([i \in DOMAIN Tables(g) |->
        LET n == Tables(g)[i]
            ps == ByStart(g, n) IN
        <<[main |-> TRUE, name |-> n, start |-> g.table[n].first, count |-> g.table[n].count, type |-> g.table[n].scheme]>>
        \o [j \in DOMAIN ps |-> [main |-> FALSE, name |-> PartName(ps[j]), start |-> ps[j].start, count |-> ps[j].count,
                                 type |-> ps[j].type]]])
Label(n) == <<"label">> \o n

-----------------------------------------------------------------------------
(* GetCurrentTopology. *)

Vdev(n, level) == [name |-> n, level |-> level, type |-> "", parts |-> <<>>, index |-> 0, start |-> 0, count |-> 0,
                   alias |-> <<>>, mount |-> FALSE]
startsWith(n, d) == IsPrefix(d, n)
First(S) == CHOOSE i \in S : \A j \in S : i <= j
\* The first pass, over geom disk list.
DiskList(g) == [i \in DOMAIN g.disks |-> Vdev(g.disks[i], 0)]
\* Mutant of Filed: the table of a slice is not found.
FiledDisk(disks, dsk) ==
    [i \in DOMAIN disks |-> IF disks[i].name = dsk.name THEN [disks[i] EXCEPT !.type = dsk.type, !.parts = dsk.parts] ELSE disks[i]]
\* The geom that was read becomes the table of a disk or of a slice; others are discarded.
Filed(disks, dsk) ==
    LET Table(v) == [v EXCEPT !.type = dsk.type, !.parts = dsk.parts]
        exact == {i \in DOMAIN disks : disks[i].name = dsk.name} IN
    IF exact # {} THEN [disks EXCEPT ![First(exact)] = Table(@)]
    ELSE [i \in DOMAIN disks |->
            LET slices == {j \in DOMAIN disks[i].parts : disks[i].parts[j].name = dsk.name} IN
            IF startsWith(dsk.name, disks[i].name) /\ slices # {}
            THEN [disks[i] EXCEPT !.parts[First(slices)] = Table(@)] ELSE disks[i]]
\* Mutant of InsertByStart: in the order of their indexes.
InsertLast(parts, p) == Append(parts, p)
\* Partitions are kept in the order of their first sectors.
InsertByStart(parts, p) ==
    LET later == {i \in DOMAIN parts : parts[i].start > p.start} IN
    IF later = {} THEN Append(parts, p) ELSE InsertAt(parts, First(later), p)
\* The disks are looked through up to the one of that name: a geom whose name begins with
\* the name of a disk before it is taken for a slice, and so is ada10 when ada1 comes first.
geomLevel(disks, n) ==
    LET exact == {i \in DOMAIN disks : disks[i].name = n}
        seen == IF exact = {} THEN DOMAIN disks ELSE 1 .. First(exact) - 1 IN
    IF \E i \in seen : startsWith(n, disks[i].name) THEN 1 ELSE 0
\* One line of gpart list in state s.
ParseLine(s, l) ==
    CASE l.k = "geom" ->
           [state |-> 1, part |-> s.part, dsk |-> Vdev(l.v, geomLevel(s.disks, l.v)),
            disks |-> IF s.state # 0 THEN Filed(s.disks, s.dsk) ELSE s.disks]
      [] l.k = "scheme" /\ s.state = 1 -> [s EXCEPT !.dsk.type = l.v, !.state = 2]
      [] l.k = "providers" /\ s.state = 2 -> [s EXCEPT !.state = 3]
      [] l.k = "name" /\ s.state >= 3 ->
           [s EXCEPT !.dsk.parts = IF s.state > 3 THEN InsertByStart(@, s.part) ELSE @,
                     !.part = Vdev(l.v, s.dsk.level + 1), !.state = 4]
      [] l.k = "mediasize" /\ s.state = 4 -> [s EXCEPT !.state = 5]
      [] l.k = "sectorsize" /\ s.state = 5 -> [s EXCEPT !.state = 6]
      [] l.k = "type" /\ s.state = 6 -> [s EXCEPT !.part.type = l.v, !.state = 7]
      [] l.k = "index" /\ s.state = 7 -> [s EXCEPT !.part.index = l.v, !.state = 8]
      [] l.k = "end" /\ s.state = 8 -> [s EXCEPT !.part.count = l.v, !.state = 9]
      [] l.k = "start" /\ s.state = 9 -> [s EXCEPT !.part.start = l.v, !.part.count = @ - (l.v - 1), !.state = 10]
      [] l.k = "consumers" /\ s.state = 10 -> [s EXCEPT !.dsk.parts = InsertByStart(@, s.part), !.state = -1]
      [] OTHER -> s
Listed(g) ==
    LET s == FoldLeft(ParseLine, [state |-> 0, dsk |-> Vdev(<<>>, 0), part |-> Vdev(<<>>, 0), disks |-> DiskList(g)], gpart_list(g)) IN
    IF s.state \in {3, -1} THEN Filed(s.disks, s.dsk) ELSE s.disks
\* The device of that name is given the fields f returns for it (getDiskbyName, and the
\* same search in the passes over glabel and mount).
WithName(disks, P(_), f(_)) ==
    LET sub(v) == IF P(v) THEN f(v) ELSE v
        slice(v) == [sub(v) EXCEPT !.parts = [k \in DOMAIN @ |-> sub(@[k])]] IN
    [i \in DOMAIN disks |-> [sub(disks[i]) EXCEPT !.parts = [j \in DOMAIN @ |-> slice(@[j])]]]
\* gpart show tells the first sector a table manages and the size; a slice keeps its start.
ShowLine(disks, l) ==
    WithName(disks, LAMBDA v : v.name = l.name,
             LAMBDA v : [v EXCEPT !.start = IF ~l.main \/ @ = 0 THEN l.start ELSE @, !.count = l.count, !.type = l.type])
WithLabels(disks, g) == WithName(disks, LAMBDA v : v.name \in g.alias, LAMBDA v : [v EXCEPT !.alias = Label(v.name)])
Mounts(disks, g) ==
    WithName(disks, LAMBDA v : v.name \in g.mounted \/ v.alias \in g.mounted, LAMBDA v : [v EXCEPT !.mount = TRUE])
GetCurrentTopology(g) == Mounts(WithLabels(FoldLeft(ShowLine, Listed(g), gpart_show(g)), g), g)

\* Every device of the list.
Flat(disks) ==
    UNION {{disks[i]} \union UNION {{disks[i].parts[j]} \union Range(disks[i].parts[j].parts) : j \in DOMAIN disks[i].parts} :
           i \in DOMAIN disks}
refreshDevices == devices' = GetCurrentTopology(geom') /\ stale' = FALSE

-----------------------------------------------------------------------------
(* deviceContextMenu. *)

\* The pool's devices are looked up by name (getDiskbyName): one that zpool lists by its
\* label is not found.
InPool(v) == v.name \in geom.inpool
HasTable(v) == v.type \in {"MBR", "GPT", "BSD"}
deviceContextMenu(v) ==
    IF InPool(v) THEN {}
    ELSE IF v.mount THEN {"unmount"}
    ELSE (IF v.type # "" /\ v.parts = <<>> /\ ~HasTable(v) /\ v.type # "freebsd" THEN {"mount"} ELSE {})
         \union (IF v.type = "" /\ v.level < 2 THEN {"MBR", "GPT"} ELSE {})
         \union (IF v.type = "freebsd" /\ v.level < 2 THEN {"BSD"}
                 ELSE IF v.level < 2 /\ HasTable(v) THEN {"add"} \union (IF v.parts = <<>> THEN {"destroy"} ELSE {}) ELSE {})
         \union (IF v.parts = <<>> /\ v.level > 0 THEN {"delete"} ELSE {})

-----------------------------------------------------------------------------
(* External: gpart, newfs, mount and umount on the machine; each may fail     *)
(* for reasons of its own, and does where it would do harm.                  *)

InUse(g, n) == n \in g.mounted \/ Label(n) \in g.mounted \/ n \in g.inpool \/ Label(n) \in g.inpool
Busy(g, n) == InUse(g, n) \/ n \in DOMAIN g.table
Overlap(p, start, count) == start < p.start + p.count /\ p.start < start + count
CanAdd(g, n, start, count) ==
    /\ n \in DOMAIN g.table /\ count > 0 /\ start >= g.table[n].first /\ start + count <= g.table[n].first + g.table[n].count
    /\ \A p \in g.parts : p.of = n => ~Overlap(p, start, count)
FreeIndex(g, n) == First({i \in 1 .. 1 + Cardinality(g.parts) : \A p \in g.parts : p.of # n \/ p.index # i})

Run(k, n, start, count) ==
    ncommands < MaxCommands /\ ncommands' = ncommands + 1 /\ command' = [k |-> k, name |-> n, start |-> start, count |-> count]
\* processErrors: a complaint leaves the window as it is.
Failed(k, n, start, count) == Run(k, n, start, count) /\ UNCHANGED <<geom, devices, stale>>
gpart_create(n, scheme) ==
    /\ ~Busy(geom, n)
    /\ LET size == IF n \in Range(geom.disks) THEN geom.size
                   ELSE (CHOOSE p \in geom.parts : PartName(p) = n).count
           first == IF n \in Range(geom.disks) THEN 1 ELSE 0
           new == [scheme |-> scheme, first |-> first, count |-> size - first] IN
       geom' = [geom EXCEPT !.table = [m \in DOMAIN @ \union {n} |-> IF m = n THEN new ELSE @[m]]]
gpart_destroy(n) ==
    /\ n \in DOMAIN geom.table /\ \A p \in geom.parts : p.of # n
    /\ geom' = [geom EXCEPT !.table = [m \in DOMAIN @ \ {n} |-> @[m]]]
gpart_add(n, type, start, count) ==
    /\ CanAdd(geom, n, start, count)
    /\ geom' = [geom EXCEPT !.parts = @ \union {[of |-> n, index |-> FreeIndex(geom, n), type |-> type, start |-> start, count |-> count]}]
gpart_delete(of, index) ==
    \E p \in geom.parts : /\ p.of = of /\ p.index = index /\ ~Busy(geom, PartName(p))
                          /\ geom' = [geom EXCEPT !.parts = @ \ {p}, !.alias = @ \ {PartName(p)}]

-----------------------------------------------------------------------------
(* The entries of the menu. *)

deviceCreatePartitionTable(v, scheme) ==
    /\ scheme \in deviceContextMenu(v)
    /\ \/ Run("create", v.name, 0, 0) /\ gpart_create(v.name, scheme) /\ refreshDevices
       \/ Failed("create", v.name, 0, 0)
deviceDestroyPartitionTable(v) ==
    /\ "destroy" \in deviceContextMenu(v)
    /\ \/ Run("destroy", v.name, 0, 0) /\ gpart_destroy(v.name) /\ refreshDevices
       \/ Failed("destroy", v.name, 0, 0)
\* A labelled device is named by its label.
Special(v) == IF v.alias = <<>> THEN v.name ELSE v.alias
deviceUnmount(v) ==
    /\ "unmount" \in deviceContextMenu(v)
    /\ \/ /\ Special(v) \in geom.mounted /\ Run("umount", v.name, 0, 0)
          /\ geom' = [geom EXCEPT !.mounted = @ \ {Special(v)}] /\ refreshDevices
       \/ Failed("umount", v.name, 0, 0)
deviceMount(v) ==
    /\ "mount" \in deviceContextMenu(v)
    /\ \/ /\ v.type = "freebsd-ufs" /\ Run("mount", v.name, 0, 0)
          /\ geom' = [geom EXCEPT !.mounted = @ \union {Special(v)}] /\ refreshDevices
       \/ Failed("mount", v.name, 0, 0)

\* DialogPartition::setDevice: the gaps between the partitions, each [start, count].
Base(v) == IF v.level = 0 THEN v.start ELSE 0
Gap(acc, p) ==
    [free |-> IF p.start > acc.sector THEN acc.free \union {[start |-> acc.sector, count |-> p.start - acc.sector]} ELSE acc.free,
     sector |-> p.start + p.count]
setDevice(v) ==
    LET acc == FoldLeft(Gap, [free |-> {}, sector |-> Base(v)], v.parts)
        end == Base(v) + v.count IN
    acc.free \union (IF end > acc.sector THEN {[start |-> acc.sector, count |-> end - acc.sector]} ELSE {})
\* The slider counts in units of 2^granularity sectors.
granularity(v) == First({n \in 0 .. v.count : v.count \div 2 ^ n <= SliderMax})
\* Positions of the slider for a gap; a partition that is selected has none but 0.
sizeSlider(v, gap) == 0 .. gap.count \div 2 ^ granularity(v)
getSectorCount(v, pos) == pos * 2 ^ granularity(v)
PartTypes(scheme) ==
    CASE scheme = "MBR" -> {"freebsd"}
      [] scheme = "GPT" -> {"freebsd-ufs", "freebsd-zfs"}
      [] scheme = "BSD" -> {"freebsd-ufs", "freebsd-zfs"}
\* gpart add and, if asked for, newfs; after a newfs that failed the window is not refreshed.
deviceAddPartition(v, type, newfs) ==
    /\ "add" \in deviceContextMenu(v) /\ type \in PartTypes(v.type) /\ (newfs => type = "freebsd-ufs")
    /\ \E gap \in setDevice(v) : \E pos \in sizeSlider(v, gap) :
          LET count == getSectorCount(v, pos) IN
          /\ count # 0
          /\ \/ /\ Run("add", v.name, gap.start, count) /\ gpart_add(v.name, type, gap.start, count)
                /\ \/ refreshDevices
                   \/ newfs /\ stale' = TRUE /\ UNCHANGED devices
             \/ Failed("add", v.name, gap.start, count)
\* The disk or slice whose list holds a device of that name.
getContainerDisk(v) == CHOOSE c \in Flat(devices) : \E i \in DOMAIN c.parts : c.parts[i].name = v.name
deviceDestroyPartition(v) ==
    /\ "delete" \in deviceContextMenu(v)
    /\ LET of == getContainerDisk(v).name IN
       \/ Run("delete", Append(of, v.index), 0, 0) /\ gpart_delete(of, v.index) /\ refreshDevices
       \/ Failed("delete", Append(of, v.index), 0, 0)
\* The button that reads everything again.
Refresh == stale /\ UNCHANGED <<geom, command, ncommands>> /\ refreshDevices

DevInit == /\ geom \in Geoms /\ devices = GetCurrentTopology(geom) /\ stale = FALSE
           /\ command = [k |-> "none", name |-> <<>>, start |-> 0, count |-> 0] /\ ncommands = 0
DevNext ==
    \/ Refresh
    \/ \E v \in Flat(devices) :
          \/ \E scheme \in {"MBR", "GPT", "BSD"} : deviceCreatePartitionTable(v, scheme)
          \/ deviceDestroyPartitionTable(v) \/ deviceUnmount(v) \/ deviceMount(v) \/ deviceDestroyPartition(v)
          \/ \E type \in {"freebsd", "freebsd-ufs", "freebsd-zfs"}, newfs \in BOOLEAN : deviceAddPartition(v, type, newfs)
DevSpec == DevInit /\ [][DevNext]_devvars

-----------------------------------------------------------------------------
Part(n) == CHOOSE p \in geom.parts : PartName(p) = n
IsDisk(n) == n \in Range(geom.disks)
Names == Range(geom.disks) \union {PartName(p) : p \in geom.parts}
\* A disk whose name begins with the name of one before it in the list.
Shadowed(n) == \E i, j \in DOMAIN geom.disks : i < j /\ geom.disks[j] = n /\ startsWith(n, geom.disks[i])
Level(n) == IF IsDisk(n) THEN 0 ELSE IF IsDisk(Part(n).of) /\ ~Shadowed(Part(n).of) THEN 1 ELSE 2
\* Each device of the machine is in the list once, with its level, size, table and mount,
\* whatever the order in which partitions were made and deleted (GetCurrentTopology).  Only
\* the level of slices of a disk like ada10, listed after ada1, is that of partitions.
ListComplete ==
    /\ {v.name : v \in Flat(devices)} = Names /\ Cardinality(Flat(devices)) = Cardinality(Names)
    /\ \A v \in Flat(devices) :
          /\ v.level = Level(v.name)
          /\ {v.parts[i].name : i \in DOMAIN v.parts} = {PartName(p) : p \in {q \in geom.parts : q.of = v.name}}
          /\ v.name \in DOMAIN geom.table => v.type = geom.table[v.name].scheme /\ v.count = geom.table[v.name].count
          /\ ~IsDisk(v.name) => v.start = Part(v.name).start /\ v.index = Part(v.name).index
          /\ ~IsDisk(v.name) /\ v.name \notin DOMAIN geom.table => v.type = Part(v.name).type /\ v.count = Part(v.name).count
          /\ v.mount = (v.name \in geom.mounted \/ (v.name \in geom.alias /\ Label(v.name) \in geom.mounted))
\* The list is right unless a newfs failed since it was made (deviceAddPartition).
DevicesSafe == ~stale => ListComplete

\* What the window asks of gpart after a refresh can be done: a new partition lies in a
\* gap of the table, a table that is destroyed has no partition, and what is deleted is
\* neither mounted nor part of a pool (deviceContextMenu, DialogPartition::setDevice).
\* Except a device that zpool lists by its label: the window does not know it is in a pool
\* and offers to delete it, and gpart refuses.
RequestsSound ==
    [][~stale /\ ncommands' # ncommands =>
        CASE command'.k = "add" -> CanAdd(geom, command'.name, command'.start, command'.count)
          [] command'.k = "destroy" -> \A p \in geom.parts : p.of # command'.name
          [] command'.k = "delete" -> \E p \in geom.parts :
                /\ PartName(p) = command'.name
                /\ InUse(geom, PartName(p)) => Label(PartName(p)) \in geom.inpool
          [] OTHER -> TRUE]_devvars
=============================================================================
