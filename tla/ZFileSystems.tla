---------------------------- MODULE ZFileSystems ----------------------------
(***************************************************************************)
(* The file system tab of pc-zmanager (zmanagerwindow.cpp,                   *)
(* dialogfscreate.cpp): the list of datasets, the tree the window hangs them *)
(* in, the menu on it and the zfs commands of the menu.                      *)
(*                                                                         *)
(* The code compares paths as strings: a path is the sequence of its         *)
(* characters, few of which are enough.                                     *)
(***************************************************************************)
EXTENDS Integers, Sequences, FiniteSets, SequencesExt

CONSTANTS Alphabet,     \* the characters of paths, in the order zfs list sorts by
          FsPools,      \* the names of the pools, in the order of fspoolList
          FsStart,      \* datasets to start with
          NewNames,     \* what is typed into the dialog
          MaxFsOps      \* bound of the model: commands

VARIABLES sets,         \* the machine's datasets: path -> [kind, origin, mounted, born]
          listed,       \* FileSystems of the window, in order
          fspool,       \* current item of fspoolList
          tree,         \* fsList: [up: path -> path of the parent item, dead: a NULL item was used]
          told,         \* the last command ended with an error report
          nfs           \* commands so far
fsvars == <<sets, listed, fspool, tree, told, nfs>>

Top == <<>>             \* no item, no path
Starts(path, start) == IsPrefix(start, path)

-----------------------------------------------------------------------------
(* GetCurrentTopology: the lists zfs list and zfs get print. *)

Rank(c) == CHOOSE i \in DOMAIN Alphabet : Alphabet[i] = c
\* External: the order of zfs list.
Before(a, b) ==
    LET d == {i \in DOMAIN a \intersect DOMAIN b : a[i] # b[i]} IN
    IF d = {} THEN Len(a) <= Len(b)
    ELSE LET i == CHOOSE x \in d : \A y \in d : x <= y IN Rank(a[i]) < Rank(b[i])
FileSystems(m) ==
    LET nth(i) == CHOOSE p \in DOMAIN m : Cardinality({q \in DOMAIN m : Before(q, p)}) = i
        paths == [i \in 1..Cardinality(DOMAIN m) |-> nth(i)] IN
    [i \in DOMAIN paths |-> [FullPath |-> paths[i], type |-> m[paths[i]].kind, origin |-> m[paths[i]].origin,
                             mounted |-> m[paths[i]].mounted]]

-----------------------------------------------------------------------------
(* The tree. *)

\* What an iterator over fsList meets: the items that hang together with the top.
Attached(up) ==
    LET reach[k \in 0..Cardinality(DOMAIN up)] ==
          IF k = 0 THEN {Top} ELSE LET r == reach[k - 1] IN r \union {p \in DOMAIN up : up[p] \in r} IN
    reach[Cardinality(DOMAIN up)] \ {Top}
\* Mutant of getParentFileSystem: the first item that fits.
getParentFirst(up, path) ==
    LET c == {p \in Attached(up) : Starts(path, p)} IN
    IF c = {} THEN Top ELSE CHOOSE p \in c : \A q \in c : Len(p) <= Len(q)
getParentFileSystem(up, path) ==
    LET c == {p \in Attached(up) : Starts(path, p)} IN
    IF c = {} THEN Top ELSE CHOOSE p \in c : \A q \in c : Len(q) <= Len(p)
\* First pass: a new item below the origin or below the longest start of the path.
AddItem(t, fs) ==
    [t EXCEPT !.up = (fs.FullPath :> getParentFileSystem(@, IF fs.origin # Top THEN fs.origin ELSE fs.FullPath)) @@ @]
\* Second pass: a clone moves below its origin.
Reorder(t, fs) ==
    LET parent == IF fs.origin # Top THEN getParentFileSystem(t.up, fs.origin) ELSE Top
        item == getParentFileSystem(t.up, fs.FullPath) IN
    IF t.dead \/ parent = Top THEN t
    ELSE IF item = Top \/ t.up[item] = Top THEN [t EXCEPT !.dead = TRUE]
    ELSE [t EXCEPT !.up[item] = parent]
on_fspoolList_currentItemChanged(fss, pool) ==
    LET mine == SelectSeq(fss, LAMBDA fs : Starts(fs.FullPath, pool)) IN
    FoldLeft(Reorder, FoldLeft(AddItem, [up |-> <<>>, dead |-> FALSE], mine), mine)

\* refreshState, and the pool that was current is made current again.
refreshTree == /\ listed' = FileSystems(sets')
           /\ tree' = on_fspoolList_currentItemChanged(listed', fspool)
           /\ UNCHANGED fspool
FsInit == /\ sets \in FsStart
          /\ fspool = FsPools[1]
          /\ listed = FileSystems(sets)
          /\ tree = on_fspoolList_currentItemChanged(listed, fspool)
          /\ told = FALSE /\ nfs = 0
SelectPool ==
    /\ fspool' \in Range(FsPools) \ {fspool}
    /\ tree' = on_fspoolList_currentItemChanged(listed, fspool')
    /\ UNCHANGED <<sets, listed, told, nfs>>

-----------------------------------------------------------------------------
(* filesystemContextMenu. *)

getFileSystemFlags(fs) ==
    {f \in {"ISROOTFS", "ISCLONE", "ISMOUNTED", "TYPEFS", "TYPESNAP", "TYPEVOL"} :
        CASE f = "ISROOTFS" -> fs.FullPath \in Range(FsPools)
          [] f = "ISCLONE" -> fs.origin # Top
          [] f = "ISMOUNTED" -> fs.mounted
          [] f = "TYPEFS" -> fs.type = "filesystem"
          [] f = "TYPESNAP" -> fs.type = "snapshot"
          [] f = "TYPEVOL" -> fs.type = "volume"}
ALL == {"NONE", "ISROOTFS", "ISCLONE", "ISMOUNTED", "TYPEFS", "TYPESNAP", "TYPEVOL"}
Entry(slot, mask, flags) == [slot |-> slot, triggermask |-> mask, triggerflags |-> flags]
zfsmenu == {
    Entry("fsMount", {"TYPEFS", "ISMOUNTED"}, {"TYPEFS"}),
    Entry("fsUnmount", {"TYPEFS", "ISMOUNTED"}, {"TYPEFS", "ISMOUNTED"}),
    Entry("fsRename", {"NONE", "ISROOTFS"}, {}),
    Entry("fsCreate", {"TYPESNAP", "TYPEVOL"}, {}),
    Entry("fsClone", ALL \ {"TYPEFS", "TYPESNAP", "ISROOTFS", "ISMOUNTED"}, {}),
    Entry("fsDestroy", {"TYPEFS", "NONE", "ISROOTFS"}, {"TYPEFS"}),
    Entry("fsPromote", ALL, {"TYPEFS", "ISCLONE"}),
    Entry("fsSnapshot", {"TYPEFS"}, {"TYPEFS"}),
    Entry("fsDestroy", {"TYPESNAP"}, {"TYPESNAP"}),
    Entry("fsRollback", ALL, {"TYPESNAP"}),
    Entry("fsEditProps", {"NONE"}, {})}
\* The slots offered for an item, or for blank space.
filesystemContextMenu(path) ==
    LET at == {i \in DOMAIN listed : listed[i].FullPath = path}
        flags == IF at = {} THEN {"NONE"} ELSE getFileSystemFlags(listed[CHOOSE i \in at : TRUE]) IN
    {e.slot : e \in {x \in zfsmenu : flags \intersect x.triggermask = x.triggerflags}}
Selected(path, slot) ==
    /\ nfs < MaxFsOps /\ ~tree.dead
    /\ path \in Attached(tree.up) \union {Top}
    /\ slot \in filesystemContextMenu(path)

-----------------------------------------------------------------------------
(* DialogfsCreate. *)

\* What the edit line makes of typed text.
on_fsName_textEdited(root, arg) ==
    IF Starts(arg, root) THEN arg
    ELSE IF root # <<>> /\ arg = Front(root) THEN root ELSE root \o arg
checkValidPath(root, text) ==
    /\ Len(text) > Len(root) /\ Len(text) <= 255
    /\ \A i \in Len(root) + 1 .. Len(text) : text[i] \notin {"/", "@"}
Accepted(root) == {p \in {on_fsName_textEdited(root, n) : n \in NewNames} : checkValidPath(root, p)}
LastIndexOf(path, c) == Max({0} \union {i \in DOMAIN path : path[i] = c})
Left(path, n) == SubSeq(path, 1, n)

-----------------------------------------------------------------------------
(* External: zfs on the machine.  Each command prints something, an error,   *)
(* and changes nothing if it cannot be done.                                 *)

Belongs(n, p) == n = p \/ Starts(n, Append(p, "/")) \/ Starts(n, Append(p, "@"))
Below(m, p) == {n \in DOMAIN m : Belongs(n, p)}
Without(m, S) == [n \in DOMAIN m \ S |-> m[n]]
\* What -R adds: the clones of what goes, and what is below them.
Dependents(m, S) ==
    LET grow[k \in 0..Cardinality(DOMAIN m)] ==
          IF k = 0 THEN S
          ELSE LET g == grow[k - 1] IN g \union UNION {Below(m, c) : c \in {n \in DOMAIN m : m[n].origin \in g}} IN
    grow[Cardinality(DOMAIN m)]
FsOf(snap) == Left(snap, LastIndexOf(snap, "@") - 1)
Parent(path) == Left(path, LastIndexOf(path, "/") - 1)
Made(m, path, kind, origin) ==
    (path :> [kind |-> kind, origin |-> origin, mounted |-> kind = "filesystem", born |-> nfs]) @@ m
CanMake(m, path) == path \notin DOMAIN m /\ Parent(path) \in DOMAIN m /\ m[Parent(path)].kind = "filesystem"
CanSnapshot(m, path) == path \notin DOMAIN m /\ FsOf(path) \in DOMAIN m
\* Paths that start with p start with q instead, in names and in origins.
Moved(m, S, p, q) ==
    LET new(n) == IF n \in S THEN q \o SubSeq(n, Len(p) + 1, Len(n)) ELSE n
        old(n) == CHOOSE o \in DOMAIN m : new(o) = n IN
    [n \in {new(o) : o \in DOMAIN m} |-> [m[old(n)] EXCEPT !.origin = new(@)]]
zfs_promote(m, p) ==
    LET o == m[p].origin
        f == FsOf(o)
        old == {n \in DOMAIN m : Starts(n, Append(f, "@")) /\ m[n].born <= m[o].born}
        moved == Moved(m, old, f, p) IN
    [moved EXCEPT ![p].origin = m[f].origin, ![f].origin = p \o SubSeq(o, Len(f) + 1, Len(o))]
CanPromote(m, p) == \A n \in DOMAIN m : Starts(n, Append(FsOf(m[p].origin), "@"))
                        => p \o SubSeq(n, Len(FsOf(n)) + 1, Len(n)) \notin DOMAIN m

-----------------------------------------------------------------------------
(* The slots. *)

\* Mutant of Ran: a command that worked is not followed by a refresh.
RanStale(m, failed) == /\ sets' = m /\ told' = failed /\ nfs' = nfs + 1 /\ UNCHANGED <<listed, fspool, tree>>
\* processzfsErrors after the command: needRefresh, and the refresh when the menu closes.
Ran(m, failed) ==
    /\ sets' = m /\ told' = failed /\ nfs' = nfs + 1
    /\ IF failed THEN UNCHANGED <<listed, fspool, tree>> ELSE refreshTree
\* zfs refuses what it cannot do, and anything for reasons of its own.
Try(can, m) == (can /\ Ran(m, FALSE)) \/ Ran(sets, TRUE)

fsCreate ==
    \E sel \in DOMAIN tree.up \union {Top} :
        LET root == Append(IF sel = Top THEN fspool ELSE sel, "/") IN
        /\ Selected(sel, "fsCreate")
        /\ \E path \in Accepted(root) : Try(CanMake(sets, path), Made(sets, path, "filesystem", Top))
\* The preview (-n -v) and the question are not steps: nothing else runs while they are shown.
fsDestroy ==
    \E sel \in DOMAIN tree.up :
        LET gone == Dependents(sets, Below(sets, sel)) IN
        /\ Selected(sel, "fsDestroy")
        /\ \/ Try(sel \in DOMAIN sets, Without(sets, gone))
           \* it stops half way
           \/ \E n \in gone : Dependents(sets, Below(sets, n)) = {n} /\ n # sel /\ Ran(Without(sets, {n}), TRUE)
fsSnapshot ==
    \E sel \in DOMAIN tree.up :
        /\ Selected(sel, "fsSnapshot")
        /\ \E path \in Accepted(Append(sel, "@")) : Try(CanSnapshot(sets, path), Made(sets, path, "snapshot", Top))
fsRename ==
    \E sel \in DOMAIN tree.up :
        LET sep == IF "@" \in Range(sel) THEN "@" ELSE "/" IN
        /\ Selected(sel, "fsRename")
        /\ \E path \in Accepted(Left(sel, LastIndexOf(sel, sep))) :
              Try(sel \in DOMAIN sets /\ path \notin DOMAIN sets, Moved(sets, Below(sets, sel), sel, path))
fsPromote ==
    \E sel \in DOMAIN tree.up :
        /\ Selected(sel, "fsPromote")
        /\ LET can == sel \in DOMAIN sets /\ sets[sel].origin # Top /\ CanPromote(sets, sel) IN
           (can /\ Ran(zfs_promote(sets, sel), FALSE)) \/ Ran(sets, TRUE)
\* A file system is cloned by way of a snapshot of its own, which stays if the clone fails.
fsClone ==
    \E sel \in DOMAIN tree.up :
        LET root == Left(sel, LastIndexOf(sel, "/"))
            isSnapshot == "@" \in Range(sel) IN
        /\ Selected(sel, "fsClone")
        /\ \E path \in Accepted(root) :
              LET snap == IF isSnapshot THEN sel ELSE sel \o <<"@">> \o SubSeq(path, Len(root) + 1, Len(path)) \o <<"_base">>
                  snapped == IF isSnapshot THEN sets ELSE Made(sets, snap, "snapshot", Top) IN
              \/ Ran(sets, TRUE)
              \/ /\ isSnapshot \/ CanSnapshot(sets, snap)
                 /\ \/ snap \in DOMAIN snapped /\ CanMake(sets, path) /\ Ran(Made(snapped, path, "filesystem", snap), FALSE)
                    \/ Ran(snapped, TRUE)
fsRollback ==
    \E sel \in DOMAIN tree.up :
        LET later == {n \in DOMAIN sets : Starts(n, Append(FsOf(sel), "@")) /\ sets[n].born > sets[sel].born} IN
        /\ Selected(sel, "fsRollback")
        /\ (sel \in DOMAIN sets /\ Ran(Without(sets, Dependents(sets, later)), FALSE)) \/ Ran(sets, TRUE)
fsMount(slot, on) ==
    \E sel \in DOMAIN tree.up :
        /\ Selected(sel, slot)
        /\ \/ sel \in DOMAIN sets /\ sets[sel].mounted = ~on /\ Ran([sets EXCEPT ![sel].mounted = on], FALSE)
           \/ Ran(sets, TRUE)
\* zfs set and zfs inherit change no dataset's place; the window is refreshed whatever they print.
fsEditProps ==
    \E sel \in DOMAIN tree.up :
        /\ Selected(sel, "fsEditProps")
        /\ sets' = sets /\ told' \in BOOLEAN /\ nfs' = nfs + 1 /\ refreshTree

FsNext ==
    \/ SelectPool \/ fsCreate \/ fsDestroy \/ fsSnapshot \/ fsRename \/ fsPromote \/ fsClone \/ fsRollback
    \/ fsMount("fsMount", TRUE) \/ fsMount("fsUnmount", FALSE) \/ fsEditProps
FsSpec == FsInit /\ [][FsNext]_fsvars

-----------------------------------------------------------------------------
(* Properties. *)

DatasetsOf(pool) == {n \in {listed[i].FullPath : i \in DOMAIN listed} : Belongs(n, pool)}
OriginOf(n) == LET i == CHOOSE x \in DOMAIN listed : listed[x].FullPath = n IN listed[i].origin
\* No path goes on where another one ends, except with "/" or "@".
Ordinary == \A i, j \in DOMAIN listed :
    Starts(listed[j].FullPath, listed[i].FullPath) => Belongs(listed[j].FullPath, listed[i].FullPath)

\* on_fspoolList_currentItemChanged: after its two passes every dataset of the pool has an item
\* the window can reach.
TreeComplete == ~tree.dead /\ DatasetsOf(fspool) \subseteq Attached(tree.up)
\* A clone hangs below its origin, any other dataset below the closest dataset that contains it.
RightParent ==
    \A n \in DatasetsOf(fspool) :
        LET above == {p \in DatasetsOf(fspool) : p # n /\ Belongs(n, p)} IN
        tree.up[n] = IF OriginOf(n) # Top THEN OriginOf(n)
                     ELSE IF above = {} THEN Top ELSE CHOOSE p \in above : \A q \in above : Len(q) <= Len(p)
\* As long as no path is the start of another's name, the tree is the one of the datasets, whatever was
\* cloned, promoted and renamed and in whatever order zfs lists it.
TreeRight == Ordinary => TreeComplete /\ RightParent
\* processzfsErrors: the window shows something other than the datasets only after an error report.
StaleTold == listed # FileSystems(sets) => told
\* The menu's masks: no sequence of commands destroys or renames the root of a pool.
RootKept == \A i \in DOMAIN FsPools : FsPools[i] \in DOMAIN sets /\ sets[FsPools[i]].kind = "filesystem"
FileSystemsSafe == TreeRight /\ StaleTold /\ RootKept
=============================================================================
