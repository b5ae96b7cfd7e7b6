---------------------------- MODULE ZPoolsProofs ----------------------------
(***************************************************************************)
(* Theorems about the pool tab, for every machine, every number of pools   *)
(* and devices and every way zpool(8) may answer: the window follows no    *)
(* freed record, shows what is there, and changes the pool that was        *)
(* clicked.                                                                *)
(***************************************************************************)
EXTENDS ZPools, FiniteSetTheorems, TLAPS

\* A set of natural numbers that is not empty has a least member.
LEMMA Least == ASSUME NEW T \in SUBSET Nat, T # {} PROVE \E x \in T : \A y \in T : x <= y
  <1> DEFINE F == {0 .. m : m \in T}
  <1>1. F \subseteq FiniteSubsetsOf(Nat)
    <2>1. \A m \in T : IsFiniteSet(0 .. m)
        BY FS_Interval
    <2> QED BY <2>1 DEF FiniteSubsetsOf
  <1>2. PICK X \in F : \A Y \in F : ~(<<Y, X>> \in StrictSubsetOrdering(Nat))
    <2>1. F # {}
        OBVIOUS
    <2> HIDE DEF F
    <2> QED BY <1>1, <2>1, FS_StrictSubsetOrderingWellFounded, WFMin
  <1>3. PICK x \in T : X = 0 .. x
      BY <1>2
  <1>4. ASSUME NEW y \in T PROVE x <= y
    <2>1. ~(<<0 .. y, 0 .. x>> \in StrictSubsetOrdering(Nat))
        BY <1>2, <1>3
    <2>2. ~(0 .. y \subseteq 0 .. x /\ 0 .. y # 0 .. x)
        BY <2>1 DEF StrictSubsetOrdering
    <2>3. SUFFICES ASSUME y < x PROVE FALSE
        OBVIOUS
    <2>4. x \in 0 .. x /\ ~(x \in 0 .. y) /\ 0 .. y \subseteq 0 .. x
        BY <2>3
    <2> QED BY <2>2, <2>4
  <1> QED BY <1>4

\* Any finite set can be arranged by a key that tells its members apart.
LEMMA Arranged ==
    ASSUME NEW S, IsFiniteSet(S), NEW key \in [S -> Int], \A p, q \in S : key[p] = key[q] => p = q
    PROVE  \E s \in SetToSeqs(S) :
               \A i, j \in 1 .. Cardinality(S) : i < j => key[s[i]] < key[s[j]]
  <1> DEFINE n == Cardinality(S)
             Low(p) == {q \in S : key[q] < key[p]}
             rank == [p \in S |-> Cardinality(Low(p)) + 1]
  <1>1. n \in Nat /\ IsFiniteSet(1 .. n) /\ Cardinality(1 .. n) = n
    <2>1. n \in Nat
        BY FS_CardinalityType
    <2> HIDE DEF n
    <2>2. IsFiniteSet(1 .. n) /\ Cardinality(1 .. n) = IF 1 > n THEN 0 ELSE n - 1 + 1
        BY <2>1, FS_Interval
    <2> QED BY <2>1, <2>2
  <1>2. ASSUME NEW p \in S, NEW q \in S, key[p] < key[q]
        PROVE  Cardinality(Low(p)) < Cardinality(Low(q))
    <2>1. Low(p) \subseteq Low(q) /\ p \in Low(q) /\ p \notin Low(p) /\ Low(q) \subseteq S
        BY <1>2
    <2> HIDE DEF Low
    <2>2. IsFiniteSet(Low(q)) /\ IsFiniteSet(Low(p))
        BY <2>1, FS_Subset
    <2>3. Cardinality(Low(p)) \in Nat /\ Cardinality(Low(q)) \in Nat
        BY <2>2, FS_CardinalityType
    <2>4. Cardinality(Low(p)) <= Cardinality(Low(q)) /\ Cardinality(Low(q)) # Cardinality(Low(p))
        BY <2>1, <2>2, FS_Subset
    <2> QED BY <2>3, <2>4
  <1>3. ASSUME NEW p \in S PROVE rank[p] \in 1 .. n
    <2>1. Low(p) \subseteq S /\ p \notin Low(p)
        OBVIOUS
    <2>2. rank[p] = Cardinality(Low(p)) + 1
        OBVIOUS
    <2> HIDE DEF Low, rank
    <2>3. IsFiniteSet(Low(p)) /\ Cardinality(Low(p)) <= n /\ n # Cardinality(Low(p))
        BY <2>1, FS_Subset
    <2>4. Cardinality(Low(p)) \in Nat
        BY <2>3, FS_CardinalityType
    <2> HIDE DEF n
    <2> QED BY <1>1, <2>2, <2>3, <2>4
  <1>4. rank \in [S -> 1 .. n]
      BY <1>3
  <1>5. ASSUME NEW p \in S, NEW q \in S PROVE key[p] < key[q] <=> rank[p] < rank[q]
    <2>1. rank[p] = Cardinality(Low(p)) + 1 /\ rank[q] = Cardinality(Low(q)) + 1
        OBVIOUS
    <2>2. rank[p] \in Int /\ rank[q] \in Int /\ key[p] \in Int /\ key[q] \in Int
        BY <1>4, <1>1
    <2>3. IsFiniteSet(Low(p)) /\ IsFiniteSet(Low(q))
      <3>1. Low(p) \subseteq S /\ Low(q) \subseteq S
          OBVIOUS
      <3> HIDE DEF Low
      <3> QED BY <3>1, FS_Subset
    <2>4. Cardinality(Low(p)) \in Nat /\ Cardinality(Low(q)) \in Nat
      <3> HIDE DEF Low
      <3> QED BY <2>3, FS_CardinalityType
    <2>5. key[p] < key[q] => Cardinality(Low(p)) < Cardinality(Low(q))
        BY <1>2
    <2>6. key[q] < key[p] => Cardinality(Low(q)) < Cardinality(Low(p))
        BY <1>2
    <2>7. key[p] = key[q] => p = q
        OBVIOUS
    <2> HIDE DEF Low, rank
    <2> QED BY <2>1, <2>2, <2>4, <2>5, <2>6, <2>7
  <1> HIDE DEF rank
  <1>6. rank \in Injection(S, 1 .. n)
    <2>1. \A p, q \in S : rank[p] = rank[q] => p = q
        BY <1>4, <1>5, <1>1
    <2>2. IsInjective(rank)
        BY <1>4, <2>1 DEF IsInjective
    <2> QED BY <1>4, <2>2 DEF Injection
  <1>7. rank \in Surjection(S, 1 .. n)
    <2>1. Cardinality(S) = Cardinality(1 .. n)
        BY <1>1
    <2> HIDE DEF n
    <2> QED BY <1>1, <1>6, <2>1, FS_Injection
  <1>8. \A i \in 1 .. n : \E p \in S : rank[p] = i
      BY <1>7 DEF Surjection
  <1> DEFINE s == [i \in 1 .. n |-> CHOOSE p \in S : rank[p] = i]
  <1>9. \A i \in 1 .. n : s[i] \in S /\ rank[s[i]] = i
      BY <1>8
  <1>10. s \in [1 .. n -> S]
      BY <1>9
  <1> HIDE DEF s
  <1>11. s \in SetToSeqs(S)
      BY <1>9, <1>10 DEF SetToSeqs
  <1>12. \A i, j \in 1 .. n : i < j => key[s[i]] < key[s[j]]
      BY <1>5, <1>9
  <1> QED BY <1>11, <1>12

-----------------------------------------------------------------------------
(* The inductive invariant. *)

Item == [id : Ids, name : PoolNames, state : States \ {"none"}, vdevs : SUBSET Member,
         readonly : BOOLEAN]
ActiveFirst(l) ==
    \A j, k \in 1 .. Len(l) : j < k /\ l[k].state = "active" => l[j].state = "active"
Window == pools \in Machines /\ Pools \in Seq(Item) /\ ActiveFirst(Pools)

\* Until the timer of ProgramInit fires the list is empty and nothing in it was clicked.
Waiting == timer => Pools = <<>> /\ Disks = {} /\ clicked = None /\ menu \subseteq BlankMenu

\* The window shows the machine, unless it was told or will be told to look again.
Agree ==
    /\ ~timer /\ fresh /\ ~unseen
    /\ pc \in {"idle", "menu"} \/ (pc = "closing" /\ ~needRefresh)
    => Pools = Listing /\ Disks = Devs \ Marked

\* What an open menu was made for: a pool, a device of one, or neither.
OnItem == /\ lastSelectedPool \in 1 .. Len(Pools) /\ Pools[lastSelectedPool].id = clicked
          /\ menu = PoolMenu(lastSelectedPool)
OnDevice ==
    /\ menu \subseteq OnVdev /\ lastSelectedVdev \in [pool : 1 .. Len(Pools), dev : Devs]
    /\ Pools[lastSelectedVdev.pool].state = "active" /\ Shows(lastSelectedVdev.pool, VdevName)
    /\ \E k \in 1 .. Len(Pools) :
          Pools[k].id = clicked /\ Pools[k].state = "active" /\ Shows(k, VdevName)
OnBlank == menu = BlankMenu /\ (clicked # None => lastSelectedPool = None)
Chose == pc = "menu" => ~needRefresh /\ (OnItem \/ OnDevice \/ OnBlank)

\* The second half of a rename is for the pool that was clicked.
Renaming ==
    pc = "renaming" => /\ job \in [id : Ids \union {None}, name : PoolNames]
                       /\ clicked # None => job.id = clicked

PoolsInv == TypeOK /\ Window /\ Waiting /\ Agree /\ Chose /\ Renaming

-----------------------------------------------------------------------------
(* The list GetCurrentTopology makes. *)

LEMMA ItemsOf ==
    ASSUME pools \in Machines, NEW S \in SUBSET Ids, NEW s \in SetToSeqs(S),
           \A p \in S : pools[p].state # "none"
    PROVE  /\ Items(s) \in Seq(Item) /\ Len(Items(s)) = Cardinality(S)
           /\ \A k \in 1 .. Len(Items(s)) : \E p \in S : Items(s)[k] = Shown(p)
  <1>1. IsFiniteSet(S) /\ Cardinality(S) \in Nat
      BY ZPoolsAssumption, FS_Subset, FS_CardinalityType
  <1> DEFINE c == Cardinality(S)
  <1>2. s \in [1 .. c -> S]
      BY DEF SetToSeqs
  <1> HIDE DEF c
  <1>3. \A p \in S : Shown(p) \in Item
      BY DEF Shown, Item, Machines, Pool
  <1>4. Items(s) = [k \in 1 .. c |-> Shown(s[k])]
      BY <1>2 DEF Items
  <1>5. c \in Nat
      BY <1>1 DEF c
  <1> HIDE DEF Items, Shown
  <1>6. Items(s) \in [1 .. c -> Item]
      BY <1>2, <1>3, <1>4
  <1>7. Items(s) \in Seq(Item) /\ Len(Items(s)) = c
      BY <1>5, <1>6
  <1> QED BY <1>2, <1>4, <1>7 DEF c

LEMMA ActiveItems ==
    ASSUME pools \in Machines
    PROVE  /\ ActivePools \in Seq(Item)
           /\ \A k \in 1 .. Len(ActivePools) :
                 \E p \in In("active") : ActivePools[k] = Shown(p)
  <1> DEFINE S == In("active")
             key == [p \in S |-> pools[p].name]
  <1>1. S \subseteq Ids /\ IsFiniteSet(S) /\ \A p \in S : pools[p].state # "none"
      BY ZPoolsAssumption, FS_Subset DEF In
  <1>2. key \in [S -> Int] /\ \A p, q \in S : key[p] = key[q] => p = q
      BY ZPoolsAssumption DEF In, Machines, Pool
  <1>3. \A p, q \in S : ByName(p, q) <=> key[p] < key[q]
      BY DEF ByName
  <1> HIDE DEF S, key
  <1>4. PICK s \in SetToSeqs(S) : \A i, j \in 1 .. Cardinality(S) : i < j => key[s[i]] < key[s[j]]
      BY <1>1, <1>2, Arranged
  <1>5. \A i \in 1 .. Cardinality(S) : s[i] \in S
      BY DEF SetToSeqs
  <1>6. \A i, j \in 1 .. Cardinality(S) : i < j => ByName(s[i], s[j])
      BY <1>3, <1>4, <1>5
  <1>7. InOrder(S, ByName) \in SetToSeqs(S)
      BY <1>6 DEF InOrder
  <1> QED BY <1>1, <1>7, ItemsOf DEF ActivePools, S

LEMMA OtherItems ==
    ASSUME pools \in Machines, NEW state \in {"exported", "destroyed"}
    PROVE  /\ Items(InOrder(In(state), ById)) \in Seq(Item)
           /\ \A k \in 1 .. Len(Items(InOrder(In(state), ById))) :
                 \E p \in In(state) : Items(InOrder(In(state), ById))[k] = Shown(p)
  <1> DEFINE S == In(state)
             key == [p \in S |-> p]
  <1>1. S \subseteq Ids /\ IsFiniteSet(S) /\ \A p \in S : pools[p].state # "none"
      BY ZPoolsAssumption, FS_Subset DEF In
  <1>2. key \in [S -> Int] /\ \A p, q \in S : key[p] = key[q] => p = q
      BY <1>1, ZPoolsAssumption
  <1>3. \A p, q \in S : ById(p, q) <=> key[p] < key[q]
      BY DEF ById
  <1> HIDE DEF S, key
  <1>4. PICK s \in SetToSeqs(S) : \A i, j \in 1 .. Cardinality(S) : i < j => key[s[i]] < key[s[j]]
      BY <1>1, <1>2, Arranged
  <1>5. \A i \in 1 .. Cardinality(S) : s[i] \in S
      BY DEF SetToSeqs
  <1>6. \A i, j \in 1 .. Cardinality(S) : i < j => ById(s[i], s[j])
      BY <1>3, <1>4, <1>5
  <1>7. InOrder(S, ById) \in SetToSeqs(S)
      BY <1>6 DEF InOrder
  <1> QED BY <1>1, <1>7, ItemsOf DEF S

LEMMA ListingItems ==
    ASSUME pools \in Machines
    PROVE  /\ Listing \in Seq(Item) /\ ActiveFirst(Listing)
           /\ \A k \in 1 .. Len(Listing) : \E p \in Ids : Listing[k] = Shown(p)
  <1>1. /\ ActivePools \in Seq(Item)
        /\ \A k \in 1 .. Len(ActivePools) : \E p \in In("active") : ActivePools[k] = Shown(p)
      BY ActiveItems
  <1>2. /\ ExportedPools \in Seq(Item)
        /\ \A k \in 1 .. Len(ExportedPools) : \E p \in In("exported") : ExportedPools[k] = Shown(p)
      BY OtherItems DEF ExportedPools
  <1>3. /\ DestroyedPools \in Seq(Item)
        /\ \A k \in 1 .. Len(DestroyedPools) : \E p \in In("destroyed") : DestroyedPools[k] = Shown(p)
      BY OtherItems DEF DestroyedPools
  <1>4. Listing \in Seq(Item)
      BY <1>1, <1>2, <1>3 DEF Listing
  <1>5. \A k \in 1 .. Len(Listing) :
            \/ k <= Len(ActivePools) /\ \E p \in In("active") : Listing[k] = Shown(p)
            \/ k > Len(ActivePools) /\ \E p \in In("exported") \union In("destroyed") : Listing[k] = Shown(p)
    <2> SUFFICES ASSUME NEW k \in 1 .. Len(Listing), NEW A, A = ActivePools, NEW E, E = ExportedPools,
                        NEW D, D = DestroyedPools
                 PROVE  \/ k <= Len(A) /\ \E p \in In("active") : Listing[k] = Shown(p)
                        \/ k > Len(A) /\ \E p \in In("exported") \union In("destroyed") : Listing[k] = Shown(p)
        OBVIOUS
    <2>1. A \in Seq(Item) /\ E \in Seq(Item) /\ D \in Seq(Item) /\ Listing = A \o E \o D
        BY <1>1, <1>2, <1>3 DEF Listing
    <2>2. CASE k \in 1 .. Len(A)
      <3>1. Listing[k] = A[k]
          BY <2>1, <2>2
      <3> QED BY <1>1, <2>1, <2>2, <3>1
    <2>3. CASE k - Len(A) \in 1 .. Len(E)
      <3>1. Listing[k] = E[k - Len(A)] /\ k > Len(A)
          BY <2>1, <2>3
      <3> QED BY <1>2, <2>3, <3>1
    <2>4. CASE k - Len(A) - Len(E) \in 1 .. Len(D)
      <3>1. Listing[k] = D[k - Len(A) - Len(E)] /\ k > Len(A)
          BY <2>1, <2>4
      <3> QED BY <1>3, <2>4, <3>1
    <2>5. Len(Listing) = Len(A) + Len(E) + Len(D)
        BY <2>1
    <2> QED BY <2>1, <2>2, <2>3, <2>4, <2>5
  <1>6. \A p \in In("active") : p \in Ids /\ Shown(p).state = "active"
      BY DEF In, Shown
  <1>7. \A p \in In("exported") \union In("destroyed") : p \in Ids /\ Shown(p).state # "active"
      BY DEF In, Shown
  <1>8. Len(ActivePools) \in Nat /\ Len(Listing) \in Nat
      BY <1>1, <1>4
  <1>9. ActiveFirst(Listing)
      BY <1>5, <1>6, <1>7, <1>8 DEF ActiveFirst
  <1> QED BY <1>4, <1>5, <1>6, <1>7, <1>9

-----------------------------------------------------------------------------
(* zpool(8): every command keeps the names of active pools apart, and changes the pool it  *)
(* was given.                                                                              *)

\* Apart from pool c, a machine f has only a new pool, or less of what was left of a destroyed one.
Spares(c, f) ==
    \A p \in Ids \ {c} : \/ f[p] = pools[p]
                         \/ pools[p].state = "none" /\ f[p].state = "active"
                         \/ pools[p].state = "destroyed" /\ f[p].state = "none"

LEMMA WipedKeeps ==
    ASSUME pools \in Machines, NEW S
    PROVE  /\ Wiped(S) \in Machines
           /\ \A p \in Ids : Wiped(S)[p] = pools[p]
                             \/ (pools[p].state = "destroyed" /\ Wiped(S)[p] = [pools[p] EXCEPT !.state = "none"])
  <1>1. pools \in [Ids -> Pool]
      BY DEF Machines
  <1>2. \A p \in Ids : [pools[p] EXCEPT !.state = "none"] \in Pool
      BY <1>1 DEF Pool, States
  <1>3. Wiped(S) \in [Ids -> Pool]
      BY <1>1, <1>2 DEF Wiped
  <1>4. \A p \in Ids : Wiped(S)[p] = pools[p]
                       \/ (pools[p].state = "destroyed" /\ Wiped(S)[p] = [pools[p] EXCEPT !.state = "none"])
      BY DEF Wiped
  <1>5. \A p \in Ids : Wiped(S)[p].state = "active" => Wiped(S)[p] = pools[p]
      BY <1>1, <1>4 DEF Pool
  <1> HIDE DEF Wiped
  <1> QED BY <1>3, <1>4, <1>5 DEF Machines

LEMMA ChangedKeeps ==
    ASSUME pools \in Machines, NEW p \in Ids, NEW out, NEW in \in SUBSET Member, NEW S
    PROVE  Changed(p, out, in, S) \in Machines /\ Spares(p, Changed(p, out, in, S))
  <1> DEFINE w == Wiped(S)
             f == Changed(p, out, in, S)
  <1>1. w \in Machines /\ w \in [Ids -> Pool] /\ pools \in [Ids -> Pool]
      BY WipedKeeps DEF Machines
  <1>2. \A q \in Ids : w[q] = pools[q]
                       \/ (pools[q].state = "destroyed" /\ w[q] = [pools[q] EXCEPT !.state = "none"])
      BY WipedKeeps
  <1>3. f = [w EXCEPT ![p].vdevs = (@ \ out) \union in]
      BY DEF Changed
  <1> HIDE DEF w, f
  <1>4. f \in [Ids -> Pool]
      BY <1>1, <1>3 DEF Pool
  <1>5. \A q \in Ids : f[q].state = w[q].state /\ f[q].name = w[q].name /\ (q # p => f[q] = w[q])
      BY <1>1, <1>3 DEF Pool
  <1>6. f \in Machines
      BY <1>1, <1>4, <1>5 DEF Machines
  <1>7. \A q \in Ids : pools[q].state = "destroyed" /\ w[q] = [pools[q] EXCEPT !.state = "none"]
                          => w[q].state = "none"
      BY <1>1 DEF Pool
  <1>8. Spares(p, f)
      BY <1>2, <1>5, <1>7 DEF Spares
  <1> QED BY <1>6, <1>8 DEF f

LEMMA Leaving ==
    ASSUME pools \in Machines, NEW n, NEW state \in {"destroyed", "exported"},
           NEW f \in zpool_leave(n, state)
    PROVE  f \in Machines /\ \E c \in Active(n) : Spares(c, f)
  <1>1. PICK p \in Active(n) : f = [pools EXCEPT ![p] = Leave(p, state)]
      BY DEF zpool_leave
  <1>2. p \in Ids /\ pools \in [Ids -> Pool]
      BY <1>1 DEF Active, Machines
  <1>3. Leave(p, state) \in Pool /\ Leave(p, state).state # "active"
    <2>1. CASE pools[p].was = None
        BY <1>2, <2>1 DEF Leave, Pool, States
    <2>2. CASE pools[p].was # None
      <3>1. pools[p].was \in [state : {"exported", "destroyed"}, name : PoolNames]
          BY <1>2, <2>2 DEF Pool
      <3> QED BY <1>2, <2>2, <3>1, ZPoolsAssumption DEF Leave, Pool, States
    <2> QED BY <2>1, <2>2
  <1> HIDE DEF Leave
  <1>4. f \in [Ids -> Pool] /\ f[p].state # "active" /\ \A q \in Ids \ {p} : f[q] = pools[q]
      BY <1>1, <1>2, <1>3
  <1>5. f \in Machines
      BY <1>2, <1>4 DEF Machines
  <1> QED BY <1>1, <1>4, <1>5 DEF Spares

LEMMA Importing ==
    ASSUME pools \in Machines, NEW p \in Ids, NEW from \in {"exported", "destroyed"}, NEW n \in PoolNames,
           NEW ro \in BOOLEAN, NEW f \in zpool_import(p, from, n, ro)
    PROVE  f \in Machines /\ Spares(p, f)
  <1> DEFINE was == IF ro THEN [state |-> from, name |-> pools[p].name] ELSE None
  <1>1. Active(n) = {} /\ f = [pools EXCEPT ![p].state = "active", ![p].name = n, ![p].was = was]
      BY DEF zpool_import
  <1>2. pools \in [Ids -> Pool]
      BY DEF Machines
  <1>3. was \in [state : {"exported", "destroyed"}, name : PoolNames] \union {None}
      BY <1>2 DEF Pool
  <1> HIDE DEF was
  <1>4. f \in [Ids -> Pool] /\ f[p].name = n /\ \A q \in Ids \ {p} : f[q] = pools[q]
      BY <1>1, <1>2, <1>3 DEF Pool, States
  <1>5. \A q \in Ids : ~(pools[q].state = "active" /\ pools[q].name = n)
      BY <1>1 DEF Active
  <1>6. f \in Machines
      BY <1>4, <1>5 DEF Machines
  <1> QED BY <1>4, <1>6 DEF Spares

LEMMA AddedType ==
    ASSUME NEW g \in Groups, NEW S \in SUBSET Devs
    PROVE  Added(g, S) \subseteq Member
  <1>1. \A d \in S : [dev |-> d, group |-> g, offline |-> FALSE] \in Member
      BY DEF Member
  <1> QED BY <1>1 DEF Added

LEMMA Creating ==
    ASSUME pools \in Machines, NEW n \in PoolNames, NEW g \in {"stripe", "mirror"}, NEW S \in SUBSET Devs,
           NEW f \in zpool_create(n, g, S)
    PROVE  f \in Machines /\ \A c : Spares(c, f)
  <1> DEFINE w == Wiped(S)
             new(p) == [state |-> "active", name |-> n, was |-> None,
                        vdevs |-> Added(IF g = "mirror" THEN CHOOSE x \in Mirrors : TRUE ELSE g, S)]
  <1>1. PICK p \in Ids : pools[p].state = "none" /\ Active(n) = {} /\ f = [w EXCEPT ![p] = new(p)]
      BY DEF zpool_create
  <1>2. w \in Machines /\ w \in [Ids -> Pool] /\ pools \in [Ids -> Pool]
      BY WipedKeeps DEF Machines
  <1>3. \A q \in Ids : w[q] = pools[q]
                       \/ (pools[q].state = "destroyed" /\ w[q] = [pools[q] EXCEPT !.state = "none"])
      BY WipedKeeps
  <1>4. new(p) \in Pool /\ new(p).state = "active" /\ new(p).name = n
    <2>1. (CHOOSE x \in Mirrors : TRUE) \in Mirrors
        BY ZPoolsAssumption
    <2>2. (IF g = "mirror" THEN CHOOSE x \in Mirrors : TRUE ELSE g) \in Groups
        BY <2>1 DEF Groups
    <2>3. Added(IF g = "mirror" THEN CHOOSE x \in Mirrors : TRUE ELSE g, S) \subseteq Member
        BY <2>2, AddedType
    <2> QED BY <2>3 DEF Pool, States
  <1> HIDE DEF w, new
  <1>5. f \in [Ids -> Pool] /\ f[p] = new(p) /\ \A q \in Ids \ {p} : f[q] = w[q]
      BY <1>1, <1>2, <1>4
  <1>6. \A q \in Ids : ~(pools[q].state = "active" /\ pools[q].name = n)
      BY <1>1 DEF Active
  <1>7. \A q \in Ids : pools[q].state = "destroyed" /\ w[q] = [pools[q] EXCEPT !.state = "none"]
                          => w[q].state = "none"
      BY <1>2 DEF Pool
  <1>8. \A q \in Ids : w[q].state = "active" => w[q] = pools[q]
      BY <1>3, <1>7
  <1>9. f \in Machines
      BY <1>4, <1>5, <1>6, <1>8 DEF Machines
  <1>10. \A c : Spares(c, f)
      BY <1>1, <1>3, <1>4, <1>5, <1>7 DEF Spares
  <1> QED BY <1>9, <1>10

\* The changes to the devices of the pool named n.
Edits(n) == {f \in Machines : \E c \in Active(n) : Spares(c, f)}

LEMMA Edited ==
    ASSUME pools \in Machines, NEW n, NEW p \in Writable(n), NEW out, NEW in \in SUBSET Member, NEW S
    PROVE  Changed(p, out, in, S) \in Edits(n)
  BY ChangedKeeps DEF Edits, Writable, Active

LEMMA NewGroupType ==
    ASSUME NEW p, NEW g \in {"stripe", "mirror", "log", "cache", "spare"}, NEW x \in NewGroup(p, g)
    PROVE  x \in Groups /\ (g = "mirror" => x \in Mirrors)
  <1>1. CASE g # "mirror"
      BY <1>1 DEF NewGroup, Groups
  <1>2. CASE g = "mirror"
    <2> DEFINE free == {y \in Mirrors : \A m \in pools[p].vdevs : m.group # y}
    <2>1. free # {} /\ x = CHOOSE y \in free : TRUE
        BY <1>2 DEF NewGroup
    <2> QED BY <2>1 DEF Groups
  <1> QED BY <1>1, <1>2

LEMMA Adding ==
    ASSUME pools \in Machines, NEW n, NEW g \in {"stripe", "mirror", "log", "cache", "spare"},
           NEW S \in SUBSET Devs
    PROVE  zpool_add(n, g, S) \subseteq Edits(n)
  <1> SUFFICES ASSUME NEW p \in Writable(n), NEW x \in NewGroup(p, g)
               PROVE  Changed(p, {}, Added(x, S), S) \in Edits(n)
      BY DEF zpool_add
  <1>1. Added(x, S) \subseteq Member
      BY NewGroupType, AddedType
  <1> QED BY <1>1, Edited

LEMMA SlotType ==
    ASSUME pools \in Machines, NEW n, NEW d, NEW G, NEW x \in Slots(n, d, G)
    PROVE  /\ x[1] \in Writable(n) /\ x[1] \in Ids /\ x[2] \in Member /\ x[2].group \in G
           /\ Partners(x) \subseteq Member
  BY DEF Slots, Writable, Active, Partners, Machines, Pool

LEMMA Attaching ==
    ASSUME pools \in Machines, NEW n, NEW d, NEW new \in Devs
    PROVE  zpool_attach(n, d, new) \subseteq Edits(n)
  <1> SUFFICES ASSUME NEW x \in Slots(n, d, {"stripe"} \union Mirrors),
                      NEW g \in IF x[2].group \in Mirrors THEN {x[2].group} ELSE NewGroup(x[1], "mirror")
               PROVE  Changed(x[1], {x[2]}, {[x[2] EXCEPT !.group = g]} \union Added(g, {new}), {new})
                          \in Edits(n)
    <2> DEFINE C(x, g) == Changed(x[1], {x[2]}, {[x[2] EXCEPT !.group = g]} \union Added(g, {new}), {new})
               T == Slots(n, d, {"stripe"} \union Mirrors)
               G(x) == IF x[2].group \in Mirrors THEN {x[2].group} ELSE NewGroup(x[1], "mirror")
    <2>1. zpool_attach(n, d, new) = IF Live(new) THEN {} ELSE UNION {{C(x, g) : g \in G(x)} : x \in T}
        BY DEF zpool_attach
    <2>2. \A x \in T : \A g \in G(x) : C(x, g) \in Edits(n)
        OBVIOUS
    <2> HIDE DEF C, T, G
    <2> QED BY <2>1, <2>2
  <1>1. x[1] \in Writable(n) /\ x[2] \in Member
      BY SlotType
  <1>2. g \in Groups
      BY NewGroupType DEF Groups
  <1>3. [x[2] EXCEPT !.group = g] \in Member
      BY <1>1, <1>2 DEF Member
  <1>4. {[x[2] EXCEPT !.group = g]} \union Added(g, {new}) \subseteq Member
      BY <1>2, <1>3, AddedType
  <1> QED BY <1>1, <1>4, Edited

LEMMA Detaching ==
    ASSUME pools \in Machines, NEW n, NEW d
    PROVE  zpool_detach(n, d) \subseteq Edits(n)
  <1> SUFFICES ASSUME NEW x \in Slots(n, d, Mirrors)
               PROVE  Changed(x[1], {x[2]} \union Partners(x),
                              IF Cardinality(Partners(x)) > 1 THEN Partners(x)
                              ELSE {[m EXCEPT !.group = "stripe"] : m \in Partners(x)}, {}) \in Edits(n)
      BY DEF zpool_detach
  <1>1. x[1] \in Writable(n) /\ Partners(x) \subseteq Member
      BY SlotType
  <1>2. {[m EXCEPT !.group = "stripe"] : m \in Partners(x)} \subseteq Member
      BY <1>1 DEF Member, Groups
  <1> QED BY <1>1, <1>2, Edited

LEMMA Switching ==
    ASSUME pools \in Machines, NEW n, NEW d
    PROVE  /\ zpool_offline(n, d) \subseteq Edits(n) /\ zpool_online(n, d) \subseteq Edits(n)
           /\ zpool_remove(n, d) \subseteq Edits(n)
  <1>1. ASSUME NEW G, NEW x \in Slots(n, d, G), NEW off \in BOOLEAN
        PROVE  Changed(x[1], {x[2]}, {[x[2] EXCEPT !.offline = off]}, {}) \in Edits(n)
    <2>1. x[1] \in Writable(n) /\ x[2] \in Member
        BY <1>1, SlotType
    <2>2. {[x[2] EXCEPT !.offline = off]} \subseteq Member
        BY <2>1 DEF Member
    <2> QED BY <2>1, <2>2, Edited
  <1>2. ASSUME NEW G, NEW x \in Slots(n, d, G)
        PROVE  Changed(x[1], {x[2]}, {}, {}) \in Edits(n)
    <2>1. x[1] \in Writable(n)
        BY <1>2, SlotType
    <2> QED BY <2>1, Edited
  <1> HIDE DEF Edits, Slots, Changed
  <1>3. zpool_offline(n, d) \subseteq Edits(n)
      BY <1>1 DEF zpool_offline
  <1>4. zpool_online(n, d) \subseteq Edits(n)
      BY <1>1 DEF zpool_online
  <1>5. zpool_remove(n, d) \subseteq Edits(n)
      BY <1>2 DEF zpool_remove
  <1> QED BY <1>3, <1>4, <1>5

-----------------------------------------------------------------------------
(* Every action keeps the invariant. *)

\* What is shown depends on the machine only.
LEMMA SameMachine ==
    ASSUME pools' = pools
    PROVE  Listing' = Listing /\ Marked' = Marked
  BY DEF Listing, ActivePools, ExportedPools, DestroyedPools, Items, InOrder, In, ByName, ById, Shown,
         Marked, Live, Holds

LEMMA InitPoolsInv == Init => PoolsInv
  <1> SUFFICES ASSUME Init PROVE PoolsInv
      OBVIOUS
  <1>1. pools \in Machines /\ pools \in [Ids -> Pool]
      BY ZPoolsAssumption DEF Init, Machines
  <1>2. TypeOK
    <2>1. menus \in 0 .. MaxMenus /\ others \in 0 .. MaxOther
        BY ZPoolsAssumption DEF Init
    <2>2. \A k \in 1 .. Len(Pools) : FALSE
        BY DEF Init
    <2> QED BY <1>1, <2>1, <2>2 DEF Init, TypeOK
  <1>3. Window
      BY <1>1 DEF Init, Window, ActiveFirst
  <1> QED BY <1>2, <1>3 DEF Init, PoolsInv, Waiting, Agree, Chose, Renaming

LEMMA Stuttering == PoolsInv /\ UNCHANGED vars => PoolsInv'
  <1> SUFFICES ASSUME PoolsInv, UNCHANGED vars PROVE PoolsInv'
      OBVIOUS
  <1> USE DEF vars, window, selection
  <1>1. TypeOK' BY DEF PoolsInv, TypeOK
  <1>2. Window' BY DEF PoolsInv, Window, ActiveFirst
  <1>3. Waiting' BY DEF PoolsInv, Waiting
  <1>4. Agree' BY SameMachine DEF PoolsInv, Agree
  <1>5. Chose'
      BY DEF PoolsInv, Chose, OnItem, OnDevice, OnBlank, PoolMenu, Shows, VdevName
  <1>6. Renaming' BY DEF PoolsInv, Renaming
  <1> QED BY <1>1, <1>2, <1>3, <1>4, <1>5, <1>6 DEF PoolsInv

\* A slot ends with the menu: what it did is to be shown, or was printed, or is nothing.
LEMMA SlotEnds ==
    ASSUME PoolsInv, pc = "menu", Slot, pools' \in Machines,
           \/ needRefresh' = TRUE /\ UNCHANGED unseen
           \/ unseen' = TRUE /\ UNCHANGED needRefresh
           \/ UNCHANGED <<pools, unseen, needRefresh>>
    PROVE  PoolsInv'
  <1> USE DEF Slot, window, selection
  <1>1. TypeOK'
      BY DEF PoolsInv, TypeOK, Machines
  <1>2. Window'
      BY DEF PoolsInv, Window, ActiveFirst
  <1>3. Waiting'
      BY DEF PoolsInv, Waiting
  <1>4. Agree'
      BY SameMachine DEF PoolsInv, Agree
  <1>5. Chose' /\ Renaming'
      BY DEF Chose, Renaming
  <1> QED BY <1>1, <1>2, <1>3, <1>4, <1>5 DEF PoolsInv

\* A command that zpool(8) ran, refused or ran with a warning.
LEMMA CommandEnds ==
    ASSUME PoolsInv, pc = "menu", Slot, NEW W, \A f \in W : f \in Machines,
           \/ pools' \in W /\ needRefresh' = TRUE /\ UNCHANGED unseen
           \/ pools' \in W /\ unseen' = TRUE /\ UNCHANGED needRefresh
           \/ UNCHANGED <<pools, unseen, needRefresh>>
    PROVE  PoolsInv'
  <1>1. pools' \in Machines
      BY DEF PoolsInv, Window
  <1> QED BY <1>1, SlotEnds

\* The commands on a pool and on its devices, by their names.
LEMMA CommandsKeep ==
    ASSUME PoolsInv,
           \/ zpoolCreate \/ zpoolAdd \/ zpoolDestroy \/ zpoolExport \/ zpoolScrub \/ zpoolEditProperties
           \/ zpoolAttachDevice \/ zpoolDetachDevice \/ zpoolOfflineDevice \/ zpoolOnlineDevice
           \/ zpoolRemoveDevice \/ Escape
    PROVE  PoolsInv'
  <1>1. pools \in Machines /\ Disks \subseteq Devs
      BY DEF PoolsInv, Window, TypeOK
  <1> HIDE DEF Machines
  <1>2. ASSUME NEW W, \A f \in W : f \in Machines, NEW e, Chosen(e), Slot, zpool(W) PROVE PoolsInv'
      BY <1>2, CommandEnds DEF zpool, Did, Printed, Chosen
  <1>3. ASSUME zpoolCreate PROVE PoolsInv'
    <2>1. PICK n \in PoolNames, g \in {"stripe", "mirror"}, S \in Picked : zpool(zpool_create(n, g, S))
        BY <1>3 DEF zpoolCreate
    <2>2. S \in SUBSET Devs
        BY <1>1 DEF Picked
    <2>3. \A f \in zpool_create(n, g, S) : f \in Machines
        BY <1>1, <2>2, Creating
    <2> QED BY <1>2, <1>3, <2>1, <2>3 DEF zpoolCreate
  <1>4. ASSUME zpoolAdd PROVE PoolsInv'
    <2>1. PICK g \in {"stripe", "mirror", "log", "cache", "spare"}, S \in Picked :
              zpool(zpool_add(SelName, g, S))
        BY <1>4 DEF zpoolAdd
    <2>2. S \in SUBSET Devs
        BY <1>1 DEF Picked
    <2>3. \A f \in zpool_add(SelName, g, S) : f \in Machines
        BY <1>1, <2>2, Adding DEF Edits
    <2> QED BY <1>2, <1>4, <2>1, <2>3 DEF zpoolAdd
  <1>5. ASSUME NEW state \in {"destroyed", "exported"}
        PROVE  \A f \in zpool_leave(SelName, state) : f \in Machines
      BY <1>1, Leaving
  <1>6. zpoolDestroy => PoolsInv'
      BY <1>2, <1>5 DEF zpoolDestroy
  <1>7. zpoolExport => PoolsInv'
      BY <1>2, <1>5 DEF zpoolExport
  <1>8. zpoolScrub => PoolsInv'
    <2>1. \A f \in {pools} : f \in Machines
        BY <1>1
    <2> QED BY <1>2, <2>1 DEF zpoolScrub
  <1>9. zpoolEditProperties => PoolsInv'
      BY <1>1, SlotEnds DEF zpoolEditProperties, Chosen
  <1>10. ASSUME zpoolAttachDevice PROVE PoolsInv'
    <2>1. PICK d \in Disks : zpool(zpool_attach(VdevPool, VdevName, d))
        BY <1>10 DEF zpoolAttachDevice
    <2>2. \A f \in zpool_attach(VdevPool, VdevName, d) : f \in Machines
        BY <1>1, Attaching DEF Edits
    <2> QED BY <1>2, <1>10, <2>1, <2>2 DEF zpoolAttachDevice
  <1>11. zpoolDetachDevice => PoolsInv'
    <2>1. \A f \in zpool_detach(VdevPool, VdevName) : f \in Machines
        BY <1>1, Detaching DEF Edits
    <2> QED BY <1>2, <2>1 DEF zpoolDetachDevice
  <1>12. /\ \A f \in zpool_offline(VdevPool, VdevName) : f \in Machines
         /\ \A f \in zpool_online(VdevPool, VdevName) : f \in Machines
         /\ \A f \in zpool_remove(VdevPool, VdevName) : f \in Machines
      BY <1>1, Switching DEF Edits
  <1>13. zpoolOfflineDevice \/ zpoolOnlineDevice \/ zpoolRemoveDevice => PoolsInv'
      BY <1>2, <1>12 DEF zpoolOfflineDevice, zpoolOnlineDevice, zpoolRemoveDevice
  <1>14. Escape => PoolsInv'
      BY <1>1, SlotEnds DEF Escape
  <1> QED BY <1>3, <1>4, <1>6, <1>7, <1>8, <1>9, <1>10, <1>11, <1>13, <1>14

LEMMA ItemAt ==
    ASSUME Window, NEW k \in 1 .. Len(Pools)
    PROVE  Pools[k] \in Item /\ Pools[k].state \in {"active", "exported", "destroyed"}
  <1>1. Pools[k] \in Item
      BY DEF Window
  <1> QED BY <1>1 DEF Item, States

\* The entry import is offered for pools that are exported or destroyed.
LEMMA ForImport ==
    ASSUME PoolsInv, Chosen("import")
    PROVE  /\ OnItem /\ Pools[lastSelectedPool].id \in Ids
           /\ Pools[lastSelectedPool].state \in {"exported", "destroyed"}
  <1>1. OnItem
      BY DEF PoolsInv, Chose, Chosen, OnDevice, OnVdev, OnBlank, BlankMenu
  <1>2. /\ Pools[lastSelectedPool] \in Item
        /\ Pools[lastSelectedPool].state \in {"active", "exported", "destroyed"}
      BY <1>1, ItemAt DEF PoolsInv, OnItem
  <1>3. Pools[lastSelectedPool].state # "active"
      BY <1>1 DEF OnItem, PoolMenu, Chosen
  <1> QED BY <1>1, <1>2, <1>3 DEF Item

LEMMA ImportKeeps == PoolsInv /\ zpoolImport => PoolsInv'
  <1> SUFFICES ASSUME PoolsInv, zpoolImport PROVE PoolsInv'
      OBVIOUS
  <1> DEFINE p == Pools[lastSelectedPool].id
             from == Pools[lastSelectedPool].state
  <1>1. pools \in Machines /\ p \in Ids /\ from \in {"exported", "destroyed"}
      BY ForImport DEF PoolsInv, Window, zpoolImport
  <1>2. PICK n \in PoolNames, ro \in BOOLEAN : zpool(zpool_import(p, from, n, ro))
      BY DEF zpoolImport
  <1> HIDE DEF p, from
  <1>3. \A f \in zpool_import(p, from, n, ro) : f \in Machines
      BY <1>1, Importing
  <1> QED BY <1>2, <1>3, CommandEnds DEF zpool, Did, Printed, zpoolImport, Chosen

LEMMA RenameKeeps == PoolsInv /\ zpoolRename => PoolsInv'
  <1> SUFFICES ASSUME PoolsInv, zpoolRename PROVE PoolsInv'
      OBVIOUS
  <1> DEFINE W == zpool_leave(SelName, "exported")
  <1>1. pools \in Machines /\ \A f \in W : f \in Machines
      BY Leaving DEF PoolsInv, Window
  <1> HIDE DEF W
  <1>2. /\ pc = "menu" /\ UNCHANGED <<window, selection, fresh, menus, others, needRefresh>>
        /\ \/ pc' \in {"closing", "undefined"} /\ UNCHANGED <<pools, job, unseen>>
           \/ /\ lastSelectedPool \notin {None, Stale} /\ pools' \in W /\ pc' = "renaming" /\ UNCHANGED unseen
              /\ \E n \in PoolNames : job' = [id |-> IF Pools[lastSelectedPool].state = "active"
                                                     THEN Pools[lastSelectedPool].id ELSE None, name |-> n]
           \/ pools' \in W /\ pc' = "closing" /\ unseen' = TRUE /\ UNCHANGED job
      BY DEF zpoolRename, W, Chosen
  <1>3. pools' \in Machines
      BY <1>1, <1>2
  <1>4. lastSelectedPool \notin {None, Stale} => Pools[lastSelectedPool].id \in Ids
      BY DEF PoolsInv, TypeOK
  <1>5. TypeOK'
    <2>1. job' \in {None} \union [id : Ids \union {None}, name : PoolNames]
        BY <1>2, <1>4 DEF PoolsInv, TypeOK
    <2> QED BY <1>2, <1>3, <2>1 DEF PoolsInv, TypeOK, Machines, window, selection
  <1>6. Window' /\ Waiting'
      BY <1>2, <1>3 DEF PoolsInv, Window, Waiting, ActiveFirst, window, selection
  <1>7. Agree'
      BY <1>2, SameMachine DEF PoolsInv, Agree, window
  <1>8. Chose'
      BY <1>2 DEF Chose
  <1>9. Renaming'
    <2> SUFFICES ASSUME pc' = "renaming"
                 PROVE  /\ job' \in [id : Ids \union {None}, name : PoolNames]
                        /\ clicked' # None => job'.id = clicked'
        BY DEF Renaming
    <2>1. lastSelectedPool \notin {None, Stale} /\ clicked' = clicked
        BY <1>2 DEF selection
    <2>2. clicked # None => OnItem
      <3>1. "rename" \in menu
          BY DEF zpoolRename, Chosen
      <3> QED BY <1>2, <2>1, <3>1 DEF PoolsInv, Chose, OnDevice, OnVdev, OnBlank
    <2>3. OnItem => Pools[lastSelectedPool].state = "active"
      <3> SUFFICES ASSUME OnItem PROVE Pools[lastSelectedPool].state = "active"
          OBVIOUS
      <3>1. Pools[lastSelectedPool].state \in {"active", "exported", "destroyed"}
          BY ItemAt DEF PoolsInv, OnItem
      <3>2. "rename" \in PoolMenu(lastSelectedPool)
          BY DEF zpoolRename, Chosen, OnItem
      <3> QED BY <3>1, <3>2 DEF PoolMenu
    <2>4. \E n \in PoolNames : job' = [id |-> IF Pools[lastSelectedPool].state = "active"
                                              THEN Pools[lastSelectedPool].id ELSE None, name |-> n]
        BY <1>2
    <2> QED BY <1>4, <2>1, <2>2, <2>3, <2>4 DEF OnItem
  <1> QED BY <1>5, <1>6, <1>7, <1>8, <1>9 DEF PoolsInv

LEMMA Rename2Keeps == PoolsInv /\ zpoolRename2 => PoolsInv'
  <1> SUFFICES ASSUME PoolsInv, zpoolRename2 PROVE PoolsInv'
      OBVIOUS
  <1> DEFINE named == {p \in Ids : pools[p].state = "exported" /\ pools[p].name = job.name}
             W == IF job.id # None THEN zpool_import(job.id, "exported", job.name, FALSE)
                  ELSE IF Cardinality(named) = 1 THEN zpool_import(CHOOSE p \in named : TRUE, "exported", job.name, FALSE)
                  ELSE {}
  <1>1. pools \in Machines /\ job \in [id : Ids \union {None}, name : PoolNames]
      BY DEF PoolsInv, Window, Renaming, zpoolRename2
  <1>2. \A f \in W : f \in Machines
    <2>1. \A p \in Ids : \A f \in zpool_import(p, "exported", job.name, FALSE) : f \in Machines
        BY <1>1, Importing
    <2>2. ASSUME Cardinality(named) = 1 PROVE (CHOOSE p \in named : TRUE) \in Ids
      <3>1. named # {}
          BY <2>2, FS_EmptySet
      <3> QED BY <3>1
    <2> HIDE DEF named
    <2> QED BY <1>1, <2>1, <2>2
  <1>3. /\ pc = "renaming" /\ pc' = "closing" /\ job' = None
        /\ \/ pools' \in W /\ needRefresh' = TRUE /\ UNCHANGED unseen
           \/ pools' \in W \union {pools} /\ unseen' = TRUE /\ UNCHANGED needRefresh
        /\ UNCHANGED <<window, selection, fresh, menus, others>>
      BY DEF zpoolRename2, Did
  <1> HIDE DEF W
  <1>4. pools' \in Machines
      BY <1>1, <1>2, <1>3
  <1>5. TypeOK'
      BY <1>3, <1>4 DEF PoolsInv, TypeOK, Machines, window, selection
  <1>6. Window' /\ Waiting'
      BY <1>3, <1>4 DEF PoolsInv, Window, Waiting, ActiveFirst, window, selection
  <1>7. Agree' /\ Chose' /\ Renaming'
      BY <1>3 DEF Agree, Chose, Renaming
  <1> QED BY <1>5, <1>6, <1>7 DEF PoolsInv

\* The items of a list have their types.
ItemsTyped(l) == \A k \in 1 .. Len(l) : /\ l[k].id \in Ids /\ l[k].state \in States \ {"none"}
                                        /\ l[k].vdevs \subseteq Member

\* A refresh shows the machine and leaves no pointer into the old list.
LEMMA Refreshed ==
    ASSUME PoolsInv, refreshState, pools' = pools
    PROVE  /\ Window' /\ Pools' = Listing' /\ Disks' = Devs \ Marked' /\ Disks' \subseteq Devs
           /\ ItemsTyped(Pools)'
           /\ timer' = FALSE /\ fresh' = TRUE /\ unseen' = FALSE
           /\ lastSelectedPool' \in {None, Stale} /\ lastSelectedVdev' \in {None, Stale}
           /\ lastSelectedPool = None => lastSelectedPool' = None
  <1>1. pools \in Machines /\ Listing \in Seq(Item) /\ ActiveFirst(Listing)
      BY ListingItems DEF PoolsInv, Window
  <1>2. Pools' = Listing /\ Disks' = Devs \ Marked /\ Listing' = Listing /\ Marked' = Marked
      BY SameMachine DEF refreshState
  <1>3. Pools' \in Seq(Item) /\ ActiveFirst(Pools)'
      BY <1>1, <1>2 DEF ActiveFirst
  <1>4. Window'
      BY <1>1, <1>3 DEF Window
  <1>5. ItemsTyped(Pools)'
    <2>1. \A k \in 1 .. Len(Pools') : Pools'[k] \in Item
        BY <1>3
    <2> QED BY <2>1 DEF ItemsTyped, Item
  <1> QED BY <1>2, <1>4, <1>5 DEF refreshState, Dangling

LEMMA ProgramInitKeeps == PoolsInv /\ ProgramInit => PoolsInv'
  <1> SUFFICES ASSUME PoolsInv, ProgramInit PROVE PoolsInv'
      OBVIOUS
  <1>1. /\ timer /\ pc \in {"idle", "menu"} /\ refreshState
        /\ UNCHANGED <<pools, menu, clicked, needRefresh, pc, job, menus, others>>
      BY DEF ProgramInit
  <1>2. /\ Window' /\ Pools' = Listing' /\ Disks' = Devs \ Marked' /\ Disks' \subseteq Devs
        /\ ItemsTyped(Pools)'
        /\ timer' = FALSE /\ fresh' = TRUE /\ unseen' = FALSE
        /\ lastSelectedPool' \in {None, Stale} /\ lastSelectedVdev' \in {None, Stale}
        /\ lastSelectedPool = None => lastSelectedPool' = None
      BY <1>1, Refreshed
  <1>3. TypeOK'
      BY <1>1, <1>2 DEF PoolsInv, TypeOK, ItemsTyped
  <1>4. Chose'
    <2> SUFFICES ASSUME pc = "menu" PROVE ~needRefresh' /\ OnBlank'
        BY <1>1 DEF Chose
    <2>1. clicked = None /\ menu \subseteq BlankMenu /\ Pools = <<>>
        BY <1>1 DEF PoolsInv, Waiting
    <2>2. Len(Pools) = 0
        BY <2>1
    <2>3. ~OnItem /\ ~OnDevice
        BY <2>2 DEF OnItem, OnDevice
    <2>4. ~needRefresh /\ OnBlank
        BY <2>3 DEF PoolsInv, Chose
    <2> QED BY <1>1, <2>1, <2>4 DEF OnBlank
  <1>5. Waiting' /\ Agree' /\ Renaming'
      BY <1>1, <1>2 DEF Waiting, Agree, Renaming
  <1> QED BY <1>2, <1>3, <1>4, <1>5 DEF PoolsInv

LEMMA ClosedKeeps == PoolsInv /\ Closed => PoolsInv'
  <1> SUFFICES ASSUME PoolsInv, Closed PROVE PoolsInv'
      OBVIOUS
  <1>1. /\ pc = "closing" /\ pc' = "idle" /\ menu' = {}
        /\ UNCHANGED <<pools, clicked, needRefresh, job, menus, others>>
      BY DEF Closed
  <1>2. Chose' /\ Renaming'
      BY <1>1 DEF Chose, Renaming
  <1>3. CASE needRefresh /\ refreshState
    <2>1. /\ Window' /\ Pools' = Listing' /\ Disks' = Devs \ Marked' /\ Disks' \subseteq Devs
          /\ ItemsTyped(Pools)'
          /\ timer' = FALSE /\ fresh' = TRUE /\ unseen' = FALSE
          /\ lastSelectedPool' \in {None, Stale} /\ lastSelectedVdev' \in {None, Stale}
        BY <1>1, <1>3, Refreshed
    <2>2. TypeOK'
        BY <1>1, <2>1 DEF PoolsInv, TypeOK, ItemsTyped
    <2>3. Waiting' /\ Agree'
        BY <2>1 DEF Waiting, Agree
    <2> QED BY <1>2, <2>1, <2>2, <2>3 DEF PoolsInv
  <1>4. CASE ~needRefresh /\ UNCHANGED <<window, lastSelectedPool, lastSelectedVdev, fresh, unseen>>
    <2>1. TypeOK'
        BY <1>1, <1>4 DEF PoolsInv, TypeOK, window
    <2>2. Window'
        BY <1>1, <1>4 DEF PoolsInv, Window, ActiveFirst, window
    <2>3. Waiting'
        BY <1>1, <1>4 DEF PoolsInv, Waiting, window
    <2>4. Agree'
        BY <1>1, <1>4, SameMachine DEF PoolsInv, Agree, window
    <2> QED BY <1>2, <2>1, <2>2, <2>3, <2>4 DEF PoolsInv
  <1> QED BY <1>3, <1>4 DEF Closed

LEMMA ButtonKeeps == PoolsInv /\ on_toolButton_clicked => PoolsInv'
  <1> SUFFICES ASSUME PoolsInv, on_toolButton_clicked PROVE PoolsInv'
      OBVIOUS
  <1>1. pc = "idle" /\ UNCHANGED <<pools, menu, clicked, pc, job, menus, others>>
      BY DEF on_toolButton_clicked
  <1>2. PICK k \in 1 .. Len(Pools) :
            \/ refreshState /\ lastSelectedPool' = Stale /\ needRefresh' = TRUE
            \/ /\ lastSelectedPool' = k /\ needRefresh' = FALSE
               /\ UNCHANGED <<window, lastSelectedVdev, fresh, unseen>>
      BY DEF on_toolButton_clicked
  <1>3. Chose' /\ Renaming'
      BY <1>1 DEF Chose, Renaming
  <1>4. CASE refreshState /\ lastSelectedPool' = Stale /\ needRefresh' = TRUE
    <2>1. /\ Window' /\ Pools' = Listing' /\ Disks' = Devs \ Marked' /\ Disks' \subseteq Devs
          /\ ItemsTyped(Pools)'
          /\ timer' = FALSE /\ fresh' = TRUE /\ unseen' = FALSE
          /\ lastSelectedPool' \in {None, Stale} /\ lastSelectedVdev' \in {None, Stale}
        BY <1>1, <1>4, Refreshed
    <2>2. TypeOK'
        BY <1>1, <1>4, <2>1 DEF PoolsInv, TypeOK, ItemsTyped
    <2>3. Waiting' /\ Agree'
        BY <2>1 DEF Waiting, Agree
    <2> QED BY <1>3, <2>1, <2>2, <2>3 DEF PoolsInv
  <1>5. CASE lastSelectedPool' = k /\ needRefresh' = FALSE /\ UNCHANGED <<window, lastSelectedVdev, fresh, unseen>>
    <2>1. TypeOK'
        BY <1>1, <1>5 DEF PoolsInv, TypeOK, window
    <2>2. Window'
        BY <1>1, <1>5 DEF PoolsInv, Window, ActiveFirst, window
    <2>3. Waiting'
        BY <1>1, <1>5 DEF PoolsInv, Waiting, window
    <2>4. Agree'
        BY <1>1, <1>5, SameMachine DEF PoolsInv, Agree, window
    <2> QED BY <1>3, <2>1, <2>2, <2>3, <2>4 DEF PoolsInv
  <1> QED BY <1>2, <1>4, <1>5

\* getVDevbyName finds a device of an active pool when the item of one was clicked: the active
\* pools come first in the list.
LEMMA FoundVdev ==
    ASSUME Window, NEW k \in 1 .. Len(Pools), Pools[k].state = "active", NEW d \in Devs, Shows(k, d),
           NEW v, v = getVDevbyName(d)
    PROVE  /\ v \in [pool : 1 .. Len(Pools), dev : Devs] /\ v.dev = d
           /\ Pools[v.pool].state = "active" /\ Shows(v.pool, d)
  <1> DEFINE hits == {x \in 1 .. Len(Pools) : Shows(x, d)}
  <1>1. k \in hits /\ hits \subseteq Nat
      BY DEF Window
  <1>2. \E x \in hits : \A y \in hits : x <= y
    <2> HIDE DEF hits
    <2> QED BY <1>1, Least
  <1> DEFINE m == CHOOSE x \in hits : \A y \in hits : x <= y
  <1>3. m \in hits /\ m <= k
    <2>1. m \in hits /\ \A y \in hits : m <= y
        BY <1>2
    <2> HIDE DEF hits, m
    <2> QED BY <1>1, <2>1
  <1>4. v = [pool |-> m, dev |-> d]
      BY DEF getVDevbyName
  <1> HIDE DEF m
  <1>5. m \in 1 .. Len(Pools) /\ Shows(m, d)
      BY <1>3
  <1>6. Pools[m].state = "active"
      BY <1>3, <1>5 DEF Window, ActiveFirst
  <1> QED BY <1>4, <1>5, <1>6

LEMMA VdevEntries == \A m : VdevMenu(m) \subseteq OnVdev
  BY DEF VdevMenu, OnVdev

LEMMA MenuEntries ==
    ASSUME Window, NEW k \in 1 .. Len(Pools)
    PROVE  PoolMenu(k) \subseteq Entries
  <1>1. Pools[k].state \in {"active", "exported", "destroyed"}
      BY ItemAt
  <1>2. PoolMenu(k) = {"create", "rename", "destroy", "add", "scrub", "export", "properties"}
        \/ PoolMenu(k) = {"import"}
      BY <1>1 DEF PoolMenu
  <1> QED BY <1>2 DEF Entries

LEMMA ContextMenuKeeps == PoolsInv /\ zpoolContextMenu => PoolsInv'
  <1> SUFFICES ASSUME PoolsInv, zpoolContextMenu PROVE PoolsInv'
      OBVIOUS
  <1>1. /\ pc = "idle" /\ menus < MaxMenus /\ menus' = menus + 1 /\ needRefresh' = FALSE
        /\ UNCHANGED <<pools, window, job, fresh, unseen, others>>
      BY DEF zpoolContextMenu
  <1>2. menus' \in 0 .. MaxMenus
      BY <1>1, ZPoolsAssumption DEF PoolsInv, TypeOK
  <1>3. Window'
      BY <1>1 DEF PoolsInv, Window, ActiveFirst, window
  <1>4. ASSUME pc' \in {"menu", "undefined"}
        PROVE  Agree' /\ Renaming'
      BY <1>1, <1>4, SameMachine DEF PoolsInv, Agree, Renaming, window
  <1>5. ASSUME /\ pc' \in {"menu", "undefined"} /\ menu' \subseteq Entries /\ clicked' \in Ids \union {None}
               /\ lastSelectedPool' \in (1 .. Len(Pools)) \union {None, Stale}
               /\ \/ lastSelectedVdev' = lastSelectedVdev \/ lastSelectedVdev' = None
                  \/ lastSelectedVdev' \in [pool : 1 .. Len(Pools), dev : Devs]
        PROVE  TypeOK'
    <2>1. \/ lastSelectedVdev' \in {None, Stale}
          \/ lastSelectedVdev'.pool \in 1 .. Len(Pools) /\ lastSelectedVdev'.dev \in Devs
        BY <1>5 DEF PoolsInv, TypeOK
    <2> QED BY <1>1, <1>2, <1>5, <2>1 DEF PoolsInv, TypeOK, window
  <1>6. BlankMenu \subseteq Entries
      BY DEF BlankMenu, Entries
  <1>7. CASE ClickBlank
    <2>1. /\ menu' = BlankMenu /\ clicked' = None /\ pc' = "menu"
          /\ UNCHANGED <<lastSelectedPool, lastSelectedVdev>>
        BY <1>7 DEF ClickBlank
    <2>2. TypeOK'
        BY <1>5, <1>6, <2>1 DEF PoolsInv, TypeOK
    <2>3. Chose'
        BY <1>1, <2>1 DEF Chose, OnBlank
    <2>4. Waiting'
        BY <1>1, <2>1 DEF PoolsInv, Waiting, window
    <2> QED BY <1>3, <1>4, <2>1, <2>2, <2>3, <2>4 DEF PoolsInv
  <1>8. CASE ClickNoPools
    <2>1. ~timer' /\ \/ pc' = "undefined" /\ UNCHANGED selection
                     \/ /\ lastSelectedPool' = None /\ lastSelectedVdev' = None
                        /\ menu' = BlankMenu /\ clicked' = None /\ pc' = "menu"
        BY <1>1, <1>8 DEF ClickNoPools, window
    <2>2. TypeOK'
        BY <1>5, <1>6, <2>1 DEF PoolsInv, TypeOK, selection
    <2>3. Chose' /\ Waiting'
        BY <1>1, <2>1 DEF Chose, OnBlank, Waiting
    <2> QED BY <1>3, <1>4, <2>1, <2>2, <2>3 DEF PoolsInv
  <1>9. ASSUME NEW k \in 1 .. Len(Pools), ClickPool(k) PROVE PoolsInv'
    <2>1. /\ lastSelectedPool' = k /\ lastSelectedVdev' = None
          /\ menu' = PoolMenu(k) /\ clicked' = Pools[k].id /\ pc' = "menu"
        BY <1>9 DEF ClickPool
    <2>2. Pools[k].id \in Ids /\ PoolMenu(k) \subseteq Entries
        BY MenuEntries DEF PoolsInv, TypeOK
    <2>3. TypeOK'
        BY <1>5, <2>1, <2>2
    <2>4. OnItem'
        BY <1>1, <2>1 DEF OnItem, PoolMenu, window
    <2>5. Chose'
        BY <1>1, <2>4 DEF Chose
    <2>6. Waiting'
        BY <1>1 DEF PoolsInv, Waiting, window
    <2> QED BY <1>3, <1>4, <2>1, <2>3, <2>5, <2>6 DEF PoolsInv
  <1>10. ASSUME NEW k \in 1 .. Len(Pools), NEW m \in Pools[k].vdevs, ClickVdev(k, m.dev) PROVE PoolsInv'
    <2>1. m.dev \in Devs /\ Shows(k, m.dev) /\ Pools[k].id \in Ids
        BY <1>10 DEF PoolsInv, TypeOK, Member, Shows
    <2>2. lastSelectedPool' = None /\ clicked' = Pools[k].id /\ pc' = "menu"
        BY <1>10 DEF ClickVdev
    <2>3. Waiting'
        BY <1>1 DEF PoolsInv, Waiting, window
    <2>4. CASE Pools[k].state = "active"
      <3>1. PICK v : v = getVDevbyName(m.dev)
          OBVIOUS
      <3>2. lastSelectedVdev' = v /\ menu' \subseteq OnVdev
          BY <1>10, <2>4, <3>1, VdevEntries DEF ClickVdev
      <3>3. /\ v \in [pool : 1 .. Len(Pools), dev : Devs] /\ v.dev = m.dev
            /\ Pools[v.pool].state = "active" /\ Shows(v.pool, m.dev)
          BY <2>1, <2>4, <3>1, FoundVdev DEF PoolsInv
      <3>4. TypeOK'
          BY <1>5, <2>1, <2>2, <3>2, <3>3 DEF OnVdev, Entries
      <3>5. OnDevice'
          BY <1>1, <2>1, <2>2, <2>4, <3>2, <3>3 DEF OnDevice, Shows, VdevName, window
      <3>6. Chose'
          BY <1>1, <3>5 DEF Chose
      <3> QED BY <1>3, <1>4, <2>2, <2>3, <3>4, <3>6 DEF PoolsInv
    <2>5. CASE Pools[k].state # "active"
      <3>1. menu' = BlankMenu /\ UNCHANGED lastSelectedVdev
          BY <1>10, <2>5 DEF ClickVdev
      <3>2. TypeOK'
          BY <1>5, <1>6, <2>1, <2>2, <3>1
      <3>3. Chose'
          BY <1>1, <2>2, <3>1 DEF Chose, OnBlank
      <3> QED BY <1>3, <1>4, <2>2, <2>3, <3>2, <3>3 DEF PoolsInv
    <2> QED BY <2>4, <2>5
  <1> QED BY <1>7, <1>8, <1>9, <1>10 DEF zpoolContextMenu

LEMMA OtherKeeps == PoolsInv /\ Other => PoolsInv'
  <1> SUFFICES ASSUME PoolsInv, Other PROVE PoolsInv'
      OBVIOUS
  <1>1. /\ others < MaxOther /\ others' = others + 1 /\ fresh' = FALSE
        /\ UNCHANGED <<window, selection, needRefresh, pc, job, unseen, menus>>
      BY DEF Other
  <1>2. pools \in Machines /\ others' \in 0 .. MaxOther
      BY <1>1, ZPoolsAssumption DEF PoolsInv, Window, TypeOK
  <1>3. pools' \in Machines
    <2>1. CASE \E n \in PoolNames, s \in {"destroyed", "exported"} : pools' \in zpool_leave(n, s)
        BY <1>2, <2>1, Leaving
    <2>2. CASE \E p \in Ids, n \in PoolNames, s \in {"destroyed", "exported"} :
                  pools' \in zpool_import(p, s, n, FALSE)
        BY <1>2, <2>2, Importing
    <2>3. CASE \E n \in PoolNames, d \in Devs : pools' \in zpool_create(n, "stripe", {d}) \union zpool_offline(n, d)
      <3>1. PICK n \in PoolNames, d \in Devs : pools' \in zpool_create(n, "stripe", {d}) \/ pools' \in zpool_offline(n, d)
          BY <2>3
      <3>2. pools' \in zpool_create(n, "stripe", {d}) => pools' \in Machines
          BY <1>2, Creating
      <3>3. pools' \in zpool_offline(n, d) => pools' \in Machines
          BY <1>2, Switching DEF Edits
      <3> QED BY <3>1, <3>2, <3>3
    <2>4. CASE \E n \in PoolNames, p \in Ids, m \in Member :
                  \E q \in Writable(n) : pools' = Changed(q, {}, {m}, {})
      <3>1. PICK n \in PoolNames, m \in Member : \E q \in Writable(n) : pools' = Changed(q, {}, {m}, {})
          BY <2>4
      <3>2. \A q \in Writable(n) : Changed(q, {}, {m}, {}) \in Edits(n)
          BY <1>2, Edited
      <3> QED BY <3>1, <3>2 DEF Edits
    <2> QED BY <2>1, <2>2, <2>3, <2>4 DEF Other
  <1>4. TypeOK'
      BY <1>1, <1>2, <1>3 DEF PoolsInv, TypeOK, Machines, window, selection
  <1>5. Window' /\ Waiting'
      BY <1>1, <1>3 DEF PoolsInv, Window, Waiting, ActiveFirst, window, selection
  <1>6. Chose'
      BY <1>1 DEF PoolsInv, Chose, OnItem, OnDevice, OnBlank, PoolMenu, Shows, VdevName, window, selection
  <1>7. Agree' /\ Renaming'
      BY <1>1 DEF PoolsInv, Agree, Renaming, selection
  <1> QED BY <1>4, <1>5, <1>6, <1>7 DEF PoolsInv

LEMMA PoolsInvStep == PoolsInv /\ [Next]_vars => PoolsInv'
  <1> SUFFICES ASSUME PoolsInv, [Next]_vars PROVE PoolsInv'
      OBVIOUS
  <1>1. CASE UNCHANGED vars
      BY <1>1, Stuttering
  <1>2. CASE \/ zpoolCreate \/ zpoolAdd \/ zpoolDestroy \/ zpoolExport \/ zpoolScrub \/ zpoolEditProperties
            \/ zpoolAttachDevice \/ zpoolDetachDevice \/ zpoolOfflineDevice \/ zpoolOnlineDevice
            \/ zpoolRemoveDevice \/ Escape
      BY <1>2, CommandsKeep
  <1>3. CASE ProgramInit \/ zpoolContextMenu \/ Closed \/ on_toolButton_clicked \/ Other
      BY <1>3, ProgramInitKeeps, ContextMenuKeeps, ClosedKeeps, ButtonKeeps, OtherKeeps
  <1>4. CASE zpoolImport \/ zpoolRename \/ zpoolRename2
      BY <1>4, ImportKeeps, RenameKeeps, Rename2Keeps
  <1> QED BY <1>1, <1>2, <1>3, <1>4 DEF Next

LEMMA PoolsInductive == Spec => []PoolsInv
  BY InitPoolsInv, PoolsInvStep, PTL DEF Spec

\* While a menu is open its entries follow records of the present list, in the state they are for.
LEMMA Followed == PoolsInv => PointersValid
  <1> SUFFICES ASSUME PoolsInv, pc = "menu"
               PROVE  /\ menu \intersect OnPool # {} =>
                            lastSelectedPool \in 1 .. Len(Pools) /\ Pools[lastSelectedPool].state = "active"
                      /\ "import" \in menu =>
                            lastSelectedPool \in 1 .. Len(Pools) /\ Pools[lastSelectedPool].state # "active"
                      /\ menu \intersect OnVdev # {} =>
                            /\ lastSelectedVdev \notin {None, Stale} /\ lastSelectedVdev.pool \in 1 .. Len(Pools)
                            /\ Pools[lastSelectedVdev.pool].state = "active"
                            /\ Shows(lastSelectedVdev.pool, VdevName)
      BY DEF PointersValid
  <1>1. CASE OnItem
    <2>1. lastSelectedPool \in 1 .. Len(Pools) /\ menu = PoolMenu(lastSelectedPool)
        BY <1>1 DEF OnItem
    <2>2. Pools[lastSelectedPool].state \in {"active", "exported", "destroyed"}
        BY <2>1, ItemAt DEF PoolsInv
    <2> QED BY <2>1, <2>2 DEF PoolMenu, OnPool, OnVdev
  <1>2. CASE OnDevice
    <2>1. lastSelectedVdev \in [pool : 1 .. Len(Pools), dev : Devs]
        BY <1>2 DEF OnDevice
    <2>2. lastSelectedVdev \in [pool : Nat, dev : Devs]
        BY <2>1 DEF PoolsInv, Window
    <2>3. lastSelectedVdev \notin {None, Stale}
        BY <2>2, ZPoolsAssumption
    <2>4. lastSelectedVdev.pool \in 1 .. Len(Pools)
        BY <2>1
    <2> QED BY <1>2, <2>3, <2>4 DEF OnDevice, OnPool, OnVdev
  <1>3. CASE OnBlank
      BY <1>3 DEF OnBlank, BlankMenu, OnPool, OnVdev
  <1> QED BY <1>1, <1>2, <1>3 DEF PoolsInv, Chose

\* The pool tab follows no freed record, shows the machine between menus and offers only
\* devices that are free, for every number of pools and devices, whoever else runs zpool and
\* whichever command fails or warns (zpoolContextMenu, refreshState, getVDevbyName).
THEOREM PoolTabSafe == Spec => []PoolsSafe
  <1>1. PoolsInv => PoolsSafe
    <2> SUFFICES ASSUME PoolsInv PROVE PoolsSafe
        OBVIOUS
    <2>1. TypeOK
        BY DEF PoolsInv
    <2>2. ViewAgrees
        BY DEF PoolsInv, Agree, ViewAgrees
    <2>3. OfferedFree
        BY DEF PoolsInv, Agree, Waiting, OfferedFree, Marked
    <2> QED BY <2>1, <2>2, <2>3, Followed DEF PoolsSafe
  <1> QED BY <1>1, PoolsInductive, PTL

-----------------------------------------------------------------------------
(* The target of a command. *)

\* As long as the list is up to date its items are the pools of the machine.
LEMMA UpToDate ==
    ASSUME PoolsInv, pc = "menu", clicked # None, fresh, ~unseen, NEW k \in 1 .. Len(Pools)
    PROVE  Pools[k].id \in Ids /\ Pools[k] = Shown(Pools[k].id)
  <1>1. Pools = Listing /\ pools \in Machines
      BY DEF PoolsInv, Waiting, Agree, Window
  <1>2. PICK p \in Ids : Pools[k] = Shown(p)
      BY <1>1, ListingItems
  <1>3. Pools[k].id = p
      BY <1>2 DEF Shown
  <1> QED BY <1>2, <1>3

\* A command that names an active item of such a list has one pool to work on.
LEMMA OneOfTheName ==
    ASSUME PoolsInv, pc = "menu", clicked # None, fresh, ~unseen,
           NEW k \in 1 .. Len(Pools), Pools[k].state = "active"
    PROVE  Active(Pools[k].name) = {Pools[k].id}
  <1>1. Pools[k].id \in Ids /\ Pools[k] = Shown(Pools[k].id) /\ pools \in Machines
      BY UpToDate DEF PoolsInv, Window
  <1>2. pools[Pools[k].id].name = Pools[k].name /\ pools[Pools[k].id].state = "active"
      BY <1>1 DEF Shown
  <1> QED BY <1>1, <1>2 DEF Active, Machines

\* The pool that a menu on a pool, or on a device, is about is the one that was clicked.
LEMMA ItemTarget ==
    ASSUME PoolsInv, pc = "menu", clicked # None, fresh, ~unseen, menu \intersect OnPool # {}
    PROVE  Active(SelName) = {clicked}
  <1>1. OnItem
      BY DEF PoolsInv, Chose, OnDevice, OnBlank, OnPool, OnVdev, BlankMenu
  <1>2. lastSelectedPool \in 1 .. Len(Pools) /\ Pools[lastSelectedPool].state = "active"
      BY Followed DEF PointersValid
  <1> QED BY <1>1, <1>2, OneOfTheName DEF OnItem, SelName

LEMMA DeviceTarget ==
    ASSUME PoolsInv, pc = "menu", clicked # None, fresh, ~unseen, ~SharedSpare, menu \intersect OnVdev # {}
    PROVE  Active(VdevPool) = {clicked}
  <1>1. OnDevice
    <2>1. CASE OnItem
      <3>1. lastSelectedPool \in 1 .. Len(Pools) /\ menu = PoolMenu(lastSelectedPool)
          BY <2>1 DEF OnItem
      <3>2. Pools[lastSelectedPool].state \in {"active", "exported", "destroyed"}
          BY <3>1, ItemAt DEF PoolsInv
      <3> QED BY <3>1, <3>2 DEF PoolMenu, OnVdev
    <2> QED BY <2>1 DEF PoolsInv, Chose, OnBlank, OnVdev, BlankMenu
  <1> DEFINE v == lastSelectedVdev.pool
             d == VdevName
  <1>2. v \in 1 .. Len(Pools) /\ d \in Devs /\ Pools[v].state = "active" /\ Shows(v, d)
      BY <1>1 DEF OnDevice, VdevName
  <1>3. PICK k \in 1 .. Len(Pools) : Pools[k].id = clicked /\ Pools[k].state = "active" /\ Shows(k, d)
      BY <1>1 DEF OnDevice
  <1> HIDE DEF v, d
  <1>4. ASSUME NEW x \in 1 .. Len(Pools), Pools[x].state = "active", Shows(x, d)
        PROVE  Pools[x].id \in Ids /\ pools[Pools[x].id].state = "active" /\ Holds(Pools[x].id, d)
    <2>1. Pools[x].id \in Ids /\ Pools[x] = Shown(Pools[x].id)
        BY UpToDate
    <2>2. Pools[x].vdevs = pools[Pools[x].id].vdevs /\ Pools[x].state = pools[Pools[x].id].state
        BY <2>1 DEF Shown
    <2> QED BY <1>4, <2>1, <2>2 DEF Holds, Shows
  <1>5. Pools[v].id = clicked
      BY <1>2, <1>3, <1>4 DEF SharedSpare
  <1> QED BY <1>2, <1>5, OneOfTheName DEF VdevPool, v

LEMMA EditsSpare ==
    ASSUME NEW n, NEW f \in Edits(n), Active(n) = {clicked}
    PROVE  Spares(clicked, f)
  BY DEF Edits

LEMMA LeavingSpares ==
    ASSUME pools \in Machines, NEW n, NEW state \in {"destroyed", "exported"},
           NEW f \in zpool_leave(n, state), Active(n) = {clicked}
    PROVE  Spares(clicked, f)
  BY Leaving

LEMMA SameSpares == ASSUME NEW c PROVE pools' = pools => Spares(c, pools')
  BY DEF Spares

LEMMA TargetStep ==
    ASSUME PoolsInv, Next, others' = others, clicked # None, Exact, ~SharedSpare
    PROVE  Spares(clicked, pools')
  <1>1. pools \in Machines /\ Disks \subseteq Devs /\ others \in Nat
      BY DEF PoolsInv, Window, TypeOK
  <1> DEFINE Goal == Spares(clicked, pools')
  <1>2. pools' = pools => Goal
      BY SameSpares
  <1>3. ASSUME NEW W, zpool(W), \A f \in W : Spares(clicked, f) PROVE Goal
      BY <1>2, <1>3 DEF zpool, Did, Printed
  <1>4. ASSUME NEW e, Chosen(e), e # "import" PROVE pc = "menu" /\ e \in menu /\ fresh /\ ~unseen
      BY <1>4 DEF Chosen, Exact
  <1>5. CASE zpoolCreate
    <2>1. PICK n \in PoolNames, g \in {"stripe", "mirror"}, S \in Picked : zpool(zpool_create(n, g, S))
        BY <1>5 DEF zpoolCreate
    <2>2. S \in SUBSET Devs
        BY <1>1 DEF Picked
    <2>3. \A f \in zpool_create(n, g, S) : Spares(clicked, f)
        BY <1>1, <2>2, Creating
    <2> QED BY <1>3, <2>1, <2>3
  <1>6. CASE zpoolAdd
    <2>1. PICK g \in {"stripe", "mirror", "log", "cache", "spare"}, S \in Picked :
              zpool(zpool_add(SelName, g, S))
        BY <1>6 DEF zpoolAdd
    <2>2. S \in SUBSET Devs
        BY <1>1 DEF Picked
    <2>3. Active(SelName) = {clicked}
        BY <1>4, <1>6, ItemTarget DEF zpoolAdd, OnPool
    <2>4. \A f \in zpool_add(SelName, g, S) : Spares(clicked, f)
        BY <1>1, <2>2, <2>3, Adding, EditsSpare
    <2> QED BY <1>3, <2>1, <2>4
  <1>7. CASE zpoolDestroy \/ zpoolExport
    <2>1. PICK state \in {"destroyed", "exported"} : zpool(zpool_leave(SelName, state))
        BY <1>7 DEF zpoolDestroy, zpoolExport
    <2>2. Active(SelName) = {clicked}
        BY <1>4, <1>7, ItemTarget DEF zpoolDestroy, zpoolExport, OnPool
    <2>3. \A f \in zpool_leave(SelName, state) : Spares(clicked, f)
        BY <1>1, <2>2, LeavingSpares
    <2> QED BY <1>3, <2>1, <2>3
  <1>8. CASE zpoolScrub \/ zpoolEditProperties \/ Escape
      BY <1>2, <1>8 DEF zpoolScrub, zpoolEditProperties, Escape, zpool, Did, Printed
  <1>9. CASE zpoolAttachDevice
    <2>1. PICK d \in Disks : zpool(zpool_attach(VdevPool, VdevName, d))
        BY <1>9 DEF zpoolAttachDevice
    <2>2. Active(VdevPool) = {clicked}
        BY <1>4, <1>9, DeviceTarget DEF zpoolAttachDevice, OnVdev
    <2>3. \A f \in zpool_attach(VdevPool, VdevName, d) : Spares(clicked, f)
        BY <1>1, <2>2, Attaching, EditsSpare
    <2> QED BY <1>3, <2>1, <2>3
  <1>10. CASE zpoolDetachDevice
    <2>1. Active(VdevPool) = {clicked}
        BY <1>4, <1>10, DeviceTarget DEF zpoolDetachDevice, OnVdev
    <2>2. \A f \in zpool_detach(VdevPool, VdevName) : Spares(clicked, f)
        BY <1>1, <2>1, Detaching, EditsSpare
    <2> QED BY <1>3, <1>10, <2>2 DEF zpoolDetachDevice
  <1>11. CASE zpoolOfflineDevice \/ zpoolOnlineDevice \/ zpoolRemoveDevice
    <2>1. Active(VdevPool) = {clicked}
        BY <1>4, <1>11, DeviceTarget DEF zpoolOfflineDevice, zpoolOnlineDevice, zpoolRemoveDevice, OnVdev
    <2>2. PICK W : /\ zpool(W)
                   /\ \/ W = zpool_offline(VdevPool, VdevName)
                      \/ W = zpool_online(VdevPool, VdevName)
                      \/ W = zpool_remove(VdevPool, VdevName)
        BY <1>11 DEF zpoolOfflineDevice, zpoolOnlineDevice, zpoolRemoveDevice
    <2>3. W \subseteq Edits(VdevPool)
        BY <1>1, <2>2, Switching
    <2>4. \A f \in W : Spares(clicked, f)
        BY <2>1, <2>3, EditsSpare
    <2> QED BY <1>3, <2>2, <2>4
  <1>12. CASE zpoolImport
    <2> DEFINE p == Pools[lastSelectedPool].id
               from == Pools[lastSelectedPool].state
    <2>1. p = clicked /\ p \in Ids /\ from \in {"exported", "destroyed"}
        BY <1>12, ForImport DEF zpoolImport, OnItem
    <2>2. PICK n \in PoolNames, ro \in BOOLEAN : zpool(zpool_import(p, from, n, ro))
        BY <1>12 DEF zpoolImport
    <2> HIDE DEF p, from
    <2>3. \A f \in zpool_import(p, from, n, ro) : Spares(p, f)
        BY <1>1, <2>1, Importing
    <2> QED BY <1>3, <2>1, <2>2, <2>3
  <1>13. CASE zpoolRename
    <2>1. SUFFICES ASSUME pools' # pools PROVE Goal
        BY <1>2
    <2>2. /\ Chosen("rename") /\ lastSelectedPool \notin {None, Stale}
          /\ pools' \in zpool_leave(SelName, "exported")
        BY <1>13, <2>1 DEF zpoolRename
    <2>3. pc = "menu" /\ "rename" \in menu /\ fresh /\ ~unseen
        BY <1>4, <2>2
    <2>4. OnItem
        BY <2>2, <2>3 DEF PoolsInv, Chose, OnDevice, OnVdev, OnBlank
    <2>5. lastSelectedPool \in 1 .. Len(Pools) /\ Pools[lastSelectedPool].id = clicked
        BY <2>4 DEF OnItem
    <2>6. Pools[lastSelectedPool].state = "active"
      <3>1. Pools[lastSelectedPool].state \in {"active", "exported", "destroyed"}
          BY <2>5, ItemAt DEF PoolsInv
      <3> QED BY <2>3, <2>4, <3>1 DEF OnItem, PoolMenu
    <2>7. Active(SelName) = {clicked}
        BY <2>3, <2>5, <2>6, OneOfTheName DEF SelName
    <2> QED BY <1>1, <2>2, <2>7, LeavingSpares
  <1>14. CASE zpoolRename2
    <2>1. SUFFICES ASSUME pools' # pools PROVE Goal
        BY <1>2
    <2>2. pc = "renaming" /\ job.id = clicked /\ job.id \in Ids /\ job.name \in PoolNames
      <3>1. /\ pc = "renaming" /\ job \in [id : Ids \union {None}, name : PoolNames] /\ job.id = clicked
          BY <1>14 DEF zpoolRename2, PoolsInv, Renaming
      <3> QED BY <3>1
    <2>3. pools' \in zpool_import(job.id, "exported", job.name, FALSE)
        BY <1>14, <2>1, <2>2 DEF zpoolRename2, Did
    <2>4. Spares(job.id, pools')
        BY <1>1, <2>2, <2>3, Importing
    <2> QED BY <2>2, <2>4
  <1>15. CASE ProgramInit \/ zpoolContextMenu \/ Closed \/ on_toolButton_clicked
      BY <1>2, <1>15 DEF ProgramInit, zpoolContextMenu, Closed, on_toolButton_clicked
  <1>16. CASE Other
      BY <1>1, <1>16 DEF Other
  <1> QED BY <1>5, <1>6, <1>7, <1>8, <1>9, <1>10, <1>11, <1>12, <1>13, <1>14, <1>15, <1>16 DEF Next

\* A command changes the pool whose item was clicked and no other, although commands name
\* pools and names are shared: an import and the second half of a rename always, the others
\* while the list is up to date (zpoolDestroy, zpoolExport, zpoolAdd, zpoolRename, ...).
THEOREM CommandsHitTarget == Spec => RightTarget
  <1>1. PoolsInv /\ [Next]_vars =>
            [others' = others /\ clicked # None /\ Exact /\ ~SharedSpare =>
                \A p \in Ids \ {clicked} :
                   \/ pools'[p] = pools[p]
                   \/ pools[p].state = "none" /\ pools'[p].state = "active"
                   \/ pools[p].state = "destroyed" /\ pools'[p].state = "none"]_vars
      BY TargetStep DEF Spares
  <1> QED BY <1>1, PoolsInductive, PTL DEF Spec, RightTarget
=============================================================================
