--------------------------- MODULE ZfsPoolProofs ---------------------------
(***************************************************************************)
(* Proofs about ZfsPool: PoolSafe and GoodCopyIsRead, for any set of        *)
(* devices and any labels that agree on what a guid stands for.             *)
(***************************************************************************)
EXTENDS ZfsPool, TLAPS, WellFoundedInduction

-----------------------------------------------------------------------------
(* Induction, from the least element of a set of numbers. *)

\* A set of natural numbers that is not empty has a least element.
LEMMA LeastOf == ASSUME NEW T, T \subseteq Nat, T # {} PROVE \E x \in T : \A y \in T : x <= y
<1> DEFINE R == OpToRel(<, Nat)
<1>1. IsWellFoundedOn(R, Nat) BY NatLessThanWellFounded
<1> HIDE DEF R
<1>2. PICK x \in T : \A y \in T : ~(<<y, x>> \in R) BY <1>1, WFMin
<1>3. \A y \in T : <<y, x>> \in R <=> y < x BY DEF R, OpToRel
<1>4. \A y \in T : ~(y < x) BY <1>2, <1>3
<1>5. \A y \in T : x <= y BY <1>4
<1> QED BY <1>5

\* What holds at 0 and goes from n to n + 1 holds of every number.
LEMMA NatInd == ASSUME NEW S, 0 \in S, \A n \in Nat : n \in S => n + 1 \in S PROVE Nat \subseteq S
<1> SUFFICES ASSUME Nat \ S # {} PROVE FALSE OBVIOUS
<1>1. PICK x \in Nat \ S : \A y \in Nat \ S : x <= y BY LeastOf
<1>2. x # 0 /\ x - 1 \in Nat OBVIOUS
<1>3. x - 1 \in S BY <1>1, <1>2
<1> QED BY <1>1, <1>2, <1>3

-----------------------------------------------------------------------------
(* Lists of children. *)

\* Cutting a list behind something that is not in it changes nothing.
LEMMA UpToAbsent == ASSUME NEW s, NEW x, \A k \in DOMAIN s : s[k] # x PROVE UpTo(s, x) = s
BY DEF UpTo

\* Cutting a list behind its last member changes nothing.
LEMMA UpToLast ==
    ASSUME NEW s \in Seq(Guids), s # <<>>, \A i, j \in DOMAIN s : s[i] = s[j] => i = j PROVE UpTo(s, s[Len(s)]) = s
<1>1. Len(s) \in DOMAIN s /\ DOMAIN s = 1 .. Len(s) /\ Len(s) \in Nat OBVIOUS
<1>2. (CHOOSE k \in DOMAIN s : s[k] = s[Len(s)]) = Len(s) BY <1>1
<1>3. SubSeq(s, 1, Len(s)) = s OBVIOUS
<1> QED BY <1>1, <1>2, <1>3 DEF UpTo

\* What is cut is a list again, empty only if it was empty.
LEMMA UpToType ==
    ASSUME NEW D, NEW s \in Seq(D), NEW x PROVE UpTo(s, x) \in Seq(D) /\ (UpTo(s, x) = <<>> <=> s = <<>>)
<1>1. CASE \A k \in DOMAIN s : s[k] # x BY <1>1 DEF UpTo
<1>2. CASE \E k \in DOMAIN s : s[k] = x
  <2> DEFINE c == CHOOSE k \in DOMAIN s : s[k] = x
  <2>1. c \in DOMAIN s BY <1>2
  <2> HIDE DEF c
  <2>2. c \in 1 .. Len(s) /\ Len(s) \in Nat /\ s # <<>> BY <2>1
  <2>3. SubSeq(s, 1, c) \in Seq(D) /\ Len(SubSeq(s, 1, c)) = c BY <2>2
  <2>4. SubSeq(s, 1, c) # <<>> BY <2>2, <2>3
  <2> USE DEF c
  <2>5. UpTo(s, x) = SubSeq(s, 1, c) BY <1>2 DEF UpTo
  <2> HIDE DEF c
  <2> QED BY <2>2, <2>3, <2>4, <2>5
<1> QED BY <1>1, <1>2

\* Joining keeps the type of a list, and an empty list empty.
LEMMA JoinedType ==
    ASSUME NEW D, NEW s \in Seq(D), NEW y, NEW x \in D
    PROVE  Joined(s, y, x) \in Seq(D) /\ (Joined(s, y, x) = <<>> <=> s = <<>>)
<1> DEFINE u == UpTo(s, x)
           w == UpTo(u, y)
<1>1. u \in Seq(D) /\ (u = <<>> <=> s = <<>>) BY UpToType
<1> HIDE DEF u
<1>2. w \in Seq(D) /\ (w = <<>> <=> u = <<>>) BY <1>1, UpToType
<1> HIDE DEF w
<1>3. Append(w, x) \in Seq(D) /\ Append(w, x) # <<>> BY <1>2
<1>4. CASE \E k \in DOMAIN u : u[k] = y
  <2>1. u # <<>> BY <1>4
  <2>2. Joined(s, y, x) = Append(w, x) BY <1>4 DEF Joined, u, w
  <2> QED BY <2>1, <2>2, <1>1, <1>3
<1>5. CASE ~\E k \in DOMAIN u : u[k] = y
  <2>1. Joined(s, y, x) = u BY <1>5 DEF Joined, u
  <2> QED BY <2>1, <1>1
<1> QED BY <1>4, <1>5

\* A list that has neither the tail nor the new member is left alone.
LEMMA JoinedAbsent ==
    ASSUME NEW s, NEW y, NEW x, \A k \in DOMAIN s : s[k] # x /\ s[k] # y PROVE Joined(s, y, x) = s
BY UpToAbsent DEF Joined

\* The list of the tail gets the new member at its end.
LEMMA JoinedLast ==
    ASSUME NEW s \in Seq(Guids), s # <<>>, NEW x, \A i, j \in DOMAIN s : s[i] = s[j] => i = j, \A k \in DOMAIN s : s[k] # x
    PROVE  Joined(s, s[Len(s)], x) = Append(s, x)
<1>1. UpTo(s, x) = s BY UpToAbsent
<1>2. UpTo(s, s[Len(s)]) = s BY UpToLast
<1>3. Len(s) \in DOMAIN s OBVIOUS
<1> QED BY <1>1, <1>2, <1>3 DEF Joined

-----------------------------------------------------------------------------
(* One vdev after the other. *)

VdevRec == [type : STRING, id : Nat, nparity : 1 .. 3, state : States, phys_read : Devices \union {Nil},
            children : Seq(Guids), last : Guids \union {Nil}]
VdevOK(vs, v) ==
    /\ v \in VdevRec
    /\ \A k \in DOMAIN v.children : v.children[k] \in DOMAIN vs
    /\ v.last = Nil <=> v.children = <<>>
    /\ v.type = "disk" => v.children = <<>>
VdevsOK(vs) == DOMAIN vs \subseteq Guids /\ \A g \in DOMAIN vs : VdevOK(vs, vs[g])
\* What the walk over a label never changes in a vdev.
Kept(v, w) == /\ w.type = v.type /\ w.id = v.id /\ w.phys_read = v.phys_read
              /\ v.children # <<>> => w.children # <<>>
\* A vdev the walk has made.
Made(n, w) == w.type = n.type /\ w.id = n.id /\ w.phys_read = Nil /\ w.state \in Flags

InitNodeDoes(n, vs, newer, m) ==
    /\ DOMAIN m = DOMAIN vs \union {n.guid}
    /\ VdevsOK(m)
    /\ \A g \in DOMAIN vs : /\ Kept(vs[g], m[g]) /\ m[g].children = vs[g].children /\ m[g].last = vs[g].last
                            /\ \/ m[g].state = vs[g].state
                               \/ newer /\ g = n.guid /\ n.flag \in Flags /\ m[g].state = n.flag
    /\ n.guid \notin DOMAIN vs => Made(n, m[n.guid]) /\ m[n.guid].children = <<>> /\ m[n.guid].last = Nil
\* vdev_init_from_nvlist for one node makes the vdev or gives it the state of the label.
LEMMA InitNodeFacts ==
    ASSUME NEW n \in Nodes, NEW vs, VdevsOK(vs), NEW newer, NEW m, m = InitNode(n, vs, newer)
    PROVE  InitNodeDoes(n, vs, newer, m)
<1> DEFINE isnew == n.guid \notin DOMAIN vs
           v == IF isnew THEN vdev_create(n) ELSE vs[n.guid]
           w == [v EXCEPT !.state = RefreshedState(n, v.state, isnew \/ newer)]
<1>1. DOMAIN m = DOMAIN vs \union {n.guid} BY DEF InitNode
<1>2. m[n.guid] = w BY DEF InitNode
<1>3. \A g \in DOMAIN vs : g # n.guid => m[g] = vs[g] BY DEF InitNode
<1>4. v \in VdevRec
  <2>1. CASE isnew BY <2>1, PoolAssumption DEF vdev_create, VdevRec, Nodes, States, Flags
  <2>2. CASE ~isnew BY <2>2 DEF VdevsOK, VdevOK
  <2> QED BY <2>1, <2>2
<1>5. RefreshedState(n, v.state, isnew \/ newer) \in States BY <1>4 DEF RefreshedState, States, VdevRec
<1>6. w \in VdevRec /\ w.state = RefreshedState(n, v.state, isnew \/ newer)
      /\ w.type = v.type /\ w.id = v.id /\ w.phys_read = v.phys_read /\ w.children = v.children /\ w.last = v.last
  <2> HIDE DEF v
  <2> QED BY <1>4, <1>5 DEF VdevRec
<1>7. isnew => v.type = n.type /\ v.id = n.id /\ v.phys_read = Nil /\ v.state = "OFFLINE" /\ v.children = <<>> /\ v.last = Nil
  BY DEF vdev_create
<1>8. isnew => Made(n, m[n.guid]) /\ m[n.guid].children = <<>> /\ m[n.guid].last = Nil
  <2>1. isnew => RefreshedState(n, v.state, TRUE) \in Flags BY <1>7 DEF RefreshedState, Flags
  <2> QED BY <2>1, <1>2, <1>6, <1>7 DEF Made
<1>9. ~isnew => v = vs[n.guid] OBVIOUS
<1> HIDE DEF v, w
<1>10. ASSUME NEW g \in DOMAIN vs
       PROVE  /\ Kept(vs[g], m[g]) /\ m[g].children = vs[g].children /\ m[g].last = vs[g].last
              /\ \/ m[g].state = vs[g].state
                 \/ newer /\ g = n.guid /\ n.flag \in Flags /\ m[g].state = n.flag
  <2>1. CASE g # n.guid BY <2>1, <1>3 DEF Kept
  <2>2. CASE g = n.guid
    <3>1. ~isnew /\ m[g] = w /\ v = vs[g] BY <2>2, <1>2, <1>9
    <3>2. w.state = v.state \/ (newer /\ n.flag \in Flags /\ w.state = n.flag) BY <3>1, <1>6 DEF RefreshedState
    <3> QED BY <3>1, <3>2, <1>6, <2>2 DEF Kept
  <2> QED BY <2>1, <2>2
<1>11. VdevsOK(m)
  <2>1. DOMAIN m \subseteq Guids BY <1>1 DEF VdevsOK, Nodes
  <2>2. ASSUME NEW g \in DOMAIN m PROVE VdevOK(m, m[g])
    <3>1. CASE g \in DOMAIN vs
      <4>1. VdevOK(vs, vs[g]) BY <3>1 DEF VdevsOK
      <4>2. m[g] \in VdevRec BY <4>1, <3>1, <1>2, <1>3, <1>6 DEF VdevOK
      <4> QED BY <4>1, <4>2, <1>1, <1>10, <3>1 DEF VdevOK, Kept
    <3>2. CASE g \notin DOMAIN vs
      <4>1. g = n.guid /\ m[g] \in VdevRec BY <3>2, <1>1, <1>2, <1>6
      <4> QED BY <4>1, <3>2, <1>8 DEF VdevOK
    <3> QED BY <3>1, <3>2
  <2> QED BY <2>1, <2>2 DEF VdevsOK
<1> QED BY <1>1, <1>8, <1>10, <1>11 DEF InitNodeDoes

\* Linking a vdev changes nothing but lists, and no list becomes empty.
LEMMA InsertFacts ==
    ASSUME NEW vs, VdevsOK(vs), NEW p \in DOMAIN vs, NEW x \in DOMAIN vs, vs[p].type # "disk",
           NEW m, m = STAILQ_INSERT_TAIL(vs, p, x)
    PROVE  /\ DOMAIN m = DOMAIN vs
           /\ VdevsOK(m)
           /\ \A g \in DOMAIN vs : Kept(vs[g], m[g]) /\ m[g].state = vs[g].state
<1> DEFINE kids(g) == IF g = p /\ vs[p].last = Nil THEN <<x>> ELSE Joined(vs[g].children, vs[p].last, x)
           tail(g) == IF g = p THEN x ELSE vs[g].last
<1>1. DOMAIN m = DOMAIN vs BY DEF STAILQ_INSERT_TAIL
<1>2. \A g \in DOMAIN vs : m[g] = [vs[g] EXCEPT !.children = kids(g), !.last = tail(g)] BY DEF STAILQ_INSERT_TAIL
<1>3. Nil \notin Guids /\ x \in Guids /\ x # Nil BY PoolAssumption DEF VdevsOK
<1>4. ASSUME NEW g \in DOMAIN vs
      PROVE  VdevOK(m, m[g]) /\ Kept(vs[g], m[g]) /\ m[g].state = vs[g].state
  <2>1. VdevOK(vs, vs[g]) BY DEF VdevsOK
  <2>2. vs[g].children \in Seq(DOMAIN vs) BY <2>1 DEF VdevOK, VdevRec
  <2>3. kids(g) \in Seq(DOMAIN vs) /\ (kids(g) = <<>> => vs[g].children = <<>>) /\ (g # p /\ vs[g].children = <<>> => kids(g) = <<>>)
        /\ (g = p => kids(g) # <<>>)
    <3>1. CASE g = p /\ vs[p].last = Nil BY <3>1, <2>1 DEF VdevOK
    <3>2. CASE ~(g = p /\ vs[p].last = Nil)
      <4>1. kids(g) = Joined(vs[g].children, vs[p].last, x) BY <3>2
      <4>2. kids(g) \in Seq(DOMAIN vs) /\ (kids(g) = <<>> <=> vs[g].children = <<>>) BY <4>1, <2>2, JoinedType
      <4>3. g = p => vs[g].children # <<>> BY <3>2, <2>1 DEF VdevOK
      <4> QED BY <4>2, <4>3
    <3> QED BY <3>1, <3>2
  <2> HIDE DEF kids
  <2>4. tail(g) \in Guids \union {Nil} /\ (g = p => tail(g) # Nil) /\ (g # p => tail(g) = vs[g].last) BY <2>1, <1>3 DEF VdevOK, VdevRec
  <2> HIDE DEF tail
  <2>5. kids(g) \in Seq(Guids) BY <2>3 DEF VdevsOK
  <2>6. /\ m[g] \in VdevRec /\ m[g].children = kids(g) /\ m[g].last = tail(g) /\ m[g].state = vs[g].state
        /\ m[g].type = vs[g].type /\ m[g].id = vs[g].id /\ m[g].phys_read = vs[g].phys_read
    BY <1>2, <2>1, <2>4, <2>5 DEF VdevOK, VdevRec
  <2>7. \A k \in DOMAIN m[g].children : m[g].children[k] \in DOMAIN m BY <2>3, <2>6, <1>1
  <2>8. m[g].last = Nil <=> m[g].children = <<>> BY <2>1, <2>3, <2>4, <2>6 DEF VdevOK
  <2>9. m[g].type = "disk" => m[g].children = <<>> BY <2>1, <2>3, <2>6 DEF VdevOK
  <2> QED BY <2>3, <2>6, <2>7, <2>8, <2>9 DEF VdevOK, Kept
<1> QED BY <1>1, <1>4 DEF VdevsOK

\* Linking a vdev that is in no list yet to a parent whose tail is in no other
\* list puts it at the end of that parent's list and touches no other.
LEMMA InsertPlain ==
    ASSUME NEW vs, VdevsOK(vs), NEW p \in DOMAIN vs, NEW x \in DOMAIN vs,
           NEW m, m = STAILQ_INSERT_TAIL(vs, p, x),
           \A g \in DOMAIN vs : \A k \in DOMAIN vs[g].children : vs[g].children[k] # x,
           \A g \in DOMAIN vs : g # p => \A k \in DOMAIN vs[g].children : vs[g].children[k] # vs[p].last,
           \A i, j \in DOMAIN vs[p].children : vs[p].children[i] = vs[p].children[j] => i = j,
           vs[p].children # <<>> => vs[p].last = vs[p].children[Len(vs[p].children)]
    PROVE  /\ \A g \in DOMAIN vs : g # p => m[g].children = vs[g].children /\ m[g].last = vs[g].last
           /\ m[p].children = Append(vs[p].children, x) /\ m[p].last = x
<1>1. ASSUME NEW g \in DOMAIN vs
      PROVE  /\ m[g].children = IF g = p /\ vs[p].last = Nil THEN <<x>> ELSE Joined(vs[g].children, vs[p].last, x)
             /\ m[g].last = IF g = p THEN x ELSE vs[g].last
  <2>1. vs[g] \in VdevRec BY DEF VdevsOK, VdevOK
  <2> QED BY <2>1 DEF STAILQ_INSERT_TAIL, VdevRec
<1>2. ASSUME NEW g \in DOMAIN vs, g # p PROVE m[g].children = vs[g].children
  <2>1. m[g].children = Joined(vs[g].children, vs[p].last, x) BY <1>1, <1>2
  <2>2. Joined(vs[g].children, vs[p].last, x) = vs[g].children BY <1>2, JoinedAbsent
  <2> QED BY <2>1, <2>2
<1>3. m[p].children = Append(vs[p].children, x)
  <2> DEFINE s == vs[p].children
  <2>1. s \in Seq(Guids) /\ (vs[p].last = Nil <=> s = <<>>) BY DEF VdevsOK, VdevOK, VdevRec
  <2>2. CASE s = <<>> BY <2>1, <2>2, <1>1
  <2>3. CASE s # <<>>
    <3>1. m[p].children = Joined(s, s[Len(s)], x) BY <2>1, <2>3, <1>1
    <3>2. (\A i, j \in DOMAIN s : s[i] = s[j] => i = j) /\ (\A k \in DOMAIN s : s[k] # x) OBVIOUS
    <3> HIDE DEF s
    <3>3. Joined(s, s[Len(s)], x) = Append(s, x) BY <2>1, <2>3, <3>2, JoinedLast
    <3> USE DEF s
    <3> QED BY <3>1, <3>3
  <2> QED BY <2>2, <2>3
<1> QED BY <1>1, <1>2, <1>3

-----------------------------------------------------------------------------
(* The walk over the tree of a label. *)

Walk(t, old, newer, n, f) ==
    f = [i \in 0 .. n |-> IF i = 0 THEN old ELSE IF i < Stop(t) THEN InitCall(t, old, f[i - 1], i, newer) ELSE f[i - 1]]

\* The function vdev_init_from_nvlist is written with exists.
LEMMA WalkExists == ASSUME NEW t, NEW old, NEW newer PROVE \A n \in Nat : \E f : Walk(t, old, newer, n, f)
<1> DEFINE S == {n \in Nat : \E f : Walk(t, old, newer, n, f)}
<1>1. 0 \in S
  <2> DEFINE f == [i \in 0 .. 0 |-> old]
  <2>1. Walk(t, old, newer, 0, f) BY DEF Walk
  <2> QED BY <2>1
<1>2. ASSUME NEW n \in Nat, n \in S PROVE n + 1 \in S
  <2>1. PICK f : Walk(t, old, newer, n, f) BY <1>2
  <2> DEFINE e == IF n + 1 < Stop(t) THEN InitCall(t, old, f[n], n + 1, newer) ELSE f[n]
             h == [i \in 0 .. n + 1 |-> IF i = n + 1 THEN e ELSE f[i]]
  <2>2. Walk(t, old, newer, n + 1, h) BY <2>1 DEF Walk
  <2> QED BY <2>2
<1> HIDE DEF S
<1>3. Nat \subseteq S BY <1>1, <1>2, NatInd
<1> QED BY <1>3 DEF S

LEMMA WalkIs ==
    ASSUME NEW t, NEW old, NEW newer, Len(t) \in Nat
    PROVE  \E f : Walk(t, old, newer, Len(t), f) /\ vdev_init_from_nvlist(t, old, newer) = f[Len(t)]
<1>1. \E f : Walk(t, old, newer, Len(t), f) BY WalkExists
<1> QED BY <1>1 DEF vdev_init_from_nvlist, Walk

\* The walk gives up at a node of the tree, or behind it.
LEMMA StopType == ASSUME NEW t \in Seq(Nodes) PROVE Stop(t) \in 1 .. Len(t) + 1
<1>0. Len(t) \in Nat /\ DOMAIN t = 1 .. Len(t) OBVIOUS
<1>1. CASE \A i \in DOMAIN t : Supported(t[i]) BY <1>0, <1>1 DEF Stop
<1>2. CASE ~\A i \in DOMAIN t : Supported(t[i])
  <2> DEFINE T == {i \in DOMAIN t : ~Supported(t[i])}
  <2>1. T \subseteq Nat /\ T # {} BY <1>0, <1>2
  <2>2. PICK x \in T : \A y \in T : x <= y BY <2>1, LeastOf
  <2>3. x \in DOMAIN t /\ ~Supported(t[x]) /\ \A j \in 1 .. x - 1 : Supported(t[j]) BY <2>2, <1>0
  <2>4. Stop(t) \in DOMAIN t BY <1>2, <2>3 DEF Stop
  <2> QED BY <2>4, <1>0
<1> QED BY <1>1, <1>2

\* The nodes the walk has called vdev_init_from_nvlist for after step i.
Reached(t, i) == {k \in DOMAIN t : k <= i /\ k < Stop(t)}
\* What is known after step i, whatever the labels say.
Walked(t, old, newer, i, vs) ==
    /\ VdevsOK(vs)
    /\ DOMAIN vs = DOMAIN old \union {t[k].guid : k \in Reached(t, i)}
    /\ \A g \in DOMAIN old :
          /\ Kept(old[g], vs[g])
          /\ \/ vs[g].state = old[g].state
             \/ newer /\ \E k \in DOMAIN t : t[k].guid = g /\ t[k].flag \in Flags /\ vs[g].state = t[k].flag
    /\ \A k \in Reached(t, i) : t[k].guid \notin DOMAIN old => Made(t[k], vs[t[k].guid])

\* A node that is not the first has its parent before it, which is no disk.
LEMMA ParentBefore ==
    ASSUME NEW t, TreeOK(t), NEW i \in DOMAIN t, t[i].up # Nil
    PROVE  i \in 2 .. Len(t) /\ \E j \in 1 .. i - 1 : t[j].guid = t[i].up /\ t[j].type # "disk" /\ t[j].up \in {Nil, t[1].guid}
<1>1. Len(t) \in Nat /\ DOMAIN t = 1 .. Len(t) /\ t[1].up = Nil BY DEF TreeOK
<1>2. i # 1 BY <1>1
<1>3. i \in 2 .. Len(t) BY <1>1, <1>2
<1> QED BY <1>3 DEF TreeOK

LEMMA LinkFacts ==
    ASSUME NEW vs, VdevsOK(vs), NEW old, NEW n, n.guid \in DOMAIN vs,
           n.up = Nil \/ n.up \in DOMAIN old \/ (n.up \in DOMAIN vs /\ vs[n.up].type # "disk"),
           NEW m, m = LinkNode(old, vs, n)
    PROVE  /\ DOMAIN m = DOMAIN vs
           /\ VdevsOK(m)
           /\ \A g \in DOMAIN vs : Kept(vs[g], m[g]) /\ m[g].state = vs[g].state
<1>1. CASE n.up = Nil \/ n.up \in DOMAIN old BY <1>1 DEF LinkNode, Kept
<1>2. CASE ~(n.up = Nil \/ n.up \in DOMAIN old)
  <2>1. m = STAILQ_INSERT_TAIL(vs, n.up, n.guid) BY <1>2 DEF LinkNode
  <2> QED BY <1>2, <2>1, InsertFacts
<1> QED BY <1>1, <1>2

LEMMA KeptTrans == ASSUME NEW a, NEW b, NEW c, Kept(a, b), Kept(b, c) PROVE Kept(a, c)
BY DEF Kept

\* What holds of vs holds of a vs that differs in its lists only.
LEMMA WalkedLists ==
    ASSUME NEW t, NEW old, NEW newer, NEW i, NEW vs, Walked(t, old, newer, i, vs), NEW m, VdevsOK(m), DOMAIN m = DOMAIN vs,
           \A g \in DOMAIN vs : Kept(vs[g], m[g]) /\ m[g].state = vs[g].state
    PROVE  Walked(t, old, newer, i, m)
<1>1. ASSUME NEW g \in DOMAIN old
      PROVE  /\ Kept(old[g], m[g])
             /\ \/ m[g].state = old[g].state
                \/ newer /\ \E k \in DOMAIN t : t[k].guid = g /\ t[k].flag \in Flags /\ m[g].state = t[k].flag
  <2>1. g \in DOMAIN vs BY DEF Walked
  <2>2. Kept(old[g], vs[g]) /\ Kept(vs[g], m[g]) /\ m[g].state = vs[g].state BY <2>1 DEF Walked
  <2>3. Kept(old[g], m[g]) BY <2>2, KeptTrans
  <2> QED BY <2>2, <2>3 DEF Walked
<1>2. ASSUME NEW k \in Reached(t, i), t[k].guid \notin DOMAIN old PROVE Made(t[k], m[t[k].guid])
  <2>1. t[k].guid \in DOMAIN vs /\ Made(t[k], vs[t[k].guid]) BY <1>2 DEF Walked
  <2> QED BY <2>1 DEF Made, Kept
<1> QED BY <1>1, <1>2 DEF Walked

\* The parent of a node that was reached has been reached; the walk made it unless it was known.
LEMMA ParentMade ==
    ASSUME NEW t, TreeOK(t), NEW old, NEW newer, NEW i \in Nat, NEW vs, Walked(t, old, newer, i, vs), NEW k \in Reached(t, i)
    PROVE  /\ t[k].guid \in DOMAIN vs
           /\ t[k].up = Nil \/ t[k].up \in DOMAIN old \/ (t[k].up \in DOMAIN vs /\ vs[t[k].up].type # "disk")
<1>1. k \in DOMAIN t /\ k <= i /\ k < Stop(t) /\ Len(t) \in Nat /\ DOMAIN t = 1 .. Len(t) BY DEF Reached, TreeOK
<1>2. t[k].guid \in DOMAIN vs BY DEF Walked
<1>3. ASSUME t[k].up # Nil, t[k].up \notin DOMAIN old PROVE t[k].up \in DOMAIN vs /\ vs[t[k].up].type # "disk"
  <2>1. PICK j \in 1 .. k - 1 : t[j].guid = t[k].up /\ t[j].type # "disk" BY <1>1, <1>3, ParentBefore
  <2>2. Stop(t) \in Nat BY StopType, <1>1 DEF TreeOK
  <2>3. j \in Reached(t, i) BY <1>1, <2>1, <2>2 DEF Reached
  <2>4. Made(t[j], vs[t[j].guid]) BY <1>3, <2>1, <2>3 DEF Walked
  <2> QED BY <2>1, <2>3, <2>4 DEF Walked, Made
<1> QED BY <1>2, <1>3

\* The first part of a call: the vdev of node i is made or refreshed.
LEMMA WalkedNode ==
    ASSUME NEW t, TreeOK(t), NEW old, NEW newer, NEW i \in DOMAIN t, i < Stop(t),
           NEW vs, Walked(t, old, newer, i - 1, vs)
    PROVE  Walked(t, old, newer, i, InitNode(t[i], vs, newer))
<1> DEFINE m == InitNode(t[i], vs, newer)
           n == t[i]
<1>1. n \in Nodes /\ Len(t) \in Nat /\ DOMAIN t = 1 .. Len(t) BY DEF TreeOK
<1>2. VdevsOK(vs) BY DEF Walked
<1>3. /\ DOMAIN m = DOMAIN vs \union {n.guid}
      /\ VdevsOK(m)
      /\ \A g \in DOMAIN vs : /\ Kept(vs[g], m[g])
                              /\ \/ m[g].state = vs[g].state
                                 \/ newer /\ g = n.guid /\ n.flag \in Flags /\ m[g].state = n.flag
      /\ n.guid \notin DOMAIN vs => Made(n, m[n.guid])
  <2>1. InitNodeDoes(n, vs, newer, m) BY <1>1, <1>2, InitNodeFacts
  <2> QED BY <2>1 DEF InitNodeDoes
<1> HIDE DEF m
<1>4. Reached(t, i) = Reached(t, i - 1) \union {i} BY <1>1 DEF Reached
<1>5. \A j \in Reached(t, i - 1) : j \in DOMAIN t /\ j # i BY <1>1 DEF Reached
<1>6. \A j \in Reached(t, i - 1) : t[j].guid # t[i].guid BY <1>5 DEF TreeOK
<1>7. DOMAIN m = DOMAIN old \union {t[k].guid : k \in Reached(t, i)} BY <1>3, <1>4 DEF Walked
<1>8. ASSUME NEW g \in DOMAIN old
      PROVE  /\ Kept(old[g], m[g])
             /\ \/ m[g].state = old[g].state
                \/ newer /\ \E k \in DOMAIN t : t[k].guid = g /\ t[k].flag \in Flags /\ m[g].state = t[k].flag
  <2>1. g \in DOMAIN vs BY DEF Walked
  <2>2. Kept(old[g], vs[g]) /\ Kept(vs[g], m[g]) BY <2>1, <1>3 DEF Walked
  <2>3. Kept(old[g], m[g]) BY <2>2, KeptTrans
  <2>4. CASE m[g].state = vs[g].state BY <2>3, <2>4 DEF Walked
  <2>5. CASE newer /\ g = n.guid /\ n.flag \in Flags /\ m[g].state = n.flag BY <2>3, <2>5
  <2> QED BY <2>1, <2>4, <2>5, <1>3
<1>9. ASSUME NEW k \in Reached(t, i), t[k].guid \notin DOMAIN old PROVE Made(t[k], m[t[k].guid])
  <2>1. CASE k = i
    <3>1. n.guid \notin DOMAIN vs BY <2>1, <1>6, <1>9 DEF Walked
    <3> QED BY <3>1, <2>1, <1>3
  <2>2. CASE k # i
    <3>1. k \in Reached(t, i - 1) BY <2>2, <1>4
    <3>2. t[k].guid \in DOMAIN vs /\ Made(t[k], vs[t[k].guid]) /\ t[k].guid # n.guid BY <3>1, <1>6, <1>9 DEF Walked
    <3> QED BY <3>2, <1>3 DEF Made, Kept
  <2> QED BY <2>1, <2>2
<1>10. VdevsOK(m) BY <1>3
<1>11. Walked(t, old, newer, i, m) BY <1>7, <1>8, <1>9, <1>10 DEF Walked
<1> QED BY <1>11 DEF m

\* Linking one of the nodes that were reached.
LEMMA WalkedLink ==
    ASSUME NEW t, TreeOK(t), NEW old, NEW newer, NEW i \in Nat, NEW us, Walked(t, old, newer, i, us), NEW k \in Reached(t, i)
    PROVE  Walked(t, old, newer, i, LinkNode(old, us, t[k]))
<1>1. VdevsOK(us) BY DEF Walked
<1>2. /\ t[k].guid \in DOMAIN us
      /\ t[k].up = Nil \/ t[k].up \in DOMAIN old \/ (t[k].up \in DOMAIN us /\ us[t[k].up].type # "disk")
  BY ParentMade
<1>3. PICK m : m = LinkNode(old, us, t[k]) OBVIOUS
<1>4. DOMAIN m = DOMAIN us /\ VdevsOK(m) /\ \A g \in DOMAIN us : Kept(us[g], m[g]) /\ m[g].state = us[g].state
  BY <1>1, <1>2, <1>3, LinkFacts
<1>5. Walked(t, old, newer, i, m) BY <1>4, WalkedLists
<1> QED BY <1>3, <1>5

\* The node whose subtree is done with node i, if that is not node i itself.
Above(t, i) == {j \in 1 .. i - 1 : t[j].guid = t[i].up /\ Done(t, i, i) /\ Done(t, i, j)}
\* A call keeps what is known.
LEMMA WalkedCall ==
    ASSUME NEW t, TreeOK(t), NEW old, NEW newer, NEW i \in DOMAIN t, i < Stop(t),
           NEW vs, Walked(t, old, newer, i - 1, vs)
    PROVE  Walked(t, old, newer, i, InitCall(t, old, vs, i, newer))
<1> DEFINE made == InitNode(t[i], vs, newer)
           one == IF Done(t, i, i) THEN LinkNode(old, made, t[i]) ELSE made
<1>0. i \in Nat /\ DOMAIN t = 1 .. Len(t) /\ Len(t) \in Nat /\ i \in Reached(t, i) BY DEF TreeOK, Reached
<1>1. Walked(t, old, newer, i, made) BY WalkedNode
<1> HIDE DEF made
<1>2. \A us, k : Walked(t, old, newer, i, us) /\ k \in Reached(t, i) => Walked(t, old, newer, i, LinkNode(old, us, t[k])) BY <1>0, WalkedLink
<1>3. Walked(t, old, newer, i, one) BY <1>0, <1>1, <1>2
<1> HIDE DEF one
<1>4. CASE Above(t, i) = {}
  <2>1. InitCall(t, old, vs, i, newer) = one BY <1>4 DEF InitCall, Above, one, made
  <2> QED BY <2>1, <1>3
<1>5. CASE Above(t, i) # {}
  <2> DEFINE c == CHOOSE j \in Above(t, i) : TRUE
  <2>1. c \in Above(t, i) BY <1>5
  <2>2. InitCall(t, old, vs, i, newer) = LinkNode(old, one, t[c]) BY <1>5 DEF InitCall, Above, one, made
  <2> HIDE DEF c
  <2>3. c \in 1 .. i - 1 BY <2>1 DEF Above
  <2>4. Stop(t) \in Nat BY StopType, <1>0 DEF TreeOK
  <2>5. c \in Reached(t, i) BY <1>0, <2>3, <2>4 DEF Reached
  <2> QED BY <2>2, <2>5, <1>2, <1>3
<1> QED BY <1>4, <1>5

\* What is known after the whole walk.
LEMMA WalkedAll ==
    ASSUME NEW t, TreeOK(t), NEW old, VdevsOK(old), NEW newer, NEW f, Walk(t, old, newer, Len(t), f)
    PROVE  \A i \in 0 .. Len(t) : Walked(t, old, newer, i, f[i])
<1> DEFINE S == {i \in Nat : i <= Len(t) => Walked(t, old, newer, i, f[i])}
<1>0. DOMAIN t = 1 .. Len(t) /\ Len(t) \in Nat /\ Stop(t) \in Nat BY StopType DEF TreeOK
<1>1. 0 \in S
  <2>1. Reached(t, 0) = {} BY <1>0 DEF Reached
  <2>2. f[0] = old BY <1>0 DEF Walk
  <2>3. Walked(t, old, newer, 0, old) BY <2>1 DEF Walked, Kept
  <2> QED BY <2>2, <2>3
<1>2. ASSUME NEW n \in Nat, n \in S PROVE n + 1 \in S
  <2> SUFFICES ASSUME n + 1 <= Len(t) PROVE Walked(t, old, newer, n + 1, f[n + 1]) OBVIOUS
  <2>1. Walked(t, old, newer, n, f[n]) BY <1>0, <1>2
  <2>2. f[n + 1] = IF n + 1 < Stop(t) THEN InitCall(t, old, f[n], n + 1, newer) ELSE f[n] BY <1>0 DEF Walk
  <2>3. CASE n + 1 < Stop(t) BY <1>0, <2>1, <2>2, <2>3, WalkedCall
  <2>4. CASE ~(n + 1 < Stop(t))
    <3>1. Reached(t, n + 1) = Reached(t, n) BY <1>0, <2>4 DEF Reached
    <3> QED BY <3>1, <2>1, <2>2, <2>4 DEF Walked
  <2> QED BY <2>3, <2>4
<1> HIDE DEF S
<1>3. Nat \subseteq S BY <1>1, <1>2, NatInd
<1> QED BY <1>0, <1>3 DEF S

-----------------------------------------------------------------------------
(* The lists of children, when the labels agree on the parent of every vdev. *)

Still(L) == \A la, lb \in L : \A i \in DOMAIN la.tree, j \in DOMAIN lb.tree :
                la.tree[i].guid = lb.tree[j].guid => la.tree[i].up = lb.tree[j].up
ListedUnder(L, x, p) == \E l \in L : \E i \in DOMAIN l.tree : l.tree[i].guid = x /\ l.tree[i].up = p
\* Whoever is in a list is below its owner in some label.
Kin(L, vs) == \A g \in DOMAIN vs : \A k \in DOMAIN vs[g].children : ListedUnder(L, vs[g].children[k], g)
\* A list has nobody twice, and its tail is its last member.
Tailed(v) == /\ \A i, j \in DOMAIN v.children : v.children[i] = v.children[j] => i = j
             /\ v.children # <<>> => v.last = v.children[Len(v.children)]
\* In the middle of a walk: R are the nodes that have their vdevs, C those that may be in a list, D those that are.
Linked(t, old, R, C, D, vs) ==
    /\ \A g \in DOMAIN old : vs[g].children = old[g].children /\ vs[g].last = old[g].last
    /\ \A j \in R : t[j].guid \notin DOMAIN old =>
          /\ \A k \in DOMAIN vs[t[j].guid].children : \E m \in C : vs[t[j].guid].children[k] = t[m].guid /\ t[m].up = t[j].guid
          /\ Tailed(vs[t[j].guid])
    /\ \A m \in D : t[m].up # Nil /\ t[m].up \notin DOMAIN old =>
          t[m].up \in DOMAIN vs /\ \E k \in DOMAIN vs[t[m].up].children : vs[t[m].up].children[k] = t[m].guid

LEMMA AppendFacts ==
    ASSUME NEW s \in Seq(Guids), NEW x \in Guids, NEW u, u = Append(s, x)
    PROVE  /\ Len(u) = Len(s) + 1 /\ DOMAIN u = DOMAIN s \union {Len(s) + 1} /\ u # <<>>
           /\ u[Len(s) + 1] = x /\ Len(s) + 1 \notin DOMAIN s /\ \A k \in DOMAIN s : u[k] = s[k]
OBVIOUS

MidWalk(L, lab, t, old, R, C, D, us) ==
    /\ Still(L) /\ lab \in L /\ t = lab.tree /\ TreeOK(t) /\ Kin(L, old)
    /\ R \subseteq DOMAIN t /\ C \subseteq DOMAIN t
    /\ VdevsOK(us) /\ DOMAIN us = DOMAIN old \union {t[j].guid : j \in R}
    /\ Linked(t, old, R, C, D, us)
LEMMA LastIn == ASSUME NEW s \in Seq(Guids), s # <<>> PROVE Len(s) \in DOMAIN s
OBVIOUS

\* x is now at the end of the list of p, and nothing else has happened to the lists.
Inserted(us, p, x, m) ==
    /\ DOMAIN m = DOMAIN us
    /\ \A g \in DOMAIN us : g # p => m[g].children = us[g].children /\ m[g].last = us[g].last
    /\ Tailed(m[p])
    /\ \A c \in DOMAIN m[p].children : m[p].children[c] = x \/ \E d \in DOMAIN us[p].children : us[p].children[d] = m[p].children[c]
    /\ \E c \in DOMAIN m[p].children : m[p].children[c] = x
    /\ \A d \in DOMAIN us[p].children : \E c \in DOMAIN m[p].children : us[p].children[d] = m[p].children[c]
LEMMA InsertStill ==
    ASSUME NEW us, VdevsOK(us), NEW p \in DOMAIN us, NEW x \in DOMAIN us, NEW m, m = STAILQ_INSERT_TAIL(us, p, x),
           \A g \in DOMAIN us : \A k \in DOMAIN us[g].children : us[g].children[k] # x,
           \A g \in DOMAIN us : g # p => \A k \in DOMAIN us[g].children : us[g].children[k] # us[p].last,
           Tailed(us[p])
    PROVE  Inserted(us, p, x, m)
<1> DEFINE s == us[p].children
           u == m[p].children
<1>1. /\ \A g \in DOMAIN us : g # p => m[g].children = us[g].children /\ m[g].last = us[g].last
      /\ u = Append(s, x) /\ m[p].last = x
  BY InsertPlain DEF Tailed
<1>2. s \in Seq(Guids) /\ x \in Guids BY DEF VdevsOK, VdevOK, VdevRec
<1>3. (\A c \in DOMAIN s : s[c] # x) /\ \A i, j \in DOMAIN s : s[i] = s[j] => i = j BY DEF Tailed
<1>4. DOMAIN m = DOMAIN us BY DEF STAILQ_INSERT_TAIL
<1> HIDE DEF s, u
<1>5. /\ Len(u) = Len(s) + 1 /\ DOMAIN u = DOMAIN s \union {Len(s) + 1} /\ u # <<>>
      /\ u[Len(s) + 1] = x /\ Len(s) + 1 \notin DOMAIN s /\ \A c \in DOMAIN s : u[c] = s[c]
  BY <1>1, <1>2, AppendFacts
<1>6. \A i, j \in DOMAIN u : u[i] = u[j] => i = j BY <1>3, <1>5
<1>7. Tailed(m[p]) BY <1>1, <1>5, <1>6 DEF Tailed, u
<1>8. \A c \in DOMAIN u : u[c] = x \/ \E d \in DOMAIN s : s[d] = u[c] BY <1>5
<1>9. (\E c \in DOMAIN u : u[c] = x) /\ \A d \in DOMAIN s : \E c \in DOMAIN u : s[d] = u[c] BY <1>5
<1> QED BY <1>1, <1>4, <1>7, <1>8, <1>9 DEF Inserted, s, u

\* Linking a node that is in no list yet: what InsertStill asks for, and what it gives.
LEMMA NotInList ==
    ASSUME NEW L, NEW lab, NEW t, NEW old, NEW R, NEW C, NEW D, NEW us, MidWalk(L, lab, t, old, R, C, D, us),
           NEW k \in DOMAIN t, k \notin C, t[k].up \notin DOMAIN old
    PROVE  \A g \in DOMAIN us : \A c \in DOMAIN us[g].children : us[g].children[c] # t[k].guid
<1> SUFFICES ASSUME NEW g \in DOMAIN us, NEW c \in DOMAIN us[g].children, us[g].children[c] = t[k].guid PROVE FALSE
  OBVIOUS
<1>0. \A i, j \in DOMAIN t : t[i].guid = t[j].guid => i = j BY DEF MidWalk, TreeOK
<1>1. CASE g \in DOMAIN old
  <2>1. us[g].children = old[g].children BY <1>1 DEF Linked, MidWalk
  <2>2. ListedUnder(L, t[k].guid, g) BY <1>1, <2>1 DEF Kin, MidWalk
  <2>3. t[k].up = g BY <2>2 DEF ListedUnder, Still, MidWalk
  <2> QED BY <2>3, <1>1
<1>2. CASE g \notin DOMAIN old
  <2>1. PICK j \in R : g = t[j].guid BY <1>2 DEF MidWalk
  <2>2. PICK i \in C : us[g].children[c] = t[i].guid BY <1>2, <2>1 DEF Linked, MidWalk
  <2>3. i \in DOMAIN t /\ i # k BY DEF MidWalk
  <2> QED BY <2>2, <2>3, <1>0
<1> QED BY <1>1, <1>2

LEMMA TailInList ==
    ASSUME NEW L, NEW lab, NEW t, NEW old, NEW R, NEW C, NEW D, NEW us, MidWalk(L, lab, t, old, R, C, D, us),
           NEW p, NEW j0 \in R, p = t[j0].guid, p \notin DOMAIN old
    PROVE  \A g \in DOMAIN us : g # p => \A c \in DOMAIN us[g].children : us[g].children[c] # us[p].last
<1> SUFFICES ASSUME NEW g \in DOMAIN us, g # p, NEW c \in DOMAIN us[g].children, us[g].children[c] = us[p].last PROVE FALSE
  OBVIOUS
<1>0. \A i, j \in DOMAIN t : t[i].guid = t[j].guid => i = j BY DEF MidWalk, TreeOK
<1>1. us[g].children[c] \in Guids /\ us[p].children \in Seq(Guids) /\ (us[p].last = Nil <=> us[p].children = <<>>)
  <2>1. p \in DOMAIN us BY DEF MidWalk
  <2>2. VdevOK(us, us[p]) /\ VdevOK(us, us[g]) BY <2>1 DEF MidWalk, VdevsOK
  <2>3. us[g].children[c] \in DOMAIN us BY <2>2 DEF VdevOK
  <2> QED BY <2>2, <2>3 DEF VdevOK, VdevRec, VdevsOK, MidWalk
<1>2. us[p].children # <<>> BY <1>1, PoolAssumption
<1>3. Tailed(us[p]) BY DEF Linked, MidWalk
<1>4. us[p].last = us[p].children[Len(us[p].children)] BY <1>2, <1>3 DEF Tailed
<1>5. Len(us[p].children) \in DOMAIN us[p].children BY <1>1, <1>2, LastIn
<1>6. \A d \in DOMAIN us[p].children : \E i \in C : us[p].children[d] = t[i].guid /\ t[i].up = p BY DEF Linked, MidWalk
<1>7. PICK i \in C : us[p].last = t[i].guid /\ t[i].up = p BY <1>4, <1>5, <1>6
<1>8. CASE g \in DOMAIN old
  <2>1. us[g].children = old[g].children BY <1>8 DEF Linked, MidWalk
  <2>2. ListedUnder(L, t[i].guid, g) BY <1>7, <1>8, <2>1 DEF Kin, MidWalk
  <2>3. t[i].up = g BY <2>2 DEF ListedUnder, Still, MidWalk
  <2> QED BY <2>3, <1>7
<1>9. CASE g \notin DOMAIN old
  <2>1. PICK j \in R : g = t[j].guid BY <1>9 DEF MidWalk
  <2>2. PICK n \in C : us[g].children[c] = t[n].guid /\ t[n].up = g BY <1>9, <2>1 DEF Linked, MidWalk
  <2>3. n \in DOMAIN t /\ i \in DOMAIN t BY DEF MidWalk
  <2>4. n = i BY <2>2, <2>3, <1>7, <1>0
  <2> QED BY <2>2, <2>4, <1>7
<1> QED BY <1>8, <1>9

\* What becomes of the description of a walk when a node is put in the list of p.
LEMMA LinkedMore ==
    ASSUME NEW t, NEW old, NEW R, NEW C, NEW D, NEW us, DOMAIN us = DOMAIN old \union {t[j].guid : j \in R},
           Linked(t, old, R, C, D, us), NEW k, NEW m, Inserted(us, t[k].up, t[k].guid, m), t[k].up \notin DOMAIN old, t[k].up \in DOMAIN us
    PROVE  Linked(t, old, R, C \union {k}, D \union {k}, m)
<1> DEFINE p == t[k].up
           x == t[k].guid
<1>1. /\ DOMAIN m = DOMAIN us
      /\ \A g \in DOMAIN us : g # p => m[g].children = us[g].children /\ m[g].last = us[g].last
  BY DEF Inserted
<1>2. \A g \in DOMAIN old : m[g].children = old[g].children /\ m[g].last = old[g].last BY <1>1 DEF Linked
<1>3. ASSUME NEW j \in R, t[j].guid \notin DOMAIN old
      PROVE  /\ \A c \in DOMAIN m[t[j].guid].children :
                  \E i \in C \union {k} : m[t[j].guid].children[c] = t[i].guid /\ t[i].up = t[j].guid
             /\ Tailed(m[t[j].guid])
  <2>1. /\ \A c \in DOMAIN us[t[j].guid].children : \E i \in C : us[t[j].guid].children[c] = t[i].guid /\ t[i].up = t[j].guid
        /\ Tailed(us[t[j].guid])
    BY <1>3 DEF Linked
  <2>2. CASE t[j].guid = p
    <3>1. \A c \in DOMAIN m[p].children : m[p].children[c] = x \/ \E d \in DOMAIN us[p].children : us[p].children[d] = m[p].children[c]
      BY DEF Inserted
    <3>2. Tailed(m[p]) BY DEF Inserted
    <3>3. ASSUME NEW c \in DOMAIN m[p].children PROVE \E i \in C \union {k} : m[p].children[c] = t[i].guid /\ t[i].up = p
      <4>1. CASE m[p].children[c] = x BY <4>1
      <4>2. CASE \E d \in DOMAIN us[p].children : us[p].children[d] = m[p].children[c] BY <4>2, <2>1, <2>2
      <4> QED BY <4>1, <4>2, <3>1
    <3> QED BY <3>2, <3>3, <2>2
  <2>3. CASE t[j].guid # p
    <3>1. m[t[j].guid].children = us[t[j].guid].children /\ m[t[j].guid].last = us[t[j].guid].last BY <2>3, <1>1
    <3>2. Tailed(m[t[j].guid]) BY <2>1, <3>1 DEF Tailed
    <3> QED BY <2>1, <3>1, <3>2
  <2> QED BY <2>2, <2>3
<1>4. ASSUME NEW i \in D \union {k}, t[i].up # Nil, t[i].up \notin DOMAIN old
      PROVE  t[i].up \in DOMAIN m /\ \E c \in DOMAIN m[t[i].up].children : m[t[i].up].children[c] = t[i].guid
  <2>1. CASE i = k BY <1>1, <2>1 DEF Inserted
  <2>2. CASE i \in D
    <3>1. t[i].up \in DOMAIN us BY <1>4, <2>2 DEF Linked
    <3>2. PICK d \in DOMAIN us[t[i].up].children : us[t[i].up].children[d] = t[i].guid BY <1>4, <2>2 DEF Linked
    <3>3. CASE t[i].up = p
      <4>1. \A e \in DOMAIN us[p].children : \E c \in DOMAIN m[p].children : us[p].children[e] = m[p].children[c] BY DEF Inserted
      <4> QED BY <1>1, <3>1, <3>2, <3>3, <4>1
    <3>4. CASE t[i].up # p BY <1>1, <3>1, <3>2, <3>4
    <3> QED BY <3>3, <3>4
  <2> QED BY <2>1, <2>2
<1> QED BY <1>2, <1>3, <1>4 DEF Linked

LEMMA LinkStill ==
    ASSUME NEW L, NEW lab, NEW t, NEW old, NEW R, NEW C, NEW D, NEW us, MidWalk(L, lab, t, old, R, C, D, us),
           NEW k \in R, k \notin C,
           t[k].up = Nil \/ t[k].up \in DOMAIN old \/ t[k].up \in {t[j].guid : j \in R}
    PROVE  Linked(t, old, R, C \union {k}, D \union {k}, LinkNode(old, us, t[k]))
<1>1. CASE t[k].up = Nil \/ t[k].up \in DOMAIN old
  <2>1. LinkNode(old, us, t[k]) = us BY <1>1 DEF LinkNode
  <2>2. \A j \in R : t[j].guid \notin DOMAIN old =>
          /\ \A c \in DOMAIN us[t[j].guid].children :
                \E m \in C \union {k} : us[t[j].guid].children[c] = t[m].guid /\ t[m].up = t[j].guid
          /\ Tailed(us[t[j].guid]) BY DEF Linked, MidWalk
  <2>3. \A m \in D \union {k} : t[m].up # Nil /\ t[m].up \notin DOMAIN old =>
          t[m].up \in DOMAIN us /\ \E c \in DOMAIN us[t[m].up].children : us[t[m].up].children[c] = t[m].guid BY <1>1 DEF Linked, MidWalk
  <2>4. \A g \in DOMAIN old : us[g].children = old[g].children /\ us[g].last = old[g].last BY DEF Linked, MidWalk
  <2>5. Linked(t, old, R, C \union {k}, D \union {k}, us) BY <2>2, <2>3, <2>4 DEF Linked
  <2> QED BY <2>1, <2>5
<1>2. CASE ~(t[k].up = Nil \/ t[k].up \in DOMAIN old)
  <2> DEFINE m == STAILQ_INSERT_TAIL(us, t[k].up, t[k].guid)
  <2>1. LinkNode(old, us, t[k]) = m BY <1>2 DEF LinkNode
  <2>2. PICK j \in R : t[j].guid = t[k].up BY <1>2
  <2>3. t[k].up \in DOMAIN us /\ t[k].guid \in DOMAIN us /\ k \in DOMAIN t /\ VdevsOK(us) BY <2>2 DEF MidWalk
  <2>4. \A g \in DOMAIN us : \A c \in DOMAIN us[g].children : us[g].children[c] # t[k].guid BY <1>2, <2>3, NotInList
  <2>5. \A g \in DOMAIN us : g # t[k].up => \A c \in DOMAIN us[g].children : us[g].children[c] # us[t[k].up].last
    BY <1>2, <2>2, TailInList
  <2>6. Tailed(us[t[k].up]) BY <1>2, <2>2 DEF Linked, MidWalk
  <2>7. Inserted(us, t[k].up, t[k].guid, m) BY <2>3, <2>4, <2>5, <2>6, InsertStill
  <2> HIDE DEF m
  <2>8. Linked(t, old, R, C \union {k}, D \union {k}, m) BY <1>2, <2>3, <2>7, LinkedMore DEF MidWalk
  <2> QED BY <2>1, <2>8
<1> QED BY <1>1, <1>2

\* The nodes that have been done after step i, and the disks among those that have been reached.
Closed(t, i) == {m \in DOMAIN t : m <= i /\ \A k \in DOMAIN t : t[k].up = t[m].guid => k <= i}
Disks(t, i) == {m \in Reached(t, i) : t[m].type = "disk"}

LEMMA ParentReached ==
    ASSUME NEW t, TreeOK(t), NEW i \in Nat, NEW k \in Reached(t, i)
    PROVE  t[k].up = Nil \/ t[k].up \in {t[j].guid : j \in Reached(t, i)}
<1>1. k \in DOMAIN t /\ k <= i /\ k < Stop(t) /\ Len(t) \in Nat /\ DOMAIN t = 1 .. Len(t) BY DEF Reached, TreeOK
<1>2. ASSUME t[k].up # Nil PROVE \E j \in Reached(t, i) : t[k].up = t[j].guid
  <2>1. PICK j \in 1 .. k - 1 : t[j].guid = t[k].up BY <1>1, <1>2, ParentBefore
  <2>2. Stop(t) \in Nat BY StopType, <1>1 DEF TreeOK
  <2>3. j \in Reached(t, i) BY <1>1, <2>1, <2>2 DEF Reached
  <2> QED BY <2>1, <2>3
<1> QED BY <1>2

\* A node that was just made is in no list and has none.
LEMMA StillNode ==
    ASSUME NEW L, NEW lab, NEW t, NEW old, NEW newer, NEW i \in DOMAIN t, i < Stop(t), NEW C, NEW D,
           NEW vs, Walked(t, old, newer, i - 1, vs), MidWalk(L, lab, t, old, Reached(t, i - 1), C, D, vs)
    PROVE  MidWalk(L, lab, t, old, Reached(t, i), C, D, InitNode(t[i], vs, newer))
<1> DEFINE R == Reached(t, i - 1)
<1>1. TreeOK(t) /\ t[i] \in Nodes /\ VdevsOK(vs) /\ Linked(t, old, R, C, D, vs) BY DEF MidWalk, TreeOK
<1>2. PICK m : m = InitNode(t[i], vs, newer) OBVIOUS
<1>3. InitNodeDoes(t[i], vs, newer, m) BY <1>1, <1>2, InitNodeFacts
<1>4. Walked(t, old, newer, i, m) BY <1>1, <1>2, WalkedNode
<1>5. Reached(t, i) = R \union {i} /\ \A j \in R : j \in DOMAIN t /\ j # i BY <1>1 DEF Reached, TreeOK
<1>6. DOMAIN vs = DOMAIN old \union {t[j].guid : j \in R} BY DEF MidWalk
<1>7. \A g \in DOMAIN vs : m[g].children = vs[g].children /\ m[g].last = vs[g].last BY <1>3 DEF InitNodeDoes
<1>8. \A g \in DOMAIN old : m[g].children = old[g].children /\ m[g].last = old[g].last BY <1>1, <1>6, <1>7 DEF Linked
<1>9. ASSUME NEW j \in Reached(t, i), t[j].guid \notin DOMAIN old
      PROVE  /\ \A k \in DOMAIN m[t[j].guid].children : \E n \in C : m[t[j].guid].children[k] = t[n].guid /\ t[n].up = t[j].guid
             /\ Tailed(m[t[j].guid])
  <2>1. CASE j = i
    <3>1. t[i].guid \notin DOMAIN vs BY <1>1, <1>5, <1>6, <1>9, <2>1 DEF TreeOK
    <3>2. m[t[i].guid].children = <<>> BY <3>1, <1>3 DEF InitNodeDoes
    <3> QED BY <3>2, <2>1 DEF Tailed
  <2>2. CASE j \in R
    <3>1. /\ \A k \in DOMAIN vs[t[j].guid].children : \E n \in C : vs[t[j].guid].children[k] = t[n].guid /\ t[n].up = t[j].guid
          /\ Tailed(vs[t[j].guid]) BY <1>1, <1>9, <2>2 DEF Linked
    <3>2. m[t[j].guid].children = vs[t[j].guid].children /\ m[t[j].guid].last = vs[t[j].guid].last BY <2>2, <1>6, <1>7
    <3>3. Tailed(m[t[j].guid]) BY <3>1, <3>2 DEF Tailed
    <3> QED BY <3>1, <3>2, <3>3
  <2> QED BY <2>1, <2>2, <1>5
<1>10. ASSUME NEW n \in D, t[n].up # Nil, t[n].up \notin DOMAIN old
       PROVE  t[n].up \in DOMAIN m /\ \E k \in DOMAIN m[t[n].up].children : m[t[n].up].children[k] = t[n].guid
  <2>1. t[n].up \in DOMAIN vs /\ \E k \in DOMAIN vs[t[n].up].children : vs[t[n].up].children[k] = t[n].guid BY <1>1, <1>10 DEF Linked
  <2>2. DOMAIN vs \subseteq DOMAIN m BY <1>3 DEF InitNodeDoes
  <2> QED BY <2>1, <2>2, <1>7
<1>11. Linked(t, old, Reached(t, i), C, D, m) BY <1>8, <1>9, <1>10 DEF Linked
<1>12. VdevsOK(m) /\ DOMAIN m = DOMAIN old \union {t[j].guid : j \in Reached(t, i)} BY <1>4 DEF Walked
<1>13. Reached(t, i) \subseteq DOMAIN t BY DEF Reached
<1>14. MidWalk(L, lab, t, old, Reached(t, i), C, D, m)
  <2>1. Still(L) /\ lab \in L /\ t = lab.tree /\ Kin(L, old) /\ C \subseteq DOMAIN t BY DEF MidWalk
  <2> QED BY <2>1, <1>1, <1>11, <1>12, <1>13 DEF MidWalk
<1> QED BY <1>2, <1>14

LEMMA StillLink ==
    ASSUME NEW L, NEW lab, NEW t, NEW old, NEW newer, NEW i \in Nat, NEW C, NEW D, NEW us, Walked(t, old, newer, i, us),
           MidWalk(L, lab, t, old, Reached(t, i), C, D, us), NEW k \in Reached(t, i), k \notin C
    PROVE  MidWalk(L, lab, t, old, Reached(t, i), C \union {k}, D \union {k}, LinkNode(old, us, t[k]))
<1>1. Still(L) /\ lab \in L /\ t = lab.tree /\ Kin(L, old) /\ C \subseteq DOMAIN t /\ Reached(t, i) \subseteq DOMAIN t /\ TreeOK(t)
  BY DEF MidWalk
<1>2. t[k].up = Nil \/ t[k].up \in {t[j].guid : j \in Reached(t, i)} BY <1>1, ParentReached
<1>3. Linked(t, old, Reached(t, i), C \union {k}, D \union {k}, LinkNode(old, us, t[k])) BY <1>2, LinkStill
<1>4. Walked(t, old, newer, i, LinkNode(old, us, t[k])) BY <1>1, WalkedLink
<1>5. VdevsOK(LinkNode(old, us, t[k])) /\ DOMAIN LinkNode(old, us, t[k]) = DOMAIN old \union {t[j].guid : j \in Reached(t, i)}
  BY <1>4 DEF Walked
<1> QED BY <1>1, <1>3, <1>5 DEF MidWalk

\* A larger set of those that may be in a list, a smaller of those that are.
LEMMA StillWeaker ==
    ASSUME NEW L, NEW lab, NEW t, NEW old, NEW R, NEW C, NEW D, NEW us, MidWalk(L, lab, t, old, R, C, D, us),
           NEW CC, C \subseteq CC, CC \subseteq DOMAIN t, NEW DD, DD \subseteq D
    PROVE  MidWalk(L, lab, t, old, R, CC, DD, us)
<1>1. Linked(t, old, R, C, D, us) BY DEF MidWalk
<1>2. Linked(t, old, R, CC, DD, us)
  <2>1. \A j \in R : t[j].guid \notin DOMAIN old =>
          /\ \A k \in DOMAIN us[t[j].guid].children : \E m \in CC : us[t[j].guid].children[k] = t[m].guid /\ t[m].up = t[j].guid
          /\ Tailed(us[t[j].guid]) BY <1>1 DEF Linked
  <2> QED BY <1>1, <2>1 DEF Linked
<1> QED BY <1>2 DEF MidWalk

\* A node is done with node i when the next node is not below it.
LEMMA DoneCloses ==
    ASSUME NEW t, TreeOK(t), NEW i \in DOMAIN t, NEW c \in 2 .. i, Done(t, i, c)
    PROVE  c \in Closed(t, i)
<1>1. Len(t) \in Nat /\ DOMAIN t = 1 .. Len(t) /\ c \in DOMAIN t /\ c <= i BY DEF TreeOK
<1>2. ASSUME NEW k \in DOMAIN t, t[k].up = t[c].guid, ~(k <= i) PROVE FALSE
  <2>1. k \in 2 .. Len(t) /\ c \in 2 .. Len(t) /\ i + 1 \in c + 1 .. k BY <1>1, <1>2
  <2>2. t[i + 1].up = t[c].guid BY <2>1, <1>2 DEF TreeOK
  <2>3. i + 1 \in DOMAIN t BY <1>1, <2>1
  <2> QED BY <2>2, <2>3 DEF Done
<1> QED BY <1>1, <1>2 DEF Closed

LEMMA ClosedGrows ==
    ASSUME NEW t, TreeOK(t), NEW i \in DOMAIN t
    PROVE  /\ Closed(t, i - 1) \subseteq Closed(t, i) /\ Closed(t, i) \subseteq DOMAIN t /\ i \notin Closed(t, i - 1)
           /\ \A c \in Above(t, i) : c \notin Closed(t, i - 1) /\ c # i
           /\ Disks(t, i) \subseteq Disks(t, i - 1) \union {i}
           /\ Done(t, i, i) \/ t[i].type # "disk"
           /\ i = 1 /\ Done(t, i, i) => 1 \in Closed(t, 1)
<1>1. Len(t) \in Nat /\ DOMAIN t = 1 .. Len(t) BY DEF TreeOK
<1>2. Closed(t, i - 1) \subseteq Closed(t, i) /\ Closed(t, i) \subseteq DOMAIN t /\ i \notin Closed(t, i - 1) BY <1>1 DEF Closed
<1>3. ASSUME NEW c \in Above(t, i) PROVE c \notin Closed(t, i - 1) /\ c # i
  <2>1. c \in 1 .. i - 1 /\ t[c].guid = t[i].up BY DEF Above
  <2> QED BY <2>1, <1>1 DEF Closed
<1>4. Disks(t, i) \subseteq Disks(t, i - 1) \union {i} BY <1>1 DEF Disks, Reached
<1>5. ASSUME ~Done(t, i, i) PROVE t[i].type # "disk"
  <2>1. i + 1 \in DOMAIN t /\ t[i + 1].up = t[i].guid BY <1>5 DEF Done
  <2>2. i + 1 \in 2 .. Len(t) BY <2>1, <1>1
  <2>3. PICK j \in 1 .. i : t[j].guid = t[i + 1].up /\ t[j].type # "disk"
    <3>1. \E j \in 1 .. (i + 1) - 1 : t[j].guid = t[i + 1].up /\ t[j].type # "disk" BY <2>2 DEF TreeOK
    <3>2. (i + 1) - 1 = i BY <1>1
    <3> QED BY <3>1, <3>2
  <2>4. j \in DOMAIN t /\ t[j].guid = t[i].guid BY <2>1, <2>3, <1>1
  <2>5. j = i BY <2>4 DEF TreeOK
  <2> QED BY <2>3, <2>5
<1>6. ASSUME i = 1, Done(t, 1, 1) PROVE 1 \in Closed(t, 1)
  <2>1. ASSUME 2 \in DOMAIN t PROVE FALSE
    <3>1. t[2].up # t[1].guid BY <1>6, <2>1 DEF Done
    <3>2. 2 \in 2 .. Len(t) BY <2>1, <1>1
    <3>3. PICK j \in 1 .. 2 - 1 : t[j].guid = t[2].up BY <3>2 DEF TreeOK
    <3>4. j = 1 OBVIOUS
    <3> QED BY <3>1, <3>3, <3>4
  <2>2. DOMAIN t = {1} BY <2>1, <1>1, <1>6
  <2> QED BY <2>2 DEF Closed
<1> QED BY <1>2, <1>3, <1>4, <1>5, <1>6

\* The lists after the call for node i.
LEMMA StillCall ==
    ASSUME NEW L, NEW lab, NEW t, NEW old, NEW newer, NEW i \in DOMAIN t, i < Stop(t), NEW vs, Walked(t, old, newer, i - 1, vs),
           MidWalk(L, lab, t, old, Reached(t, i - 1), Closed(t, i - 1), Disks(t, i - 1), vs)
    PROVE  MidWalk(L, lab, t, old, Reached(t, i), Closed(t, i), Disks(t, i), InitCall(t, old, vs, i, newer))
<1> DEFINE made == InitNode(t[i], vs, newer)
           one == IF Done(t, i, i) THEN LinkNode(old, made, t[i]) ELSE made
           C == Closed(t, i - 1)
           D == Disks(t, i - 1)
           res == InitCall(t, old, vs, i, newer)
<1>0. /\ TreeOK(t) /\ Len(t) \in Nat /\ DOMAIN t = 1 .. Len(t) /\ i \in Nat /\ i \in Reached(t, i)
      /\ Stop(t) \in Nat
  <2>1. TreeOK(t) BY DEF MidWalk
  <2> QED BY <2>1, StopType DEF Reached, TreeOK
<1>1. MidWalk(L, lab, t, old, Reached(t, i), C, D, made) BY StillNode
<1>2. Walked(t, old, newer, i, made) BY <1>0, WalkedNode
<1> HIDE DEF made, C, D, res
<1>3. /\ C \subseteq Closed(t, i) /\ Closed(t, i) \subseteq DOMAIN t /\ i \notin C
      /\ \A c \in Above(t, i) : c \notin C /\ c # i
      /\ Disks(t, i) \subseteq D \union {i}
      /\ Done(t, i, i) \/ t[i].type # "disk"
      /\ i = 1 /\ Done(t, i, i) => 1 \in Closed(t, 1)
  BY <1>0, ClosedGrows DEF C, D
<1>4. CASE ~Done(t, i, i)
  <2>1. Above(t, i) = {} BY <1>4 DEF Above
  <2>2. res = made BY <1>4, <2>1 DEF InitCall, Above, made, res
  <2>3. Disks(t, i) \subseteq D BY <1>3, <1>4 DEF Disks
  <2>4. MidWalk(L, lab, t, old, Reached(t, i), Closed(t, i), Disks(t, i), made) BY <1>1, <1>3, <2>3, StillWeaker
  <2> QED BY <2>2, <2>4 DEF res
<1>5. CASE Done(t, i, i)
  <2>1. one = LinkNode(old, made, t[i]) BY <1>5
  <2> HIDE DEF one
  <2>2. MidWalk(L, lab, t, old, Reached(t, i), C \union {i}, D \union {i}, one) BY <1>0, <1>1, <1>2, <1>3, <2>1, StillLink
  <2>3. Walked(t, old, newer, i, one) BY <1>0, <1>2, <2>1, WalkedLink
  <2>4. i \in Closed(t, i)
    <3>1. CASE i = 1 BY <3>1, <1>3, <1>5
    <3>2. CASE i # 1
      <4>1. i \in 2 .. i BY <3>2, <1>0
      <4> QED BY <4>1, <1>0, <1>5, DoneCloses
    <3> QED BY <3>1, <3>2
  <2>5. MidWalk(L, lab, t, old, Reached(t, i), Closed(t, i), Disks(t, i), one) BY <1>3, <2>2, <2>4, StillWeaker
  <2>6. CASE Above(t, i) = {}
    <3>1. res = one BY <2>6 DEF InitCall, Above, one, made, res
    <3> QED BY <3>1, <2>5 DEF res
  <2>7. CASE Above(t, i) # {}
    <3> DEFINE c == CHOOSE j \in Above(t, i) : TRUE
    <3>1. c \in Above(t, i) BY <2>7
    <3>2. res = LinkNode(old, one, t[c]) BY <2>7 DEF InitCall, Above, one, made, res
    <3> HIDE DEF c
    <3>3. c \in 1 .. i - 1 /\ Done(t, i, c) BY <3>1 DEF Above
    <3>4. CASE c = 1
      <4>1. t[1].up = Nil BY <1>0 DEF TreeOK
      <4>2. res = one BY <3>2, <3>4, <4>1 DEF LinkNode
      <4> QED BY <4>2, <2>5 DEF res
    <3>5. CASE c # 1
      <4>1. c \in 2 .. i /\ c \in Reached(t, i) BY <3>3, <3>5, <1>0 DEF Reached
      <4>2. c \in Closed(t, i) BY <4>1, <3>3, <1>0, DoneCloses
      <4>3. c \notin C \union {i} BY <3>1, <1>3
      <4>4. MidWalk(L, lab, t, old, Reached(t, i), (C \union {i}) \union {c}, (D \union {i}) \union {c}, LinkNode(old, one, t[c]))
        BY <1>0, <2>2, <2>3, <4>1, <4>3, StillLink
      <4>5. MidWalk(L, lab, t, old, Reached(t, i), (C \union {i}) \union {c}, (D \union {i}) \union {c}, res) BY <4>4, <3>2
      <4>6. (C \union {i}) \union {c} \subseteq Closed(t, i) /\ Disks(t, i) \subseteq (D \union {i}) \union {c} BY <1>3, <2>4, <4>2
      <4>7. MidWalk(L, lab, t, old, Reached(t, i), Closed(t, i), Disks(t, i), res) BY <1>3, <4>5, <4>6, StillWeaker
      <4> QED BY <4>7 DEF res
    <3> QED BY <3>4, <3>5
  <2> QED BY <2>6, <2>7
<1> QED BY <1>4, <1>5

LEMMA StillAll ==
    ASSUME NEW L, Still(L), NEW lab \in L, NEW t, t = lab.tree, TreeOK(t), NEW old, VdevsOK(old), Kin(L, old),
           NEW newer, NEW f, Walk(t, old, newer, Len(t), f)
    PROVE  MidWalk(L, lab, t, old, Reached(t, Len(t)), Closed(t, Len(t)), Disks(t, Len(t)), f[Len(t)])
<1> DEFINE P(i) == MidWalk(L, lab, t, old, Reached(t, i), Closed(t, i), Disks(t, i), f[i])
           S == {i \in Nat : i <= Len(t) => P(i)}
<1>0. DOMAIN t = 1 .. Len(t) /\ Len(t) \in Nat /\ Stop(t) \in Nat BY StopType DEF TreeOK
<1>1. 0 \in S
  <2>1. Reached(t, 0) = {} /\ Closed(t, 0) = {} /\ Disks(t, 0) = {} BY <1>0 DEF Reached, Closed, Disks
  <2>2. f[0] = old BY <1>0 DEF Walk
  <2>3. Linked(t, old, {}, {}, {}, old) BY DEF Linked
  <2>4. MidWalk(L, lab, t, old, {}, {}, {}, old) BY <2>3 DEF MidWalk
  <2> QED BY <2>1, <2>2, <2>4
<1>2. ASSUME NEW n \in Nat, n \in S PROVE n + 1 \in S
  <2> SUFFICES ASSUME n + 1 <= Len(t) PROVE P(n + 1) OBVIOUS
  <2>1. P(n) BY <1>0, <1>2
  <2>2. f[n + 1] = IF n + 1 < Stop(t) THEN InitCall(t, old, f[n], n + 1, newer) ELSE f[n] BY <1>0 DEF Walk
  <2>3. (n + 1) - 1 = n /\ n + 1 \in DOMAIN t BY <1>0
  <2>4. CASE n + 1 < Stop(t)
    <3>1. Walked(t, old, newer, n, f[n]) BY <1>0, WalkedAll
    <3>2. MidWalk(L, lab, t, old, Reached(t, n + 1), Closed(t, n + 1), Disks(t, n + 1), InitCall(t, old, f[n], n + 1, newer))
      BY <2>1, <2>3, <2>4, <3>1, StillCall
    <3> QED BY <3>2, <2>2, <2>4
  <2>5. CASE ~(n + 1 < Stop(t))
    <3>1. Reached(t, n + 1) = Reached(t, n) /\ Disks(t, n + 1) = Disks(t, n) BY <1>0, <2>5 DEF Reached, Disks
    <3>2. Closed(t, n) \subseteq Closed(t, n + 1) /\ Closed(t, n + 1) \subseteq DOMAIN t BY <1>0 DEF Closed
    <3>3. MidWalk(L, lab, t, old, Reached(t, n), Closed(t, n + 1), Disks(t, n), f[n]) BY <2>1, <3>2, StillWeaker
    <3> QED BY <3>1, <3>3, <2>2, <2>5
  <2> QED BY <2>4, <2>5
<1> HIDE DEF S
<1>3. Nat \subseteq S BY <1>1, <1>2, NatInd
<1> QED BY <1>0, <1>3 DEF S

-----------------------------------------------------------------------------
(* The vdevs: what is true of them between two probes.  L are the labels met, F the devices that were taken. *)

LabelsOK(L) == (\A l \in L : LabelOK(l)) /\ \A la, lb \in L : Agreeing(la, lb)
TopOf(L) == {l.tree[1].guid : l \in L}
Marked(L, g) == \E l \in L : \E i \in DOMAIN l.tree : l.tree[i].guid = g /\ l.tree[i].flag \in Flags

Owned(mac, F, vs) ==
    /\ \A g \in DOMAIN vs : vs[g].phys_read # Nil => vs[g].phys_read \in F /\ mac[vs[g].phys_read].label.guid = g
    /\ \A d \in F : mac[d].label.guid \in DOMAIN vs /\ vs[mac[d].label.guid].phys_read = d
Known(L, vs) == \A g \in DOMAIN vs : \E l \in L : \E i \in DOMAIN l.tree :
                    l.tree[i].guid = g /\ vs[g].type = l.tree[i].type /\ vs[g].id = l.tree[i].id
LeafOpen(vs) == \A g \in DOMAIN vs : vs[g].state = "HEALTHY" /\ vs[g].children = <<>> => vs[g].phys_read # Nil
OnlyTops(L, vs) == \A g \in DOMAIN vs : vs[g].state = "HEALTHY" /\ vs[g].phys_read = Nil => g \in TopOf(L)
KidsOpen(vs) == \A g \in DOMAIN vs : vs[g].state = "HEALTHY" => \A k \in DOMAIN vs[g].children : vs[vs[g].children[k]].phys_read # Nil
KidsHealthy(L, vs) == \A g \in TopOf(L) \intersect DOMAIN vs : vs[g].state = "HEALTHY" /\ vs[g].type \in {"mirror", "raidz"} =>
                          \A k \in DOMAIN vs[g].children : vs[vs[g].children[k]].state = "HEALTHY"
Unmarked(mac, L, F, vs) == \A d \in F : ~Marked(L, mac[d].label.guid) /\ mac[d].label.guid \notin TopOf(L) =>
                               vs[mac[d].label.guid].state = "HEALTHY"
\* The label that made a top has put every disk right below it in its list, if the walk was not cut short.
MadeBy(l, g, v) == /\ l.tree[1].guid = g
                   /\ Stop(l.tree) > Len(l.tree) =>
                         \A j \in DOMAIN l.tree : l.tree[j].type = "disk" /\ l.tree[j].up = g =>
                             \E k \in DOMAIN v.children : v.children[k] = l.tree[j].guid
Complete(L, vs) == \A g \in TopOf(L) \intersect DOMAIN vs : \E l \in L : MadeBy(l, g, vs[g])

\* All of it but KidsHealthy, which does not hold between the walk and vdev_set_state.
VdevInv(mac, L, F, vs) ==
    /\ VdevsOK(vs) /\ Owned(mac, F, vs) /\ Known(L, vs) /\ LeafOpen(vs) /\ OnlyTops(L, vs) /\ Unmarked(mac, L, F, vs)
    /\ Still(L) => Kin(L, vs) /\ KidsOpen(vs) /\ Complete(L, vs)
AllHealthy(L, vs) == Still(L) /\ (\A l \in L : Accepted(l)) => KidsHealthy(L, vs)

\* What is known of all vdevs as tops is known by an older label already.
LEMMA TopKnown ==
    ASSUME NEW K, NEW L, K \subseteq L, LabelsOK(L), NEW vs, Known(K, vs), NEW g \in DOMAIN vs, g \in TopOf(L)
    PROVE  g \in TopOf(K)
<1>1. PICK l \in K : \E i \in DOMAIN l.tree : l.tree[i].guid = g BY DEF Known
<1>2. PICK i \in DOMAIN l.tree : l.tree[i].guid = g BY <1>1
<1>3. PICK h \in L : h.tree[1].guid = g BY DEF TopOf
<1>4. 1 \in DOMAIN h.tree BY DEF LabelsOK, LabelOK, TreeOK
<1>5. Agreeing(h, l) BY DEF LabelsOK
<1>6. i = 1 BY <1>2, <1>3, <1>4, <1>5 DEF Agreeing
<1> QED BY <1>2, <1>6 DEF TopOf

\* More labels, the same vdevs.
LEMMA MoreLabels ==
    ASSUME NEW mac, NEW K, NEW L, K \subseteq L, LabelsOK(L), NEW F, NEW vs, VdevInv(mac, K, F, vs), AllHealthy(K, vs)
    PROVE  VdevInv(mac, L, F, vs) /\ AllHealthy(L, vs)
<1>1. VdevsOK(vs) /\ Owned(mac, F, vs) /\ Known(K, vs) /\ LeafOpen(vs) /\ OnlyTops(K, vs) /\ Unmarked(mac, K, F, vs)
  BY DEF VdevInv
<1>2. Known(L, vs) BY <1>1 DEF Known
<1>3. TopOf(K) \subseteq TopOf(L) BY DEF TopOf
<1>4. OnlyTops(L, vs) BY <1>1, <1>3 DEF OnlyTops
<1>5. Unmarked(mac, L, F, vs) BY <1>1, <1>3 DEF Unmarked, Marked
<1>6. ASSUME Still(L) PROVE Still(K) /\ Kin(L, vs) /\ KidsOpen(vs) /\ Complete(L, vs)
  <2>1. Still(K) BY <1>6 DEF Still
  <2>2. Kin(K, vs) /\ KidsOpen(vs) /\ Complete(K, vs) BY <2>1 DEF VdevInv
  <2>3. Kin(L, vs) BY <2>2 DEF Kin, ListedUnder
  <2>4. Complete(L, vs)
    <3> SUFFICES ASSUME NEW g \in TopOf(L) \intersect DOMAIN vs PROVE \E l \in L : MadeBy(l, g, vs[g]) BY DEF Complete
    <3>1. g \in TopOf(K) BY <1>1, TopKnown
    <3> QED BY <3>1, <2>2 DEF Complete
  <2> QED BY <2>1, <2>2, <2>3, <2>4
<1>7. ASSUME Still(L), \A l \in L : Accepted(l) PROVE KidsHealthy(L, vs)
  <2>1. Still(K) /\ \A l \in K : Accepted(l) BY <1>6, <1>7
  <2>2. KidsHealthy(K, vs) BY <2>1 DEF AllHealthy
  <2> SUFFICES ASSUME NEW g \in TopOf(L) \intersect DOMAIN vs
               PROVE  vs[g].state = "HEALTHY" /\ vs[g].type \in {"mirror", "raidz"} =>
                          \A k \in DOMAIN vs[g].children : vs[vs[g].children[k]].state = "HEALTHY"
    BY DEF KidsHealthy
  <2>3. g \in TopOf(K) BY <1>1, TopKnown
  <2> QED BY <2>2, <2>3 DEF KidsHealthy
<1> QED BY <1>1, <1>2, <1>4, <1>5, <1>6, <1>7 DEF VdevInv, AllHealthy

\* The walk as vdev_probe calls it.
LEMMA InitFacts ==
    ASSUME NEW t, TreeOK(t), NEW old, VdevsOK(old), NEW newer
    PROVE  Walked(t, old, newer, Len(t), vdev_init_from_nvlist(t, old, newer))
<1>1. Len(t) \in Nat BY DEF TreeOK
<1>2. PICK f : Walk(t, old, newer, Len(t), f) /\ vdev_init_from_nvlist(t, old, newer) = f[Len(t)] BY <1>1, WalkIs
<1>3. Walked(t, old, newer, Len(t), f[Len(t)]) BY <1>1, <1>2, WalkedAll
<1> QED BY <1>2, <1>3

LEMMA InitStill ==
    ASSUME NEW L, Still(L), NEW lab \in L, NEW t, t = lab.tree, TreeOK(t), NEW old, VdevsOK(old), Kin(L, old), NEW newer
    PROVE  MidWalk(L, lab, t, old, Reached(t, Len(t)), Closed(t, Len(t)), Disks(t, Len(t)), vdev_init_from_nvlist(t, old, newer))
<1>1. Len(t) \in Nat BY DEF TreeOK
<1>2. PICK f : Walk(t, old, newer, Len(t), f) /\ vdev_init_from_nvlist(t, old, newer) = f[Len(t)] BY <1>1, WalkIs
<1>3. MidWalk(L, lab, t, old, Reached(t, Len(t)), Closed(t, Len(t)), Disks(t, Len(t)), f[Len(t)]) BY <1>2, StillAll
<1> QED BY <1>2, <1>3

\* A vdev that is healthy after the walk was so before it, with the same lists when nothing has moved.
LEMMA HealthyBefore ==
    ASSUME NEW t, NEW old, NEW newer, NEW i, NEW vs, Walked(t, old, newer, i, vs), NEW g \in DOMAIN vs, vs[g].state = "HEALTHY"
    PROVE  g \in DOMAIN old /\ old[g].state = "HEALTHY" /\ Kept(old[g], vs[g])
<1>1. "HEALTHY" \notin Flags BY DEF Flags
<1>2. ASSUME g \notin DOMAIN old PROVE FALSE
  <2>1. PICK k \in Reached(t, i) : g = t[k].guid BY <1>2 DEF Walked
  <2>2. Made(t[k], vs[g]) BY <1>2, <2>1 DEF Walked
  <2> QED BY <2>2, <1>1 DEF Made
<1>3. g \in DOMAIN old BY <1>2
<1>4. Kept(old[g], vs[g]) /\ old[g].state = "HEALTHY" BY <1>1, <1>3 DEF Walked
<1> QED BY <1>3, <1>4

\* The walk keeps what is true of the vdevs.
LEMMA WalkKeeps ==
    ASSUME NEW mac, NEW L, LabelsOK(L), NEW lab \in L, NEW F, NEW old, VdevInv(mac, L, F, old), NEW newer,
           NEW vs, vs = vdev_init_from_nvlist(lab.tree, old, newer)
    PROVE  VdevInv(mac, L, F, vs)
<1> DEFINE t == lab.tree
           R == Reached(t, Len(t))
<1>0. TreeOK(t) /\ Len(t) \in Nat /\ DOMAIN t = 1 .. Len(t)
  <2>1. TreeOK(t) BY DEF LabelsOK, LabelOK
  <2> QED BY <2>1 DEF TreeOK
<1>1. VdevsOK(old) /\ Owned(mac, F, old) /\ Known(L, old) /\ LeafOpen(old) /\ OnlyTops(L, old) /\ Unmarked(mac, L, F, old)
  BY DEF VdevInv
<1>2. Walked(t, old, newer, Len(t), vs) BY <1>0, <1>1, InitFacts
<1>3. VdevsOK(vs) /\ DOMAIN vs = DOMAIN old \union {t[k].guid : k \in R} BY <1>2 DEF Walked
<1>4. \A g \in DOMAIN old : Kept(old[g], vs[g]) BY <1>2 DEF Walked
<1>5. \A k \in R : t[k].guid \notin DOMAIN old => Made(t[k], vs[t[k].guid]) BY <1>2 DEF Walked
<1>6. \A g \in DOMAIN vs : vs[g].state = "HEALTHY" => g \in DOMAIN old /\ old[g].state = "HEALTHY" BY <1>2, HealthyBefore
<1>7. Owned(mac, F, vs)
  <2>1. ASSUME NEW g \in DOMAIN vs, vs[g].phys_read # Nil PROVE vs[g].phys_read \in F /\ mac[vs[g].phys_read].label.guid = g
    <3>1. g \in DOMAIN old BY <2>1, <1>3, <1>5 DEF Made
    <3>2. vs[g].phys_read = old[g].phys_read BY <3>1, <1>4 DEF Kept
    <3> QED BY <3>1, <3>2, <2>1, <1>1 DEF Owned
  <2>2. \A d \in F : mac[d].label.guid \in DOMAIN vs /\ vs[mac[d].label.guid].phys_read = d BY <1>1, <1>3, <1>4 DEF Owned, Kept
  <2> QED BY <2>1, <2>2 DEF Owned
<1>8. Known(L, vs)
  <2> SUFFICES ASSUME NEW g \in DOMAIN vs
               PROVE  \E l \in L : \E i \in DOMAIN l.tree : l.tree[i].guid = g /\ vs[g].type = l.tree[i].type /\ vs[g].id = l.tree[i].id
    BY DEF Known
  <2>1. CASE g \in DOMAIN old
    <3>1. \E l \in L : \E i \in DOMAIN l.tree : l.tree[i].guid = g /\ old[g].type = l.tree[i].type /\ old[g].id = l.tree[i].id
      BY <2>1, <1>1 DEF Known
    <3>2. vs[g].type = old[g].type /\ vs[g].id = old[g].id BY <2>1, <1>4 DEF Kept
    <3> QED BY <3>1, <3>2
  <2>2. CASE g \notin DOMAIN old
    <3>1. PICK k \in R : g = t[k].guid BY <2>2, <1>3
    <3>2. k \in DOMAIN t /\ Made(t[k], vs[g]) BY <2>2, <3>1, <1>5 DEF Reached
    <3> QED BY <3>1, <3>2 DEF Made
  <2> QED BY <2>1, <2>2
<1>9. LeafOpen(vs)
  <2> SUFFICES ASSUME NEW g \in DOMAIN vs, vs[g].state = "HEALTHY", vs[g].children = <<>> PROVE vs[g].phys_read # Nil
    BY DEF LeafOpen
  <2>1. g \in DOMAIN old /\ old[g].state = "HEALTHY" BY <1>6
  <2>2. old[g].children = <<>> /\ vs[g].phys_read = old[g].phys_read BY <2>1, <1>4 DEF Kept
  <2> QED BY <2>1, <2>2, <1>1 DEF LeafOpen
<1>10. OnlyTops(L, vs) BY <1>1, <1>4, <1>6 DEF OnlyTops, Kept
<1>11. Unmarked(mac, L, F, vs)
  <2> SUFFICES ASSUME NEW d \in F, ~Marked(L, mac[d].label.guid), mac[d].label.guid \notin TopOf(L)
               PROVE  vs[mac[d].label.guid].state = "HEALTHY"
    BY DEF Unmarked
  <2>1. mac[d].label.guid \in DOMAIN old /\ old[mac[d].label.guid].state = "HEALTHY" BY <1>1 DEF Owned, Unmarked
  <2>2. ~\E k \in DOMAIN t : t[k].guid = mac[d].label.guid /\ t[k].flag \in Flags BY DEF Marked
  <2> QED BY <2>1, <2>2, <1>2 DEF Walked
<1>12. ASSUME Still(L) PROVE Kin(L, vs) /\ KidsOpen(vs) /\ Complete(L, vs)
  <2>1. Kin(L, old) /\ KidsOpen(old) /\ Complete(L, old) BY <1>12 DEF VdevInv
  <2>2. Linked(t, old, R, Closed(t, Len(t)), Disks(t, Len(t)), vs)
    <3>1. MidWalk(L, lab, t, old, R, Closed(t, Len(t)), Disks(t, Len(t)), vs) BY <1>0, <1>1, <1>12, <2>1, InitStill
    <3> QED BY <3>1 DEF MidWalk
  <2>3. \A g \in DOMAIN old : vs[g].children = old[g].children BY <2>2 DEF Linked
  <2>4. Kin(L, vs)
    <3> SUFFICES ASSUME NEW g \in DOMAIN vs, NEW k \in DOMAIN vs[g].children PROVE ListedUnder(L, vs[g].children[k], g) BY DEF Kin
    <3>1. CASE g \in DOMAIN old BY <3>1, <2>1, <2>3 DEF Kin
    <3>2. CASE g \notin DOMAIN old
      <4>1. PICK j \in R : g = t[j].guid BY <3>2, <1>3
      <4>2. PICK m \in Closed(t, Len(t)) : vs[g].children[k] = t[m].guid /\ t[m].up = g BY <4>1, <3>2, <2>2 DEF Linked
      <4>3. m \in DOMAIN t BY DEF Closed
      <4> QED BY <4>2, <4>3 DEF ListedUnder
    <3> QED BY <3>1, <3>2
  <2>5. KidsOpen(vs)
    <3> SUFFICES ASSUME NEW g \in DOMAIN vs, vs[g].state = "HEALTHY", NEW k \in DOMAIN vs[g].children
                 PROVE  vs[vs[g].children[k]].phys_read # Nil
      BY DEF KidsOpen
    <3>1. g \in DOMAIN old /\ old[g].state = "HEALTHY" /\ vs[g].children = old[g].children BY <1>6, <2>3
    <3>2. old[old[g].children[k]].phys_read # Nil BY <3>1, <2>1 DEF KidsOpen
    <3>3. old[g].children[k] \in DOMAIN old BY <3>1, <1>1 DEF VdevsOK, VdevOK
    <3> QED BY <3>1, <3>2, <3>3, <1>4 DEF Kept
  <2>6. Complete(L, vs)
    <3> SUFFICES ASSUME NEW g \in TopOf(L) \intersect DOMAIN vs PROVE \E l \in L : MadeBy(l, g, vs[g]) BY DEF Complete
    <3>1. CASE g \in DOMAIN old
      <4>1. PICK l \in L : MadeBy(l, g, old[g]) BY <3>1, <2>1 DEF Complete
      <4>2. vs[g].children = old[g].children BY <3>1, <2>3
      <4>3. MadeBy(l, g, vs[g]) BY <4>1, <4>2 DEF MadeBy
      <4> QED BY <4>3
    <3>2. CASE g \notin DOMAIN old
      <4>1. PICK k \in R : g = t[k].guid BY <3>2, <1>3
      <4>2. k \in DOMAIN t BY DEF Reached
      <4>3. PICK h \in L : h.tree[1].guid = g BY DEF TopOf
      <4>4. Agreeing(h, lab) /\ 1 \in DOMAIN h.tree BY DEF LabelsOK, LabelOK, TreeOK
      <4>5. k = 1 BY <4>1, <4>2, <4>3, <4>4 DEF Agreeing
      <4>6. ASSUME Stop(t) > Len(t), NEW j \in DOMAIN t, t[j].type = "disk", t[j].up = g
            PROVE  \E c \in DOMAIN vs[g].children : vs[g].children[c] = t[j].guid
        <5>1. Stop(t) \in Nat BY <1>0, StopType DEF TreeOK
        <5>2. j \in Disks(t, Len(t)) BY <5>1, <4>6, <1>0 DEF Disks, Reached
        <5>3. g # Nil BY <1>3, PoolAssumption DEF VdevsOK
        <5> QED BY <5>2, <5>3, <4>6, <3>2, <2>2 DEF Linked
      <4>7. MadeBy(lab, g, vs[g]) BY <4>1, <4>5, <4>6 DEF MadeBy
      <4> QED BY <4>7
    <3> QED BY <3>1, <3>2
  <2> QED BY <2>4, <2>5, <2>6
<1> QED BY <1>3, <1>7, <1>8, <1>9, <1>10, <1>11, <1>12 DEF VdevInv

\* A vdev that a device is taken for: it is a disk, and nobody has taken it before.
OwnVdev(vs, g, dev) == [vs EXCEPT ![g].phys_read = dev, ![g].state = "HEALTHY"]
LEMMA OwnFacts ==
    ASSUME NEW vs, VdevsOK(vs), NEW g \in DOMAIN vs, NEW dev \in Devices, NEW m, m = OwnVdev(vs, g, dev)
    PROVE  /\ DOMAIN m = DOMAIN vs /\ VdevsOK(m)
           /\ m[g].phys_read = dev /\ m[g].state = "HEALTHY"
           /\ \A h \in DOMAIN vs : /\ m[h].type = vs[h].type /\ m[h].id = vs[h].id /\ m[h].children = vs[h].children
                                   /\ h # g => m[h] = vs[h]
<1> DEFINE v == vs[g]
           w == [vs[g] EXCEPT !.phys_read = dev, !.state = "HEALTHY"]
<1>1. DOMAIN m = DOMAIN vs /\ \A h \in DOMAIN vs : h # g => m[h] = vs[h] BY DEF OwnVdev
<1>2. m[g] = w BY DEF OwnVdev
<1>3. v \in VdevRec BY DEF VdevsOK, VdevOK
<1>4. w \in VdevRec /\ w.type = v.type /\ w.id = v.id /\ w.children = v.children /\ w.last = v.last /\ w.phys_read = dev /\ w.state = "HEALTHY"
  BY <1>3 DEF VdevRec, States
<1> HIDE DEF v, w
<1>5. \A h \in DOMAIN vs : m[h].type = vs[h].type /\ m[h].id = vs[h].id /\ m[h].children = vs[h].children BY <1>1, <1>2, <1>4 DEF v
<1>6. \A h \in DOMAIN vs : m[h] \in VdevRec /\ m[h].last = vs[h].last BY <1>1, <1>2, <1>4 DEF v, VdevsOK, VdevOK
<1>7. ASSUME NEW h \in DOMAIN vs PROVE VdevOK(m, m[h])
  <2>1. VdevOK(vs, vs[h]) BY DEF VdevsOK
  <2> QED BY <2>1, <1>1, <1>5, <1>6 DEF VdevOK
<1>8. VdevsOK(m) BY <1>1, <1>7 DEF VdevsOK
<1> QED BY <1>1, <1>2, <1>4, <1>5, <1>8

OwnDoes(mac, L, F, dev, vs, g, m) == VdevInv(mac, L, F \union {dev}, m) /\ m[g].type = "disk"
LEMMA OwnKeeps ==
    ASSUME NEW mac, NEW L, LabelsOK(L), NEW F, F \subseteq Devices, NEW dev \in Devices, mac[dev].label \in L, NEW vs, VdevInv(mac, L, F, vs),
           NEW g \in DOMAIN vs, g = mac[dev].label.guid, vs[g].phys_read = Nil, NEW m, m = OwnVdev(vs, g, dev)
    PROVE  OwnDoes(mac, L, F, dev, vs, g, m)
<1>0. /\ DOMAIN m = DOMAIN vs /\ VdevsOK(m)
      /\ m[g].phys_read = dev /\ m[g].state = "HEALTHY"
      /\ \A h \in DOMAIN vs : /\ m[h].type = vs[h].type /\ m[h].id = vs[h].id /\ m[h].children = vs[h].children
                              /\ h # g => m[h] = vs[h]
  <2>1. VdevsOK(vs) BY DEF VdevInv
  <2> QED BY <2>1, OwnFacts
<1>1. VdevsOK(vs) /\ Owned(mac, F, vs) /\ Known(L, vs) /\ LeafOpen(vs) /\ OnlyTops(L, vs) /\ Unmarked(mac, L, F, vs)
  BY DEF VdevInv
<1>2. dev # Nil BY PoolAssumption
<1>3. m[g].type = "disk"
  <2>1. PICK l \in L : \E i \in DOMAIN l.tree : l.tree[i].guid = g /\ vs[g].type = l.tree[i].type BY <1>1 DEF Known
  <2>2. PICK i \in DOMAIN l.tree : l.tree[i].guid = g /\ vs[g].type = l.tree[i].type BY <2>1
  <2>3. Agreeing(mac[dev].label, l) BY DEF LabelsOK
  <2>4. vs[g].type = "disk" BY <2>2, <2>3 DEF Agreeing
  <2> QED BY <2>4, <1>0
<1>4. m[g].children = <<>> BY <1>0, <1>3 DEF VdevsOK, VdevOK
<1>5. Owned(mac, F \union {dev}, m)
  <2>1. \A d \in F : mac[d].label.guid # g BY <1>1, PoolAssumption DEF Owned
  <2>2. \A d \in F : mac[d].label.guid \in DOMAIN m /\ m[mac[d].label.guid].phys_read = d BY <2>1, <1>0, <1>1 DEF Owned
  <2>3. \A h \in DOMAIN m : m[h].phys_read # Nil => m[h].phys_read \in F \union {dev} /\ mac[m[h].phys_read].label.guid = h
    BY <1>0, <1>1 DEF Owned
  <2> QED BY <2>2, <2>3, <1>0 DEF Owned
<1>6. Known(L, m) BY <1>0, <1>1 DEF Known
<1>7. LeafOpen(m) BY <1>0, <1>1, <1>2 DEF LeafOpen
<1>8. OnlyTops(L, m) BY <1>0, <1>1, <1>2 DEF OnlyTops
<1>9. Unmarked(mac, L, F \union {dev}, m)
  <2> SUFFICES ASSUME NEW d \in F \union {dev}, ~Marked(L, mac[d].label.guid), mac[d].label.guid \notin TopOf(L)
               PROVE  m[mac[d].label.guid].state = "HEALTHY"
    BY DEF Unmarked
  <2>1. CASE mac[d].label.guid = g BY <2>1, <1>0
  <2>2. CASE mac[d].label.guid # g
    <3>1. d \in F BY <2>2
    <3> QED BY <2>2, <3>1, <1>0, <1>1 DEF Unmarked, Owned
  <2> QED BY <2>1, <2>2
<1>10. ASSUME Still(L) PROVE Kin(L, m) /\ KidsOpen(m) /\ Complete(L, m)
  <2>1. Kin(L, vs) /\ KidsOpen(vs) /\ Complete(L, vs) BY <1>10 DEF VdevInv
  <2>2. Kin(L, m) BY <2>1, <1>0 DEF Kin
  <2>3. KidsOpen(m)
    <3> SUFFICES ASSUME NEW h \in DOMAIN vs, m[h].state = "HEALTHY", NEW k \in DOMAIN m[h].children
                 PROVE  m[m[h].children[k]].phys_read # Nil
      BY <1>0 DEF KidsOpen
    <3>1. h # g BY <1>4
    <3>2. m[h] = vs[h] /\ vs[h].children[k] \in DOMAIN vs BY <3>1, <1>0, <1>1 DEF VdevsOK, VdevOK
    <3>3. vs[vs[h].children[k]].phys_read # Nil BY <3>2, <2>1 DEF KidsOpen
    <3> QED BY <3>2, <3>3, <1>0, <1>2
  <2>4. Complete(L, m)
    <3> SUFFICES ASSUME NEW h \in TopOf(L) \intersect DOMAIN vs PROVE \E l \in L : MadeBy(l, h, m[h]) BY <1>0 DEF Complete
    <3>1. PICK l \in L : MadeBy(l, h, vs[h]) BY <2>1 DEF Complete
    <3>2. m[h].children = vs[h].children BY <1>0
    <3>3. MadeBy(l, h, m[h]) BY <3>1, <3>2 DEF MadeBy
    <3> QED BY <3>3
  <2> QED BY <2>2, <2>3, <2>4
<1> QED BY <1>0, <1>3, <1>5, <1>6, <1>7, <1>8, <1>9, <1>10 DEF VdevInv, OwnDoes

\* vdev_set_state: a top is healthy if it was and has no children, or if all of them are.
LEMMA TopStateFacts ==
    ASSUME NEW vs, VdevsOK(vs), NEW g \in DOMAIN vs
    PROVE  /\ TopState(vs, g) \in States
           /\ vs[g].children = <<>> => TopState(vs, g) = vs[g].state
           /\ TopState(vs, g) = "HEALTHY" /\ vs[g].children # <<>> =>
                 \/ \A k \in DOMAIN vs[g].children : vs[vs[g].children[k]].state = "HEALTHY"
                 \/ vs[g].state = "HEALTHY" /\ vs[g].type \notin {"mirror", "raidz"}
<1>1. vs[g].state \in States BY DEF VdevsOK, VdevOK, VdevRec
<1>2. Bad(vs, g) = {} => \A k \in DOMAIN vs[g].children : vs[vs[g].children[k]].state = "HEALTHY" BY DEF Bad
<1>3. "HEALTHY" \in States /\ "DEGRADED" \in States /\ "OFFLINE" \in States BY DEF States, Flags
<1>4. CASE vs[g].children = <<>> BY <1>1, <1>4 DEF TopState
<1>5. CASE vs[g].children # <<>> /\ Bad(vs, g) = {} BY <1>2, <1>3, <1>5 DEF TopState
<1>6. CASE vs[g].children # <<>> /\ Bad(vs, g) # {}
  <2>1. CASE vs[g].type = "mirror"
    <3>1. TopState(vs, g) \in {"DEGRADED", "OFFLINE"} BY <1>6, <2>1 DEF TopState
    <3> QED BY <3>1, <1>3, <1>6
  <2>2. CASE vs[g].type = "raidz"
    <3>1. TopState(vs, g) \in {"DEGRADED", "OFFLINE"} BY <1>6, <2>2 DEF TopState
    <3> QED BY <3>1, <1>3, <1>6
  <2>3. CASE vs[g].type \notin {"mirror", "raidz"}
    <3>1. TopState(vs, g) = vs[g].state BY <1>6, <2>3 DEF TopState
    <3> QED BY <3>1, <1>1, <1>6, <2>3
  <2> QED BY <2>1, <2>2, <2>3
<1> QED BY <1>4, <1>5, <1>6

\* A vdev that some label lists below another is at the top in none.
LEMMA KidNoTop ==
    ASSUME NEW L, LabelsOK(L), NEW x, NEW p, p # Nil, ListedUnder(L, x, p) PROVE x \notin TopOf(L)
<1>1. PICK l \in L : \E i \in DOMAIN l.tree : l.tree[i].guid = x /\ l.tree[i].up = p BY DEF ListedUnder
<1>2. PICK i \in DOMAIN l.tree : l.tree[i].guid = x /\ l.tree[i].up = p BY <1>1
<1>3. i # 1 BY <1>2 DEF LabelsOK, LabelOK, TreeOK
<1>4. ASSUME NEW h \in L, h.tree[1].guid = x PROVE FALSE
  <2>1. 1 \in DOMAIN h.tree BY DEF LabelsOK, LabelOK, TreeOK
  <2>2. Agreeing(h, l) BY DEF LabelsOK
  <2> QED BY <1>2, <1>3, <1>4, <2>1, <2>2 DEF Agreeing
<1> QED BY <1>4 DEF TopOf

SetStateDoes(vs, g, m) ==
    /\ DOMAIN m = DOMAIN vs /\ VdevsOK(m) /\ m[g].state = TopState(vs, g)
    /\ \A h \in DOMAIN vs : /\ m[h].type = vs[h].type /\ m[h].id = vs[h].id /\ m[h].children = vs[h].children
                            /\ m[h].phys_read = vs[h].phys_read /\ (h # g => m[h] = vs[h])
LEMMA SetStateFacts ==
    ASSUME NEW vs, VdevsOK(vs), NEW g \in DOMAIN vs, NEW m, m = vdev_set_state(vs, g) PROVE SetStateDoes(vs, g, m)
<1> DEFINE v == vs[g]
           w == [vs[g] EXCEPT !.state = TopState(vs, g)]
<1>1. DOMAIN m = DOMAIN vs /\ \A h \in DOMAIN vs : h # g => m[h] = vs[h] BY DEF vdev_set_state
<1>2. m[g] = w BY DEF vdev_set_state
<1>3. v \in VdevRec BY DEF VdevsOK, VdevOK
<1>4. TopState(vs, g) \in States BY TopStateFacts
<1>5. w \in VdevRec /\ w.type = v.type /\ w.id = v.id /\ w.children = v.children /\ w.last = v.last /\ w.phys_read = v.phys_read
      /\ w.state = TopState(vs, g)
  BY <1>3, <1>4 DEF VdevRec
<1> HIDE DEF v, w
<1>6. \A h \in DOMAIN vs : m[h].type = vs[h].type /\ m[h].id = vs[h].id /\ m[h].children = vs[h].children /\ m[h].phys_read = vs[h].phys_read
  BY <1>1, <1>2, <1>5 DEF v
<1>7. \A h \in DOMAIN vs : m[h] \in VdevRec /\ m[h].last = vs[h].last BY <1>1, <1>2, <1>5 DEF v, VdevsOK, VdevOK
<1>8. ASSUME NEW h \in DOMAIN vs PROVE VdevOK(m, m[h])
  <2>1. VdevOK(vs, vs[h]) BY DEF VdevsOK
  <2> QED BY <2>1, <1>1, <1>6, <1>7 DEF VdevOK
<1>9. VdevsOK(m) BY <1>1, <1>8 DEF VdevsOK
<1> QED BY <1>1, <1>2, <1>5, <1>6, <1>9 DEF SetStateDoes

LEMMA SetStateKeeps ==
    ASSUME NEW mac, NEW L, LabelsOK(L), NEW F, NEW vs, VdevInv(mac, L, F, vs), NEW g \in DOMAIN vs, g \in TopOf(L),
           NEW m, m = vdev_set_state(vs, g)
    PROVE  VdevInv(mac, L, F, m)
<1>1. VdevsOK(vs) /\ Owned(mac, F, vs) /\ Known(L, vs) /\ LeafOpen(vs) /\ OnlyTops(L, vs) /\ Unmarked(mac, L, F, vs)
  BY DEF VdevInv
<1>2. /\ DOMAIN m = DOMAIN vs /\ VdevsOK(m) /\ m[g].state = TopState(vs, g)
      /\ \A h \in DOMAIN vs : /\ m[h].type = vs[h].type /\ m[h].id = vs[h].id /\ m[h].children = vs[h].children
                              /\ m[h].phys_read = vs[h].phys_read /\ (h # g => m[h] = vs[h])
  BY <1>1, SetStateFacts DEF SetStateDoes
<1>3. /\ vs[g].children = <<>> => TopState(vs, g) = vs[g].state
      /\ TopState(vs, g) = "HEALTHY" /\ vs[g].children # <<>> =>
            \/ \A k \in DOMAIN vs[g].children : vs[vs[g].children[k]].state = "HEALTHY"
            \/ vs[g].state = "HEALTHY"
  BY <1>1, TopStateFacts
<1>4. Owned(mac, F, m) BY <1>1, <1>2 DEF Owned
<1>5. Known(L, m) BY <1>1, <1>2 DEF Known
<1>6. LeafOpen(m) BY <1>1, <1>2, <1>3 DEF LeafOpen
<1>7. OnlyTops(L, m) BY <1>1, <1>2 DEF OnlyTops
<1>8. Unmarked(mac, L, F, m) BY <1>1, <1>2 DEF Unmarked, Owned
<1>9. ASSUME Still(L) PROVE Kin(L, m) /\ KidsOpen(m) /\ Complete(L, m)
  <2>1. Kin(L, vs) /\ KidsOpen(vs) /\ Complete(L, vs) BY <1>9 DEF VdevInv
  <2>2. Kin(L, m) BY <2>1, <1>2 DEF Kin
  <2>3. KidsOpen(m)
    <3> SUFFICES ASSUME NEW h \in DOMAIN vs, m[h].state = "HEALTHY", NEW k \in DOMAIN vs[h].children
                 PROVE  m[vs[h].children[k]].phys_read # Nil
      BY <1>2 DEF KidsOpen
    <3>1. vs[h].children[k] \in DOMAIN vs /\ vs[h].children # <<>> BY <1>1 DEF VdevsOK, VdevOK
    <3>2. CASE vs[h].state = "HEALTHY" BY <3>1, <3>2, <2>1, <1>2 DEF KidsOpen
    <3>3. CASE vs[h].state # "HEALTHY"
      <4>1. h = g BY <3>3, <1>2
      <4>2. vs[vs[g].children[k]].state = "HEALTHY" BY <3>1, <3>3, <4>1, <1>2, <1>3
      <4>3. ListedUnder(L, vs[g].children[k], g) BY <4>1, <2>1 DEF Kin
      <4>4. g # Nil BY <1>1, PoolAssumption DEF VdevsOK
      <4>5. vs[g].children[k] \notin TopOf(L) BY <4>3, <4>4, KidNoTop
      <4> QED BY <4>1, <4>2, <4>5, <3>1, <1>1, <1>2 DEF OnlyTops
    <3> QED BY <3>2, <3>3
  <2>4. Complete(L, m)
    <3> SUFFICES ASSUME NEW h \in TopOf(L) \intersect DOMAIN vs PROVE \E l \in L : MadeBy(l, h, m[h]) BY <1>2 DEF Complete
    <3>1. PICK l \in L : MadeBy(l, h, vs[h]) BY <2>1 DEF Complete
    <3>2. m[h].children = vs[h].children BY <1>2
    <3>3. MadeBy(l, h, m[h]) BY <3>1, <3>2 DEF MadeBy
    <3> QED BY <3>3
  <2> QED BY <2>2, <2>3, <2>4
<1> QED BY <1>2, <1>4, <1>5, <1>6, <1>7, <1>8, <1>9 DEF VdevInv

\* After a label was taken, a mirror or raidz that is healthy has healthy children again:
\* whoever the walk has marked is below the top of this label, whose state is new.
LEMMA TakenHealthy ==
    ASSUME NEW mac, NEW L, LabelsOK(L), NEW lab \in L, NEW F, NEW old, VdevInv(mac, L, F, old), AllHealthy(L, old), NEW newer,
           NEW vs, vs = vdev_init_from_nvlist(lab.tree, old, newer),
           NEW dev \in Devices, NEW g \in DOMAIN vs, NEW own, own = OwnVdev(vs, g, dev), own[g].type = "disk",
           NEW top \in DOMAIN vs, top = lab.tree[1].guid, NEW m, m = vdev_set_state(own, top)
    PROVE  AllHealthy(L, m)
<1> SUFFICES ASSUME Still(L), \A l \in L : Accepted(l) PROVE KidsHealthy(L, m) BY DEF AllHealthy
<1> DEFINE t == lab.tree
<1>0. TreeOK(t) /\ VdevsOK(old) BY DEF LabelsOK, LabelOK, VdevInv
<1>1. Walked(t, old, newer, Len(t), vs) BY <1>0, InitFacts
<1>2. VdevsOK(vs) BY <1>1 DEF Walked
<1>3. Kin(L, old) /\ KidsHealthy(L, old) BY DEF VdevInv, AllHealthy
<1>4. \A h \in DOMAIN old : vs[h].children = old[h].children
  <2>1. MidWalk(L, lab, t, old, Reached(t, Len(t)), Closed(t, Len(t)), Disks(t, Len(t)), vs) BY <1>0, <1>3, InitStill
  <2> QED BY <2>1 DEF MidWalk, Linked
<1>5. /\ DOMAIN own = DOMAIN vs /\ VdevsOK(own) /\ own[g].state = "HEALTHY"
      /\ \A h \in DOMAIN vs : own[h].type = vs[h].type /\ own[h].children = vs[h].children /\ (h # g => own[h] = vs[h])
  BY <1>2, OwnFacts
<1>6. /\ DOMAIN m = DOMAIN vs /\ m[top].state = TopState(own, top)
      /\ \A h \in DOMAIN vs : m[h].type = own[h].type /\ m[h].children = own[h].children /\ (h # top => m[h] = own[h])
  <2>1. top \in DOMAIN own /\ VdevsOK(own) BY <1>5
  <2>2. /\ DOMAIN m = DOMAIN own /\ m[top].state = TopState(own, top)
        /\ \A h \in DOMAIN own : m[h].type = own[h].type /\ m[h].children = own[h].children /\ (h # top => m[h] = own[h])
    <3>1. SetStateDoes(own, top, m) BY <2>1, SetStateFacts
    <3> QED BY <3>1 DEF SetStateDoes
  <2> QED BY <2>2, <1>5
<1>7. /\ own[top].children = <<>> => TopState(own, top) = own[top].state
      /\ TopState(own, top) = "HEALTHY" /\ own[top].children # <<>> =>
            \/ \A k \in DOMAIN own[top].children : own[own[top].children[k]].state = "HEALTHY"
            \/ own[top].type \notin {"mirror", "raidz"}
  BY <1>5, TopStateFacts
<1> SUFFICES ASSUME NEW h \in TopOf(L) \intersect DOMAIN m, m[h].state = "HEALTHY", m[h].type \in {"mirror", "raidz"},
                    NEW k \in DOMAIN m[h].children
             PROVE  m[m[h].children[k]].state = "HEALTHY"
  BY DEF KidsHealthy
<1> h \in TopOf(L) /\ h \in DOMAIN vs BY <1>6
<1>8. m[h].children = own[h].children /\ own[h].children = vs[h].children /\ own[h].type = vs[h].type /\ m[h].type = own[h].type
  BY <1>5, <1>6
<1>9. own[h].children[k] \in DOMAIN vs /\ own[h].children # <<>> BY <1>5, <1>8 DEF VdevsOK, VdevOK
<1>10. CASE h = top
  <2>1. own[own[top].children[k]].state = "HEALTHY" BY <1>10, <1>6, <1>7, <1>8, <1>9
  <2>2. CASE own[top].children[k] = top BY <2>2, <1>8, <1>10
  <2>3. CASE own[top].children[k] # top BY <2>1, <2>3, <1>6, <1>8, <1>9, <1>10
  <2> QED BY <2>2, <2>3
<1>11. CASE h # top
  <2>1. h # g BY <1>5, <1>8
  <2>2. vs[h].state = "HEALTHY" BY <2>1, <1>5, <1>6, <1>11
  <2>3. h \in DOMAIN old /\ old[h].state = "HEALTHY" /\ Kept(old[h], vs[h]) BY <2>2, <1>1, HealthyBefore
  <2> DEFINE x == old[h].children[k]
  <2>4. vs[h].children = old[h].children /\ k \in DOMAIN old[h].children /\ m[h].children[k] = x BY <2>3, <1>4, <1>8
  <2>5. x \in DOMAIN old BY <2>3, <2>4, <1>0 DEF VdevsOK, VdevOK
  <2>6. old[x].state = "HEALTHY"
    <3>1. old[h].type \in {"mirror", "raidz"} BY <2>3, <1>8 DEF Kept
    <3> QED BY <3>1, <2>3, <2>4, <1>3 DEF KidsHealthy
  <2>7. ListedUnder(L, x, h) BY <2>3, <2>4, <1>3 DEF Kin
  <2>8. h # Nil BY <2>3, <1>0, PoolAssumption DEF VdevsOK
  <2>9. x # top
    <3>1. x \notin TopOf(L) BY <2>7, <2>8, KidNoTop
    <3>2. top \in TopOf(L) BY DEF TopOf
    <3> QED BY <3>1, <3>2
  <2> HIDE DEF x
  <2>10. ASSUME NEW j \in DOMAIN t, t[j].guid = x PROVE FALSE
    <3>1. t[j].up = h BY <2>7, <2>10 DEF ListedUnder, Still
    <3>2. PICK i \in 1 .. j - 1 : t[i].guid = h BY <3>1, <2>8, <2>10, <1>0, ParentBefore
    <3>3. i \in DOMAIN t BY <3>2, <1>0 DEF TreeOK
    <3>4. PICK l \in L : l.tree[1].guid = h BY DEF TopOf
    <3>5. Agreeing(l, lab) BY DEF LabelsOK
    <3>6. 1 \in DOMAIN l.tree BY DEF LabelsOK, LabelOK, TreeOK
    <3>7. i = 1 BY <3>2, <3>3, <3>4, <3>5, <3>6 DEF Agreeing
    <3> QED BY <3>2, <3>7, <1>11
  <2>11. x \in DOMAIN vs /\ vs[x].state = "HEALTHY" BY <2>5, <2>6, <2>10, <1>1 DEF Walked
  <2>12. own[x].state = "HEALTHY" BY <2>11, <1>5
  <2> QED BY <2>4, <2>9, <2>11, <2>12, <1>6
<1> QED BY <1>10, <1>11

-----------------------------------------------------------------------------
(* Uberblocks. *)

Ubs == [txg : Nat, timestamp : Nat]
UbRec == [txg : Nat, timestamp : Nat, from : Devices \union {Nil}]
NotOlder(u, b) == u.txg <= b.txg /\ (u.txg = b.txg => u.timestamp <= b.timestamp)
Best(spa, ring, dev, n, f) ==
    f = [i \in 0 .. n |-> IF i = 0 THEN spa.uberblock
                          ELSE IF ring[i].txg > 0 /\ ring[i].txg >= spa.txg /\ Newer(ring[i], f[i - 1])
                          THEN [txg |-> ring[i].txg, timestamp |-> ring[i].timestamp, from |-> dev] ELSE f[i - 1]]

LEMMA BestExists == ASSUME NEW spa, NEW ring, NEW dev PROVE \A n \in Nat : \E f : Best(spa, ring, dev, n, f)
<1> DEFINE S == {n \in Nat : \E f : Best(spa, ring, dev, n, f)}
<1>1. 0 \in S
  <2> DEFINE f == [i \in 0 .. 0 |-> spa.uberblock]
  <2>1. Best(spa, ring, dev, 0, f) BY DEF Best
  <2> QED BY <2>1
<1>2. ASSUME NEW n \in Nat, n \in S PROVE n + 1 \in S
  <2>1. PICK f : Best(spa, ring, dev, n, f) BY <1>2
  <2> DEFINE r == ring[n + 1]
             e == IF r.txg > 0 /\ r.txg >= spa.txg /\ Newer(r, f[n]) THEN [txg |-> r.txg, timestamp |-> r.timestamp, from |-> dev] ELSE f[n]
             h == [i \in 0 .. n + 1 |-> IF i = n + 1 THEN e ELSE f[i]]
  <2>2. Best(spa, ring, dev, n + 1, h) BY <2>1 DEF Best
  <2> QED BY <2>2
<1> HIDE DEF S
<1>3. Nat \subseteq S BY <1>1, <1>2, NatInd
<1> QED BY <1>3 DEF S

LEMMA BestIs ==
    ASSUME NEW spa, NEW img, NEW dev, Len(img.uberblocks) \in Nat
    PROVE  \E f : /\ Best(spa, img.uberblocks, dev, Len(img.uberblocks), f)
                  /\ BestUberblock(spa, img, dev) = f[Len(img.uberblocks)]
<1>1. \E f : Best(spa, img.uberblocks, dev, Len(img.uberblocks), f) BY BestExists
<1> QED BY <1>1 DEF BestUberblock, Best

LEMMA NotOlderTrans ==
    ASSUME NEW a, NEW b, NEW c, a.txg \in Nat, b.txg \in Nat, c.txg \in Nat,
           a.timestamp \in Nat, b.timestamp \in Nat, c.timestamp \in Nat, NotOlder(a, b), NotOlder(b, c)
    PROVE  NotOlder(a, c)
BY DEF NotOlder

\* The loop over the uberblocks of one label leaves the newest of those that count.
LEMMA BestFacts ==
    ASSUME NEW spa, spa.uberblock \in UbRec, spa.txg \in Nat, NEW img, img.uberblocks \in Seq(Ubs), NEW dev \in Devices,
           NEW b, b = BestUberblock(spa, img, dev)
    PROVE  /\ b \in UbRec /\ NotOlder(spa.uberblock, b)
           /\ \A i \in DOMAIN img.uberblocks : img.uberblocks[i].txg > 0 /\ img.uberblocks[i].txg >= spa.txg => NotOlder(img.uberblocks[i], b)
<1> DEFINE ring == img.uberblocks
<1>0. Len(ring) \in Nat /\ DOMAIN ring = 1 .. Len(ring) /\ \A i \in DOMAIN ring : ring[i].txg \in Nat /\ ring[i].timestamp \in Nat
  <2>1. Len(ring) \in Nat /\ DOMAIN ring = 1 .. Len(ring) /\ \A i \in DOMAIN ring : ring[i] \in Ubs OBVIOUS
  <2>2. \A u \in Ubs : u.txg \in Nat /\ u.timestamp \in Nat BY DEF Ubs
  <2> QED BY <2>1, <2>2
<1>1. PICK f : Best(spa, ring, dev, Len(ring), f) /\ b = f[Len(ring)] BY <1>0, BestIs
<1> DEFINE P(n) == /\ f[n] \in UbRec /\ NotOlder(spa.uberblock, f[n])
                   /\ \A i \in DOMAIN ring : i <= n /\ ring[i].txg > 0 /\ ring[i].txg >= spa.txg => NotOlder(ring[i], f[n])
           S == {n \in Nat : n <= Len(ring) => P(n)}
<1>2. 0 \in S
  <2>1. f[0] = spa.uberblock BY <1>0, <1>1 DEF Best
  <2>2. NotOlder(spa.uberblock, spa.uberblock) BY DEF NotOlder, UbRec
  <2> QED BY <1>0, <2>1, <2>2
<1>3. ASSUME NEW n \in Nat, n \in S PROVE n + 1 \in S
  <2> SUFFICES ASSUME n + 1 <= Len(ring) PROVE P(n + 1) OBVIOUS
  <2> DEFINE r == ring[n + 1]
  <2>1. P(n) BY <1>0, <1>3
  <2>2. f[n + 1] = IF r.txg > 0 /\ r.txg >= spa.txg /\ Newer(r, f[n]) THEN [txg |-> r.txg, timestamp |-> r.timestamp, from |-> dev] ELSE f[n]
    BY <1>0, <1>1 DEF Best
  <2>3. n + 1 \in DOMAIN ring /\ r.txg \in Nat /\ r.timestamp \in Nat BY <1>0
  <2>4. spa.uberblock.txg \in Nat /\ spa.uberblock.timestamp \in Nat /\ f[n].txg \in Nat /\ f[n].timestamp \in Nat BY <2>1 DEF UbRec
  <2> HIDE DEF r
  <2>5. CASE r.txg > 0 /\ r.txg >= spa.txg /\ Newer(r, f[n])
    <3>1. f[n + 1] \in UbRec /\ f[n + 1].txg = r.txg /\ f[n + 1].timestamp = r.timestamp BY <2>2, <2>3, <2>5 DEF UbRec
    <3>2. NotOlder(f[n], f[n + 1]) BY <3>1, <2>3, <2>4, <2>5 DEF NotOlder, Newer
    <3>3. NotOlder(r, f[n + 1]) BY <3>1, <2>3 DEF NotOlder
    <3>4. NotOlder(spa.uberblock, f[n + 1]) BY <3>1, <3>2, <2>1, <2>3, <2>4, NotOlderTrans
    <3>5. ASSUME NEW i \in DOMAIN ring, i <= n + 1, ring[i].txg > 0, ring[i].txg >= spa.txg PROVE NotOlder(ring[i], f[n + 1])
      <4>1. CASE i = n + 1 BY <4>1, <3>3 DEF r
      <4>2. CASE i # n + 1
        <5>1. i <= n BY <4>2, <3>5, <1>0
        <5>2. NotOlder(ring[i], f[n]) BY <5>1, <3>5, <2>1
        <5> QED BY <5>2, <3>1, <3>2, <2>3, <2>4, <1>0, NotOlderTrans
      <4> QED BY <4>1, <4>2
    <3> QED BY <3>1, <3>4, <3>5
  <2>6. CASE ~(r.txg > 0 /\ r.txg >= spa.txg /\ Newer(r, f[n]))
    <3>1. f[n + 1] = f[n] BY <2>2, <2>6
    <3>2. r.txg > 0 /\ r.txg >= spa.txg => NotOlder(r, f[n]) BY <2>3, <2>4, <2>6 DEF NotOlder, Newer
    <3>3. ASSUME NEW i \in DOMAIN ring, i <= n + 1, ring[i].txg > 0, ring[i].txg >= spa.txg PROVE NotOlder(ring[i], f[n])
      <4>1. CASE i = n + 1 BY <4>1, <3>2, <3>3 DEF r
      <4>2. CASE i # n + 1
        <5>1. i <= n BY <4>2, <3>3, <1>0
        <5> QED BY <5>1, <3>3, <2>1
      <4> QED BY <4>1, <4>2
    <3> QED BY <3>1, <3>3, <2>1
  <2> QED BY <2>5, <2>6
<1> HIDE DEF S
<1>4. Nat \subseteq S BY <1>2, <1>3, NatInd
<1>5. Len(ring) \in S BY <1>0, <1>4
<1>6. P(Len(ring)) BY <1>0, <1>5 DEF S
<1> QED BY <1>0, <1>1, <1>6

-----------------------------------------------------------------------------
(* The pools. *)

PoolRec == [guid : {m[d].label.pool : m \in Machines, d \in Devices}, name : {m[d].label.name : m \in Machines, d \in Devices},
            txg : Nat, vdevs : Seq(Guids), inited : BOOLEAN, uberblock : UbRec]
OneEach(ps) == \A p, q \in DOMAIN ps : ps[p].guid = ps[q].guid => p = q
TopsIn(L, D, ps) == \A p \in DOMAIN ps : \A k \in DOMAIN ps[p].vdevs :
                        ps[p].vdevs[k] \in D /\ \E l \in L : l.pool = ps[p].guid /\ l.tree[1].guid = ps[p].vdevs[k]
Members(mac, F, ps) == \A d \in F : \E p \in DOMAIN ps :
                           ps[p].guid = mac[d].label.pool /\ \E k \in DOMAIN ps[p].vdevs : ps[p].vdevs[k] = mac[d].label.tree[1].guid
Newest(mac, F, ps) == \A p \in DOMAIN ps : \A d \in F : mac[d].label.pool = ps[p].guid =>
                          \A i \in DOMAIN mac[d].uberblocks :
                              mac[d].uberblocks[i].txg >= ps[p].txg /\ mac[d].uberblocks[i].txg > 0 => NotOlder(mac[d].uberblocks[i], ps[p].uberblock)
PoolInv(mac, L, F, D, ps) ==
    ps \in Seq(PoolRec) /\ OneEach(ps) /\ TopsIn(L, D, ps) /\ Members(mac, F, ps) /\ Newest(mac, F, ps)

LEMMA MorePools ==
    ASSUME NEW mac, NEW L, NEW F, NEW D, NEW ps, PoolInv(mac, L, F, D, ps), NEW M, L \subseteq M, NEW E, D \subseteq E
    PROVE  PoolInv(mac, M, F, E, ps)
<1>1. TopsIn(M, E, ps) BY DEF PoolInv, TopsIn
<1> QED BY <1>1 DEF PoolInv

\* One pool is changed.
LEMMA ChangePool ==
    ASSUME NEW ps \in Seq(PoolRec), NEW p \in DOMAIN ps, NEW q \in PoolRec, NEW m, m = [ps EXCEPT ![p] = q]
    PROVE  m \in Seq(PoolRec) /\ DOMAIN m = DOMAIN ps /\ m[p] = q /\ \A i \in DOMAIN ps : i # p => m[i] = ps[i]
OBVIOUS

\* A change of one pool that keeps its guid and its tops and lowers neither its txg nor its uberblock.
LEMMA RaisePool ==
    ASSUME NEW mac \in Machines, NEW L, NEW F, F \subseteq Devices, NEW D, NEW ps, PoolInv(mac, L, F, D, ps), NEW p \in DOMAIN ps,
           NEW q \in PoolRec, q.guid = ps[p].guid, q.vdevs = ps[p].vdevs, q.txg >= ps[p].txg, NotOlder(ps[p].uberblock, q.uberblock),
           NEW m, m = [ps EXCEPT ![p] = q]
    PROVE  PoolInv(mac, L, F, D, m)
<1>1. ps \in Seq(PoolRec) /\ OneEach(ps) /\ TopsIn(L, D, ps) /\ Members(mac, F, ps) /\ Newest(mac, F, ps) BY DEF PoolInv
<1>2. m \in Seq(PoolRec) /\ DOMAIN m = DOMAIN ps /\ m[p] = q /\ \A i \in DOMAIN ps : i # p => m[i] = ps[i] BY <1>1, ChangePool
<1>3. \A i \in DOMAIN ps : m[i].guid = ps[i].guid /\ m[i].vdevs = ps[i].vdevs BY <1>2
<1>4. OneEach(m) BY <1>1, <1>2, <1>3 DEF OneEach
<1>5. TopsIn(L, D, m) BY <1>1, <1>2, <1>3 DEF TopsIn
<1>6. Members(mac, F, m) BY <1>1, <1>2, <1>3 DEF Members
<1>7. Newest(mac, F, m)
  <2> SUFFICES ASSUME NEW i \in DOMAIN ps, NEW d \in F, mac[d].label.pool = m[i].guid, NEW k \in DOMAIN mac[d].uberblocks,
                      mac[d].uberblocks[k].txg >= m[i].txg, mac[d].uberblocks[k].txg > 0
               PROVE  NotOlder(mac[d].uberblocks[k], m[i].uberblock)
    BY <1>2 DEF Newest
  <2> DEFINE u == mac[d].uberblocks[k]
  <2>1. CASE i # p BY <2>1, <1>1, <1>2 DEF Newest
  <2>2. CASE i = p
    <3>1. mac[d].uberblocks \in Seq(Ubs) BY PoolAssumption DEF Ubs
    <3>2. u.txg \in Nat /\ u.timestamp \in Nat
      <4>1. u \in Ubs BY <3>1
      <4> QED BY <4>1 DEF Ubs
    <3>3. ps[p] \in PoolRec BY <1>1
    <3>4. /\ ps[p].txg \in Nat /\ q.txg \in Nat /\ ps[p].uberblock.txg \in Nat /\ ps[p].uberblock.timestamp \in Nat
          /\ q.uberblock.txg \in Nat /\ q.uberblock.timestamp \in Nat
      BY <3>3 DEF PoolRec, UbRec
    <3>5. u.txg >= ps[p].txg BY <2>2, <3>2, <3>4, <1>2
    <3>6. NotOlder(u, ps[p].uberblock) BY <2>2, <3>5, <1>1, <1>2 DEF Newest
    <3>7. NotOlder(u, q.uberblock) BY <3>2, <3>4, <3>6, NotOlderTrans
    <3> QED BY <3>7, <2>2, <1>2
  <2> QED BY <2>1, <2>2
<1> QED BY <1>2, <1>4, <1>5, <1>6, <1>7 DEF PoolInv

FoundDoes(mac, L, F, D, ps, dev, m) ==
    LET g == mac[dev].label.pool IN
    PoolInv(mac, L, F, D, m) /\ spa_find_by_guid(m, g) \in DOMAIN m /\ m[spa_find_by_guid(m, g)].guid = g
\* The pool of a label, which is made if there is none.
LEMMA FoundPool ==
    ASSUME NEW mac \in Machines, NEW L, NEW F, NEW D, NEW ps, PoolInv(mac, L, F, D, ps), NEW dev \in Devices,
           NEW m, m = IF spa_find_by_guid(ps, mac[dev].label.pool) = 0 THEN Append(ps, spa_create(mac[dev].label)) ELSE ps
    PROVE  FoundDoes(mac, L, F, D, ps, dev, m)
<1> DEFINE g == mac[dev].label.pool
           new == spa_create(mac[dev].label)
<1>1. ps \in Seq(PoolRec) /\ OneEach(ps) /\ TopsIn(L, D, ps) /\ Members(mac, F, ps) /\ Newest(mac, F, ps) BY DEF PoolInv
<1>2. \A s \in Seq(PoolRec) : (\E i \in DOMAIN s : s[i].guid = g) =>
          spa_find_by_guid(s, g) \in DOMAIN s /\ s[spa_find_by_guid(s, g)].guid = g
  BY DEF spa_find_by_guid
<1>3. CASE \E i \in DOMAIN ps : ps[i].guid = g
  <2>1. spa_find_by_guid(ps, g) # 0 BY <1>1, <1>2, <1>3
  <2>2. m = ps BY <2>1
  <2> QED BY <2>2, <1>1, <1>2, <1>3 DEF FoundDoes
<1>4. CASE ~\E i \in DOMAIN ps : ps[i].guid = g
  <2>1. m = Append(ps, new) BY <1>4 DEF spa_find_by_guid
  <2>2. /\ new \in PoolRec /\ new.guid = g /\ new.vdevs = <<>>
    <3>1. <<>> \in Seq(Guids) OBVIOUS
    <3>2. [txg |-> 0, timestamp |-> 0, from |-> Nil] \in UbRec BY DEF UbRec
    <3> QED BY <3>1, <3>2 DEF spa_create, PoolRec
  <2> HIDE DEF new
  <2>3. /\ m \in Seq(PoolRec) /\ DOMAIN m = DOMAIN ps \union {Len(ps) + 1} /\ Len(ps) + 1 \notin DOMAIN ps
        /\ m[Len(ps) + 1] = new /\ \A i \in DOMAIN ps : m[i] = ps[i]
    BY <2>1, <2>2, <1>1
  <2>4. OneEach(m) BY <2>2, <2>3, <1>1, <1>4 DEF OneEach
  <2>5. TopsIn(L, D, m)
    <3> SUFFICES ASSUME NEW p \in DOMAIN m, NEW k \in DOMAIN m[p].vdevs
                 PROVE  m[p].vdevs[k] \in D /\ \E l \in L : l.pool = m[p].guid /\ l.tree[1].guid = m[p].vdevs[k]
      BY DEF TopsIn
    <3>1. p \in DOMAIN ps BY <2>2, <2>3
    <3> QED BY <3>1, <2>3, <1>1 DEF TopsIn
  <2>6. Members(mac, F, m) BY <2>3, <1>1 DEF Members
  <2>7. \A d \in F : mac[d].label.pool # g BY <1>1, <1>4 DEF Members
  <2>8. Newest(mac, F, m) BY <2>2, <2>3, <2>7, <1>1 DEF Newest
  <2>9. \E i \in DOMAIN m : m[i].guid = g BY <2>2, <2>3
  <2> QED BY <2>3, <2>4, <2>5, <2>6, <2>8, <2>9, <1>2 DEF PoolInv, FoundDoes
<1> QED BY <1>3, <1>4

LEMMA NewVdevs ==
    ASSUME NEW a \in PoolRec, NEW u \in Seq(Guids), NEW q, q = [a EXCEPT !.vdevs = u]
    PROVE  q \in PoolRec /\ q.vdevs = u /\ q.guid = a.guid /\ q.txg = a.txg /\ q.uberblock = a.uberblock
BY DEF PoolRec

LEMMA NewTxg ==
    ASSUME NEW a \in PoolRec, NEW u \in Nat, NEW q, q = [a EXCEPT !.txg = u]
    PROVE  q \in PoolRec /\ q.guid = a.guid /\ q.vdevs = a.vdevs /\ q.txg = u /\ q.uberblock = a.uberblock
BY DEF PoolRec

AddTopDoes(mac, L, F, D, ps, p, lab, m) ==
    /\ PoolInv(mac, L, F, D, m) /\ DOMAIN m = DOMAIN ps
    /\ m[p].guid = lab.pool /\ \E k \in DOMAIN m[p].vdevs : m[p].vdevs[k] = lab.tree[1].guid
\* The top of a label is put in the list of its pool, once.
LEMMA AddTopPool ==
    ASSUME NEW mac, NEW L, NEW F, NEW D, NEW ps, PoolInv(mac, L, F, D, ps), NEW p \in DOMAIN ps,
           NEW lab \in L, ps[p].guid = lab.pool, lab.tree[1].guid \in D, D \subseteq Guids,
           NEW m, m = [ps EXCEPT ![p] = AddTop(@, lab.tree[1].guid)]
    PROVE  AddTopDoes(mac, L, F, D, ps, p, lab, m)
<1> DEFINE top == lab.tree[1].guid
           q == AddTop(ps[p], top)
           s == ps[p].vdevs
<1>1. ps \in Seq(PoolRec) /\ OneEach(ps) /\ TopsIn(L, D, ps) /\ Members(mac, F, ps) /\ Newest(mac, F, ps) BY DEF PoolInv
<1>2. ps[p] \in PoolRec BY <1>1
<1>3. s \in Seq(Guids) /\ top \in Guids BY <1>2 DEF PoolRec
<1>4. /\ q \in PoolRec /\ q.guid = ps[p].guid /\ q.txg = ps[p].txg /\ q.uberblock = ps[p].uberblock
      /\ \A k \in DOMAIN s : k \in DOMAIN q.vdevs /\ q.vdevs[k] = s[k]
      /\ \A k \in DOMAIN q.vdevs : q.vdevs[k] = top \/ k \in DOMAIN s
      /\ \E k \in DOMAIN q.vdevs : q.vdevs[k] = top
  <2>1. CASE \E i \in DOMAIN s : s[i] = top
    <3>1. q = ps[p] BY <2>1 DEF AddTop
    <3> QED BY <3>1, <2>1, <1>2
  <2>2. CASE ~\E i \in DOMAIN s : s[i] = top
    <3>1. q = [ps[p] EXCEPT !.vdevs = Append(s, top)] BY <2>2 DEF AddTop
    <3>2. /\ Append(s, top) \in Seq(Guids) /\ DOMAIN Append(s, top) = DOMAIN s \union {Len(s) + 1}
          /\ Append(s, top)[Len(s) + 1] = top /\ \A k \in DOMAIN s : Append(s, top)[k] = s[k]
      <4> HIDE DEF s, top
      <4> QED BY <1>3, AppendFacts
    <3>3. /\ q \in PoolRec /\ q.vdevs = Append(s, top) /\ q.guid = ps[p].guid /\ q.txg = ps[p].txg /\ q.uberblock = ps[p].uberblock
      <4>1. PICK u : u = Append(s, top) OBVIOUS
      <4>2. u \in Seq(Guids) /\ q = [ps[p] EXCEPT !.vdevs = u] BY <4>1, <3>1, <3>2
      <4> HIDE DEF s, top, q
      <4>3. q \in PoolRec /\ q.vdevs = u /\ q.guid = ps[p].guid /\ q.txg = ps[p].txg /\ q.uberblock = ps[p].uberblock
        BY <4>2, <1>2, NewVdevs
      <4> QED BY <4>1, <4>3
    <3> HIDE DEF s, top, q
    <3> QED BY <3>2, <3>3
  <2> QED BY <2>1, <2>2
<1>5. m = [ps EXCEPT ![p] = q] OBVIOUS
<1> HIDE DEF q
<1>6. m \in Seq(PoolRec) /\ DOMAIN m = DOMAIN ps /\ m[p] = q /\ \A i \in DOMAIN ps : i # p => m[i] = ps[i] BY <1>1, <1>4, <1>5, ChangePool
<1>7. \A i \in DOMAIN ps : m[i].guid = ps[i].guid /\ m[i].txg = ps[i].txg /\ m[i].uberblock = ps[i].uberblock BY <1>4, <1>6
<1>8. OneEach(m) BY <1>1, <1>6, <1>7 DEF OneEach
<1>9. TopsIn(L, D, m)
  <2> SUFFICES ASSUME NEW i \in DOMAIN ps, NEW k \in DOMAIN m[i].vdevs
               PROVE  m[i].vdevs[k] \in D /\ \E l \in L : l.pool = m[i].guid /\ l.tree[1].guid = m[i].vdevs[k]
    BY <1>6 DEF TopsIn
  <2>1. CASE i # p BY <2>1, <1>1, <1>6 DEF TopsIn
  <2>2. CASE i = p
    <3>1. CASE q.vdevs[k] = top BY <3>1, <2>2, <1>4, <1>6
    <3>2. CASE k \in DOMAIN s
      <4>1. s[k] \in D /\ \E l \in L : l.pool = ps[p].guid /\ l.tree[1].guid = s[k] BY <3>2, <1>1 DEF TopsIn
      <4> QED BY <4>1, <3>2, <2>2, <1>4, <1>6
    <3> QED BY <3>1, <3>2, <2>2, <1>4, <1>6
  <2> QED BY <2>1, <2>2
<1>10. Members(mac, F, m)
  <2> SUFFICES ASSUME NEW d \in F
               PROVE  \E i \in DOMAIN ps : m[i].guid = mac[d].label.pool /\ \E k \in DOMAIN m[i].vdevs : m[i].vdevs[k] = mac[d].label.tree[1].guid
    BY <1>6 DEF Members
  <2>1. PICK i \in DOMAIN ps : ps[i].guid = mac[d].label.pool /\ \E k \in DOMAIN ps[i].vdevs : ps[i].vdevs[k] = mac[d].label.tree[1].guid
    BY <1>1 DEF Members
  <2>2. \E k \in DOMAIN m[i].vdevs : m[i].vdevs[k] = mac[d].label.tree[1].guid BY <2>1, <1>4, <1>6
  <2> QED BY <2>1, <2>2, <1>7
<1>11. Newest(mac, F, m) BY <1>1, <1>6, <1>7 DEF Newest
<1>12. PoolInv(mac, L, F, D, m) BY <1>6, <1>8, <1>9, <1>10, <1>11 DEF PoolInv
<1> QED BY <1>4, <1>6, <1>12 DEF AddTopDoes

\* The uberblocks of a device that is taken are looked at.
LEMMA TakeUberblock ==
    ASSUME NEW mac \in Machines, NEW L, NEW F, F \subseteq Devices, NEW D, NEW ps, PoolInv(mac, L, F, D, ps), NEW p \in DOMAIN ps,
           NEW dev \in Devices, ps[p].guid = mac[dev].label.pool,
           \E k \in DOMAIN ps[p].vdevs : ps[p].vdevs[k] = mac[dev].label.tree[1].guid,
           NEW m, m = [ps EXCEPT ![p].uberblock = BestUberblock(ps[p], mac[dev], dev)]
    PROVE  PoolInv(mac, L, F \union {dev}, D, m)
<1> DEFINE b == BestUberblock(ps[p], mac[dev], dev)
           q == [ps[p] EXCEPT !.uberblock = b]
<1>1. ps \in Seq(PoolRec) /\ OneEach(ps) BY DEF PoolInv
<1>2. ps[p] \in PoolRec BY <1>1
<1>3. ps[p].uberblock \in UbRec /\ ps[p].txg \in Nat BY <1>2 DEF PoolRec
<1>4. mac[dev].uberblocks \in Seq(Ubs) BY PoolAssumption DEF Ubs
<1>5. /\ b \in UbRec /\ NotOlder(ps[p].uberblock, b)
      /\ \A i \in DOMAIN mac[dev].uberblocks :
            mac[dev].uberblocks[i].txg > 0 /\ mac[dev].uberblocks[i].txg >= ps[p].txg => NotOlder(mac[dev].uberblocks[i], b)
  BY <1>3, <1>4, BestFacts
<1>6. m = [ps EXCEPT ![p] = q] OBVIOUS
<1> HIDE DEF b
<1>7. q \in PoolRec /\ q.guid = ps[p].guid /\ q.vdevs = ps[p].vdevs /\ q.txg = ps[p].txg /\ q.uberblock = b BY <1>2, <1>5 DEF PoolRec
<1> HIDE DEF q
<1>8. q.txg >= ps[p].txg BY <1>3, <1>7
<1>9. PoolInv(mac, L, F, D, m) BY <1>5, <1>6, <1>7, <1>8, RaisePool
<1>10. DOMAIN m = DOMAIN ps /\ m[p] = q BY <1>1, <1>6, <1>7, ChangePool
<1>11. Members(mac, F \union {dev}, m)
  <2>1. Members(mac, F, m) BY <1>9 DEF PoolInv
  <2>2. \E i \in DOMAIN m : m[i].guid = mac[dev].label.pool /\ \E k \in DOMAIN m[i].vdevs : m[i].vdevs[k] = mac[dev].label.tree[1].guid
    BY <1>7, <1>10
  <2> QED BY <2>1, <2>2 DEF Members
<1>12. Newest(mac, F \union {dev}, m)
  <2>1. Newest(mac, F, m) /\ OneEach(m) BY <1>9 DEF PoolInv
  <2>2. ASSUME NEW i \in DOMAIN m, mac[dev].label.pool = m[i].guid, NEW k \in DOMAIN mac[dev].uberblocks,
               mac[dev].uberblocks[k].txg >= m[i].txg, mac[dev].uberblocks[k].txg > 0
        PROVE  NotOlder(mac[dev].uberblocks[k], m[i].uberblock)
    <3>1. i = p BY <2>1, <2>2, <1>7, <1>10 DEF OneEach
    <3> QED BY <3>1, <2>2, <1>5, <1>7, <1>10
  <2> QED BY <2>1, <2>2 DEF Newest
<1> QED BY <1>9, <1>11, <1>12 DEF PoolInv

-----------------------------------------------------------------------------
(* The specification. *)

ZfsInv ==
    /\ machine \in Machines /\ probed \subseteq Devices /\ fd \subseteq probed /\ \A d \in fd : LabelUsable(machine[d].label)
    /\ VdevInv(machine, Met, fd, zfs_vdevs) /\ AllHealthy(Met, zfs_vdevs)
    /\ PoolInv(machine, Met, fd, DOMAIN zfs_vdevs, zfs_pools)

LEMMA ZfsInvInit == ZfsPoolInit => ZfsInv
<1> SUFFICES ASSUME ZfsPoolInit PROVE ZfsInv OBVIOUS
<1>1. machine \in Machines /\ zfs_vdevs = <<>> /\ zfs_pools = <<>> /\ fd = {} /\ probed = {} BY DEF ZfsPoolInit, zfs_init
<1>2. DOMAIN zfs_vdevs = {} /\ DOMAIN zfs_pools = {} /\ zfs_pools \in Seq(PoolRec) BY <1>1
<1>3. VdevInv(machine, Met, fd, zfs_vdevs)
  BY <1>1, <1>2 DEF VdevInv, VdevsOK, Owned, Known, LeafOpen, OnlyTops, Unmarked, Kin, KidsOpen, Complete
<1>4. AllHealthy(Met, zfs_vdevs) BY <1>2 DEF AllHealthy, KidsHealthy
<1>5. PoolInv(machine, Met, fd, DOMAIN zfs_vdevs, zfs_pools) BY <1>1, <1>2 DEF PoolInv, OneEach, TopsIn, Members, Newest
<1> QED BY <1>1, <1>3, <1>4, <1>5 DEF ZfsInv

LEMMA MetLabels ==
    ASSUME NEW mac \in Machines, NEW P, P \subseteq Devices, NEW L, L = {mac[dev].label : dev \in {d \in P : LabelUsable(mac[d].label)}}
    PROVE  LabelsOK(L)
<1>1. \A l \in L : LabelOK(l) BY PoolAssumption
<1>2. ASSUME NEW la \in L, NEW lb \in L PROVE Agreeing(la, lb)
  <2>1. PICK d \in Devices : LabelUsable(mac[d].label) /\ la = mac[d].label OBVIOUS
  <2>2. PICK e \in Devices : LabelUsable(mac[e].label) /\ lb = mac[e].label OBVIOUS
  <2> QED BY <2>1, <2>2, PoolAssumption
<1> QED BY <1>1, <1>2 DEF LabelsOK

\* vdev_probe of a device with a label.
LEMMA ProbeStep ==
    ASSUME ZfsInv, NEW dev \in Devices, dev \notin probed, LabelUsable(machine[dev].label), vdev_probe(dev),
           NEW L, L = Met \union {machine[dev].label}, LabelsOK(L)
    PROVE  /\ fd' \subseteq fd \union {dev}
           /\ VdevInv(machine, L, fd', zfs_vdevs') /\ AllHealthy(L, zfs_vdevs')
           /\ PoolInv(machine, L, fd', DOMAIN zfs_vdevs', zfs_pools')
<1> DEFINE lab == machine[dev].label
           t == lab.tree
           ps == IF spa_find_by_guid(zfs_pools, lab.pool) = 0 THEN Append(zfs_pools, spa_create(lab)) ELSE zfs_pools
           p == spa_find_by_guid(ps, lab.pool)
           newer == lab.txg > ps[p].txg
           ps1 == IF newer THEN [ps EXCEPT ![p].txg = lab.txg] ELSE ps
           vs == vdev_init_from_nvlist(t, zfs_vdevs, newer)
           top == t[1].guid
           ps2 == [ps1 EXCEPT ![p] = AddTop(@, top)]
           own == OwnVdev(vs, lab.guid, dev)
           D == DOMAIN zfs_vdevs
<1>1. machine \in Machines /\ fd \subseteq Devices /\ lab \in L /\ Met \subseteq L BY DEF ZfsInv
<1>2. LabelOK(lab) /\ TreeOK(t) BY <1>1 DEF LabelsOK, LabelOK
<1>3. VdevInv(machine, L, fd, zfs_vdevs) /\ AllHealthy(L, zfs_vdevs) BY <1>1, MoreLabels DEF ZfsInv
<1>4. PoolInv(machine, L, fd, D, zfs_pools)
  <2>1. PoolInv(machine, Met, fd, D, zfs_pools) BY DEF ZfsInv
  <2> QED BY <2>1, <1>1, MorePools
<1>5. PoolInv(machine, L, fd, D, ps) /\ p \in DOMAIN ps /\ ps[p].guid = lab.pool
  <2>1. PICK m : m = ps OBVIOUS
  <2>2. FoundDoes(machine, L, fd, D, zfs_pools, dev, m) BY <2>1, <1>1, <1>4, FoundPool
  <2> QED BY <2>1, <2>2 DEF FoundDoes
<1> HIDE DEF ps, p
<1>6. PoolInv(machine, L, fd, D, ps1) /\ p \in DOMAIN ps1 /\ ps1[p].guid = lab.pool
  <2>1. ps \in Seq(PoolRec) /\ ps[p] \in PoolRec BY <1>5 DEF PoolInv
  <2>2. CASE ~newer BY <2>2, <1>5
  <2>3. CASE newer
    <3> DEFINE q == [ps[p] EXCEPT !.txg = lab.txg]
    <3>1. ps1 = [ps EXCEPT ![p] = q] BY <2>3
    <3>2. lab.txg \in Nat BY <1>2 DEF LabelOK
    <3>3. q \in PoolRec /\ q.guid = ps[p].guid /\ q.vdevs = ps[p].vdevs /\ q.txg = lab.txg /\ q.uberblock = ps[p].uberblock
      <4>1. PICK u : u = lab.txg OBVIOUS
      <4>2. q = [ps[p] EXCEPT !.txg = u] /\ u \in Nat BY <4>1, <3>2
      <4> HIDE DEF q
      <4>3. q \in PoolRec /\ q.guid = ps[p].guid /\ q.vdevs = ps[p].vdevs /\ q.txg = u /\ q.uberblock = ps[p].uberblock
        BY <2>1, <4>2, NewTxg
      <4> QED BY <4>1, <4>3
    <3>4. ps[p].txg \in Nat /\ ps[p].uberblock.txg \in Nat /\ ps[p].uberblock.timestamp \in Nat BY <2>1 DEF PoolRec, UbRec
    <3> HIDE DEF q, ps1
    <3>5. NotOlder(ps[p].uberblock, q.uberblock) /\ q.txg >= ps[p].txg BY <2>3, <3>2, <3>3, <3>4 DEF NotOlder
    <3>6. PoolInv(machine, L, fd, D, ps1) BY <1>1, <1>5, <3>1, <3>3, <3>5, RaisePool
    <3>7. DOMAIN ps1 = DOMAIN ps /\ ps1[p] = q BY <2>1, <1>5, <3>1, <3>3, ChangePool
    <3> QED BY <3>3, <3>6, <3>7, <1>5
  <2> QED BY <2>2, <2>3
<1>7. CASE AlreadyInited(lab.guid)
  <2>1. zfs_pools' = ps1 /\ zfs_vdevs' = zfs_vdevs /\ fd' = fd BY <1>7 DEF vdev_probe, ps, p
  <2> HIDE DEF ps1
  <2> QED BY <2>1, <1>3, <1>6
<1>8. CASE ~AlreadyInited(lab.guid)
  <2> HIDE DEF newer, ps1
  <2>0. VdevsOK(zfs_vdevs) BY <1>3 DEF VdevInv
  <2>1. VdevInv(machine, L, fd, vs) BY <1>1, <1>3, WalkKeeps
  <2>2. Walked(t, zfs_vdevs, newer, Len(t), vs) BY <2>0, <1>2, InitFacts
  <2> HIDE DEF vs
  <2>3. D \subseteq DOMAIN vs /\ DOMAIN vs \subseteq Guids /\ \A k \in Reached(t, Len(t)) : t[k].guid \in DOMAIN vs
    BY <2>2 DEF Walked, VdevsOK
  <2>4. PoolInv(machine, L, fd, DOMAIN vs, ps1) BY <2>3, <1>6, MorePools
  <2>5. Len(t) \in Nat /\ DOMAIN t = 1 .. Len(t) /\ 1 \in DOMAIN t /\ Stop(t) \in Nat BY <1>2, StopType DEF TreeOK
  <2>6. CASE Stop(t) <= Len(t)
    <3>1. zfs_vdevs' = vs /\ zfs_pools' = ps1 /\ fd' = fd BY <1>8, <2>6 DEF vdev_probe, vs, newer, ps1, ps, p
    <3>2. ~Accepted(lab) BY <2>5, <2>6 DEF Accepted
    <3>3. AllHealthy(L, vs) BY <3>2, <1>1 DEF AllHealthy
    <3> QED BY <3>1, <3>3, <2>1, <2>4
  <2>7. CASE ~(Stop(t) <= Len(t))
    <3>1. \A k \in DOMAIN t : k \in Reached(t, Len(t)) BY <2>5, <2>7 DEF Reached
    <3>2. top \in DOMAIN vs /\ top \in TopOf(L) BY <3>1, <2>3, <2>5, <1>1 DEF TopOf
    <3>3. /\ PoolInv(machine, L, fd, DOMAIN vs, ps2) /\ DOMAIN ps2 = DOMAIN ps1 /\ ps2[p].guid = lab.pool
          /\ \E k \in DOMAIN ps2[p].vdevs : ps2[p].vdevs[k] = top
      <4>1. PICK m : m = ps2 OBVIOUS
      <4>2. AddTopDoes(machine, L, fd, DOMAIN vs, ps1, p, lab, m) BY <4>1, <1>1, <1>6, <2>3, <2>4, <3>2, AddTopPool
      <4> QED BY <4>1, <4>2 DEF AddTopDoes
    <3> HIDE DEF ps2
    <3>4. CASE lab.guid \notin DOMAIN vs
      <4>1. zfs_vdevs' = vs /\ zfs_pools' = ps2 /\ fd' = fd BY <1>8, <2>7, <3>4 DEF vdev_probe, vs, newer, ps2, ps1, ps, p
      <4>2. ~Accepted(lab) BY <3>1, <3>4, <2>3 DEF Accepted
      <4>3. AllHealthy(L, vs) BY <4>2, <1>1 DEF AllHealthy
      <4> QED BY <4>1, <4>3, <2>1, <3>3
    <3>5. CASE lab.guid \in DOMAIN vs
      <4> DEFINE m == vdev_set_state(own, top)
                 ps3 == [ps2 EXCEPT ![p].uberblock = BestUberblock(ps2[p], machine[dev], dev)]
      <4>1. zfs_vdevs' = m /\ zfs_pools' = ps3 /\ fd' = fd \union {dev}
        BY <1>8, <2>7, <3>5 DEF vdev_probe, OwnVdev, vs, newer, ps2, ps1, ps, p
      <4>2. vs[lab.guid].phys_read = Nil
        <5>1. CASE lab.guid \in DOMAIN zfs_vdevs BY <5>1, <1>8, <2>2 DEF AlreadyInited, Walked, Kept
        <5>2. CASE lab.guid \notin DOMAIN zfs_vdevs
          <6>1. PICK k \in Reached(t, Len(t)) : lab.guid = t[k].guid BY <5>2, <3>5, <2>2 DEF Walked
          <6> QED BY <6>1, <5>2, <2>2 DEF Walked, Made
        <5> QED BY <5>1, <5>2
      <4>3. VdevInv(machine, L, fd \union {dev}, own) /\ own[lab.guid].type = "disk"
        <5>1. PICK g, o : g = lab.guid /\ o = OwnVdev(vs, g, dev) OBVIOUS
        <5>2. g \in DOMAIN vs /\ vs[g].phys_read = Nil BY <5>1, <3>5, <4>2
        <5>3. OwnDoes(machine, L, fd, dev, vs, g, o) BY <1>1, <2>1, <5>1, <5>2, OwnKeeps
        <5> QED BY <5>1, <5>3 DEF OwnDoes
      <4>4. DOMAIN own = DOMAIN vs BY DEF OwnVdev
      <4>5. VdevInv(machine, L, fd \union {dev}, m)
        <5> HIDE DEF own
        <5> QED BY <3>2, <4>3, <4>4, SetStateKeeps
      <4>6. DOMAIN m = DOMAIN vs BY <4>4 DEF vdev_set_state
      <4>7. AllHealthy(L, m)
        <5>1. PICK o : o = own OBVIOUS
        <5>2. o[lab.guid].type = "disk" BY <5>1, <4>3
        <5>3. PICK mm : mm = vdev_set_state(o, top) OBVIOUS
        <5>4. vs = vdev_init_from_nvlist(lab.tree, zfs_vdevs, newer) BY DEF vs
        <5>5. AllHealthy(L, mm) BY <1>1, <1>3, <3>2, <3>5, <5>1, <5>2, <5>3, <5>4, TakenHealthy
        <5> QED BY <5>1, <5>3, <5>5
      <4> HIDE DEF m
      <4>8. PoolInv(machine, L, fd \union {dev}, DOMAIN vs, ps3)
        BY <1>1, <1>6, <3>3, TakeUberblock
      <4> QED BY <4>1, <4>5, <4>6, <4>7, <4>8
    <3> QED BY <3>4, <3>5
  <2> QED BY <2>6, <2>7
<1> QED BY <1>7, <1>8

LEMMA NewInited ==
    ASSUME NEW a \in PoolRec, NEW b \in BOOLEAN, NEW q, q = [a EXCEPT !.inited = b]
    PROVE  q \in PoolRec /\ q.guid = a.guid /\ q.vdevs = a.vdevs /\ q.txg = a.txg /\ q.uberblock = a.uberblock
BY DEF PoolRec

LEMMA ZfsInvNext == ZfsInv /\ [ZfsPoolNext]_zvars => ZfsInv'
<1> SUFFICES ASSUME ZfsInv, [ZfsPoolNext]_zvars PROVE ZfsInv' OBVIOUS
<1>0. machine \in Machines /\ probed \subseteq Devices /\ fd \subseteq probed BY DEF ZfsInv
<1>1. ASSUME NEW dev \in Devices, zfs_probe_dev(dev) PROVE ZfsInv'
  <2>1. dev \notin probed /\ probed' = probed \union {dev} /\ machine' = machine /\ vdev_probe(dev) BY <1>1 DEF zfs_probe_dev
  <2>2. CASE ~LabelUsable(machine[dev].label)
    <3>1. zfs_vdevs' = zfs_vdevs /\ zfs_pools' = zfs_pools /\ fd' = fd BY <2>1, <2>2 DEF vdev_probe
    <3>2. Met' = Met BY <2>1, <2>2 DEF Met
    <3> QED BY <1>0, <2>1, <3>1, <3>2 DEF ZfsInv
  <2>3. CASE LabelUsable(machine[dev].label)
    <3>1. PICK L : L = Met' OBVIOUS
    <3>2. L = Met \union {machine[dev].label} BY <2>1, <2>3, <3>1 DEF Met
    <3>3. LabelsOK(L)
      <4>1. L = {machine[e].label : e \in {d \in probed \union {dev} : LabelUsable(machine[d].label)}} BY <2>1, <3>1 DEF Met
      <4>2. probed \union {dev} \subseteq Devices BY <1>0
      <4> QED BY <1>0, <4>1, <4>2, MetLabels
    <3>4. /\ fd' \subseteq fd \union {dev}
          /\ VdevInv(machine, L, fd', zfs_vdevs') /\ AllHealthy(L, zfs_vdevs')
          /\ PoolInv(machine, L, fd', DOMAIN zfs_vdevs', zfs_pools')
      BY <2>1, <2>3, <3>2, <3>3, ProbeStep
    <3>5. \A d \in fd' : LabelUsable(machine[d].label) BY <2>3, <3>4 DEF ZfsInv
    <3>6. machine' \in Machines /\ probed' \subseteq Devices /\ fd' \subseteq probed' BY <1>0, <2>1, <3>4
    <3>7. /\ VdevInv(machine', L, fd', zfs_vdevs') /\ AllHealthy(L, zfs_vdevs')
          /\ PoolInv(machine', L, fd', DOMAIN zfs_vdevs', zfs_pools')
      BY <2>1, <3>4
    <3> QED BY <2>1, <3>1, <3>5, <3>6, <3>7 DEF ZfsInv
  <2> QED BY <2>2, <2>3
<1>2. ASSUME NEW p \in DOMAIN zfs_pools, zfs_spa_init(p) PROVE ZfsInv'
  <2> DEFINE q == [zfs_pools[p] EXCEPT !.inited = TRUE]
             D == DOMAIN zfs_vdevs
  <2>1. /\ zfs_pools' = [zfs_pools EXCEPT ![p] = q] /\ machine' = machine /\ zfs_vdevs' = zfs_vdevs /\ fd' = fd /\ probed' = probed
    BY <1>2 DEF zfs_spa_init
  <2>2. PoolInv(machine, Met, fd, D, zfs_pools) BY DEF ZfsInv
  <2>3. zfs_pools[p] \in PoolRec BY <2>2 DEF PoolInv
  <2>4. /\ q \in PoolRec /\ q.guid = zfs_pools[p].guid /\ q.vdevs = zfs_pools[p].vdevs
        /\ q.txg = zfs_pools[p].txg /\ q.uberblock = zfs_pools[p].uberblock
    BY <2>3, NewInited
  <2>5. zfs_pools[p].txg \in Nat /\ zfs_pools[p].uberblock.txg \in Nat /\ zfs_pools[p].uberblock.timestamp \in Nat BY <2>3 DEF PoolRec, UbRec
  <2> HIDE DEF q
  <2>6. q.txg >= zfs_pools[p].txg /\ NotOlder(zfs_pools[p].uberblock, q.uberblock) BY <2>4, <2>5 DEF NotOlder
  <2>7. PICK L, m : L = Met /\ m = zfs_pools' OBVIOUS
  <2>8. PoolInv(machine, L, fd, D, m)
    <3>1. fd \subseteq Devices BY <1>0
    <3> QED BY <1>0, <1>2, <2>1, <2>2, <2>4, <2>6, <2>7, <3>1, RaisePool
  <2>9. Met' = Met BY <2>1 DEF Met
  <2> QED BY <1>0, <2>1, <2>7, <2>8, <2>9 DEF ZfsInv
<1>3. CASE UNCHANGED zvars
  <2>1. Met' = Met BY <1>3 DEF Met, zvars
  <2> QED BY <1>3, <2>1 DEF ZfsInv, zvars
<1> QED BY <1>1, <1>2, <1>3 DEF ZfsPoolNext

LEMMA ZfsInvAlways == ZfsPoolSpec => []ZfsInv
BY ZfsInvInit, ZfsInvNext, PTL DEF ZfsPoolSpec

LEMMA StatusHealthy ==
    ASSUME NEW spa, spa_status(spa) = "HEALTHY" PROVE \A k \in DOMAIN spa.vdevs : zfs_vdevs[spa.vdevs[k]].state = "HEALTHY"
BY DEF spa_status, TopIn

LEMMA InvPoolSafe == ZfsInv => PoolSafe
<1> SUFFICES ASSUME ZfsInv PROVE PoolSafe OBVIOUS
<1>1. /\ VdevsOK(zfs_vdevs) /\ Owned(machine, fd, zfs_vdevs) /\ LeafOpen(zfs_vdevs)
      /\ Still(Met) => KidsOpen(zfs_vdevs)
  BY DEF ZfsInv, VdevInv
<1>2. /\ zfs_pools \in Seq(PoolRec) /\ TopsIn(Met, DOMAIN zfs_vdevs, zfs_pools) /\ Newest(machine, fd, zfs_pools)
  BY DEF ZfsInv, PoolInv
<1>3. NoneMoved <=> Still(Met) BY DEF NoneMoved, Still
<1>4. fd \subseteq Devices /\ Nil \notin fd BY PoolAssumption DEF ZfsInv
<1>5. ZfsPoolTypeOK
  <2>1. DOMAIN machine = Devices /\ fd \subseteq probed /\ probed \subseteq Devices BY PoolAssumption DEF ZfsInv
  <2>2. ASSUME NEW g \in DOMAIN zfs_vdevs
        PROVE  /\ zfs_vdevs[g].state \in States /\ zfs_vdevs[g].phys_read \in fd \union {Nil}
               /\ \A k \in DOMAIN zfs_vdevs[g].children : zfs_vdevs[g].children[k] \in DOMAIN zfs_vdevs
    <3>1. VdevOK(zfs_vdevs, zfs_vdevs[g]) BY <1>1 DEF VdevsOK
    <3>2. zfs_vdevs[g].state \in States BY <3>1 DEF VdevOK, VdevRec
    <3>3. zfs_vdevs[g].phys_read \in fd \union {Nil} BY <1>1 DEF Owned
    <3> QED BY <3>1, <3>2, <3>3 DEF VdevOK
  <2>3. \A p \in DOMAIN zfs_pools : \A k \in DOMAIN zfs_pools[p].vdevs : zfs_pools[p].vdevs[k] \in DOMAIN zfs_vdevs BY <1>2 DEF TopsIn
  <2> QED BY <2>1, <2>2, <2>3 DEF ZfsPoolTypeOK
<1>6. NewestUberblock BY <1>2 DEF Newest, NewestUberblock, NotOlder
<1>7. DescriptorsOwned
  <2>1. ASSUME NEW d \in fd PROVE d \in {zfs_vdevs[g].phys_read : g \in DOMAIN zfs_vdevs} \ {Nil} BY <1>1, <1>4 DEF Owned
  <2>2. ASSUME NEW d \in {zfs_vdevs[g].phys_read : g \in DOMAIN zfs_vdevs} \ {Nil} PROVE d \in fd BY <1>1 DEF Owned
  <2>3. fd = {zfs_vdevs[g].phys_read : g \in DOMAIN zfs_vdevs} \ {Nil} BY <2>1, <2>2
  <2> QED BY <2>3, <1>1 DEF DescriptorsOwned, Owned
<1>8. OnlineMeansOpen
  <2> SUFFICES ASSUME NEW p \in DOMAIN zfs_pools, spa_status(zfs_pools[p]) = "HEALTHY", NEW k \in DOMAIN zfs_pools[p].vdevs, NEW g,
                      g = zfs_pools[p].vdevs[k]
               PROVE  /\ zfs_vdevs[g].children = <<>> => zfs_vdevs[g].phys_read # Nil
                      /\ NoneMoved => \A c \in DOMAIN zfs_vdevs[g].children : zfs_vdevs[zfs_vdevs[g].children[c]].phys_read # Nil
                      /\ NoneMoved /\ (\A lab \in Met : Accepted(lab)) /\ zfs_vdevs[g].type \in {"mirror", "raidz"} =>
                             \A c \in DOMAIN zfs_vdevs[g].children : zfs_vdevs[zfs_vdevs[g].children[c]].state = "HEALTHY"
    BY DEF OnlineMeansOpen
  <2>1. zfs_vdevs[g].state = "HEALTHY" /\ g \in DOMAIN zfs_vdevs BY <1>2, StatusHealthy DEF TopsIn
  <2>2. g \in TopOf(Met) BY <1>2 DEF TopsIn, TopOf
  <2>3. zfs_vdevs[g].children = <<>> => zfs_vdevs[g].phys_read # Nil BY <2>1, <1>1 DEF LeafOpen
  <2>4. NoneMoved => \A c \in DOMAIN zfs_vdevs[g].children : zfs_vdevs[zfs_vdevs[g].children[c]].phys_read # Nil
    BY <2>1, <1>1, <1>3 DEF KidsOpen
  <2>5. ASSUME NoneMoved, \A lab \in Met : Accepted(lab), zfs_vdevs[g].type \in {"mirror", "raidz"}
        PROVE  \A c \in DOMAIN zfs_vdevs[g].children : zfs_vdevs[zfs_vdevs[g].children[c]].state = "HEALTHY"
    <3>1. KidsHealthy(Met, zfs_vdevs) BY <2>5, <1>3 DEF ZfsInv, AllHealthy
    <3> QED BY <3>1, <2>1, <2>2, <2>5 DEF KidsHealthy
  <2> QED BY <2>3, <2>4, <2>5
<1> QED BY <1>5, <1>6, <1>7, <1>8 DEF PoolSafe

\* Whatever disks are found, in whatever order and with labels of whatever age, a pool has the newest uberblock
\* of its members, every open descriptor serves its own vdev, and a pool that is reported as online has every disk
\* below it open (vdev_probe, vdev_init_from_nvlist, vdev_set_state, spa_status).
THEOREM ZfsPoolSafe == ZfsPoolSpec => []PoolSafe
BY ZfsInvAlways, InvPoolSafe, PTL

-----------------------------------------------------------------------------
(* Reading. *)

\* The vdev of a top is what any label that has it at the top says.
LEMMA TopIs ==
    ASSUME NEW L, LabelsOK(L), NEW vs, Known(L, vs), NEW h \in L, h.tree[1].guid \in DOMAIN vs
    PROVE  vs[h.tree[1].guid].type = h.tree[1].type /\ vs[h.tree[1].guid].id = h.tree[1].id
<1> DEFINE g == h.tree[1].guid
<1>1. PICK l \in L : \E i \in DOMAIN l.tree : l.tree[i].guid = g /\ vs[g].type = l.tree[i].type /\ vs[g].id = l.tree[i].id
  BY DEF Known
<1>2. PICK i \in DOMAIN l.tree : l.tree[i].guid = g /\ vs[g].type = l.tree[i].type /\ vs[g].id = l.tree[i].id BY <1>1
<1>3. 1 \in DOMAIN h.tree BY DEF LabelsOK, LabelOK, TreeOK
<1>4. Agreeing(h, l) BY DEF LabelsOK
<1>5. i = 1 /\ h.pool = l.pool /\ h.tree[1].type = l.tree[1].type BY <1>2, <1>3, <1>4 DEF Agreeing
<1>6. h.tree[1].id = l.tree[1].id BY <1>2, <1>4, <1>5 DEF Agreeing
<1> QED BY <1>2, <1>5, <1>6

\* When only T has the number id, a DVA with that number leads to T.
LEMMA FirstTop ==
    ASSUME NEW spa, NEW T, NEW id, spa.vdevs \in Seq(Guids), \E k \in DOMAIN spa.vdevs : spa.vdevs[k] = T,
           \A k \in DOMAIN spa.vdevs : zfs_vdevs[spa.vdevs[k]].id = id <=> spa.vdevs[k] = T
    PROVE  \E k \in DvaTop(spa, id) : spa.vdevs[k] = T
<1> DEFINE K == {k \in DOMAIN spa.vdevs : spa.vdevs[k] = T}
<1>1. K \subseteq Nat /\ K # {} OBVIOUS
<1>2. PICK k \in K : \A j \in K : k <= j BY <1>1, LeastOf
<1>3. k \in DOMAIN spa.vdevs /\ spa.vdevs[k] = T BY <1>2
<1>4. ASSUME NEW j \in 1 .. k - 1 PROVE zfs_vdevs[spa.vdevs[j]].id # id
  <2>1. j \in DOMAIN spa.vdevs /\ j < k BY <1>3
  <2>2. j \notin K BY <1>2, <2>1
  <2> QED BY <2>1, <2>2
<1>5. k \in DvaTop(spa, id) BY <1>3, <1>4 DEF DvaTop
<1> QED BY <1>3, <1>5

\* A plain disk is the only vdev of its label.
LEMMA DiskAlone == ASSUME NEW t, TreeOK(t), t[1].type = "disk" PROVE DOMAIN t = {1}
<1>1. ASSUME 2 \in DOMAIN t PROVE FALSE
  <2>1. 2 \in 2 .. Len(t) BY <1>1 DEF TreeOK
  <2>2. PICK j \in 1 .. 2 - 1 : t[j].type # "disk" BY <2>1 DEF TreeOK
  <2>3. j = 1 OBVIOUS
  <2> QED BY <2>2, <2>3
<1>2. t \in Seq(Nodes) /\ t # <<>> BY DEF TreeOK
<1>3. Len(t) \in Nat /\ DOMAIN t = 1 .. Len(t) /\ Len(t) >= 1 BY <1>2
<1>4. Len(t) = 1 BY <1>1, <1>3
<1> QED BY <1>3, <1>4

LEMMA InvGoodCopy == ZfsInv => GoodCopyIsRead
<1> SUFFICES ASSUME ZfsInv, NEW p \in DOMAIN zfs_pools, NEW bp \in BlockPtrs, NEW dev \in fd,
                    machine[dev].label.pool = zfs_pools[p].guid, machine[dev].label.tree[1].type \in {"mirror", "disk"},
                    ~EverMarked(machine[dev].label.guid), ListedEverywhere(machine[dev].label.guid, machine[dev].label.pool), NoneMoved,
                    NEW i \in DOMAIN bp, bp[i].vdev = machine[dev].label.tree[1].id, bp[i].gang = {}, bp[i].blk \in machine[dev].good
             PROVE  zio_read(zfs_pools[p], bp)
  BY DEF GoodCopyIsRead
<1> DEFINE lab == machine[dev].label
           vs == zfs_vdevs
           spa == zfs_pools[p]
           T == lab.tree[1].guid
           blk == bp[i].blk
<1>1. /\ VdevsOK(vs) /\ Owned(machine, fd, vs) /\ Known(Met, vs) /\ Unmarked(machine, Met, fd, vs)
      /\ Complete(Met, vs) /\ zfs_pools \in Seq(PoolRec) /\ OneEach(zfs_pools)
      /\ TopsIn(Met, DOMAIN vs, zfs_pools) /\ Members(machine, fd, zfs_pools)
      /\ machine \in Machines /\ probed \subseteq Devices /\ fd \subseteq probed
  BY DEF ZfsInv, VdevInv, PoolInv, NoneMoved, Still
<1>2. LabelsOK(Met)
  <2>1. PICK L : L = Met OBVIOUS
  <2>2. L = {machine[e].label : e \in {d \in probed : LabelUsable(machine[d].label)}} BY <2>1 DEF Met
  <2> QED BY <1>1, <2>1, <2>2, MetLabels
<1>3. lab \in Met BY <1>1 DEF ZfsInv, Met
<1>4. TreeOK(lab.tree) /\ 1 \in DOMAIN lab.tree /\ Agreeing(lab, lab)
  <2>1. LabelOK(lab) /\ Agreeing(lab, lab) BY <1>2, <1>3 DEF LabelsOK
  <2>2. TreeOK(lab.tree) BY <2>1 DEF LabelOK
  <2>3. lab.tree \in Seq(Nodes) /\ lab.tree # <<>> BY <2>2 DEF TreeOK
  <2>4. 1 \in DOMAIN lab.tree BY <2>3
  <2> QED BY <2>1, <2>2, <2>4
<1>5. PICK m \in DOMAIN lab.tree : lab.tree[m].guid = lab.guid /\ lab.tree[m].up \in {Nil, T} BY <1>3 DEF ListedEverywhere
<1>6. lab.guid \in DOMAIN vs /\ vs[lab.guid].phys_read = dev /\ lab.tree[m].type = "disk"
  BY <1>1, <1>4, <1>5 DEF Owned, Agreeing
<1>7. \E k \in DOMAIN spa.vdevs : spa.vdevs[k] = T
  <2>1. PICK q \in DOMAIN zfs_pools : zfs_pools[q].guid = lab.pool /\ \E k \in DOMAIN zfs_pools[q].vdevs : zfs_pools[q].vdevs[k] = T
    BY <1>1 DEF Members
  <2>2. q = p BY <1>1, <2>1 DEF OneEach
  <2> QED BY <2>1, <2>2
<1>8. T \in DOMAIN vs BY <1>1, <1>7 DEF TopsIn
<1>9. PICK n \in DvaTop(spa, bp[i].vdev) : spa.vdevs[n] = T
  <2>1. spa.vdevs \in Seq(Guids)
    <3>1. spa \in PoolRec BY <1>1
    <3> QED BY <3>1 DEF PoolRec
  <2>2. ASSUME NEW k \in DOMAIN spa.vdevs PROVE vs[spa.vdevs[k]].id = lab.tree[1].id <=> spa.vdevs[k] = T
    <3>1. PICK h \in Met : h.pool = spa.guid /\ h.tree[1].guid = spa.vdevs[k] /\ spa.vdevs[k] \in DOMAIN vs BY <1>1 DEF TopsIn
    <3>2. vs[h.tree[1].guid].id = h.tree[1].id BY <1>1, <1>2, <3>1, TopIs
    <3>3. Agreeing(h, lab) BY <1>2, <1>3 DEF LabelsOK
    <3> QED BY <3>1, <3>2, <3>3 DEF Agreeing
  <2>3. PICK a, b, id : a = spa /\ b = T /\ id = bp[i].vdev OBVIOUS
  <2>4. /\ a.vdevs \in Seq(Guids) /\ \E k \in DOMAIN a.vdevs : a.vdevs[k] = b
        /\ \A k \in DOMAIN a.vdevs : zfs_vdevs[a.vdevs[k]].id = id <=> a.vdevs[k] = b
    BY <1>7, <2>1, <2>2, <2>3
  <2>5. \E k \in DvaTop(a, id) : a.vdevs[k] = b BY <2>4, FirstTop
  <2> QED BY <2>3, <2>5
<1>10. vs[T].type = lab.tree[1].type BY <1>1, <1>2, <1>3, <1>8, TopIs
<1>11. vdev_disk_read(lab.guid, blk)
  <2>1. dev # Nil BY <1>1, PoolAssumption
  <2> QED BY <1>6, <2>1 DEF vdev_disk_read, vdev_read_phys
<1>12. v_read(T, blk)
  <2>1. CASE lab.tree[1].type = "disk"
    <3>1. lab.guid = T BY <1>4, <1>5, <2>1, DiskAlone
    <3>2. KidRead(T, blk) BY <1>10, <1>11, <2>1, <3>1 DEF KidRead
    <3> QED BY <1>10, <2>1, <3>2 DEF v_read
  <2>2. CASE lab.tree[1].type = "mirror"
    <3>1. m # 1 BY <1>6, <2>2
    <3>2. lab.tree[m].up = T
      <4>1. m \in 2 .. Len(lab.tree) BY <1>4, <3>1 DEF TreeOK
      <4>2. PICK j \in 1 .. m - 1 : lab.tree[j].guid = lab.tree[m].up BY <1>4, <4>1 DEF TreeOK
      <4>3. lab.tree \in Seq(Nodes) /\ j \in DOMAIN lab.tree BY <1>4, <4>1 DEF TreeOK
      <4>4. lab.tree[j] \in Nodes BY <4>3
      <4>5. lab.tree[m].up # Nil BY <4>2, <4>4, PoolAssumption DEF Nodes
      <4> QED BY <1>5, <4>5
    <3>3. T \in TopOf(Met) BY <1>3 DEF TopOf
    <3>4. PICK l \in Met : MadeBy(l, T, vs[T]) BY <1>1, <1>8, <3>3 DEF Complete
    <3>5. Agreeing(lab, l) /\ Agreeing(l, lab) /\ 1 \in DOMAIN l.tree BY <1>2, <1>3 DEF LabelsOK, LabelOK, TreeOK
    <3>6. l.pool = lab.pool BY <1>4, <3>4, <3>5 DEF MadeBy, Agreeing
    <3>7. Stop(l.tree) > Len(l.tree) /\ \E j \in DOMAIN l.tree : l.tree[j].guid = lab.guid BY <3>6 DEF ListedEverywhere
    <3>8. PICK j \in DOMAIN l.tree : l.tree[j].guid = lab.guid BY <3>7
    <3>9. l.tree[j].type = "disk" BY <3>5, <3>8 DEF Agreeing
    <3>10. l.tree[j].up = T BY <1>3, <1>5, <3>2, <3>8 DEF NoneMoved
    <3>11. PICK k \in DOMAIN vs[T].children : vs[T].children[k] = lab.guid BY <3>4, <3>7, <3>8, <3>9, <3>10 DEF MadeBy
    <3>12. T # Nil
      <4>1. T \in Guids BY <1>1, <1>8 DEF VdevsOK
      <4> QED BY <4>1, PoolAssumption
    <3>13. lab.guid \notin TopOf(Met)
      <4>1. ListedUnder(Met, lab.guid, T) BY <1>3, <1>5, <3>2 DEF ListedUnder
      <4> QED BY <1>2, <3>12, <4>1, KidNoTop
    <3>14. vs[lab.guid].state = "HEALTHY"
      <4>1. ~Marked(Met, lab.guid) BY DEF Marked, EverMarked
      <4> QED BY <1>1, <3>13, <4>1 DEF Unmarked
    <3>15. vs[lab.guid].type = "disk"
      <4>1. PICK h \in Met : \E x \in DOMAIN h.tree : h.tree[x].guid = lab.guid /\ vs[lab.guid].type = h.tree[x].type BY <1>1, <1>6 DEF Known
      <4>2. Agreeing(lab, h) BY <1>2, <1>3 DEF LabelsOK
      <4> QED BY <4>1, <4>2 DEF Agreeing
    <3>16. KidRead(vs[T].children[k], blk) BY <1>11, <3>11, <3>15 DEF KidRead
    <3>17. k \in HealthyKids(T) BY <3>11, <3>14 DEF HealthyKids
    <3>18. vdev_mirror_read(T, blk) BY <3>16, <3>17 DEF vdev_mirror_read
    <3> QED BY <1>10, <2>2, <3>18 DEF v_read
  <2> QED BY <2>1, <2>2
<1>13. DvaRead(spa, bp[i]) BY <1>9, <1>12 DEF DvaRead
<1>14. DvaWorks(spa, bp, bp[i]) BY <1>13 DEF DvaWorks
<1> QED BY <1>14 DEF zio_read

\* However the disks were found and whatever the age of their labels, a block is read as long as one disk that all
\* labels list and none calls bad has a good copy of it (vdev_mirror_read, zio_read).
THEOREM ZfsGoodCopy == ZfsPoolSpec => []GoodCopyIsRead
BY ZfsInvAlways, InvGoodCopy, PTL
=============================================================================
