--------------------------- MODULE ZfsFileProofs ---------------------------
(***************************************************************************)
(* Proofs about ZfsFile: FileSafe, for any objects on the disk that meet    *)
(* FileAssumption, any paths, sizes and block that fails.                   *)
(***************************************************************************)
EXTENDS ZfsFile, TLAPS, WellFoundedInduction, FiniteSetTheorems

-----------------------------------------------------------------------------
(* Induction. *)

\* A set of natural numbers that is not empty has a least element.
LEMMA LeastOf == ASSUME NEW T, T \subseteq Nat, T # {} PROVE \E x \in T : \A y \in T : x <= y
<1> DEFINE R == OpToRel(<, Nat)
<1>1. IsWellFoundedOn(R, Nat) BY NatLessThanWellFounded
<1> HIDE DEF R
<1>2. PICK x \in T : \A y \in T : ~(<<y, x>> \in R) BY <1>1, WFMin
<1>3. \A y \in T : <<y, x>> \in R <=> y < x BY DEF R, OpToRel
<1>4. \A y \in T : ~(y < x) BY <1>2, <1>3
<1>5. \A y \in T : x <= y BY <1>4
<1> QED BY <1>5

\* What holds at 0 and goes from n to n + 1 holds of every number.
LEMMA NatInd == ASSUME NEW S, 0 \in S, \A n \in Nat : n \in S => n + 1 \in S PROVE Nat \subseteq S
<1> SUFFICES ASSUME Nat \ S # {} PROVE FALSE OBVIOUS
<1>1. PICK x \in Nat \ S : \A y \in Nat \ S : x <= y BY LeastOf
<1>2. x # 0 /\ x - 1 \in Nat OBVIOUS
<1>3. x - 1 \in S BY <1>1, <1>2
<1> QED BY <1>1, <1>2, <1>3

-----------------------------------------------------------------------------
(* Lists of requests: what dnode_read is asked for, one after the other. *)

IsSeq(q) == \E S : q \in Seq(S)
\* Requests one after the other for one address are for one object.
Chain(q) == /\ IsSeq(q) /\ \A i \in 1 .. Len(q) : q[i].addr \in Addresses
            /\ \A i \in 1 .. Len(q) : i + 1 \in 1 .. Len(q) /\ q[i].addr = q[i + 1].addr => q[i].o = q[i + 1].o
\* A chain that begins with object o at address a and ends with object p at b.
Runs(q, a, o, b, p) == Chain(q) /\ q # <<>> /\ q[1].addr = a /\ q[1].o = o /\ q[Len(q)].addr = b /\ q[Len(q)].o = p

LEMMA SeqFacts == ASSUME NEW q, IsSeq(q) PROVE Len(q) \in Nat /\ DOMAIN q = 1 .. Len(q) /\ (q # <<>> <=> Len(q) > 0)
BY DEF IsSeq

LEMMA JoinFacts ==
    ASSUME NEW q, NEW r, IsSeq(q), IsSeq(r)
    PROVE  /\ IsSeq(q \o r) /\ Len(q \o r) = Len(q) + Len(r)
           /\ \A i \in 1 .. Len(q) + Len(r) : (q \o r)[i] = IF i <= Len(q) THEN q[i] ELSE r[i - Len(q)]
<1>1. PICK S : q \in Seq(S) BY DEF IsSeq
<1>2. PICK T : r \in Seq(T) BY DEF IsSeq
<1>3. q \in Seq(S \union T) /\ r \in Seq(S \union T) BY <1>1, <1>2
<1>4. (q \o r) \in Seq(S \union T) BY <1>3
<1>5. Len(q \o r) = Len(q) + Len(r) /\ \A i \in 1 .. Len(q) + Len(r) : (q \o r)[i] = IF i <= Len(q) THEN q[i] ELSE r[i - Len(q)]
  BY <1>3
<1> QED BY <1>4, <1>5 DEF IsSeq

LEMMA SeqIs == ASSUME NEW S, NEW q \in Seq(S) PROVE IsSeq(q)
BY DEF IsSeq

LEMMA JoinEmpty == ASSUME NEW q, IsSeq(q) PROVE q \o <<>> = q /\ <<>> \o q = q
<1>1. PICK S : q \in Seq(S) BY DEF IsSeq
<1> QED BY <1>1

LEMMA OneSeq == ASSUME NEW x PROVE IsSeq(<<x>>) /\ Len(<<x>>) = 1 /\ <<x>>[1] = x
<1>1. <<x>> \in Seq({x}) OBVIOUS
<1> QED BY <1>1 DEF IsSeq

LEMMA ReqIs == ASSUME NEW a, NEW o, NEW n PROVE Req(a, o, n).addr = a /\ Req(a, o, n).o = o /\ Req(a, o, n).bn = n
BY DEF Req

\* One block.
LEMMA RunOne == ASSUME NEW a \in Addresses, NEW o, NEW n PROVE Runs(<<Req(a, o, n)>>, a, o, a, o)
<1> DEFINE r == Req(a, o, n)
<1>1. IsSeq(<<r>>) /\ Len(<<r>>) = 1 /\ <<r>>[1] = r BY OneSeq
<1>2. r.addr = a /\ r.o = o BY ReqIs
<1> HIDE DEF r
<1>3. \A i \in 1 .. Len(<<r>>) : i = 1 BY <1>1
<1>4. Chain(<<r>>) BY <1>1, <1>2, <1>3 DEF Chain
<1> QED BY <1>1, <1>2, <1>4 DEF Runs, r

\* One list after the other, if the second does not begin with another object at the address where the first ends.
LEMMA RunJoin ==
    ASSUME NEW q, NEW a, NEW o, NEW b, NEW p, Runs(q, a, o, b, p), NEW r, NEW c, NEW u, NEW d, NEW v, Runs(r, c, u, d, v), b # c \/ p = u
    PROVE  Runs(q \o r, a, o, d, v)
<1>1. IsSeq(q) /\ IsSeq(r) /\ q # <<>> /\ r # <<>> BY DEF Runs, Chain
<1>2. Len(q) \in Nat \ {0} /\ Len(r) \in Nat \ {0} BY <1>1, SeqFacts
<1> DEFINE j == q \o r
<1>3. /\ IsSeq(j) /\ Len(j) = Len(q) + Len(r)
      /\ \A i \in 1 .. Len(q) + Len(r) : j[i] = IF i <= Len(q) THEN q[i] ELSE r[i - Len(q)]
  BY <1>1, JoinFacts
<1> HIDE DEF j
<1>4. j[1] = q[1] /\ j[Len(j)] = r[Len(r)] /\ j # <<>> BY <1>2, <1>3, SeqFacts
<1>5. \A i \in 1 .. Len(j) : j[i].addr \in Addresses
  <2>1. ASSUME NEW i \in 1 .. Len(j) PROVE j[i].addr \in Addresses
    <3>1. CASE i <= Len(q) BY <3>1, <1>2, <1>3 DEF Runs, Chain
    <3>2. CASE i > Len(q)
      <4>1. i - Len(q) \in 1 .. Len(r) BY <3>2, <1>2, <1>3
      <4> QED BY <4>1, <3>2, <1>2, <1>3 DEF Runs, Chain
    <3> QED BY <3>1, <3>2, <1>2
  <2> QED BY <2>1
<1>6. ASSUME NEW i \in 1 .. Len(j), i + 1 \in 1 .. Len(j), j[i].addr = j[i + 1].addr PROVE j[i].o = j[i + 1].o
  <2>1. CASE i + 1 <= Len(q)
    <3>1. i \in 1 .. Len(q) /\ i + 1 \in 1 .. Len(q) /\ j[i] = q[i] /\ j[i + 1] = q[i + 1] BY <2>1, <1>2, <1>3
    <3> QED BY <3>1, <1>6 DEF Runs, Chain
  <2>2. CASE i = Len(q)
    <3>1. j[i] = q[Len(q)] /\ j[i + 1] = r[1] BY <2>2, <1>2, <1>3
    <3> QED BY <3>1, <1>6 DEF Runs
  <2>3. CASE i > Len(q)
    <3>1. /\ i - Len(q) \in 1 .. Len(r) /\ (i - Len(q)) + 1 \in 1 .. Len(r)
          /\ j[i] = r[i - Len(q)] /\ j[i + 1] = r[(i - Len(q)) + 1]
      BY <2>3, <1>2, <1>3, <1>6
    <3> QED BY <3>1, <1>6 DEF Runs, Chain
  <2> QED BY <2>1, <2>2, <2>3, <1>2
<1>7. Chain(j) BY <1>3, <1>5, <1>6 DEF Chain
<1> QED BY <1>4, <1>7 DEF Runs, j

\* All blocks of a list are of one object at one address.
LEMMA RunSame ==
    ASSUME NEW q, IsSeq(q), q # <<>>, NEW a \in Addresses, NEW o, \A i \in 1 .. Len(q) : q[i].addr = a /\ q[i].o = o
    PROVE  Runs(q, a, o, a, o)
<1>1. Len(q) \in Nat \ {0} BY SeqFacts
<1>2. 1 \in 1 .. Len(q) /\ Len(q) \in 1 .. Len(q) BY <1>1
<1> QED BY <1>2 DEF Runs, Chain

\* The lookup of a name in a zap of either kind.
LEMMA RunZap == ASSUME NEW a \in Addresses, NEW o, NEW name PROVE Runs(zap_lookup(a, o, name), a, o, a, o)
<1>1. Runs(mzap_lookup(a, o), a, o, a, o) BY RunOne DEF mzap_lookup
<1>2. Runs(fzap_lookup(a, o, name), a, o, a, o)
  <2> DEFINE x == Req(a, o, 0)
             y == Req(a, o, Objects[o].zap.leaf[name])
  <2>1. x.addr = a /\ x.o = o /\ y.addr = a /\ y.o = o BY ReqIs
  <2> HIDE DEF x, y
  <2>2. <<x, y>> \in Seq({x, y}) /\ Len(<<x, y>>) = 2 /\ <<x, y>>[1] = x /\ <<x, y>>[2] = y OBVIOUS
  <2>3. IsSeq(<<x, y>>) /\ <<x, y>> # <<>> BY <2>2 DEF IsSeq
  <2>4. \A i \in 1 .. Len(<<x, y>>) : i = 1 \/ i = 2 BY <2>2
  <2>5. Runs(<<x, y>>, a, o, a, o) BY <2>1, <2>2, <2>3, <2>4, RunSame
  <2> QED BY <2>5 DEF fzap_lookup, x, y
<1> QED BY <1>1, <1>2 DEF zap_lookup

-----------------------------------------------------------------------------
(* The block cache. *)

Start(c) == [obj |-> c.obj, bn |-> c.bn, buf |-> c.buf, bufs |-> <<>>, err |-> FALSE]
Reads(c, q, bad, n, f) == f = [i \in 0 .. n |-> IF i = 0 THEN Start(c) ELSE Load(f[i - 1], q[i], bad)]

\* The function Fetch is written with exists.
LEMMA ReadsExists == ASSUME NEW c, NEW q, NEW bad PROVE \A n \in Nat : \E f : Reads(c, q, bad, n, f)
<1> DEFINE S == {n \in Nat : \E f : Reads(c, q, bad, n, f)}
<1>1. 0 \in S
  <2> DEFINE f == [i \in 0 .. 0 |-> Start(c)]
  <2>1. Reads(c, q, bad, 0, f) BY DEF Reads
  <2> QED BY <2>1
<1>2. ASSUME NEW n \in Nat, n \in S PROVE n + 1 \in S
  <2>1. PICK f : Reads(c, q, bad, n, f) BY <1>2
  <2> DEFINE h == [i \in 0 .. n + 1 |-> IF i = n + 1 THEN Load(f[n], q[n + 1], bad) ELSE f[i]]
  <2>2. Reads(c, q, bad, n + 1, h) BY <2>1 DEF Reads
  <2> QED BY <2>2
<1> HIDE DEF S
<1>3. Nat \subseteq S BY <1>1, <1>2, NatInd
<1> QED BY <1>3 DEF S

\* Fetch is the last of the states that its requests lead through.
LEMMA FetchIs ==
    ASSUME NEW c, NEW q, NEW bad, Len(q) \in Nat
    PROVE  \E f : Reads(c, q, bad, Len(q), f) /\ Fetch(c, q, bad) = f[Len(q)]
<1> DEFINE Eq(f) == f = [i \in 0 .. Len(q) |->
                 IF i = 0 THEN [obj |-> c.obj, bn |-> c.bn, buf |-> c.buf, bufs |-> <<>>, err |-> FALSE]
                 ELSE CHOOSE x \in {Load(a, q[i], bad) : a \in {f[i - 1]}} : TRUE]
<1>1. ASSUME NEW f, NEW i PROVE (CHOOSE x \in {Load(a, q[i], bad) : a \in {f[i - 1]}} : TRUE) = Load(f[i - 1], q[i], bad)
  <2>1. {Load(a, q[i], bad) : a \in {f[i - 1]}} = {Load(f[i - 1], q[i], bad)} OBVIOUS
  <2> QED BY <2>1
<1>2. \A f : Eq(f) <=> Reads(c, q, bad, Len(q), f) BY <1>1 DEF Reads, Start
<1> HIDE DEF Eq
<1>r. \E f : Reads(c, q, bad, Len(q), f) BY ReadsExists
<1>3. \E f : Eq(f) BY <1>2, <1>r
<1>4. Eq(CHOOSE f : Eq(f)) BY <1>3
<1>5. Fetch(c, q, bad) = (CHOOSE f : Eq(f))[Len(q)] BY DEF Fetch, Eq
<1> QED BY <1>2, <1>4, <1>5

LEMMA AppendSeq ==
    ASSUME NEW s, IsSeq(s), NEW x
    PROVE  /\ IsSeq(Append(s, x)) /\ Len(Append(s, x)) = Len(s) + 1 /\ Append(s, x)[Len(s) + 1] = x
           /\ \A i \in 1 .. Len(s) : Append(s, x)[i] = s[i]
<1>1. PICK S : s \in Seq(S) BY DEF IsSeq
<1>2. s \in Seq(S \union {x}) BY <1>1
<1>3. /\ Append(s, x) \in Seq(S \union {x}) /\ Len(Append(s, x)) = Len(s) + 1 /\ Append(s, x)[Len(s) + 1] = x
      /\ \A i \in 1 .. Len(s) : Append(s, x)[i] = s[i]
  BY <1>2
<1> QED BY <1>3, SeqIs

\* The last block that is read for a request is the one asked for.
LEMMA LevelsLast == ASSUME NEW o, NEW bn PROVE Last(Levels(o, bn)) = <<o, bn>>
<1> DEFINE u == <<o, Indirect>>
           w == <<o, bn>>
<1> HIDE DEF u, w
<1>1. Last(<<u, w>>) = w /\ Last(<<w>>) = w BY DEF Last
<1> QED BY <1>1 DEF Levels, u, w

Acc(a) == DOMAIN a = {"obj", "bn", "buf", "bufs", "err"} /\ IsSeq(a.bufs) /\ a.err \in BOOLEAN
\* One round of the loop, whatever fails.
LEMMA LoadAny ==
    ASSUME NEW a, Acc(a), NEW r, NEW bad, NEW b, b = Load(a, r, bad)
    PROVE  Acc(b) /\ b.obj \in {a.obj, r.addr} /\ (~b.err => ~a.err /\ Len(b.bufs) = Len(a.bufs) + 1)
<1> DEFINE lv == Levels(r.o, r.bn)
<1> HIDE DEF lv
<1>1. CASE a.err BY <1>1 DEF Load, Acc
<1>2. CASE ~a.err /\ a.obj = r.addr /\ a.bn = r.bn
  <2>1. b = [a EXCEPT !.bufs = Append(@, a.buf)] BY <1>2 DEF Load
  <2>2. IsSeq(Append(a.bufs, a.buf)) /\ Len(Append(a.bufs, a.buf)) = Len(a.bufs) + 1 BY AppendSeq DEF Acc
  <2> QED BY <1>2, <2>1, <2>2 DEF Acc
<1>3. CASE ~a.err /\ ~(a.obj = r.addr /\ a.bn = r.bn) /\ \E i \in DOMAIN lv : lv[i] \in bad
  <2>1. b = [a EXCEPT !.buf = Junk, !.err = TRUE] BY <1>3 DEF Load, lv
  <2> QED BY <2>1, <1>3 DEF Acc
<1>4. CASE ~a.err /\ ~(a.obj = r.addr /\ a.bn = r.bn) /\ ~\E i \in DOMAIN lv : lv[i] \in bad
  <2>1. b = [obj |-> r.addr, bn |-> r.bn, buf |-> Last(lv), bufs |-> Append(a.bufs, Last(lv)), err |-> FALSE] BY <1>4 DEF Load, lv
  <2>2. IsSeq(Append(a.bufs, Last(lv))) /\ Len(Append(a.bufs, Last(lv))) = Len(a.bufs) + 1 BY AppendSeq DEF Acc
  <2> QED BY <1>4, <2>1, <2>2 DEF Acc
<1> QED BY <1>1, <1>2, <1>3, <1>4

\* One round when nothing fails: what the buffer holds is right if it was right of this address.
LEMMA LoadRight ==
    ASSUME NEW a, Acc(a), ~a.err, NEW r, a.obj = r.addr => a.buf = <<r.o, a.bn>>, NEW b, b = Load(a, r, {})
    PROVE  /\ Acc(b) /\ ~b.err /\ b.obj = r.addr /\ b.bn = r.bn /\ b.buf = <<r.o, r.bn>>
           /\ b.bufs = Append(a.bufs, <<r.o, r.bn>>)
<1> DEFINE lv == Levels(r.o, r.bn)
           k == <<r.o, r.bn>>
<1>1. Last(lv) = k BY LevelsLast
<1>2. a.obj = r.addr /\ a.bn = r.bn => a.buf = k OBVIOUS
<1> HIDE DEF lv, k
<1>3. CASE a.obj = r.addr /\ a.bn = r.bn
  <2>1. b = [a EXCEPT !.bufs = Append(@, a.buf)] BY <1>3 DEF Load
  <2>2. IsSeq(Append(a.bufs, a.buf)) BY AppendSeq DEF Acc
  <2>3. Acc(b) /\ ~b.err /\ b.obj = r.addr /\ b.bn = r.bn /\ b.buf = k /\ b.bufs = Append(a.bufs, k) BY <1>2, <1>3, <2>1, <2>2 DEF Acc
  <2> QED BY <2>3 DEF k
<1>4. CASE ~(a.obj = r.addr /\ a.bn = r.bn)
  <2>1. b = [obj |-> r.addr, bn |-> r.bn, buf |-> k, bufs |-> Append(a.bufs, k), err |-> FALSE] BY <1>1, <1>4 DEF Load, lv
  <2>2. IsSeq(Append(a.bufs, k)) BY AppendSeq DEF Acc
  <2>3. b.err = FALSE /\ b.obj = r.addr /\ b.bn = r.bn /\ b.buf = k /\ b.bufs = Append(a.bufs, k) BY <2>1
  <2>4. DOMAIN b = {"obj", "bn", "buf", "bufs", "err"} BY <2>1
  <2>5. Acc(b) BY <2>2, <2>3, <2>4 DEF Acc
  <2> QED BY <2>3, <2>5 DEF k
<1> QED BY <1>3, <1>4

Asks(q) == IsSeq(q) /\ \A i \in 1 .. Len(q) : q[i].addr \in Addresses
LEMMA StartAcc == ASSUME NEW c PROVE Acc(Start(c)) /\ ~Start(c).err /\ Start(c).obj = c.obj /\ Start(c).bn = c.bn /\ Start(c).buf = c.buf /\ Len(Start(c).bufs) = 0
<1>2. Start(c).bufs \in Seq(Nat) /\ Len(Start(c).bufs) = 0 BY DEF Start
<1>4. IsSeq(Start(c).bufs) BY <1>2, SeqIs
<1>5. DOMAIN Start(c) = {"obj", "bn", "buf", "bufs", "err"} /\ Start(c).err = FALSE BY DEF Start
<1>6. Start(c).obj = c.obj /\ Start(c).bn = c.bn /\ Start(c).buf = c.buf BY DEF Start
<1> QED BY <1>2, <1>4, <1>5, <1>6 DEF Acc

\* What is fetched, whatever fails: the address in the cache is one of the requests', and a whole
\* list is read or there is an error.
LEMMA FetchAny ==
    ASSUME NEW c, NEW q, Asks(q), NEW bad, NEW f, f = Fetch(c, q, bad)
    PROVE  Acc(f) /\ f.obj \in Addresses \union {c.obj} /\ (~f.err => Len(f.bufs) = Len(q))
<1>1. Len(q) \in Nat BY SeqFacts DEF Asks
<1>2. PICK g : Reads(c, q, bad, Len(q), g) /\ f = g[Len(q)] BY <1>1, FetchIs
<1> DEFINE P(n) == Acc(g[n]) /\ g[n].obj \in Addresses \union {c.obj} /\ (~g[n].err => Len(g[n].bufs) = n)
           S == {n \in Nat : n <= Len(q) => P(n)}
<1>3. g[0] = Start(c) BY <1>1, <1>2 DEF Reads
<1>4. 0 \in S BY <1>3, StartAcc
<1>5. ASSUME NEW n \in Nat, n \in S PROVE n + 1 \in S
  <2> SUFFICES ASSUME n + 1 <= Len(q) PROVE P(n + 1) OBVIOUS
  <2>1. P(n) /\ n + 1 \in 1 .. Len(q) BY <1>1, <1>5
  <2>2. g[n + 1] = Load(g[n], q[n + 1], bad) BY <1>1, <1>2, <2>1 DEF Reads
  <2>3. q[n + 1].addr \in Addresses BY <2>1 DEF Asks
  <2>4. /\ Acc(g[n + 1]) /\ g[n + 1].obj \in {g[n].obj, q[n + 1].addr}
        /\ ~g[n + 1].err => ~g[n].err /\ Len(g[n + 1].bufs) = Len(g[n].bufs) + 1
    BY <2>1, <2>2, LoadAny
  <2> QED BY <2>1, <2>3, <2>4
<1> HIDE DEF S
<1>6. Nat \subseteq S BY <1>4, <1>5, NatInd
<1>7. P(Len(q)) BY <1>1, <1>6 DEF S
<1> QED BY <1>2, <1>7

\* Nothing is asked for.
LEMMA FetchNone ==
    ASSUME NEW c, NEW bad, NEW f, f = Fetch(c, <<>>, bad)
    PROVE  Acc(f) /\ ~f.err /\ f.obj = c.obj /\ f.bn = c.bn /\ f.buf = c.buf /\ Len(f.bufs) = 0
<1> DEFINE q == <<>>
<1>1. Len(q) = 0 OBVIOUS
<1> HIDE DEF q
<1>2. PICK g : Reads(c, q, bad, Len(q), g) /\ Fetch(c, q, bad) = g[Len(q)] BY <1>1, FetchIs
<1>3. Fetch(c, q, bad) = Start(c) BY <1>1, <1>2 DEF Reads
<1>4. f = Start(c) BY <1>3 DEF q
<1> QED BY <1>4, StartAcc

\* The buffer holds the block of object o that it says it holds for address a.
Fits(c, a, o) == c.obj = a => c.buf = <<o, c.bn>>
\* What a chain of requests that nothing disturbs delivers: every block is the right one.
LEMMA FetchRun ==
    ASSUME NEW c, NEW q, NEW a, NEW o, NEW b, NEW p, Runs(q, a, o, b, p), Fits(c, a, o), NEW f, f = Fetch(c, q, {})
    PROVE  /\ Acc(f) /\ ~f.err /\ f.obj = b /\ f.buf = <<p, f.bn>> /\ Len(f.bufs) = Len(q)
           /\ \A i \in 1 .. Len(q) : f.bufs[i] = <<q[i].o, q[i].bn>>
           /\ ~Wrong(f, q)
<1>1. Len(q) \in Nat \ {0} BY SeqFacts DEF Runs, Chain
<1>2. PICK g : Reads(c, q, {}, Len(q), g) /\ f = g[Len(q)] BY <1>1, FetchIs
<1> DEFINE K(i) == <<q[i].o, q[i].bn>>
           P(n) == /\ Acc(g[n]) /\ ~g[n].err /\ Len(g[n].bufs) = n /\ \A i \in 1 .. n : g[n].bufs[i] = K(i)
                   /\ n > 0 => g[n].obj = q[n].addr /\ g[n].buf = K(n) /\ g[n].bn = q[n].bn
           S == {n \in Nat : n <= Len(q) => P(n)}
<1>3. g[0] = Start(c) BY <1>1, <1>2 DEF Reads
<1>4. 0 \in S BY <1>3, StartAcc
<1>5. ASSUME NEW n \in Nat, n \in S PROVE n + 1 \in S
  <2> SUFFICES ASSUME n + 1 <= Len(q) PROVE P(n + 1) OBVIOUS
  <2>1. P(n) /\ n + 1 \in 1 .. Len(q) BY <1>1, <1>5
  <2>2. g[n + 1] = Load(g[n], q[n + 1], {}) BY <1>1, <1>2, <2>1 DEF Reads
  <2>3. g[n].obj = q[n + 1].addr => g[n].buf = <<q[n + 1].o, g[n].bn>>
    <3>1. CASE n = 0
      <4>1. g[n].obj = c.obj /\ g[n].bn = c.bn /\ g[n].buf = c.buf BY <3>1, <1>3, StartAcc
      <4>2. q[n + 1].addr = a /\ q[n + 1].o = o BY <3>1 DEF Runs
      <4> QED BY <4>1, <4>2 DEF Fits
    <3>2. CASE n > 0
      <4>1. n \in 1 .. Len(q) BY <3>2, <2>1, <1>1
      <4>2. q[n].addr = q[n + 1].addr => q[n].o = q[n + 1].o BY <4>1, <2>1 DEF Runs, Chain
      <4> QED BY <4>2, <2>1, <3>2
    <3> QED BY <3>1, <3>2
  <2>4. /\ Acc(g[n + 1]) /\ ~g[n + 1].err /\ g[n + 1].obj = q[n + 1].addr /\ g[n + 1].bn = q[n + 1].bn /\ g[n + 1].buf = K(n + 1)
        /\ g[n + 1].bufs = Append(g[n].bufs, K(n + 1))
    <3> DEFINE u == g[n]
               r == q[n + 1]
               w == g[n + 1]
    <3>1. Acc(u) /\ ~u.err /\ (u.obj = r.addr => u.buf = <<r.o, u.bn>>) /\ w = Load(u, r, {}) BY <2>1, <2>2, <2>3
    <3> HIDE DEF u, r, w
    <3>2. /\ Acc(w) /\ ~w.err /\ w.obj = r.addr /\ w.bn = r.bn /\ w.buf = <<r.o, r.bn>>
          /\ w.bufs = Append(u.bufs, <<r.o, r.bn>>)
      BY <3>1, LoadRight
    <3> QED BY <3>2 DEF u, r, w
  <2> DEFINE x == K(n + 1)
             s == g[n].bufs
             y == Append(s, x)
  <2>5. IsSeq(s) /\ Len(s) = n /\ \A i \in 1 .. n : s[i] = K(i) BY <2>1 DEF Acc
  <2>6. g[n + 1].bufs = y BY <2>4
  <2>x. x = K(n + 1) OBVIOUS
  <2> HIDE DEF x, s, y
  <2>7. /\ Len(y) = Len(s) + 1 /\ y[Len(s) + 1] = x
        /\ \A i \in 1 .. Len(s) : y[i] = s[i]
    BY <2>5, AppendSeq DEF y
  <2>8. \A i \in 1 .. n + 1 : y[i] = K(i)
    <3> SUFFICES ASSUME NEW i \in 1 .. n + 1 PROVE y[i] = K(i) OBVIOUS
    <3>1. CASE i = n + 1
      <4>1. y[i] = x BY <3>1, <2>5, <2>7
      <4> QED BY <4>1, <3>1 DEF x
    <3>2. CASE i # n + 1
      <4>1. i \in 1 .. n BY <3>2
      <4> QED BY <4>1, <2>5, <2>7
    <3> QED BY <3>1, <3>2
  <2> QED BY <2>4, <2>5, <2>6, <2>7, <2>8
<1> HIDE DEF S
<1>6. Nat \subseteq S BY <1>4, <1>5, NatInd
<1>7. P(Len(q)) BY <1>1, <1>6 DEF S
<1>8. q[Len(q)].addr = b /\ q[Len(q)].o = p BY DEF Runs
<1>9. DOMAIN f.bufs = 1 .. Len(q) BY <1>2, <1>7, SeqFacts DEF Acc
<1>10. ~Wrong(f, q) BY <1>2, <1>7, <1>9 DEF Wrong
<1> QED BY <1>1, <1>2, <1>7, <1>8, <1>10

-----------------------------------------------------------------------------
(* Reading what describes the pool: through the pool's meta dnode and dnodes on the stack. *)

SpaMos == <<"spa", "mos">>
OnStack == {"local"} \X {"dn", "dir", "propdir", "child_dir_zap", "mos"}

\* Addresses of different kinds are different.
LEMMA AddressFacts ==
    /\ SpaMos \in Addresses /\ OnStack \subseteq Addresses /\ SpaMos \notin OnStack
    /\ \A x \in {"dn", "dir", "propdir", "child_dir_zap", "mos"} : <<"local", x>> \in OnStack
    /\ \A s \in Slots \union {"static"} :
          /\ <<"mount", s>> \in Addresses /\ <<"mount", s>> # SpaMos /\ <<"mount", s>> \notin OnStack
          /\ <<"file", s>> \in Addresses /\ <<"file", s>> # SpaMos /\ <<"file", s>> \notin OnStack
          /\ \A t \in Slots \union {"static"} : /\ <<"file", s>> # <<"mount", t>> /\ (<<"file", s>> = <<"file", t>> => s = t)
                                                /\ (<<"mount", s>> = <<"mount", t>> => s = t)
<1>1. SpaMos \in Addresses /\ OnStack \subseteq Addresses /\ SpaMos \notin OnStack BY DEF SpaMos, OnStack, Addresses
<1>2. \A x \in {"dn", "dir", "propdir", "child_dir_zap", "mos"} : <<"local", x>> \in OnStack BY DEF OnStack
<1>3. ASSUME NEW s \in Slots \union {"static"} PROVE <<"mount", s>> \in Addresses /\ <<"mount", s>> # SpaMos /\ <<"mount", s>> \notin OnStack
  BY DEF SpaMos, OnStack, Addresses
<1>4. ASSUME NEW s \in Slots \union {"static"} PROVE <<"file", s>> \in Addresses /\ <<"file", s>> # SpaMos /\ <<"file", s>> \notin OnStack
  BY DEF SpaMos, OnStack, Addresses
<1>5. ASSUME NEW s \in Slots \union {"static"}, NEW t \in Slots \union {"static"}
      PROVE <<"file", s>> # <<"mount", t>> /\ (<<"file", s>> = <<"file", t>> => s = t) /\ (<<"mount", s>> = <<"mount", t>> => s = t)
  OBVIOUS
<1> QED BY <1>1, <1>2, <1>3, <1>4, <1>5

\* Begins in the meta dnode of the pool and ends there, or in a dnode on the stack.
EndsMos(q) == Runs(q, SpaMos, Mos, SpaMos, Mos)
MosRun(q) == EndsMos(q) \/ \E b, p : b \in OnStack /\ Runs(q, SpaMos, Mos, b, p)

LEMMA RunAsks == ASSUME NEW q, NEW a, NEW o, NEW b, NEW p, Runs(q, a, o, b, p) PROVE Asks(q)
BY DEF Runs, Chain, Asks

LEMMA MosAsks == ASSUME NEW q, MosRun(q) PROVE Asks(q)
BY RunAsks DEF MosRun, EndsMos

LEMMA MosOne == ASSUME NEW n PROVE EndsMos(MosDnode(n))
<1>1. SpaMos \in Addresses BY AddressFacts
<1> QED BY <1>1, RunOne DEF MosDnode, objset_get_dnode, EndsMos, SpaMos

\* The next dnode of the pool.
LEMMA MosNext == ASSUME NEW q, MosRun(q), NEW n PROVE EndsMos(q \o MosDnode(n))
<1>1. Runs(MosDnode(n), SpaMos, Mos, SpaMos, Mos) BY MosOne DEF EndsMos
<1>2. CASE EndsMos(q) BY <1>1, <1>2, RunJoin DEF EndsMos
<1>3. CASE \E b, p : b \in OnStack /\ Runs(q, SpaMos, Mos, b, p)
  <2>1. PICK b, p : b \in OnStack /\ Runs(q, SpaMos, Mos, b, p) BY <1>3
  <2>2. b # SpaMos BY <2>1, AddressFacts
  <2> QED BY <1>1, <2>1, <2>2, RunJoin DEF EndsMos
<1> QED BY <1>2, <1>3 DEF MosRun

\* A zap of the pool after its dnode.
LEMMA MosThenZap ==
    ASSUME NEW q, EndsMos(q), NEW x \in OnStack, NEW o, NEW r, Runs(r, x, o, x, o)
    PROVE  MosRun(q \o r) /\ Runs(q \o r, SpaMos, Mos, x, o)
<1>1. x # SpaMos BY AddressFacts
<1>2. Runs(q \o r, SpaMos, Mos, x, o) BY <1>1, RunJoin DEF EndsMos
<1> QED BY <1>2 DEF MosRun

\* One list after the other.
LEMMA MosJoin == ASSUME NEW q, MosRun(q), NEW r, MosRun(r) PROVE MosRun(q \o r)
<1>1. PICK b, p : Runs(q, SpaMos, Mos, b, p) /\ (b # SpaMos \/ p = Mos)
  <2>1. CASE EndsMos(q) BY <2>1 DEF EndsMos
  <2>2. CASE \E b, p : b \in OnStack /\ Runs(q, SpaMos, Mos, b, p) BY <2>2, AddressFacts
  <2> QED BY <2>1, <2>2 DEF MosRun
<1>2. CASE EndsMos(r) BY <1>1, <1>2, RunJoin DEF EndsMos, MosRun
<1>3. CASE \E d, v : d \in OnStack /\ Runs(r, SpaMos, Mos, d, v)
  <2>1. PICK d, v : d \in OnStack /\ Runs(r, SpaMos, Mos, d, v) BY <1>3
  <2>2. Runs(q \o r, SpaMos, Mos, d, v) BY <1>1, <2>1, RunJoin
  <2> QED BY <2>1, <2>2 DEF MosRun
<1> QED BY <1>2, <1>3 DEF MosRun

\* Nothing fails and the buffer holds what it says of the pool's meta dnode: all blocks are right,
\* and what is in the buffer afterwards can be said to be right again.
LEMMA FetchMos ==
    ASSUME NEW q, MosRun(q), NEW c, Fits(c, SpaMos, Mos), NEW f, f = Fetch(c, q, {})
    PROVE  /\ ~f.err /\ ~Wrong(f, q) /\ f.obj \in OnStack \union {SpaMos} /\ Fits(f, SpaMos, Mos)
<1>1. CASE EndsMos(q)
  <2>1. ~f.err /\ ~Wrong(f, q) /\ f.obj = SpaMos /\ f.buf = <<Mos, f.bn>> BY <1>1, FetchRun DEF EndsMos
  <2> QED BY <2>1 DEF Fits
<1>2. CASE \E b, p : b \in OnStack /\ Runs(q, SpaMos, Mos, b, p)
  <2>1. PICK b, p : b \in OnStack /\ Runs(q, SpaMos, Mos, b, p) BY <1>2
  <2>2. ~f.err /\ ~Wrong(f, q) /\ f.obj = b BY <2>1, FetchRun
  <2>3. b # SpaMos BY <2>1, AddressFacts
  <2> QED BY <2>1, <2>2, <2>3 DEF Fits
<1> QED BY <1>1, <1>2 DEF MosRun

\* zfs_get_root.
LEMMA RootRun == MosRun(DefaultRoot.reqs) /\ Runs(RootReqs, <<"local", "dir">>, MosDir, SpaMos, Mos)
<1> DEFINE props == Entry(MosDir, "pool_props")
           root == Entry(MosDir, "root_dataset")
           dir == <<"local", "dir">>
           prop == <<"local", "propdir">>
           a1 == MosDnode(MosDir) \o zap_lookup(dir, MosDir, "pool_props")
           a2 == MosDnode(props) \o zap_lookup(prop, props, "bootfs")
           asked == a1 \o (IF props = None THEN <<>> ELSE a2)
<1>1. dir \in OnStack /\ prop \in OnStack /\ dir # prop /\ dir \in Addresses /\ prop \in Addresses /\ prop # SpaMos /\ dir # SpaMos
  BY AddressFacts
<1>2. MosRun(a1) /\ Runs(a1, SpaMos, Mos, dir, MosDir)
  <2>1. EndsMos(MosDnode(MosDir)) BY MosOne
  <2>2. Runs(zap_lookup(dir, MosDir, "pool_props"), dir, MosDir, dir, MosDir) BY <1>1, RunZap
  <2> QED BY <1>1, <2>1, <2>2, MosThenZap
<1>3. MosRun(a2) /\ Runs(a2, SpaMos, Mos, prop, props)
  <2>1. EndsMos(MosDnode(props)) BY MosOne
  <2>2. Runs(zap_lookup(prop, props, "bootfs"), prop, props, prop, props) BY <1>1, RunZap
  <2> QED BY <1>1, <2>1, <2>2, MosThenZap
<1>z. Runs(zap_lookup(dir, MosDir, "root_dataset"), dir, MosDir, dir, MosDir) BY <1>1, RunZap
<1> DEFINE z == zap_lookup(dir, MosDir, "root_dataset")
<1> HIDE DEF a1, a2, dir, prop, props, root, z
<1>4. MosRun(asked) /\ \E b, p : Runs(asked, SpaMos, Mos, b, p) /\ (b # dir \/ p = MosDir)
  <2>1. CASE props = None
    <3>1. IsSeq(a1) BY <1>2 DEF Runs, Chain
    <3>2. asked = a1 BY <2>1, <3>1, JoinEmpty
    <3> HIDE DEF asked
    <3> QED BY <3>2, <1>2
  <2>2. CASE props # None
    <3>1. asked = a1 \o a2 BY <2>2
    <3> HIDE DEF asked
    <3>2. MosRun(asked) BY <3>1, <1>2, <1>3, MosJoin
    <3>3. Runs(asked, SpaMos, Mos, prop, props) BY <3>1, <1>1, <1>2, <1>3, RunJoin
    <3> QED BY <3>2, <3>3, <1>1
  <2> QED BY <2>1, <2>2
<1> HIDE DEF asked
<1>m. EndsMos(MosDnode(root)) BY MosOne
<1>5. Runs(z \o MosDnode(root), dir, MosDir, SpaMos, Mos)
  <2>1. Runs(z, dir, MosDir, dir, MosDir) BY <1>z DEF z
  <2> QED BY <1>1, <1>m, <2>1, RunJoin DEF EndsMos
<1> DEFINE rest == z \o MosDnode(root)
<1> HIDE DEF rest
<1>6. MosRun(asked \o rest)
  <2>1. PICK b, p : Runs(asked, SpaMos, Mos, b, p) /\ (b # dir \/ p = MosDir) BY <1>4
  <2>2. Runs(rest, dir, MosDir, SpaMos, Mos) BY <1>5 DEF rest
  <2>3. EndsMos(asked \o rest) BY <2>1, <2>2, RunJoin DEF EndsMos
  <2> QED BY <2>3 DEF MosRun
<1>7. rest = RootReqs /\ asked = BootfsReqs BY DEF RootReqs, BootfsReqs, rest, asked, a1, a2, dir, prop, props, root, z
<1>8. DefaultRoot.reqs = BootfsReqs \/ DefaultRoot.reqs = BootfsReqs \o RootReqs BY DEF DefaultRoot
<1>9. MosRun(DefaultRoot.reqs) BY <1>4, <1>6, <1>7, <1>8
<1> QED BY <1>5, <1>7, <1>9 DEF rest, dir

-----------------------------------------------------------------------------
(* Names of datasets. *)

Down(names, n, f) == f = [i \in 0 .. n |-> IF i = 0 THEN RootDir ELSE ChildDir(f[i - 1], names[i])]

\* The walk down the names of a dataset exists, one step at a time.
LEMMA DownExists == ASSUME NEW names PROVE \A n \in Nat : \E f : Down(names, n, f)
<1> DEFINE S == {n \in Nat : \E f : Down(names, n, f)}
<1>1. 0 \in S
  <2> DEFINE f == [i \in 0 .. 0 |-> RootDir]
  <2>1. Down(names, 0, f) BY DEF Down
  <2> QED BY <2>1
<1>2. ASSUME NEW n \in Nat, n \in S PROVE n + 1 \in S
  <2>1. PICK f : Down(names, n, f) BY <1>2
  <2> DEFINE h == [i \in 0 .. n + 1 |-> IF i = n + 1 THEN ChildDir(f[n], names[n + 1]) ELSE f[i]]
  <2>2. Down(names, n + 1, h) BY <2>1 DEF Down
  <2> QED BY <2>2
<1> HIDE DEF S
<1>3. Nat \subseteq S BY <1>1, <1>2, NatInd
<1> QED BY <1>3 DEF S

\* What zfs_lookup_dataset returns, from the directory its walk ends at.
Headed(w) == IF w.v = None THEN w ELSE [v |-> Objects[w.v].head_dataset_obj, reqs |-> w.reqs \o MosDnode(w.v)]
\* zfs_lookup_dataset is the end of that walk, and the dataset at the head of the directory there.
LEMMA LookupIs ==
    ASSUME NEW names, Len(names) \in Nat
    PROVE  \E f : Down(names, Len(names), f) /\ zfs_lookup_dataset(names) = Headed(f[Len(names)])
<1> DEFINE Eq(f) == f = [i \in 0 .. Len(names) |->
                 IF i = 0 THEN RootDir ELSE CHOOSE x \in {ChildDir(w, names[i]) : w \in {f[i - 1]}} : TRUE]
<1>1. ASSUME NEW f, NEW i PROVE (CHOOSE x \in {ChildDir(w, names[i]) : w \in {f[i - 1]}} : TRUE) = ChildDir(f[i - 1], names[i])
  <2>1. {ChildDir(w, names[i]) : w \in {f[i - 1]}} = {ChildDir(f[i - 1], names[i])} OBVIOUS
  <2> QED BY <2>1
<1>2. \A f : Eq(f) <=> Down(names, Len(names), f) BY <1>1 DEF Down
<1>3. \E f : Eq(f) BY <1>2, DownExists
<1>4. Eq(CHOOSE f : Eq(f)) BY <1>3
<1>5. zfs_lookup_dataset(names) = Headed((CHOOSE f : Eq(f))[Len(names)]) BY DEF zfs_lookup_dataset, Headed
<1> QED BY <1>2, <1>4, <1>5

IsDir(o) == Typed(o, {"dsl_dir"})
Kids(o) == Objects[Objects[o].child_dir_zapobj].zap.entries
\* An object that is a directory of datasets.
LEMMA DirFacts ==
    ASSUME NEW o, IsDir(o)
    PROVE  /\ o \in Nat \ {0} /\ o # None /\ Typed(Objects[o].head_dataset_obj, {"dataset"}) /\ Objects[Objects[o].head_dataset_obj].dir_obj = o
           /\ DOMAIN Kids(o) \subseteq STRING
           /\ \A nm \in DOMAIN Kids(o) : /\ IsDir(Kids(o)[nm]) /\ Objects[Kids(o)[nm]].parent_obj = o
                                         /\ \A n \in DOMAIN Kids(o) : Kids(o)[n] = Kids(o)[nm] => n = nm
<1>1. o \in DOMAIN Objects /\ Objects[o].type = "dsl_dir" BY DEF IsDir, Typed
<1>2. ObjectOK(o) /\ o \in Nat \ {0} /\ o # None BY <1>1, FileAssumption
<1> QED BY <1>1, <1>2 DEF ObjectOK, ZapOK, Kids, IsDir

LEMMA TypedNat == ASSUME NEW o, NEW T, Typed(o, T) PROVE o \in Nat \ {0} /\ o # None
BY FileAssumption DEF Typed

LEMMA RootIs == IsDir(RootDir.v) /\ Objects[RootDir.v].parent_obj = 0 /\ MosRun(RootDir.reqs)
<1> DEFINE dir == <<"local", "dir">>
           z == zap_lookup(dir, MosDir, "root_dataset")
<1>1. dir \in OnStack /\ dir \in Addresses BY AddressFacts
<1>2. Runs(z, dir, MosDir, dir, MosDir) BY <1>1, RunZap
<1> HIDE DEF dir, z
<1>3. MosRun(MosDnode(MosDir) \o z) BY <1>1, <1>2, MosOne, MosThenZap
<1>4. RootDir.reqs = MosDnode(MosDir) \o z /\ RootDir.v = Entry(MosDir, "root_dataset") BY DEF RootDir, z, dir
<1>5. IsDir(Entry(MosDir, "root_dataset")) /\ Objects[Entry(MosDir, "root_dataset")].parent_obj = 0
  BY FileAssumption DEF PoolOK, IsDir
<1> QED BY <1>3, <1>4, <1>5

\* One directory down.
LEMMA ChildIs ==
    ASSUME NEW w, MosRun(w.reqs), w.v = None \/ IsDir(w.v), NEW name, NEW x, x = ChildDir(w, name)
    PROVE  /\ MosRun(x.reqs) /\ (x.v = None \/ IsDir(x.v))
           /\ x.v # None => /\ w.v # None /\ IsDir(w.v) /\ name \in DOMAIN Kids(w.v) /\ x.v = Kids(w.v)[name]
                            /\ Objects[x.v].parent_obj = w.v
<1>1. CASE w.v = None BY <1>1 DEF ChildDir
<1>2. CASE w.v # None
  <2> DEFINE z == Objects[w.v].child_dir_zapobj
             loc == <<"local", "child_dir_zap">>
             l == zap_lookup(loc, z, name)
             r == ((w.reqs \o MosDnode(w.v)) \o MosDnode(z)) \o l
  <2>1. x.v = Entry(z, name) /\ x.reqs = r BY <1>2 DEF ChildDir
  <2>2. loc \in OnStack /\ loc \in Addresses BY AddressFacts
  <2>3. Runs(l, loc, z, loc, z) BY <2>2, RunZap
  <2>z. IsDir(w.v) /\ z = Objects[w.v].child_dir_zapobj BY <1>2
  <2> HIDE DEF z, loc, l
  <2>4. EndsMos(w.reqs \o MosDnode(w.v)) BY MosNext
  <2>5. EndsMos((w.reqs \o MosDnode(w.v)) \o MosDnode(z)) BY <2>4, MosNext DEF MosRun
  <2>6. MosRun(r) BY <2>2, <2>3, <2>5, MosThenZap
  <2>7. Entry(z, name) # None => name \in DOMAIN Kids(w.v) /\ Entry(z, name) = Kids(w.v)[name] BY <2>z DEF Entry, Kids
  <2>8. \A nm \in DOMAIN Kids(w.v) : IsDir(Kids(w.v)[nm]) /\ Objects[Kids(w.v)[nm]].parent_obj = w.v BY <2>z, DirFacts
  <2> QED BY <1>2, <2>1, <2>z, <2>6, <2>7, <2>8
<1> QED BY <1>1, <1>2

\* The walk down from the root: each directory is the parent of the next one.
DownAt(names, f, i) ==
    /\ MosRun(f[i].reqs) /\ (f[i].v = None \/ IsDir(f[i].v))
    /\ i = 0 => IsDir(f[i].v) /\ Objects[f[i].v].parent_obj = 0
    /\ i > 0 /\ f[i].v # None => /\ f[i - 1].v # None /\ IsDir(f[i - 1].v) /\ names[i] \in DOMAIN Kids(f[i - 1].v)
                                 /\ f[i].v = Kids(f[i - 1].v)[names[i]] /\ Objects[f[i].v].parent_obj = f[i - 1].v

\* By induction on the number of names walked.
LEMMA DownFacts ==
    ASSUME NEW names, NEW n \in Nat, NEW f, Down(names, n, f)
    PROVE  \A i \in 0 .. n : DownAt(names, f, i)
<1> DEFINE P(i) == DownAt(names, f, i)
           S == {i \in Nat : i <= n => P(i)}
<1>1. f[0] = RootDir BY DEF Down
<1>2. 0 \in S BY <1>1, RootIs DEF DownAt
<1>3. ASSUME NEW i \in Nat, i \in S PROVE i + 1 \in S
  <2> SUFFICES ASSUME i + 1 <= n PROVE P(i + 1) OBVIOUS
  <2>1. P(i) BY <1>3
  <2>2. f[i + 1] = ChildDir(f[i], names[i + 1]) BY DEF Down
  <2> DEFINE x == f[i + 1]
             w == f[i]
             nm == names[i + 1]
  <2>3. MosRun(w.reqs) /\ (w.v = None \/ IsDir(w.v)) /\ x = ChildDir(w, nm) BY <2>1, <2>2 DEF DownAt
  <2> HIDE DEF x, w, nm
  <2>4. /\ MosRun(x.reqs) /\ (x.v = None \/ IsDir(x.v))
        /\ x.v # None => /\ w.v # None /\ IsDir(w.v) /\ nm \in DOMAIN Kids(w.v) /\ x.v = Kids(w.v)[nm]
                         /\ Objects[x.v].parent_obj = w.v
    BY <2>3, ChildIs
  <2> QED BY <2>4 DEF x, w, nm, DownAt
<1> HIDE DEF S
<1>4. Nat \subseteq S BY <1>2, <1>3, NatInd
<1>5. \A i \in 0 .. n : P(i) BY <1>4 DEF S
<1> QED BY <1>5

\* zfs_lookup_dataset.
LEMMA LookupRun ==
    ASSUME NEW names, Len(names) \in Nat
    PROVE  /\ MosRun(zfs_lookup_dataset(names).reqs)
           /\ zfs_lookup_dataset(names).v = None \/ Typed(zfs_lookup_dataset(names).v, {"dataset"})
<1>1. PICK f : Down(names, Len(names), f) /\ zfs_lookup_dataset(names) = Headed(f[Len(names)]) BY LookupIs
<1> DEFINE w == f[Len(names)]
<1>d. DownAt(names, f, Len(names)) BY <1>1, DownFacts
<1>2. MosRun(w.reqs) /\ (w.v = None \/ IsDir(w.v)) BY <1>d DEF DownAt
<1> HIDE DEF w
<1>3. CASE w.v = None BY <1>1, <1>2, <1>3 DEF w, Headed
<1>4. CASE w.v # None
  <2>1. Headed(w).v = Objects[w.v].head_dataset_obj /\ Headed(w).reqs = w.reqs \o MosDnode(w.v) BY <1>4 DEF Headed
  <2>2. MosRun(w.reqs \o MosDnode(w.v)) BY <1>2, MosNext DEF MosRun
  <2>3. Typed(Objects[w.v].head_dataset_obj, {"dataset"}) BY <1>2, <1>4, DirFacts
  <2> QED BY <1>1, <2>1, <2>2, <2>3 DEF w
<1> QED BY <1>3, <1>4

Bottom(ds) == [v |-> Objects[ds].dir_obj, reqs |-> MosDnode(ds), names |-> <<>>]
Up(ds, lucky, n, f) == f = [i \in 0 .. n |-> IF i = 0 THEN Bottom(ds) ELSE ParentDir(f[i - 1], lucky)]

\* The walk from a dataset up to the root exists.
LEMMA UpExists == ASSUME NEW ds, NEW lucky PROVE \A n \in Nat : \E f : Up(ds, lucky, n, f)
<1> DEFINE S == {n \in Nat : \E f : Up(ds, lucky, n, f)}
<1>1. 0 \in S
  <2> DEFINE f == [i \in 0 .. 0 |-> Bottom(ds)]
  <2>1. Up(ds, lucky, 0, f) BY DEF Up
  <2> QED BY <2>1
<1>2. ASSUME NEW n \in Nat, n \in S PROVE n + 1 \in S
  <2>1. PICK f : Up(ds, lucky, n, f) BY <1>2
  <2> DEFINE h == [i \in 0 .. n + 1 |-> IF i = n + 1 THEN ParentDir(f[n], lucky) ELSE f[i]]
  <2>2. Up(ds, lucky, n + 1, h) BY <2>1 DEF Up
  <2> QED BY <2>2
<1> HIDE DEF S
<1>3. Nat \subseteq S BY <1>1, <1>2, NatInd
<1> QED BY <1>3 DEF S

\* zfs_rlookup is its end.
LEMMA RlookupIs == ASSUME NEW ds, NEW lucky PROVE \E f : Up(ds, lucky, Depth + 1, f) /\ zfs_rlookup(ds, lucky) = f[Depth + 1]
<1> DEFINE Eq(f) == f = [i \in 0 .. Depth + 1 |->
                 IF i = 0 THEN [v |-> Objects[ds].dir_obj, reqs |-> MosDnode(ds), names |-> <<>>]
                 ELSE CHOOSE x \in {ParentDir(w, lucky) : w \in {f[i - 1]}} : TRUE]
<1>1. ASSUME NEW f, NEW i PROVE (CHOOSE x \in {ParentDir(w, lucky) : w \in {f[i - 1]}} : TRUE) = ParentDir(f[i - 1], lucky)
  <2>1. {ParentDir(w, lucky) : w \in {f[i - 1]}} = {ParentDir(f[i - 1], lucky)} OBVIOUS
  <2> QED BY <2>1
<1>2. \A f : Eq(f) <=> Up(ds, lucky, Depth + 1, f) BY <1>1 DEF Up, Bottom
<1>0. Depth + 1 \in Nat BY FileAssumption
<1>3. \E f : Eq(f) BY <1>0, <1>2, UpExists
<1>4. Eq(CHOOSE f : Eq(f)) BY <1>3
<1>5. zfs_rlookup(ds, lucky) = (CHOOSE f : Eq(f))[Depth + 1] BY DEF zfs_rlookup
<1> QED BY <1>2, <1>4, <1>5

Going(w) == DOMAIN w = {"v", "reqs", "names"} /\ MosRun(w.reqs)
\* One directory up, whatever is there.
LEMMA ParentGoing == ASSUME NEW w, Going(w), NEW lucky, NEW x, x = ParentDir(w, lucky) PROVE Going(x)
<1> DEFINE up == Objects[w.v].parent_obj
           z == Objects[up].child_dir_zapobj
           name == zap_rlookup(z, w.v, lucky)
           here == w.reqs \o MosDnode(w.v)
           loc == <<"local", "child_dir_zap">>
           l == <<Req(loc, z, 0)>>
           far == ((here \o MosDnode(up)) \o MosDnode(z)) \o l
<1>1. loc \in OnStack /\ loc \in Addresses BY AddressFacts
<1>2. Runs(l, loc, z, loc, z) BY <1>1, RunOne
<1>3. EndsMos(here) BY MosNext DEF Going
<1>0. \/ x = w \/ x = [w EXCEPT !.v = 0, !.reqs = here]
      \/ x = [v |-> IF name = None THEN None ELSE up, names |-> <<name>> \o w.names, reqs |-> far]
  BY DEF ParentDir
<1> DEFINE vv == IF name = None THEN None ELSE up
           nn == <<name>> \o w.names
<1> HIDE DEF up, z, name, here, loc, l, vv, nn
<1>4. EndsMos(here \o MosDnode(up)) BY <1>3, MosNext DEF MosRun
<1>5. EndsMos((here \o MosDnode(up)) \o MosDnode(z)) BY <1>4, MosNext DEF MosRun
<1>6. MosRun(far) BY <1>1, <1>2, <1>5, MosThenZap
<1> HIDE DEF far
<1>7. CASE x = w BY <1>7
<1>8. CASE x = [w EXCEPT !.v = 0, !.reqs = here]
  <2>1. DOMAIN x = {"v", "reqs", "names"} /\ x.reqs = here BY <1>8 DEF Going
  <2> QED BY <2>1, <1>3 DEF Going, MosRun
<1>9. CASE x = [v |-> vv, names |-> nn, reqs |-> far]
  <2>1. DOMAIN x = {"v", "reqs", "names"} /\ x.reqs = far BY <1>9
  <2> QED BY <2>1, <1>6 DEF Going
<1> QED BY <1>0, <1>7, <1>8, <1>9 DEF vv, nn

\* All the way up, what has been asked for begins in the pool's meta dnode.
LEMMA UpGoing == ASSUME NEW ds, NEW lucky, NEW n \in Nat, NEW f, Up(ds, lucky, n, f) PROVE \A i \in 0 .. n : Going(f[i])
<1> DEFINE S == {i \in Nat : i <= n => Going(f[i])}
<1>1. 0 \in S
  <2>1. f[0] = Bottom(ds) BY DEF Up
  <2>2. DOMAIN Bottom(ds) = {"v", "reqs", "names"} /\ Bottom(ds).reqs = MosDnode(ds) BY DEF Bottom
  <2> QED BY <2>1, <2>2, MosOne DEF Going, MosRun
<1>2. ASSUME NEW i \in Nat, i \in S PROVE i + 1 \in S
  <2> SUFFICES ASSUME i + 1 <= n PROVE Going(f[i + 1]) OBVIOUS
  <2>1. f[i + 1] = ParentDir(f[i], lucky) BY DEF Up
  <2>2. Going(f[i]) BY <1>2
  <2> QED BY <2>1, <2>2, ParentGoing
<1> HIDE DEF S
<1>3. Nat \subseteq S BY <1>1, <1>2, NatInd
<1> QED BY <1>3 DEF S

\* zfs_rlookup reads what it asks for.
LEMMA RlookupRun == ASSUME NEW ds, NEW lucky PROVE MosRun(zfs_rlookup(ds, lucky).reqs)
<1>1. PICK f : Up(ds, lucky, Depth + 1, f) /\ zfs_rlookup(ds, lucky) = f[Depth + 1] BY RlookupIs
<1> DEFINE n == Depth + 1
<1>2. n \in Nat /\ n \in 0 .. n BY FileAssumption
<1>3. Up(ds, lucky, n, f) /\ zfs_rlookup(ds, lucky) = f[n] BY <1>1
<1> HIDE DEF n
<1>4. Going(f[n]) BY <1>2, <1>3, UpGoing
<1> QED BY <1>3, <1>4 DEF Going

\* The name of a directory in its parent's is the one under which it was found.
LEMMA RlookupName ==
    ASSUME NEW o, IsDir(o), NEW nm \in DOMAIN Kids(o), NEW lucky, NEW name, name = zap_rlookup(Objects[o].child_dir_zapobj, Kids(o)[nm], lucky)
    PROVE  name = None \/ name = nm
<1> DEFINE z == Objects[o].child_dir_zapobj
           v == Kids(o)[nm]
<1>1. \A n \in DOMAIN Kids(o) : Kids(o)[n] = v => n = nm BY DirFacts
<1>2. Kids(o) = Objects[z].zap.entries BY DEF Kids
<1> HIDE DEF z
<1>3. (CHOOSE n \in DOMAIN Kids(o) : Kids(o)[n] = v) = nm BY <1>1
<1> HIDE DEF v
<1>4. mzap_rlookup(z, v) = nm BY <1>2, <1>3 DEF mzap_rlookup
<1> QED BY <1>4 DEF zap_rlookup, fzap_rlookup, z, v

\* One directory up from one that was found below w.
LEMMA ParentIs ==
    ASSUME NEW o, IsDir(o), NEW nm \in DOMAIN Kids(o), NEW w, w.v = Kids(o)[nm], NEW lucky, NEW x, x = ParentDir(w, lucky)
    PROVE  x.v = None \/ (x.v = o /\ x.names = <<nm>> \o w.names)
<1>1. IsDir(w.v) /\ Objects[w.v].parent_obj = o BY DirFacts
<1>2. w.v \notin {None, 0} /\ o # 0 BY <1>1, DirFacts
<1> DEFINE name == zap_rlookup(Objects[o].child_dir_zapobj, w.v, lucky)
<1>3. x.v = (IF name = None THEN None ELSE o) /\ x.names = <<name>> \o w.names BY <1>1, <1>2 DEF ParentDir
<1>4. name = None \/ name = nm BY RlookupName
<1> HIDE DEF name
<1> QED BY <1>3, <1>4

\* At the root.
LEMMA ParentOfRoot ==
    ASSUME NEW w, Going(w), IsDir(w.v), Objects[w.v].parent_obj = 0, NEW lucky, NEW x, x = ParentDir(w, lucky)
    PROVE  x.v = 0 /\ x.names = w.names
<1>1. w.v \notin {None, 0} BY DirFacts
<1>2. x = [w EXCEPT !.v = 0, !.reqs = w.reqs \o MosDnode(w.v)] BY <1>1 DEF ParentDir
<1> QED BY <1>2 DEF Going

LEMMA SameSeq ==
    ASSUME NEW s \in Seq(STRING), NEW t \in Seq(STRING), Len(s) = Len(t), \A k \in 1 .. Len(s) : s[k] = t[k] PROVE s = t
OBVIOUS

\* If a walk down arrives, every directory on its way is there.
LEMMA AllThere ==
    ASSUME NEW names, NEW n \in Nat, NEW d, Down(names, n, d), d[n].v # None
    PROVE  \A i \in 0 .. n : d[i].v # None
<1> DEFINE S == {i \in Nat : i <= n => d[n - i].v # None}
<1>1. 0 \in S OBVIOUS
<1>2. ASSUME NEW i \in Nat, i \in S PROVE i + 1 \in S
  <2> SUFFICES ASSUME i + 1 <= n PROVE d[n - (i + 1)].v # None OBVIOUS
  <2>1. d[n - i].v # None /\ n - i \in 0 .. n /\ n - i > 0 /\ (n - i) - 1 = n - (i + 1) BY <1>2
  <2> DEFINE k == n - i
  <2>2. d[k].v # None /\ k \in 0 .. n /\ k > 0 /\ k - 1 = n - (i + 1) BY <2>1
  <2> HIDE DEF k
  <2>x. DownAt(names, d, k) BY <2>2, DownFacts
  <2>3. d[k - 1].v # None BY <2>2, <2>x DEF DownAt
  <2> QED BY <2>2, <2>3
<1> HIDE DEF S
<1>3. Nat \subseteq S BY <1>1, <1>2, NatInd
<1> SUFFICES ASSUME NEW i \in 0 .. n PROVE d[i].v # None OBVIOUS
<1>4. n - i \in Nat /\ n - i <= n /\ n - (n - i) = i OBVIOUS
<1>5. n - i \in S BY <1>3, <1>4
<1> QED BY <1>4, <1>5 DEF S

\* The walk up from the dataset that a name led to gives the name back, or nothing.
LEMMA RoundTrip ==
    ASSUME NEW names \in Seq(STRING), Len(names) <= Depth, NEW ds, ds = zfs_lookup_dataset(names).v, ds # None, NEW lucky,
           NEW w, w = zfs_rlookup(ds, lucky), w.v # None
    PROVE  w.names = names
<1> DEFINE n == Len(names)
           m == Depth + 1
<1>1. n \in Nat /\ m \in Nat /\ n < m BY FileAssumption
<1>2. PICK d : Down(names, n, d) /\ zfs_lookup_dataset(names) = Headed(d[n]) BY <1>1, LookupIs
<1>3. PICK f : Up(ds, lucky, m, f) /\ w = f[m] BY RlookupIs
<1> HIDE DEF n, m
<1>4. d[n].v # None /\ ds = Objects[d[n].v].head_dataset_obj BY <1>2 DEF Headed
<1>5. \A i \in 0 .. n : d[i].v # None /\ IsDir(d[i].v)
  <2>1. \A i \in 0 .. n : d[i].v # None BY <1>1, <1>2, <1>4, AllThere
  <2>2. \A i \in 0 .. n : DownAt(names, d, i) BY <1>1, <1>2, DownFacts
  <2> QED BY <2>1, <2>2 DEF DownAt
<1>6. f[0].v = d[n].v /\ f[0].names = <<>>
  <2>1. f[0] = Bottom(ds) BY <1>1, <1>3 DEF Up
  <2>2. n \in 0 .. n BY <1>1
  <2>3. Objects[ds].dir_obj = d[n].v BY <1>4, <1>5, <2>2, DirFacts
  <2> QED BY <2>1, <2>3 DEF Bottom
<1> DEFINE Part(s, i) == s \in Seq(STRING) /\ Len(s) = i /\ \A k \in 1 .. i : s[k] = names[n - i + k]
           P(i) == \/ f[i].v = None
                   \/ i <= n /\ f[i].v = d[n - i].v /\ Part(f[i].names, i)
                   \/ i > n /\ f[i].v = 0 /\ f[i].names = names
           S == {i \in Nat : i <= m => P(i)}
<1>7. 0 \in S
  <2>1. f[0].names \in Seq(STRING) /\ Len(f[0].names) = 0 BY <1>6
  <2>2. n - 0 = n BY <1>1
  <2>3. Part(f[0].names, 0) BY <1>1, <2>1
  <2>4. 0 <= n /\ f[0].v = d[n - 0].v BY <1>1, <1>6, <2>2
  <2>5. P(0) BY <2>3, <2>4
  <2> QED BY <2>5
<1>8. ASSUME NEW i \in Nat, i \in S PROVE i + 1 \in S
  <2> SUFFICES ASSUME i + 1 <= m PROVE P(i + 1) OBVIOUS
  <2>1. P(i) BY <1>1, <1>8
  <2>2. f[i + 1] = ParentDir(f[i], lucky) BY <1>1, <1>3 DEF Up
  <2>g. Going(f[i])
    <3>1. i \in 0 .. m BY <1>1
    <3> QED BY <3>1, <1>1, <1>3, UpGoing
  <2> DEFINE u == f[i]
             x == f[i + 1]
  <2>3. CASE u.v = None
    <3>1. x = u BY <2>2, <2>3 DEF ParentDir
    <3> QED BY <3>1, <2>3
  <2>4. CASE i < n /\ u.v = d[n - i].v /\ Part(u.names, i)
    <3> DEFINE k == n - i
               o == d[k - 1].v
               nm == names[k]
    <3>1. k \in 1 .. n /\ k \in 0 .. n /\ k - 1 \in 0 .. n /\ k > 0 BY <1>1, <2>4
    <3>2. d[k].v # None BY <1>5, <3>1
    <3>d. DownAt(names, d, k) BY <1>1, <1>2, <3>1, DownFacts
    <3>3. IsDir(o) /\ nm \in DOMAIN Kids(o) /\ d[k].v = Kids(o)[nm] BY <3>1, <3>2, <3>d DEF DownAt
    <3>4. u.v = Kids(o)[nm] BY <2>4, <3>3
    <3>5. x.v = None \/ (x.v = o /\ x.names = <<nm>> \o u.names) 
      <4> HIDE DEF u, x, o, nm, k
      <4>1. x = ParentDir(u, lucky) BY <2>2 DEF u, x
      <4> QED BY <3>3, <3>4, <4>1, ParentIs
    <3>6. CASE x.v = o /\ x.names = <<nm>> \o u.names
      <4> DEFINE s == u.names
                 t == <<nm>> \o s
      <4>1. nm \in STRING BY <3>1 DEF n
      <4>2. s \in Seq(STRING) /\ Len(s) = i /\ \A j \in 1 .. i : s[j] = names[n - i + j] BY <2>4
      <4>t. x.names = t /\ x.v = o BY <3>6
      <4>n. nm = names[n - i] /\ o = d[(n - i) - 1].v OBVIOUS
      <4> HIDE DEF s, nm, u, x, o, k
      <4>3. t \in Seq(STRING) /\ Len(t) = i + 1 /\ t[1] = nm /\ \A j \in 2 .. i + 1 : t[j] = s[j - 1] BY <4>1, <4>2
      <4> HIDE DEF t
      <4>4. \A j \in 1 .. i + 1 : t[j] = names[n - (i + 1) + j]
        <5> SUFFICES ASSUME NEW j \in 1 .. i + 1 PROVE t[j] = names[n - (i + 1) + j] OBVIOUS
        <5>1. CASE j = 1
          <6>1. n - (i + 1) + j = n - i BY <5>1, <1>1
          <6> QED BY <6>1, <5>1, <4>3, <4>n
        <5>2. CASE j # 1
          <6>1. j \in 2 .. i + 1 /\ j - 1 \in 1 .. i /\ n - i + (j - 1) = n - (i + 1) + j BY <5>2, <1>1
          <6> QED BY <6>1, <4>2, <4>3
        <5> QED BY <5>1, <5>2
      <4>5. (n - i) - 1 = n - (i + 1) /\ i + 1 <= n BY <1>1, <2>4
      <4>6. x.v = d[n - (i + 1)].v /\ Part(x.names, i + 1) BY <4>t, <4>n, <4>3, <4>4, <4>5
      <4> QED BY <4>5, <4>6 DEF x
    <3> QED BY <3>5, <3>6
  <2>5. CASE i = n /\ u.v = d[n - i].v /\ Part(u.names, i)
    <3>1. 0 \in 0 .. n /\ n - i = 0 BY <1>1, <2>5
    <3>d. DownAt(names, d, 0) BY <1>1, <1>2, <3>1, DownFacts
    <3>2. IsDir(u.v) /\ Objects[u.v].parent_obj = 0 BY <2>5, <3>1, <3>d DEF DownAt
    <3>3. u.names = names
      <4>1. u.names \in Seq(STRING) /\ Len(u.names) = Len(names) /\ \A k \in 1 .. Len(u.names) : u.names[k] = names[k]
        BY <1>1, <2>5 DEF n
      <4> QED BY <4>1, SameSeq
    <3>4. x.v = 0 /\ x.names = u.names
      <4> HIDE DEF u, x
      <4>1. Going(u) /\ x = ParentDir(u, lucky) BY <2>2, <2>g DEF u, x
      <4> QED BY <3>2, <4>1, ParentOfRoot
    <3> QED BY <1>1, <2>5, <3>3, <3>4
  <2>6. CASE i > n /\ u.v = 0 /\ u.names = names
    <3>1. x = u BY <2>2, <2>6 DEF ParentDir
    <3> QED BY <3>1, <2>6, <1>1
  <2> DEFINE A == u.v = d[n - i].v /\ Part(u.names, i)
             B == u.v = 0 /\ u.names = names
  <2>7. u.v = None \/ (i <= n /\ A) \/ (i > n /\ B) BY <2>1
  <2>8. (i < n /\ A => P(i + 1)) /\ (i = n /\ A => P(i + 1)) /\ (i > n /\ B => P(i + 1)) BY <2>4, <2>5, <2>6
  <2> HIDE DEF A, B, P, u, x
  <2>9. i <= n => i < n \/ i = n BY <1>1
  <2> QED BY <2>3, <2>7, <2>8, <2>9
<1> HIDE DEF S
<1>9. Nat \subseteq S BY <1>7, <1>8, NatInd
<1>10. P(m) BY <1>1, <1>9 DEF S
<1> QED BY <1>1, <1>3, <1>10

-----------------------------------------------------------------------------
(* What a path means.  Resolve calls itself last, so it has a solution: the value *)
(* at the end of the chain of calls.                                             *)

Args == Nat \X FileSystems \X (DOMAIN Objects) \X Seq(STRING)
\* The object of the next name; whether there is no further call, the value then, and the next call.
Found(a) == IF a[4] # <<>> /\ Dir(a[3]) /\ Objects[a[3]].attr # "none" THEN Entry(a[3], Head(a[4])) ELSE None
Stops(a) == a[4] = <<>> \/ Found(a) = None \/ ~zfs_dnode_stat(Found(a), {}) \/ (Link(Found(a)) /\ a[1] = 0)
Value(a) == IF a[4] = <<>> THEN a[3] ELSE None
Target(a) == Objects[Found(a)].target
Call4(a) == IF ~Link(Found(a)) THEN <<a[1], a[2], Found(a), Tail(a[4])>>
            ELSE <<a[1] - 1, a[2], IF Target(a).abs THEN RootOf(a[2]) ELSE a[3], Target(a).names \o Tail(a[4])>>

\* A file system has a root directory.
LEMMA FsFacts == ASSUME NEW fs \in FileSystems PROVE fs \in Nat /\ Typed(RootOf(fs), {"dir"}) /\ RootOf(fs) \in DOMAIN Objects
<1>1. PICK d \in DOMAIN Objects : Objects[d].type = "dataset" /\ fs = Objects[d].fs /\ fs # None BY DEF FileSystems
<1>2. ObjectOK(d) BY FileAssumption
<1> QED BY <1>1, <1>2 DEF ObjectOK, RootOf, Typed

LEMMA LinkFacts == ASSUME NEW o, Link(o) PROVE Objects[o].target.names \in Seq(STRING)
<1>1. o \in DOMAIN Objects /\ Objects[o].type = "link" BY DEF Link
<1>2. ObjectOK(o) BY <1>1, FileAssumption
<1> QED BY <1>1, <1>2 DEF ObjectOK

LEMMA StatKnown == ASSUME NEW o, NEW bad, zfs_dnode_stat(o, bad) PROVE o \in DOMAIN Objects
BY DEF zfs_dnode_stat

LEMMA SeqTail == ASSUME NEW s \in Seq(STRING), s # <<>> PROVE Tail(s) \in Seq(STRING) /\ Head(s) \in STRING
OBVIOUS

LEMMA SeqJoin == ASSUME NEW s \in Seq(STRING), NEW t \in Seq(STRING) PROVE (s \o t) \in Seq(STRING)
OBVIOUS

LEMMA MakeArgs == ASSUME NEW n \in Nat, NEW fs \in FileSystems, NEW o \in DOMAIN Objects, NEW s \in Seq(STRING) PROVE <<n, fs, o, s>> \in Args
BY DEF Args

\* A call that does not stop calls with arguments of the same kind.
LEMMA CallArgs == ASSUME NEW a \in Args, ~Stops(a) PROVE Call4(a) \in Args
<1>1. a[1] \in Nat /\ a[2] \in FileSystems /\ a[3] \in DOMAIN Objects /\ a[4] \in Seq(STRING) BY DEF Args
<1>2. a[4] # <<>> /\ zfs_dnode_stat(Found(a), {}) /\ (Link(Found(a)) => a[1] # 0) BY DEF Stops
<1>3. Tail(a[4]) \in Seq(STRING) BY <1>1, <1>2, SeqTail
<1>4. CASE ~Link(Found(a))
  <2>1. Found(a) \in DOMAIN Objects BY <1>2, StatKnown
  <2>2. Call4(a) = <<a[1], a[2], Found(a), Tail(a[4])>> BY <1>4 DEF Call4
  <2> QED BY <1>1, <1>3, <2>1, <2>2, MakeArgs
<1>5. CASE Link(Found(a))
  <2>1. Target(a).names \in Seq(STRING) BY <1>5, LinkFacts DEF Target
  <2>2. (Target(a).names \o Tail(a[4])) \in Seq(STRING) BY <1>3, <2>1, SeqJoin
  <2> DEFINE o == IF Target(a).abs THEN RootOf(a[2]) ELSE a[3]
             ns == Target(a).names \o Tail(a[4])
  <2>3. o \in DOMAIN Objects BY <1>1, FsFacts
  <2>4. Call4(a) = <<a[1] - 1, a[2], o, ns>> BY <1>5 DEF Call4
  <2>5. a[1] - 1 \in Nat BY <1>1, <1>2, <1>5
  <2> HIDE DEF o, ns
  <2> QED BY <1>1, <2>2, <2>3, <2>4, <2>5, MakeArgs DEF ns
<1> QED BY <1>4, <1>5

\* The calls from a on end with value v after n of them.
Ends(a, n, c, v) == /\ c[0] = a /\ \A i \in 0 .. n - 1 : ~Stops(c[i]) /\ c[i + 1] = Call4(c[i])
                    /\ Stops(c[n]) /\ v = Value(c[n])
EndsWith(a, v) == \E n, c : n \in Nat /\ Ends(a, n, c, v)

\* A path that is decided leads to its value and nowhere else.
LEMMA EndsStop == ASSUME NEW a, Stops(a), NEW v PROVE EndsWith(a, v) <=> v = Value(a)
<1>1. ASSUME EndsWith(a, v) PROVE v = Value(a)
  <2>1. PICK n, c : n \in Nat /\ Ends(a, n, c, v) BY <1>1 DEF EndsWith
  <2>2. CASE n = 0 BY <2>1, <2>2 DEF Ends
  <2>3. CASE n > 0
    <3>1. 0 \in 0 .. n - 1 BY <2>1, <2>3
    <3> QED BY <2>1, <3>1 DEF Ends
  <2> QED BY <2>1, <2>2, <2>3
<1>2. ASSUME v = Value(a) PROVE EndsWith(a, v)
  <2> DEFINE c == [i \in {0} |-> a]
  <2>1. c[0] = a OBVIOUS
  <2> HIDE DEF c
  <2>2. Ends(a, 0, c, v) BY <1>2, <2>1 DEF Ends
  <2> QED BY <2>2 DEF EndsWith
<1> QED BY <1>1, <1>2

\* One that is not leads where the rest of it leads.
LEMMA EndsCall == ASSUME NEW a, ~Stops(a), NEW v PROVE EndsWith(a, v) <=> EndsWith(Call4(a), v)
<1>1. ASSUME EndsWith(a, v) PROVE EndsWith(Call4(a), v)
  <2>1. PICK n, c : n \in Nat /\ Ends(a, n, c, v) BY <1>1 DEF EndsWith
  <2>2. n # 0 BY <2>1 DEF Ends
  <2> DEFINE m == n - 1
             h == [i \in 0 .. m |-> c[i + 1]]
  <2>3. m \in Nat /\ m + 1 = n BY <2>1, <2>2
  <2>4. \A i \in 0 .. m : h[i] = c[i + 1] OBVIOUS
  <2> HIDE DEF m, h
  <2>5. h[0] = Call4(a)
    <3>1. 0 \in 0 .. n - 1 /\ 0 \in 0 .. m BY <2>3
    <3> QED BY <3>1, <2>1, <2>4 DEF Ends
  <2>6. \A i \in 0 .. m - 1 : ~Stops(h[i]) /\ h[i + 1] = Call4(h[i])
    <3> SUFFICES ASSUME NEW i \in 0 .. m - 1 PROVE ~Stops(h[i]) /\ h[i + 1] = Call4(h[i]) OBVIOUS
    <3>1. i \in 0 .. m /\ i + 1 \in 0 .. m /\ i + 1 \in 0 .. n - 1 BY <2>3
    <3>2. h[i] = c[i + 1] /\ h[i + 1] = c[(i + 1) + 1] BY <2>4, <3>1
    <3> QED BY <2>1, <3>1, <3>2 DEF Ends
  <2>7. h[m] = c[n] BY <2>3, <2>4
  <2>8. Ends(Call4(a), m, h, v) BY <2>1, <2>5, <2>6, <2>7 DEF Ends
  <2> QED BY <2>3, <2>8 DEF EndsWith
<1>2. ASSUME EndsWith(Call4(a), v) PROVE EndsWith(a, v)
  <2>1. PICK n, c : n \in Nat /\ Ends(Call4(a), n, c, v) BY <1>2 DEF EndsWith
  <2> DEFINE m == n + 1
             h == [i \in 0 .. m |-> IF i = 0 THEN a ELSE c[i - 1]]
  <2>3. m \in Nat /\ m - 1 = n BY <2>1
  <2>4. h[0] = a /\ \A i \in 1 .. m : h[i] = c[i - 1] BY <2>3
  <2> HIDE DEF m, h
  <2>6. \A i \in 0 .. m - 1 : ~Stops(h[i]) /\ h[i + 1] = Call4(h[i])
    <3> SUFFICES ASSUME NEW i \in 0 .. m - 1 PROVE ~Stops(h[i]) /\ h[i + 1] = Call4(h[i]) OBVIOUS
    <3>1. CASE i = 0
      <4>1. h[i + 1] = c[0] BY <3>1, <2>3, <2>4
      <4> QED BY <3>1, <4>1, <2>1, <2>4 DEF Ends
    <3>2. CASE i # 0
      <4>1. i \in 1 .. m /\ i + 1 \in 1 .. m /\ i - 1 \in 0 .. n - 1 /\ (i + 1) - 1 = (i - 1) + 1 BY <3>2, <2>3
      <4>2. h[i] = c[i - 1] /\ h[i + 1] = c[(i - 1) + 1] BY <2>4, <4>1
      <4> QED BY <4>1, <4>2, <2>1 DEF Ends
    <3> QED BY <3>1, <3>2
  <2>7. h[m] = c[n] BY <2>1, <2>3, <2>4
  <2>8. Ends(a, m, h, v) BY <2>1, <2>4, <2>6, <2>7 DEF Ends
  <2> QED BY <2>3, <2>8 DEF EndsWith
<1> QED BY <1>1, <1>2

OneOf(X) == CHOOSE v \in X : TRUE
Finals(a) == {v \in DOMAIN Objects \union {None} : EndsWith(a, v)}
Solves(f) == f = [a \in Args |-> IF Stops(a) THEN Value(a) ELSE f[Call4(a)]]

\* So the equation of Resolve has a solution: the end that the calls lead to, or any value if they go on for ever.
LEMMA SolutionExists == \E f : Solves(f)
<1> DEFINE f == [a \in Args |-> OneOf(Finals(a))]
<1>1. ASSUME NEW a \in Args PROVE f[a] = IF Stops(a) THEN Value(a) ELSE f[Call4(a)]
  <2>1. f[a] = OneOf(Finals(a)) OBVIOUS
  <2>2. CASE Stops(a)
    <3>1. Value(a) \in DOMAIN Objects \union {None} BY DEF Value, Args
    <3>2. \A v : EndsWith(a, v) <=> v = Value(a) BY <2>2, EndsStop
    <3>3. Finals(a) = {Value(a)} BY <3>1, <3>2 DEF Finals
    <3>4. OneOf(Finals(a)) = Value(a) BY <3>3 DEF OneOf
    <3> QED BY <2>1, <2>2, <3>4
  <2>3. CASE ~Stops(a)
    <3>1. Call4(a) \in Args BY <2>3, CallArgs
    <3>2. \A v : EndsWith(a, v) <=> EndsWith(Call4(a), v) BY <2>3, EndsCall
    <3>3. Finals(a) = Finals(Call4(a)) BY <3>2 DEF Finals
    <3>4. f[Call4(a)] = OneOf(Finals(Call4(a))) BY <3>1
    <3> QED BY <2>1, <2>3, <3>3, <3>4
  <2> QED BY <2>2, <2>3
<1>2. f = [a \in Args |-> f[a]] OBVIOUS
<1> HIDE DEF f
<1>3. [a \in Args |-> f[a]] = [a \in Args |-> IF Stops(a) THEN Value(a) ELSE f[Call4(a)]] BY <1>1
<1>4. Solves(f) BY <1>2, <1>3 DEF Solves
<1> QED BY <1>4

\* Resolve is a solution.
LEMMA ResolveIs == ASSUME NEW a \in Args PROVE Resolve[a] = IF Stops(a) THEN Value(a) ELSE Resolve[Call4(a)]
<1> DEFINE Body(f, x) ==
        LET fuel == x[1]
            fs == x[2]
            o == x[3]
            names == x[4]
            nxt == IF names # <<>> /\ Dir(o) /\ Objects[o].attr # "none" THEN Entry(o, Head(names)) ELSE None IN
        IF names = <<>> THEN o
        ELSE IF nxt = None \/ ~zfs_dnode_stat(nxt, {}) THEN None
        ELSE IF ~Link(nxt) THEN f[<<fuel, fs, nxt, Tail(names)>>]
        ELSE IF fuel = 0 THEN None
        ELSE LET t == Objects[nxt].target IN
             f[<<fuel - 1, fs, IF t.abs THEN RootOf(fs) ELSE o, t.names \o Tail(names)>>]
           Eq(f) == f = [x \in Nat \X FileSystems \X (DOMAIN Objects) \X Seq(STRING) |-> Body(f, x)]
<1>1. ASSUME NEW f, NEW x PROVE Body(f, x) = IF Stops(x) THEN Value(x) ELSE f[Call4(x)]
  BY DEF Stops, Value, Call4, Found, Target
<1>2. \A f : Eq(f) <=> Solves(f)
  <2> SUFFICES ASSUME NEW f PROVE Eq(f) <=> Solves(f) OBVIOUS
  <2>1. \A x : Body(f, x) = IF Stops(x) THEN Value(x) ELSE f[Call4(x)] BY <1>1
  <2> HIDE DEF Body
  <2>2. [x \in Args |-> Body(f, x)] = [x \in Args |-> IF Stops(x) THEN Value(x) ELSE f[Call4(x)]] BY <2>1
  <2> QED BY <2>2 DEF Solves, Args
<1>3. \E f : Eq(f) BY <1>2, SolutionExists
<1>4. Eq(CHOOSE f : Eq(f)) BY <1>3
<1>5. Resolve = CHOOSE f : Eq(f) BY DEF Resolve
<1>6. Solves(Resolve) BY <1>2, <1>4, <1>5
<1> HIDE DEF Eq, Body
<1> QED BY <1>6 DEF Solves

-----------------------------------------------------------------------------
(* The inductive invariant. *)

Fs0 == Objects[DefaultRoot.v].fs
AllPaths == ZPaths \union ListPaths
Mounts == Slots \union {"static"}
FileRec == [dn : DOMAIN Objects, seekp : Nat, chunk : Nat, listed : SUBSET (STRING \union {None}), done : BOOLEAN]
\* Places in path[].
Places == [slashes : Nat, passed : Seq(STRING)] \union {None}
LookRec == [k : {"lookup"}, slot : Mounts, path : AllPaths, fs : FileSystems, dn : DOMAIN Objects, obj : DOMAIN Objects,
            p : Seq(STRING), at : Places, links : Nat, bad : BadSets]
Overrun == [k |-> "overrun"]
Types ==
    /\ cache.obj \in Addresses \union {None} /\ files \in [Slots -> FileRec \union {None}]
    /\ op \in {Idle, Overrun} \/ (op \in LookRec /\ (op.slot = "static" => op.fs = Fs0))
    /\ ffaults \in 0 .. MaxFaults /\ ops \in 0 .. MaxOps /\ tainted \in BOOLEAN

\* What a lookup that goes on has still to do leads where the path leads, and the buffer
\* holds a block of the mount it reads through.
LookOK(o, c) == /\ o.bad = {} /\ o.dn = o.obj /\ o.links <= MLINKS + 1 /\ c.obj = <<"mount", o.slot>>
                /\ Resolve[<<MLINKS + 1 - o.links, o.fs, o.obj, o.p>>] = Named[o.path]
\* The buffer is not wrong about an address that outlives a call.
Held(c, fl) == /\ Fits(c, SpaMos, Mos) /\ Fits(c, <<"mount", "static">>, Meta(Fs0))
               /\ \A s \in Slots : Fits(c, <<"file", s>>, fl[s].dn)
\* The device in use is the dataset that its name means.
DevOK(d) == /\ DOMAIN d = {"names", "root"} /\ d.names \in DevSpecs
            /\ d.names = <<>> => d.root \in {0, DefaultRoot.v}
            /\ d.names # <<>> => d.root = zfs_lookup_dataset(d.names).v /\ d.root # None
\* What has been listed of a directory is what lies before the place that was reached, none of it past the end.
Shown(r) == /\ r.chunk <= Len(Chunks(r.dn)) /\ r.listed = {Chunks(r.dn)[i] : i \in 1 .. r.chunk} \ {None}
            /\ \A i \in 1 .. r.chunk : Chunks(r.dn)[i] # None => ~AtEof(r.dn, i)
Results == OpenResolves /\ FileBytesRight /\ ReadBounded /\ ListsAll /\ BootListsAll /\ DevRoundTrip
FileInv ==
    /\ Types /\ Results
    /\ ~tainted /\ op.k = "lookup" => LookOK(op, cache)
    /\ ~tainted => Held(cache, files)
    /\ ~tainted /\ dev # None => DevOK(dev)
    /\ \A s \in Slots : files[s] # None /\ Dir(files[s].dn) /\ ~files[s].done => Shown(files[s])

LEMMA FieldsSame == ASSUME NEW c, NEW f, c = Cache(f) PROVE c.obj = f.obj /\ c.bn = f.bn /\ c.buf = f.buf
BY DEF Cache

LEMMA FitsSame == ASSUME NEW c, NEW f, c = Cache(f), NEW a, NEW o PROVE Fits(c, a, o) <=> Fits(f, a, o)
BY FieldsSame DEF Fits

\* A buffer of the pool or of the stack says nothing of a mount or a file.
LEMMA HeldStack == ASSUME NEW c, c.obj \in OnStack \union {SpaMos}, Fits(c, SpaMos, Mos), NEW fl PROVE Held(c, fl)
<1>1. \A s \in Mounts : c.obj # <<"mount", s>> /\ c.obj # <<"file", s>> BY AddressFacts DEF Mounts
<1>2. Fits(c, <<"mount", "static">>, Meta(Fs0)) BY <1>1 DEF Fits, Mounts
<1>3. \A s \in Slots : Fits(c, <<"file", s>>, fl[s].dn) BY <1>1 DEF Fits, Mounts
<1> QED BY <1>2, <1>3 DEF Held

\* A buffer of a mount that belongs to a file says nothing of what outlives the call.
LEMMA HeldMount ==
    ASSUME NEW c, NEW s \in Mounts, c.obj = <<"mount", s>>, s = "static" => c.buf = <<Meta(Fs0), c.bn>>, NEW fl PROVE Held(c, fl)
<1>1. c.obj # SpaMos /\ \A t \in Mounts : c.obj # <<"file", t>> /\ (c.obj = <<"mount", t>> => s = t) BY AddressFacts DEF Mounts
<1>2. "static" \in Mounts BY DEF Mounts
<1>3. Fits(c, <<"mount", "static">>, Meta(Fs0)) BY <1>1, <1>2 DEF Fits
<1>4. \A t \in Slots : Fits(c, <<"file", t>>, fl[t].dn) BY <1>1 DEF Fits, Mounts
<1> QED BY <1>1, <1>3, <1>4 DEF Held, Fits

\* The buffer holds a block of an open file.
LEMMA HeldFile == ASSUME NEW c, NEW s \in Slots, NEW fl, c.obj = <<"file", s>>, c.buf = <<fl[s].dn, c.bn>> PROVE Held(c, fl)
<1>1. s \in Mounts /\ "static" \in Mounts BY DEF Mounts
<1>2. c.obj # SpaMos /\ c.obj # <<"mount", "static">> /\ \A t \in Slots : c.obj = <<"file", t>> => s = t BY <1>1, AddressFacts DEF Mounts
<1> QED BY <1>2 DEF Held, Fits

LEMMA HeldCache == ASSUME NEW c, NEW f, c = Cache(f), NEW fl, Held(f, fl) PROVE Held(c, fl)
BY FitsSame DEF Held

-----------------------------------------------------------------------------
(* The results, by kind. *)

\* What was said of a result stays true.
LEMMA ResultsKept == Results /\ UNCHANGED <<result, dev>> /\ (tainted => tainted') => Results'
<1> SUFFICES ASSUME Results, result' = result, dev' = dev, tainted => tainted' PROVE Results' OBVIOUS
<1>1. OpenResolves' BY DEF Results, OpenResolves
<1>2. FileBytesRight' BY DEF Results, FileBytesRight
<1>3. ReadBounded' BY DEF Results, ReadBounded
<1>4. ListsAll' BY DEF Results, ListsAll
<1>5. BootListsAll' BY DEF Results, BootListsAll
<1>6. DevRoundTrip' BY DEF Results, DevRoundTrip
<1> QED BY <1>1, <1>2, <1>3, <1>4, <1>5, <1>6 DEF Results

LEMMA ResultOpen == ASSUME NEW path, NEW dn, Opened(path, dn), ~tainted' => dn = Named[path] PROVE Results'
<1>1. result'.k = "open" /\ result'.path = path /\ result'.dn = dn BY DEF Opened
<1>2. OpenResolves' BY <1>1 DEF OpenResolves
<1>3. FileBytesRight' BY <1>1 DEF FileBytesRight
<1>4. ReadBounded' BY <1>1 DEF ReadBounded
<1>5. ListsAll' BY <1>1 DEF ListsAll
<1>6. BootListsAll' BY <1>1 DEF BootListsAll
<1>7. DevRoundTrip' BY <1>1 DEF DevRoundTrip
<1> QED BY <1>2, <1>3, <1>4, <1>5, <1>6, <1>7 DEF Results

LEMMA ResultRead == result'.k = "read" /\ FileBytesRight' /\ ReadBounded' => Results'
<1> SUFFICES ASSUME result'.k = "read", FileBytesRight', ReadBounded' PROVE Results' OBVIOUS
<1>1. OpenResolves' BY DEF OpenResolves
<1>2. ListsAll' BY DEF ListsAll
<1>3. BootListsAll' BY DEF BootListsAll
<1>4. DevRoundTrip' BY DEF DevRoundTrip
<1> QED BY <1>1, <1>2, <1>3, <1>4 DEF Results

LEMMA ResultReaddir == result'.k = "readdir" /\ ListsAll' => Results'
<1> SUFFICES ASSUME result'.k = "readdir", ListsAll' PROVE Results' OBVIOUS
<1>1. OpenResolves' BY DEF OpenResolves
<1>2. FileBytesRight' BY DEF FileBytesRight
<1>3. ReadBounded' BY DEF ReadBounded
<1>4. BootListsAll' BY DEF BootListsAll
<1>5. DevRoundTrip' BY DEF DevRoundTrip
<1> QED BY <1>1, <1>2, <1>3, <1>4, <1>5 DEF Results

LEMMA ResultList == result'.k = "list" /\ OpenResolves' /\ BootListsAll' => Results'
<1> SUFFICES ASSUME result'.k = "list", OpenResolves', BootListsAll' PROVE Results' OBVIOUS
<1>1. ListsAll' BY DEF ListsAll
<1>2. FileBytesRight' BY DEF FileBytesRight
<1>3. ReadBounded' BY DEF ReadBounded
<1>4. DevRoundTrip' BY DEF DevRoundTrip
<1> QED BY <1>1, <1>2, <1>3, <1>4 DEF Results

LEMMA ResultDev == result'.k \in {"parsedev", "fmtdev"} /\ DevRoundTrip' => Results'
<1> SUFFICES ASSUME result'.k \in {"parsedev", "fmtdev"}, DevRoundTrip' PROVE Results' OBVIOUS
<1>1. OpenResolves' BY DEF OpenResolves
<1>2. FileBytesRight' BY DEF FileBytesRight
<1>3. ReadBounded' BY DEF ReadBounded
<1>4. ListsAll' BY DEF ListsAll
<1>5. BootListsAll' BY DEF BootListsAll
<1> QED BY <1>1, <1>2, <1>3, <1>4, <1>5 DEF Results

-----------------------------------------------------------------------------
(* Opening. *)

\* A call in which something fails is tainted from then on.
LEMMA FaultFacts ==
    ASSUME Types, NEW bad \in BadSets, Faults(bad)
    PROVE  /\ ffaults' \in 0 .. MaxFaults /\ tainted' \in BOOLEAN /\ (tainted => tainted')
           /\ (~tainted' => bad = {} /\ ~tainted)
<1>1. Cardinality(bad) \in Nat
  <2>1. CASE bad = {} BY <2>1, FS_EmptySet
  <2>2. CASE \E b \in BadBlocks : bad = {b} BY <2>2, FS_Singleton
  <2> QED BY <2>1, <2>2 DEF BadSets
<1>2. ffaults' \in 0 .. MaxFaults
  <2>1. ffaults \in 0 .. MaxFaults /\ ffaults' = ffaults + Cardinality(bad) /\ ffaults' <= MaxFaults BY DEF Types, Faults
  <2> QED BY <1>1, <2>1, FileAssumption
<1>3. tainted' = (tainted \/ bad # {}) /\ tainted \in BOOLEAN BY DEF Types, Faults
<1> QED BY <1>2, <1>3

LEMMA CallFacts == Types /\ Call => op = Idle /\ ops' \in 0 .. MaxOps
BY FileAssumption DEF Types, Call

LEMMA IdleFacts == Idle.k = "idle"
BY DEF Idle

\* The dnode of an object in a file system is read through its mount.
LEMMA FsDnodeRun == ASSUME NEW s \in Mounts, NEW fs, NEW n PROVE Runs(FsDnode(s, fs, n), <<"mount", s>>, Meta(fs), <<"mount", s>>, Meta(fs))
<1>1. <<"mount", s>> \in Addresses BY AddressFacts DEF Mounts
<1> QED BY <1>1, RunOne DEF FsDnode, objset_get_dnode

\* An object is looked up through the mount, then something on the stack, then the mount again.
LEMMA MountRuns ==
    ASSUME NEW s \in Mounts, NEW fs, NEW n, NEW r, NEW o, Runs(r, <<"local", "dn">>, o, <<"local", "dn">>, o)
    PROVE  /\ Runs(FsDnode(s, fs, n) \o r, <<"mount", s>>, Meta(fs), <<"local", "dn">>, o)
           /\ Runs(r \o FsDnode(s, fs, n), <<"local", "dn">>, o, <<"mount", s>>, Meta(fs))
<1> DEFINE a == <<"mount", s>>
           l == <<"local", "dn">>
           q == FsDnode(s, fs, n)
<1>1. a # l BY AddressFacts DEF Mounts
<1>2. Runs(q, a, Meta(fs), a, Meta(fs)) BY FsDnodeRun
<1>3. Runs(r, l, o, l, o) OBVIOUS
<1> HIDE DEF a, l, q
<1>4. Runs(q \o r, a, Meta(fs), l, o) BY <1>1, <1>2, <1>3, RunJoin
<1>5. Runs(r \o q, l, o, a, Meta(fs)) BY <1>1, <1>2, <1>3, RunJoin
<1> QED BY <1>4, <1>5 DEF a, l, q

BeginReqs(s, fs) == (FsDnode(s, fs, 1) \o zap_lookup(<<"local", "dn">>, 1 + fs, "ROOT")) \o FsDnode(s, fs, RootOf(fs))
\* The requests of Begin are a chain from the mount to the mount.
LEMMA BeginRun ==
    ASSUME NEW s \in Mounts, NEW fs PROVE Runs(BeginReqs(s, fs), <<"mount", s>>, Meta(fs), <<"mount", s>>, Meta(fs))
<1> DEFINE a == <<"mount", s>>
           l == <<"local", "dn">>
           o == 1 + fs
           z == zap_lookup(l, o, "ROOT")
<1>1. a # l /\ l \in Addresses BY AddressFacts DEF Mounts
<1>2. Runs(z, l, o, l, o) BY <1>1, RunZap
<1>3. Runs(FsDnode(s, fs, 1) \o z, a, Meta(fs), l, o) BY <1>2, MountRuns
<1>4. Runs(FsDnode(s, fs, RootOf(fs)), a, Meta(fs), a, Meta(fs)) BY FsDnodeRun
<1> HIDE DEF a, l, o, z
<1>5. Runs((FsDnode(s, fs, 1) \o z) \o FsDnode(s, fs, RootOf(fs)), a, Meta(fs), a, Meta(fs)) BY <1>1, <1>3, <1>4, RunJoin
<1> QED BY <1>5 DEF BeginReqs, a, l, o, z

\* What the device and the directories are is left alone.
LEMMA OthersKept ==
    ASSUME FileInv, UNCHANGED <<files, dev>>, tainted => tainted'
    PROVE  /\ (~tainted /\ dev # None => DevOK(dev))'
           /\ (\A s \in Slots : files[s] # None /\ Dir(files[s].dn) /\ ~files[s].done => Shown(files[s]))'
BY DEF FileInv

\* The start of a lookup, for an open and for a listing, keeps the invariant.
LEMMA BeginStep ==
    ASSUME FileInv, NEW s \in Mounts, NEW path \in AllPaths, NEW fs \in FileSystems, NEW c, NEW bad \in BadSets,
           Call, Faults(bad), Begin(s, path, fs, c, bad), UNCHANGED <<files, dev>>,
           c.obj \in Addresses \union {None}, s = "static" => fs = Fs0,
           bad = {} /\ ~tainted => /\ Fits(c, <<"mount", s>>, Meta(fs))
                                   /\ Named[path] = Resolve[<<MLINKS + 1, fs, RootOf(fs), path.names>>]
    PROVE  FileInv'
<1> DEFINE q == BeginReqs(s, fs)
           f == Fetch(c, q, bad)
           new == [k |-> "lookup", slot |-> s, path |-> path, fs |-> fs, dn |-> RootOf(fs), obj |-> RootOf(fs),
                   p |-> path.names, at |-> None, links |-> 0, bad |-> bad]
<1>1. Types /\ Results BY DEF FileInv
<1>2. op = Idle /\ ops' \in 0 .. MaxOps BY <1>1, CallFacts
<1>3. ffaults' \in 0 .. MaxFaults /\ tainted' \in BOOLEAN /\ (tainted => tainted') /\ (~tainted' => bad = {} /\ ~tainted)
  BY <1>1, FaultFacts
<1>4. /\ cache' = Cache(f)
      /\ \/ (f.err \/ Wrong(f, q)) /\ op' = op /\ Opened(path, IF f.err THEN None ELSE Junk)
         \/ ~f.err /\ ~Wrong(f, q) /\ op' = new /\ result' = result
  BY DEF Begin, BeginReqs
<1>5. Runs(q, <<"mount", s>>, Meta(fs), <<"mount", s>>, Meta(fs)) BY BeginRun
<1>6. Asks(q) BY <1>5, RunAsks
<1>n. new \in LookRec /\ new.slot = s /\ new.fs = fs /\ new.k = "lookup" /\ new.bad = bad /\ new.dn = new.obj /\ new.links = 0 
      /\ new.obj = RootOf(fs) /\ new.p = path.names /\ new.path = path
  <2>1. RootOf(fs) \in DOMAIN Objects BY FsFacts
  <2>2. path.names \in Seq(STRING) BY FileAssumption DEF AllPaths
  <2>3. None \in Places BY DEF Places
  <2> QED BY <2>1, <2>2, <2>3 DEF LookRec
<1> HIDE DEF q, f, new
<1>7. f.obj \in Addresses \union {None} BY <1>6, FetchAny DEF f
<1>8. ~tainted' => /\ ~f.err /\ ~Wrong(f, q) /\ f.obj = <<"mount", s>> /\ f.buf = <<Meta(fs), f.bn>>
  <2> SUFFICES ASSUME ~tainted' PROVE ~f.err /\ ~Wrong(f, q) /\ f.obj = <<"mount", s>> /\ f.buf = <<Meta(fs), f.bn>> OBVIOUS
  <2>1. f = Fetch(c, q, {}) /\ Fits(c, <<"mount", s>>, Meta(fs)) BY <1>3 DEF f
  <2> QED BY <1>5, <2>1, FetchRun
<1>9. cache'.obj = f.obj /\ cache'.bn = f.bn /\ cache'.buf = f.buf BY <1>4, FieldsSame
<1>10. Types'
  <2>1. cache'.obj \in Addresses \union {None} BY <1>7, <1>9
  <2>2. op' \in {Idle, Overrun} \/ (op' \in LookRec /\ (op'.slot = "static" => op'.fs = Fs0)) BY <1>2, <1>4, <1>n
  <2> QED BY <1>1, <1>2, <1>3, <2>1, <2>2 DEF Types
<1>11. Results'
  <2>1. CASE ~f.err /\ ~Wrong(f, q) /\ op' = new /\ result' = result BY <1>1, <1>3, <2>1, ResultsKept
  <2>2. CASE (f.err \/ Wrong(f, q)) /\ op' = op /\ Opened(path, IF f.err THEN None ELSE Junk)
    <3>1. tainted' BY <1>8, <2>2
    <3> QED BY <2>2, <3>1, ResultOpen
  <2> QED BY <1>4, <2>1, <2>2
<1>12. ~tainted' /\ op'.k = "lookup" => LookOK(op', cache')
  <2> SUFFICES ASSUME ~tainted' PROVE LookOK(op', cache') OBVIOUS
  <2>1. op' = new /\ cache'.obj = <<"mount", s>> BY <1>4, <1>8, <1>9
  <2>2. MLINKS + 1 - new.links = MLINKS + 1 /\ new.links <= MLINKS + 1 BY <1>n DEF MLINKS
  <2>3. Named[path] = Resolve[<<MLINKS + 1, fs, RootOf(fs), path.names>>] /\ bad = {} BY <1>3
  <2> QED BY <1>n, <2>1, <2>2, <2>3 DEF LookOK
<1>13. ~tainted' => Held(cache', files')
  <2> SUFFICES ASSUME ~tainted' PROVE Held(cache', files') OBVIOUS
  <2>1. cache'.obj = <<"mount", s>> /\ cache'.buf = <<Meta(fs), cache'.bn>> BY <1>8, <1>9
  <2> QED BY <2>1, HeldMount
<1>14. /\ (~tainted /\ dev # None => DevOK(dev))'
       /\ (\A t \in Slots : files[t] # None /\ Dir(files[t].dn) /\ ~files[t].done => Shown(files[t]))'
  BY <1>3, OthersKept
<1> QED BY <1>10, <1>11, <1>12, <1>13, <1>14 DEF FileInv

\* The root dataset and the default dataset are datasets.
LEMMA RootDataset == Typed(DefaultRoot.v, {"dataset"}) /\ Typed(RootHead, {"dataset"})
<1> DEFINE props == Entry(MosDir, "pool_props")
           root == Entry(MosDir, "root_dataset")
<1>0. Typed(RootHead, {"dataset"})
  <2>1. IsDir(root) BY FileAssumption DEF PoolOK, IsDir
  <2> QED BY <2>1, DirFacts DEF RootHead
<1>1. CASE props # None /\ Entry(props, "bootfs") \notin {None, 0}
  <2>1. DefaultRoot.v = Entry(props, "bootfs") BY <1>1 DEF DefaultRoot
  <2>2. Typed(Entry(props, "bootfs"), {"dataset"}) BY <1>1, FileAssumption DEF PoolOK
  <2> QED BY <1>0, <2>1, <2>2
<1>2. CASE ~(props # None /\ Entry(props, "bootfs") \notin {None, 0})
  <2>1. DefaultRoot.v = RootHead BY <1>2 DEF DefaultRoot
  <2> QED BY <1>0, <2>1
<1> QED BY <1>1, <1>2

\* Blocks of an open file, or none.
LEMMA FetchSome ==
    ASSUME NEW c, NEW r, r = <<>> \/ Asks(r), NEW bad, NEW f, f = Fetch(c, r, bad)
    PROVE  Acc(f) /\ f.obj \in Addresses \union {c.obj} /\ (~f.err => Len(f.bufs) = Len(r))
<1>1. CASE r = <<>>
  <2>1. f = Fetch(c, <<>>, bad) /\ Len(r) = 0 BY <1>1
  <2>2. Acc(f) /\ f.obj = c.obj /\ Len(f.bufs) = 0 BY <2>1, FetchNone
  <2> QED BY <2>1, <2>2
<1>2. CASE Asks(r) BY <1>2, FetchAny
<1> QED BY <1>1, <1>2

\* What is asked of the pool, or nothing.
LEMMA FetchPool ==
    ASSUME NEW q, q = <<>> \/ MosRun(q), NEW c, NEW fl, Held(c, fl), NEW f, f = Fetch(c, q, {}) PROVE ~f.err /\ ~Wrong(f, q) /\ Held(f, fl)
<1>1. CASE q = <<>>
  <2>1. f = Fetch(c, <<>>, {}) BY <1>1
  <2>2. Acc(f) /\ ~f.err /\ f.obj = c.obj /\ f.bn = c.bn /\ f.buf = c.buf /\ Len(f.bufs) = 0 BY <2>1, FetchNone
  <2>3. Held(f, fl) BY <2>2 DEF Held, Fits
  <2>4. DOMAIN f.bufs = 1 .. Len(f.bufs) BY <2>2, SeqFacts DEF Acc
  <2>5. DOMAIN f.bufs = {} BY <2>2, <2>4
  <2> QED BY <2>2, <2>3, <2>5 DEF Wrong
<1>2. CASE MosRun(q)
  <2>1. Fits(c, SpaMos, Mos) BY DEF Held
  <2>2. ~f.err /\ ~Wrong(f, q) /\ f.obj \in OnStack \union {SpaMos} /\ Fits(f, SpaMos, Mos) BY <1>2, <2>1, FetchMos
  <2> QED BY <2>2, HeldStack
<1> QED BY <1>1, <1>2

LEMMA PoolAsks == ASSUME NEW q, q = <<>> \/ MosRun(q) PROVE q = <<>> \/ Asks(q)
BY MosAsks

\* What zfs_get_root and zfs_mount choose is the only outcome there is.
LEMMA GetRootIs ==
    ASSUME NEW c, NEW bad, NEW f, f = Fetch(c, DefaultRoot.reqs, bad)
    PROVE  zfs_get_root(c, bad) = GotRoot(f, Fetch(Cache(f), RootReqs, bad))
BY Zenon DEF zfs_get_root
LEMMA MountIs ==
    ASSUME NEW ds, NEW c, NEW bad, NEW g, g = RootOr(ds, c, bad)
    PROVE  zfs_mount(ds, c, bad) = Mounted(g, Fetch(Cache(g.f), zfs_mount_dataset(g.v), bad))
BY Zenon DEF zfs_mount

\* RootOr, whatever fails, and when nothing does.
LEMMA RootOrAny ==
    ASSUME NEW ds, NEW c, c.obj \in Addresses \union {None}, NEW bad, NEW g, g = RootOr(ds, c, bad)
    PROVE  /\ g.f.obj \in Addresses \union {None} /\ (ds = 0 => Typed(g.v, {"dataset"})) /\ (ds # 0 => g.v = ds)
<1>1. CASE ds # 0
  <2>1. g.f = Fetch(c, <<>>, bad) /\ g.v = ds BY <1>1 DEF RootOr
  <2>2. g.f.obj = c.obj BY <2>1, FetchNone
  <2> QED BY <1>1, <2>1, <2>2
<1>2. CASE ds = 0
  <2> DEFINE q == DefaultRoot.reqs
             f == Fetch(c, q, bad)
             h == Fetch(Cache(f), RootReqs, bad)
  <2>0. g = GotRoot(f, h) BY <1>2, GetRootIs DEF RootOr
  <2>1. \/ g.f = h /\ g.v = RootHead
        \/ g.f = f /\ g.v = DefaultRoot.v
    BY <2>0 DEF GotRoot
  <2>2. Asks(q) /\ Asks(RootReqs) BY RootRun, MosAsks, RunAsks
  <2>3. f.obj \in Addresses \union {c.obj} BY <2>2, FetchAny
  <2>4. h.obj \in Addresses \union {Cache(f).obj} BY <2>2, FetchAny
  <2>5. Cache(f).obj = f.obj BY FieldsSame
  <2>6. Typed(RootHead, {"dataset"}) /\ Typed(DefaultRoot.v, {"dataset"}) BY RootDataset
  <2> HIDE DEF f, h, q
  <2> QED BY <1>2, <2>1, <2>3, <2>4, <2>5, <2>6
<1> QED BY <1>1, <1>2

LEMMA RootOrRight ==
    ASSUME NEW ds, NEW c, NEW fl, Held(c, fl), NEW g, g = RootOr(ds, c, {})
    PROVE  ~g.f.err /\ ~g.wrong /\ Held(g.f, fl) /\ g.v = (IF ds = 0 THEN DefaultRoot.v ELSE ds)
<1>1. CASE ds # 0
  <2>1. g.f = Fetch(c, <<>>, {}) /\ g.v = ds /\ g.wrong = FALSE BY <1>1 DEF RootOr
  <2>2. ~g.f.err /\ Held(g.f, fl) BY <2>1, FetchPool
  <2> QED BY <1>1, <2>1, <2>2
<1>2. CASE ds = 0
  <2> DEFINE q == DefaultRoot.reqs
             f == Fetch(c, q, {})
  <2>1. MosRun(q) BY RootRun
  <2>2. ~f.err /\ ~Wrong(f, q) /\ Held(f, fl)
    <3> HIDE DEF q
    <3> QED BY <2>1, FetchPool
  <2>0. g = GotRoot(f, Fetch(Cache(f), RootReqs, {})) BY <1>2, GetRootIs DEF RootOr
  <2>3. g = [v |-> DefaultRoot.v, f |-> f, wrong |-> Wrong(f, q)] BY <2>0, <2>2 DEF GotRoot
  <2>4. g.v = DefaultRoot.v /\ g.f = f /\ g.wrong = Wrong(f, q) BY <2>3
  <2> HIDE DEF f, q
  <2> QED BY <1>2, <2>2, <2>4
<1> QED BY <1>1, <1>2

\* zfs_mount.
LEMMA MountAny ==
    ASSUME NEW ds, ds = 0 \/ Typed(ds, {"dataset"}), NEW c, c.obj \in Addresses \union {None}, NEW bad, NEW m, m = zfs_mount(ds, c, bad)
    PROVE  m.f.obj \in Addresses \union {None} /\ Typed(m.v, {"dataset"})
<1> DEFINE g == RootOr(ds, c, bad)
           q == zfs_mount_dataset(g.v)
           x == Cache(g.f)
           f == Fetch(x, q, bad)
<1>1. g.f.obj \in Addresses \union {None} /\ (ds = 0 => Typed(g.v, {"dataset"})) /\ (ds # 0 => g.v = ds)
  <2> HIDE DEF g
  <2>1. g = RootOr(ds, c, bad) BY DEF g
  <2> QED BY <2>1, RootOrAny
<1>0. m = Mounted(g, f) BY MountIs
<1>2. m.v = g.v /\ (m.f = g.f \/ m.f = f) BY <1>0 DEF Mounted
<1>3. Asks(q) BY MosOne, RunAsks DEF zfs_mount_dataset, EndsMos
<1>4. f.obj \in Addresses \union {x.obj}
  <2> HIDE DEF q, x
  <2> QED BY <1>3, FetchAny
<1>5. x.obj = g.f.obj BY FieldsSame
<1> HIDE DEF g, q, x, f
<1> QED BY <1>1, <1>2, <1>4, <1>5

LEMMA MountRight ==
    ASSUME NEW ds, NEW c, NEW fl, Held(c, fl), NEW m, m = zfs_mount(ds, c, {})
    PROVE  /\ ~m.f.err /\ ~m.wrong /\ m.f.obj \in OnStack \union {SpaMos} /\ Fits(m.f, SpaMos, Mos)
           /\ m.v = IF ds = 0 THEN DefaultRoot.v ELSE ds
<1> DEFINE g == RootOr(ds, c, {})
           q == zfs_mount_dataset(g.v)
           x == Cache(g.f)
           f == Fetch(x, q, {})
<1>1. ~g.f.err /\ ~g.wrong /\ Held(g.f, fl) /\ g.v = (IF ds = 0 THEN DefaultRoot.v ELSE ds)
  <2> HIDE DEF g
  <2>1. g = RootOr(ds, c, {}) BY DEF g
  <2> QED BY <2>1, RootOrRight
<1>0. m = Mounted(g, f) BY MountIs
<1>2. m.v = g.v /\ m.f = f /\ m.wrong = (g.wrong \/ Wrong(f, q))
  <2>1. m = [v |-> g.v, f |-> f, wrong |-> g.wrong \/ Wrong(f, q)] BY <1>0, <1>1 DEF Mounted
  <2> HIDE DEF g, q, x, f
  <2> QED BY <2>1
<1>3. MosRun(q) BY MosOne DEF zfs_mount_dataset, MosRun
<1>4. Fits(x, SpaMos, Mos) BY <1>1, FitsSame DEF Held
<1>5. ~f.err /\ ~Wrong(f, q) /\ f.obj \in OnStack \union {SpaMos} /\ Fits(f, SpaMos, Mos)
  <2> HIDE DEF q, x
  <2> QED BY <1>3, <1>4, FetchMos
<1> HIDE DEF g, q, x, f
<1> QED BY <1>1, <1>2, <1>5

\* The dataset that a path is about, and what the path names there.
MeantBy(path) == IF path.ds = 0 THEN DefaultRoot.v ELSE path.ds
\* What Named says of a path.
LEMMA NamedIs ==
    ASSUME NEW path \in AllPaths, NEW fs, fs = Objects[MeantBy(path)].fs
    PROVE  /\ fs # None => fs \in FileSystems /\ Named[path] = Resolve[<<MLINKS + 1, fs, RootOf(fs), path.names>>]
           /\ fs = None => Named[path] = None
<1>1. Typed(MeantBy(path), {"dataset"})
  <2>1. path.ds = 0 \/ Typed(path.ds, {"dataset"}) BY FileAssumption DEF AllPaths
  <2> QED BY <2>1, RootDataset DEF MeantBy
<1>2. fs # None => fs \in FileSystems BY <1>1 DEF Typed, FileSystems
<1>3. Named[path] = IF Objects[MeantBy(path)].fs = None THEN None
                    ELSE Resolve[<<MLINKS + 1, Objects[MeantBy(path)].fs, RootOf(Objects[MeantBy(path)].fs), path.names>>]
  BY DEF Named, AllPaths, MeantBy
<1> QED BY <1>2, <1>3

\* zfs_open keeps the invariant.
LEMMA OpenStep ==
    ASSUME FileInv, NEW s \in Slots, NEW path \in ZPaths, NEW bad \in BadSets, zfs_open(s, path, bad) PROVE FileInv'
<1> DEFINE m == zfs_mount(path.ds, cache, bad)
           f == m.f
           fs == Objects[m.v].fs
<1>1. Types /\ Results BY DEF FileInv
<1>2. Call /\ Faults(bad) /\ UNCHANGED <<files, dev>> BY DEF zfs_open
<1>3. op = Idle /\ ops' \in 0 .. MaxOps BY <1>1, <1>2, CallFacts
<1>4. ffaults' \in 0 .. MaxFaults /\ tainted' \in BOOLEAN /\ (tainted => tainted') /\ (~tainted' => bad = {} /\ ~tainted)
  BY <1>1, <1>2, FaultFacts
<1>6. \/ ~zfs_dev_open(m, bad) /\ cache' = Cache(f) /\ op' = op /\ Opened(path, IF m.wrong THEN Junk ELSE None)
      \/ zfs_dev_open(m, bad) /\ Begin(s, path, fs, Cache(f), bad)
  BY DEF zfs_open
<1>7. s \in Mounts /\ s # "static" /\ path \in AllPaths BY FileAssumption DEF Mounts, AllPaths
<1>m. m = zfs_mount(path.ds, cache, bad) OBVIOUS
<1> HIDE DEF m
<1>9. f.obj \in Addresses \union {None} /\ Typed(m.v, {"dataset"})
  <2>1. path.ds = 0 \/ Typed(path.ds, {"dataset"}) BY FileAssumption
  <2>2. cache.obj \in Addresses \union {None} BY <1>1 DEF Types
  <2> QED BY <1>m, <2>1, <2>2, MountAny
<1>10. ~tainted' => /\ ~f.err /\ ~m.wrong /\ f.obj \in OnStack \union {SpaMos} /\ Fits(f, SpaMos, Mos)
                    /\ m.v = MeantBy(path)
  <2> SUFFICES ASSUME ~tainted'
               PROVE ~f.err /\ ~m.wrong /\ f.obj \in OnStack \union {SpaMos} /\ Fits(f, SpaMos, Mos) /\ m.v = MeantBy(path)
    OBVIOUS
  <2>1. m = zfs_mount(path.ds, cache, {}) /\ Held(cache, files) BY <1>4, <1>m DEF FileInv
  <2> QED BY <2>1, MountRight DEF MeantBy
<1>f. fs # None => fs \in FileSystems BY <1>9 DEF Typed, FileSystems
<1> HIDE DEF f, fs
<1>11. CASE zfs_dev_open(m, bad) /\ Begin(s, path, fs, Cache(f), bad)
  <2> DEFINE c == Cache(f)
  <2>1. c.obj = f.obj BY FieldsSame
  <2>2. fs # None BY <1>11 DEF zfs_dev_open, fs
  <2>4. bad = {} /\ ~tainted => /\ Fits(c, <<"mount", s>>, Meta(fs))
                                /\ Named[path] = Resolve[<<MLINKS + 1, fs, RootOf(fs), path.names>>]
    <3> SUFFICES ASSUME bad = {}, ~tainted
                 PROVE Fits(c, <<"mount", s>>, Meta(fs)) /\ Named[path] = Resolve[<<MLINKS + 1, fs, RootOf(fs), path.names>>]
      OBVIOUS
    <3>1. ~tainted' BY <1>2 DEF Faults
    <3>2. f.obj # <<"mount", s>> BY <1>7, <1>10, <3>1, AddressFacts DEF Mounts
    <3>3. fs = Objects[MeantBy(path)].fs BY <1>10, <3>1 DEF fs
    <3>4. Named[path] = Resolve[<<MLINKS + 1, fs, RootOf(fs), path.names>>] BY <1>7, <2>2, <3>3, NamedIs
    <3> QED BY <2>1, <3>2, <3>4 DEF Fits
  <2> HIDE DEF c
  <2>5. Begin(s, path, fs, c, bad) /\ c.obj \in Addresses \union {None} BY <1>9, <1>11, <2>1 DEF c
  <2> QED BY <1>2, <1>7, <1>f, <2>2, <2>4, <2>5, BeginStep
<1>12. CASE ~zfs_dev_open(m, bad) /\ cache' = Cache(f) /\ op' = op /\ Opened(path, IF m.wrong THEN Junk ELSE None)
  <2>1. cache'.obj = f.obj BY <1>12, FieldsSame
  <2>2. Types' BY <1>1, <1>2, <1>3, <1>4, <1>9, <1>12, <2>1 DEF Types
  <2>3. Results'
    <3>1. ~tainted' => (IF m.wrong THEN Junk ELSE None) = Named[path]
      <4> SUFFICES ASSUME ~tainted' PROVE (IF m.wrong THEN Junk ELSE None) = Named[path] OBVIOUS
      <4>1. fs = None /\ fs = Objects[MeantBy(path)].fs BY <1>4, <1>10, <1>12 DEF zfs_dev_open, fs, f
      <4>2. Named[path] = None BY <1>7, <4>1, NamedIs
      <4> QED BY <1>10, <4>2
    <3> QED BY <1>12, <3>1, ResultOpen
  <2>4. op'.k # "lookup" BY <1>3, <1>12 DEF Idle
  <2>5. ~tainted' => Held(cache', files')
    <3> SUFFICES ASSUME ~tainted' PROVE Held(cache', files') OBVIOUS
    <3>1. Held(f, files') BY <1>10, HeldStack
    <3> QED BY <1>12, <3>1, HeldCache
  <2>6. /\ (~tainted /\ dev # None => DevOK(dev))'
        /\ (\A t \in Slots : files[t] # None /\ Dir(files[t].dn) /\ ~files[t].done => Shown(files[t]))'
    BY <1>2, <1>4, OthersKept
  <2> QED BY <2>2, <2>3, <2>4, <2>5, <2>6 DEF FileInv
<1> QED BY <1>6, <1>11, <1>12

\* The command `?' keeps the invariant.
LEMMA ListStep == ASSUME FileInv, NEW path \in ListPaths, NEW bad \in BadSets, list(path, bad) PROVE FileInv'
<1>1. Call /\ Faults(bad) /\ UNCHANGED <<files, dev>> /\ Begin("static", path, Fs0, cache, bad) BY DEF list, Fs0
<1>2. path \in AllPaths /\ "static" \in Mounts BY DEF AllPaths, Mounts
<1>3. path.ds = 0 BY FileAssumption
<1>4. Fs0 # None BY BootfsAssumption DEF Fs0
<1>5. Fs0 = Objects[MeantBy(path)].fs BY <1>3 DEF MeantBy, Fs0
<1>6. Fs0 \in FileSystems /\ Named[path] = Resolve[<<MLINKS + 1, Fs0, RootOf(Fs0), path.names>>] BY <1>2, <1>4, <1>5, NamedIs
<1>7. cache.obj \in Addresses \union {None} BY DEF FileInv, Types
<1>8. ~tainted => Fits(cache, <<"mount", "static">>, Meta(Fs0)) BY DEF FileInv, Held
<1> QED BY <1>1, <1>2, <1>6, <1>7, <1>8, BeginStep

-----------------------------------------------------------------------------
(* The loop of zfs_lookup. *)

\* The object of a directory that can be read has attributes.
LEMMA DirStat == ASSUME NEW o, Dir(o) PROVE zfs_dnode_stat(o, {}) <=> Objects[o].attr # "none"
<1>1. o \in DOMAIN Objects /\ Objects[o].type = "dir" BY DEF Dir
<1>2. ObjectOK(o) BY <1>1, FileAssumption
<1>3. Objects[o].attr \in {"znode", "bonus", "spill", "none"} BY <1>1, <1>2 DEF ObjectOK
<1> QED BY <1>1, <1>3 DEF zfs_dnode_stat

LookFrom(o, v) == IF Objects[v].target.abs THEN RootOf(o.fs) ELSE o.obj
\* What one round of the loop makes of the meaning of what is left of the path.
LEMMA LookMeans ==
    ASSUME NEW o \in LookRec, o.links <= MLINKS + 1, o.p # <<>>, NEW v, v = Entry(o.obj, Head(o.p)),
           NEW r, r = Resolve[<<MLINKS + 1 - o.links, o.fs, o.obj, o.p>>]
    PROVE  /\ ~(zfs_dnode_stat(o.obj, {}) /\ Dir(o.obj)) => r = None
           /\ v = None \/ ~zfs_dnode_stat(v, {}) => r = None
           /\ zfs_dnode_stat(o.obj, {}) /\ Dir(o.obj) /\ v # None /\ zfs_dnode_stat(v, {}) =>
                 /\ ~Link(v) => r = Resolve[<<MLINKS + 1 - o.links, o.fs, v, Tail(o.p)>>]
                 /\ Link(v) /\ ~MoreLinks(o.links) => r = None
                 /\ Link(v) /\ MoreLinks(o.links) =>
                       r = Resolve[<<MLINKS + 1 - (o.links + 1), o.fs, LookFrom(o, v), Objects[v].target.names \o Tail(o.p)>>]
<1> DEFINE n == MLINKS + 1 - o.links
           a == <<n, o.fs, o.obj, o.p>>
           ok == zfs_dnode_stat(o.obj, {}) /\ Dir(o.obj)
<1>1. n \in Nat /\ o.fs \in FileSystems /\ o.obj \in DOMAIN Objects /\ o.p \in Seq(STRING) /\ o.links \in Nat BY DEF LookRec, MLINKS
<1>2. MoreLinks(o.links) <=> n # 0 BY <1>1 DEF MoreLinks, MLINKS
<1>3. MLINKS + 1 - (o.links + 1) = n - 1 BY <1>1 DEF MLINKS
<1>r. r = Resolve[a] OBVIOUS
<1> HIDE DEF n
<1>4. a \in Args BY <1>1, MakeArgs
<1>5. a[1] = n /\ a[2] = o.fs /\ a[3] = o.obj /\ a[4] = o.p OBVIOUS
<1> HIDE DEF a
<1>6. Resolve[a] = IF Stops(a) THEN Value(a) ELSE Resolve[Call4(a)] BY <1>4, ResolveIs
<1>7. Value(a) = None BY <1>5 DEF Value
<1>8. ok => Found(a) = v BY <1>5, DirStat DEF Found
<1>9. ~ok => Found(a) = None BY <1>5, DirStat DEF Found
<1>10. ASSUME ~ok PROVE r = None
  <2>1. Stops(a) BY <1>9, <1>10 DEF Stops
  <2> QED BY <2>1, <1>r, <1>6, <1>7
<1>11. ASSUME v = None \/ ~zfs_dnode_stat(v, {}) PROVE r = None
  <2>1. Stops(a) BY <1>8, <1>9, <1>11 DEF Stops
  <2> QED BY <2>1, <1>r, <1>6, <1>7
<1>12. ASSUME ok, v # None, zfs_dnode_stat(v, {}), ~Link(v) PROVE r = Resolve[<<n, o.fs, v, Tail(o.p)>>]
  <2>1. ~Stops(a) BY <1>5, <1>8, <1>12 DEF Stops
  <2>2. Call4(a) = <<n, o.fs, v, Tail(o.p)>> BY <1>5, <1>8, <1>12 DEF Call4
  <2> QED BY <2>1, <2>2, <1>r, <1>6
<1>13. ASSUME ok, v # None, zfs_dnode_stat(v, {}), Link(v), ~MoreLinks(o.links) PROVE r = None
  <2>1. Stops(a) BY <1>2, <1>5, <1>8, <1>13 DEF Stops
  <2> QED BY <2>1, <1>r, <1>6, <1>7
<1>14. ASSUME ok, v # None, zfs_dnode_stat(v, {}), Link(v), MoreLinks(o.links)
       PROVE  r = Resolve[<<n - 1, o.fs, LookFrom(o, v), Objects[v].target.names \o Tail(o.p)>>]
  <2>1. ~Stops(a) BY <1>2, <1>5, <1>8, <1>14 DEF Stops
  <2>2. Call4(a) = <<n - 1, o.fs, LookFrom(o, v), Objects[v].target.names \o Tail(o.p)>>
    BY <1>5, <1>8, <1>14 DEF Call4, Target, LookFrom
  <2> QED BY <2>1, <2>2, <1>r, <1>6
<1> HIDE DEF ok
<1>15. ok <=> zfs_dnode_stat(o.obj, {}) /\ Dir(o.obj) BY DEF ok
<1>16. n = MLINKS + 1 - o.links BY DEF n
<1>17. ~(zfs_dnode_stat(o.obj, {}) /\ Dir(o.obj)) => r = None BY <1>10, <1>15
<1>18. v = None \/ ~zfs_dnode_stat(v, {}) => r = None BY <1>11
<1>19. ASSUME zfs_dnode_stat(o.obj, {}), Dir(o.obj), v # None, zfs_dnode_stat(v, {})
       PROVE  /\ ~Link(v) => r = Resolve[<<MLINKS + 1 - o.links, o.fs, v, Tail(o.p)>>]
              /\ Link(v) /\ ~MoreLinks(o.links) => r = None
              /\ Link(v) /\ MoreLinks(o.links) =>
                    r = Resolve[<<MLINKS + 1 - (o.links + 1), o.fs, LookFrom(o, v), Objects[v].target.names \o Tail(o.p)>>]
  <2>1. ok BY <1>15, <1>19
  <2>2. ~Link(v) => r = Resolve[<<MLINKS + 1 - o.links, o.fs, v, Tail(o.p)>>] BY <1>12, <1>16, <1>19, <2>1
  <2>3. Link(v) /\ ~MoreLinks(o.links) => r = None BY <1>13, <1>19, <2>1
  <2>4. Link(v) /\ MoreLinks(o.links) =>
           r = Resolve[<<MLINKS + 1 - (o.links + 1), o.fs, LookFrom(o, v), Objects[v].target.names \o Tail(o.p)>>]
    BY <1>3, <1>14, <1>19, <2>1
  <2> QED BY <2>2, <2>3, <2>4
<1> QED BY <1>17, <1>18, <1>19

Quiet == UNCHANGED <<files, ops, dev, ffaults, tainted>>
\* A lookup that fails.
LEMMA LookEnd ==
    ASSUME FileInv, Quiet, NEW dn, Fail(dn), cache'.obj \in Addresses \union {None},
           ~tainted => dn = Named[op.path] /\ Held(cache', files)
    PROVE  FileInv'
<1>1. Types /\ Results BY DEF FileInv
<1>2. op' = Idle /\ Opened(op.path, dn) BY DEF Fail
<1>3. Types' BY <1>1, <1>2 DEF Types, Quiet
<1>4. Results' BY <1>2, ResultOpen DEF Quiet
<1>5. op'.k # "lookup" BY <1>2 DEF Idle
<1>6. /\ (~tainted /\ dev # None => DevOK(dev))'
      /\ (\A t \in Slots : files[t] # None /\ Dir(files[t].dn) /\ ~files[t].done => Shown(files[t]))'
  BY OthersKept DEF Quiet
<1>7. ~tainted' => Held(cache', files') BY DEF Quiet
<1> QED BY <1>3, <1>4, <1>5, <1>6, <1>7 DEF FileInv

\* A lookup that goes on.
LEMMA LookGoes ==
    ASSUME FileInv, Quiet, op \in LookRec, op' \in LookRec, op'.slot = op.slot, op'.fs = op.fs, result' = result,
           cache'.obj \in Addresses \union {None}, ~tainted => LookOK(op', cache') /\ Held(cache', files)
    PROVE  FileInv'
<1>1. Types /\ Results BY DEF FileInv
<1>0. op.k = "lookup" BY DEF LookRec
<1>2. op.slot = "static" => op.fs = Fs0
  <2>1. op \notin {Idle, Overrun} BY <1>0 DEF Idle, Overrun
  <2> QED BY <1>1, <2>1 DEF Types
<1>3. Types' BY <1>1, <1>2 DEF Types, Quiet
<1>4. Results' BY <1>1, ResultsKept DEF Quiet
<1>6. /\ (~tainted /\ dev # None => DevOK(dev))'
      /\ (\A t \in Slots : files[t] # None /\ Dir(files[t].dn) /\ ~files[t].done => Shown(files[t]))'
  BY OthersKept DEF Quiet
<1>7. ~tainted' => LookOK(op', cache') /\ Held(cache', files') BY DEF Quiet
<1> QED BY <1>3, <1>4, <1>6, <1>7 DEF FileInv

\* A lookup that does not return.
LEMMA LookOver ==
    ASSUME FileInv, Quiet, op' = Overrun, result' = result, cache'.obj \in Addresses \union {None}, ~tainted => Held(cache', files)
    PROVE  FileInv'
<1>1. Types /\ Results BY DEF FileInv
<1>2. Types' BY <1>1 DEF Types, Quiet
<1>3. Results' BY <1>1, ResultsKept DEF Quiet
<1>4. op'.k # "lookup" BY DEF Overrun
<1>5. /\ (~tainted /\ dev # None => DevOK(dev))'
      /\ (\A t \in Slots : files[t] # None /\ Dir(files[t].dn) /\ ~files[t].done => Shown(files[t]))'
  BY OthersKept DEF Quiet
<1>6. ~tainted' => Held(cache', files') BY DEF Quiet
<1> QED BY <1>2, <1>3, <1>4, <1>5, <1>6 DEF FileInv

\* Following a link.
LEMMA FollowStep ==
    ASSUME FileInv, Quiet, op \in LookRec, op.p # <<>>, NEW v, Link(v), v \in DOMAIN Objects, MoreLinks(op.links), NEW f, Follow(v, f, op.bad),
           f.obj \in Addresses \union {None},
           ~tainted => Held(f, files),
           ~tainted => /\ f.obj = <<"mount", op.slot>> /\ f.buf = <<Meta(op.fs), f.bn>>
                       /\ Resolve[<<MLINKS + 1 - (op.links + 1), op.fs, LookFrom(op, v), Objects[v].target.names \o Tail(op.p)>>] = Named[op.path]
    PROVE  FileInv'
<1> DEFINE t == Objects[v].target
           from == LookFrom(op, v)
           q == TargetReqs(v)
           h == Fetch(Cache(f), q, op.bad)
           q2 == FsDnode(op.slot, op.fs, from)
           g == Fetch(Cache(h), q2, op.bad)
           l == <<"local", "dn">>
           mnt == <<"mount", op.slot>>
           ps == t.names \o Tail(op.p)
           ln == Counted(op.links)
           d == IF g.err THEN v ELSE from
           start == [slashes |-> (IF t.abs THEN 1 ELSE 0) + (IF t.names = <<>> THEN 1 ELSE 0), passed |-> <<>>]
<1>0. CASE Overruns(v)
  <2>1. op' = Overrun /\ cache' = Cache(f) /\ result' = result BY <1>0 DEF Follow, Overrun
  <2>2. cache'.obj = f.obj BY <2>1, FieldsSame
  <2>3. ~tainted => Held(cache', files) BY <2>1, HeldCache
  <2> QED BY <2>1, <2>2, <2>3, LookOver
<1> SUFFICES ASSUME ~Overruns(v) PROVE FileInv' BY <1>0
<1>s. start \in Places
  <2>1. (IF t.abs THEN 1 ELSE 0) + (IF t.names = <<>> THEN 1 ELSE 0) \in Nat /\ <<>> \in Seq(STRING) OBVIOUS
  <2> QED BY <2>1 DEF Places
<1>1. \/ (h.err \/ Wrong(h, q)) /\ Fail(IF h.err THEN None ELSE Junk) /\ cache' = Cache(h)
      \/ /\ ~h.err /\ ~Wrong(h, q) /\ cache' = Cache(g) /\ result' = result
         /\ op' = [op EXCEPT !.dn = d, !.obj = from, !.p = ps, !.at = start, !.links = ln]
  <2>1. \E h0 \in {h} :
          IF h0.err \/ Wrong(h0, q) THEN Fail(IF h0.err THEN None ELSE Junk) /\ cache' = Cache(h0) ELSE
          \E g0 \in {Fetch(Cache(h0), FsDnode(op.slot, op.fs, from), op.bad)} :
             /\ op' = [op EXCEPT !.dn = IF g0.err THEN v ELSE from, !.obj = from, !.p = t.names \o Tail(@), !.at = start, !.links = Counted(@)]
             /\ cache' = Cache(g0) /\ UNCHANGED result
    BY DEF Follow, LookFrom
  <2>3. g = Fetch(Cache(h), FsDnode(op.slot, op.fs, from), op.bad) OBVIOUS
  <2> HIDE DEF t, from, h, g, q, start
  <2>4. IF h.err \/ Wrong(h, q) THEN Fail(IF h.err THEN None ELSE Junk) /\ cache' = Cache(h) ELSE
          \E g0 \in {g} :
             /\ op' = [op EXCEPT !.dn = IF g0.err THEN v ELSE from, !.obj = from, !.p = t.names \o Tail(@), !.at = start, !.links = Counted(@)]
             /\ cache' = Cache(g0) /\ UNCHANGED result
    BY <2>1, <2>3
  <2> QED BY <2>4
<1>2. op.slot \in Mounts /\ op.fs \in FileSystems /\ op.obj \in DOMAIN Objects /\ op.p \in Seq(STRING) /\ op.links \in Nat BY DEF LookRec
<1>3. from \in DOMAIN Objects BY <1>2, FsFacts DEF LookFrom
<1>4. ps \in Seq(STRING)
  <2>1. t.names \in Seq(STRING) BY LinkFacts
  <2>2. Tail(op.p) \in Seq(STRING) BY <1>2, SeqTail
  <2> QED BY <2>1, <2>2, SeqJoin
<1>5. ln \in Nat /\ ln = op.links + 1 /\ ln <= MLINKS + 1 BY <1>2 DEF Counted, MoreLinks, MLINKS
<1>6. d \in DOMAIN Objects BY <1>3
<1>7. l \in OnStack /\ l \in Addresses /\ mnt \in Addresses /\ l # mnt /\ l # SpaMos BY <1>2, AddressFacts DEF Mounts
<1>8. q = <<>> \/ Runs(q, l, v, l, v) BY <1>7, RunOne DEF TargetReqs
<1>9. Runs(q2, mnt, Meta(op.fs), mnt, Meta(op.fs)) BY <1>2, FsDnodeRun
<1>r. ~tainted => f.obj = mnt /\ f.buf = <<Meta(op.fs), f.bn>> /\ Resolve[<<MLINKS + 1 - ln, op.fs, from, ps>>] = Named[op.path]
  BY <1>5
<1>b. ~tainted => op.bad = {}
  <2>1. op.k = "lookup" BY DEF LookRec
  <2> QED BY <2>1 DEF FileInv, LookOK
<1>h. h = Fetch(Cache(f), q, op.bad) /\ g = Fetch(Cache(h), q2, op.bad) OBVIOUS
<1>d. d = IF g.err THEN v ELSE from OBVIOUS
<1> HIDE DEF t, from, q, h, q2, g, l, ps, ln, d, start
<1>10. h.obj \in Addresses \union {None}
  <2>1. Cache(f).obj = f.obj BY FieldsSame
  <2>2. CASE q = <<>> BY <2>1, <2>2, <1>h, FetchNone
  <2>3. CASE Runs(q, l, v, l, v)
    <3>1. Asks(q) BY <2>3, RunAsks
    <3> QED BY <2>1, <3>1, <1>h, FetchAny
  <2> QED BY <1>8, <2>2, <2>3
<1>11. g.obj \in Addresses \union {None}
  <2>1. Cache(h).obj = h.obj BY FieldsSame
  <2>2. Asks(q2) BY <1>9, RunAsks
  <2> QED BY <1>10, <2>1, <2>2, <1>h, FetchAny
<1>12. ~tainted => ~h.err /\ ~Wrong(h, q) /\ Fits(h, mnt, Meta(op.fs))
  <2> SUFFICES ASSUME ~tainted PROVE ~h.err /\ ~Wrong(h, q) /\ Fits(h, mnt, Meta(op.fs)) OBVIOUS
  <2>1. Cache(f).obj = mnt /\ Cache(f).buf = <<Meta(op.fs), Cache(f).bn>> /\ Cache(f).bn = f.bn /\ Cache(f).buf = f.buf BY <1>r, FieldsSame
  <2>2. CASE q = <<>>
    <3>1. Acc(h) /\ ~h.err /\ h.obj = Cache(f).obj /\ h.bn = Cache(f).bn /\ h.buf = Cache(f).buf /\ Len(h.bufs) = 0
      BY <1>h, <2>2, FetchNone
    <3>2. DOMAIN h.bufs = {} BY <3>1, SeqFacts DEF Acc
    <3> QED BY <2>1, <3>1, <3>2 DEF Wrong, Fits
  <2>3. CASE Runs(q, l, v, l, v)
    <3>1. Fits(Cache(f), l, v) BY <1>7, <2>1 DEF Fits
    <3>2. h = Fetch(Cache(f), q, {}) BY <1>b, <1>h
    <3> DEFINE c == Cache(f)
    <3> HIDE DEF c
    <3>3. ~h.err /\ ~Wrong(h, q) /\ h.obj = l BY <2>3, <3>1, <3>2, FetchRun DEF c
    <3> QED BY <1>7, <3>3 DEF Fits
  <2> QED BY <1>8, <2>2, <2>3
<1>13. ~tainted => ~g.err /\ g.obj = mnt /\ g.buf = <<Meta(op.fs), g.bn>>
  <2> SUFFICES ASSUME ~tainted PROVE ~g.err /\ g.obj = mnt /\ g.buf = <<Meta(op.fs), g.bn>> OBVIOUS
  <2>1. Fits(Cache(h), mnt, Meta(op.fs)) BY <1>12, FitsSame
  <2>2. g = Fetch(Cache(h), q2, {}) BY <1>b, <1>h
  <2> QED BY <1>9, <2>1, <2>2, FetchRun
<1>14. CASE (h.err \/ Wrong(h, q)) /\ Fail(IF h.err THEN None ELSE Junk) /\ cache' = Cache(h)
  <2>1. cache'.obj = h.obj BY <1>14, FieldsSame
  <2>2. tainted BY <1>12, <1>14 DEF FileInv, Types
  <2> QED BY <1>10, <1>14, <2>1, <2>2, LookEnd
<1>15. CASE /\ ~h.err /\ ~Wrong(h, q) /\ cache' = Cache(g) /\ result' = result
            /\ op' = [op EXCEPT !.dn = d, !.obj = from, !.p = ps, !.at = start, !.links = ln]
  <2>1. cache'.obj = g.obj /\ cache'.bn = g.bn /\ cache'.buf = g.buf BY <1>15, FieldsSame
  <2>2. /\ op' \in LookRec /\ op'.slot = op.slot /\ op'.fs = op.fs /\ op'.bad = op.bad /\ op'.path = op.path
        /\ op'.dn = d /\ op'.obj = from /\ op'.p = ps /\ op'.links = ln
    <3> DEFINE new == [op EXCEPT !.dn = d, !.obj = from, !.p = ps, !.at = start, !.links = ln]
    <3>1. op' = new BY <1>15
    <3>2. /\ new \in LookRec /\ new.slot = op.slot /\ new.fs = op.fs /\ new.bad = op.bad /\ new.path = op.path
          /\ new.dn = d /\ new.obj = from /\ new.p = ps /\ new.links = ln
      BY <1>s, <1>3, <1>4, <1>5, <1>6 DEF LookRec
    <3> HIDE DEF new
    <3> QED BY <3>1, <3>2
  <2>3. ~tainted => LookOK(op', cache') /\ Held(cache', files)
    <3> SUFFICES ASSUME ~tainted PROVE LookOK(op', cache') /\ Held(cache', files) OBVIOUS
    <3>1. LookOK(op', cache') BY <1>5, <1>b, <1>d, <1>r, <1>13, <2>1, <2>2 DEF LookOK
    <3>2. op.slot = "static" => op.fs = Fs0
      <4>1. op \notin {Idle, Overrun} BY DEF Idle, Overrun, LookRec
      <4> QED BY <4>1 DEF FileInv, Types
    <3>3. Held(cache', files) BY <1>2, <1>13, <2>1, <3>2, HeldMount
    <3> QED BY <3>1, <3>3
  <2> QED BY <1>11, <1>15, <2>1, <2>2, <2>3, LookGoes
<1> QED BY <1>1, <1>14, <1>15

\* A name has been passed.
LEMMA PlacePassed == ASSUME NEW x \in Places, NEW y \in STRING PROVE Pass(x, y) \in Places
<1>1. CASE x = None BY <1>1 DEF Pass, Places
<1>2. CASE x # None
  <2>1. x \in [slashes : Nat, passed : Seq(STRING)] BY <1>2 DEF Places
  <2>2. Append(x.passed, y) \in Seq(STRING) BY <2>1
  <2>3. [x EXCEPT !.passed = Append(@, y)] \in [slashes : Nat, passed : Seq(STRING)] BY <2>1, <2>2
  <2> QED BY <1>2, <2>3 DEF Pass, Places
<1> QED BY <1>1, <1>2

\* One round of the loop keeps the invariant.
LEMMA LookupStep == ASSUME FileInv, op.k = "lookup", zfs_lookup(op.bad) PROVE FileInv'
<1> DEFINE v == Entry(op.dn, Head(op.p))
           l == <<"local", "dn">>
           mnt == <<"mount", op.slot>>
           z == zap_lookup(l, op.dn, Head(op.p))
           q == z \o (IF v = None THEN <<>> ELSE FsDnode(op.slot, op.fs, v))
           f == Fetch(cache, q, op.bad)
           ok == zfs_dnode_stat(op.dn, op.bad) /\ Dir(op.dn)
           old == Named[op.path]
<1>1. Types /\ Results BY DEF FileInv
<1>2. op \in LookRec /\ (op.slot = "static" => op.fs = Fs0)
  <2>1. op \notin {Idle, Overrun} BY DEF Idle, Overrun
  <2> QED BY <1>1, <2>1 DEF Types
<1>3. Quiet /\ op.p # <<>> BY DEF zfs_lookup, Quiet
<1>4. \/ ~ok /\ Fail(None) /\ cache' = cache
      \/ ok /\ IF f.err THEN Fail(None) /\ cache' = Cache(f)
               ELSE IF Wrong(f, q) THEN Fail(Junk) /\ cache' = Cache(f)
               ELSE IF v = None \/ ~zfs_dnode_stat(v, op.bad) THEN Fail(None) /\ cache' = Cache(f)
               ELSE IF ~Link(v) THEN op' = [op EXCEPT !.dn = v, !.obj = v, !.p = Tail(@), !.at = Pass(@, Head(op.p))] /\ cache' = Cache(f) /\ UNCHANGED result
               ELSE IF ~MoreLinks(op.links) THEN Fail(None) /\ cache' = Cache(f)
               ELSE Follow(v, f, op.bad)
  BY DEF zfs_lookup
<1>5. op.slot \in Mounts /\ op.fs \in FileSystems /\ op.dn \in DOMAIN Objects /\ op.p \in Seq(STRING) /\ op.links \in Nat BY <1>2 DEF LookRec
<1>6. l \in OnStack /\ l \in Addresses /\ mnt \in Addresses /\ l # mnt /\ l # SpaMos BY <1>5, AddressFacts DEF Mounts
<1>7. Runs(z, l, op.dn, l, op.dn) BY <1>6, RunZap
<1>8. \/ v = None /\ Runs(q, l, op.dn, l, op.dn)
      \/ v # None /\ Runs(q, l, op.dn, mnt, Meta(op.fs))
  <2>1. CASE v = None
    <3>1. IsSeq(z) BY <1>7 DEF Runs, Chain
    <3>2. q = z BY <2>1, <3>1, JoinEmpty
    <3> QED BY <1>7, <2>1, <3>2
  <2>2. CASE v # None
    <3> HIDE DEF z
    <3>1. q = z \o FsDnode(op.slot, op.fs, v) BY <2>2
    <3>2. Runs(z \o FsDnode(op.slot, op.fs, v), l, op.dn, mnt, Meta(op.fs)) BY <1>5, <1>7, MountRuns
    <3> QED BY <2>2, <3>1, <3>2
  <2> QED BY <2>1, <2>2
<1>9. ~tainted => /\ op.bad = {} /\ op.dn = op.obj /\ op.links <= MLINKS + 1 /\ cache.obj = mnt
                  /\ Resolve[<<MLINKS + 1 - op.links, op.fs, op.obj, op.p>>] = old /\ Held(cache, files)
  BY DEF FileInv, LookOK
<1>v. v = Entry(op.dn, Head(op.p)) OBVIOUS
<1> HIDE DEF v, l, z, q, f, mnt, old
<1>10. f.obj \in Addresses \union {None}
  <2>1. Asks(q) BY <1>8, RunAsks
  <2> QED BY <1>1, <2>1, FetchAny DEF f, Types
<1>11. ~tainted => /\ ~f.err /\ ~Wrong(f, q)
                   /\ f.obj = l \/ (f.obj = mnt /\ f.buf = <<Meta(op.fs), f.bn>>)
                   /\ v # None => f.obj = mnt
                   /\ Held(f, files)
  <2> SUFFICES ASSUME ~tainted
               PROVE  /\ ~f.err /\ ~Wrong(f, q)
                      /\ f.obj = l \/ (f.obj = mnt /\ f.buf = <<Meta(op.fs), f.bn>>)
                      /\ v # None => f.obj = mnt
                      /\ Held(f, files)
    OBVIOUS
  <2>1. f = Fetch(cache, q, {}) BY <1>9 DEF f
  <2>2. Fits(cache, l, op.dn) BY <1>6, <1>9 DEF Fits
  <2>3. CASE v = None /\ Runs(q, l, op.dn, l, op.dn)
    <3>1. ~f.err /\ ~Wrong(f, q) /\ f.obj = l BY <2>1, <2>2, <2>3, FetchRun
    <3>2. Fits(f, SpaMos, Mos) BY <1>6, <3>1 DEF Fits
    <3>3. Held(f, files) BY <1>6, <3>1, <3>2, HeldStack
    <3> QED BY <2>3, <3>1, <3>3
  <2>4. CASE v # None /\ Runs(q, l, op.dn, mnt, Meta(op.fs))
    <3>1. ~f.err /\ ~Wrong(f, q) /\ f.obj = mnt /\ f.buf = <<Meta(op.fs), f.bn>> BY <2>1, <2>2, <2>4, FetchRun
    <3>2. Held(f, files) BY <1>2, <1>5, <3>1, HeldMount DEF mnt
    <3> QED BY <3>1, <3>2
  <2> QED BY <1>8, <2>3, <2>4
<1>12. ~tainted => /\ ~ok => old = None
                   /\ v = None \/ ~zfs_dnode_stat(v, op.bad) => old = None
                   /\ ok /\ v # None /\ zfs_dnode_stat(v, op.bad) =>
                         /\ ~Link(v) => old = Resolve[<<MLINKS + 1 - op.links, op.fs, v, Tail(op.p)>>]
                         /\ Link(v) /\ ~MoreLinks(op.links) => old = None
                         /\ Link(v) /\ MoreLinks(op.links) =>
                               old = Resolve[<<MLINKS + 1 - (op.links + 1), op.fs, LookFrom(op, v), Objects[v].target.names \o Tail(op.p)>>]
  <2> SUFFICES ASSUME ~tainted
      PROVE /\ ~ok => old = None
            /\ v = None \/ ~zfs_dnode_stat(v, {}) => old = None
            /\ ok /\ v # None /\ zfs_dnode_stat(v, {}) =>
                  /\ ~Link(v) => old = Resolve[<<MLINKS + 1 - op.links, op.fs, v, Tail(op.p)>>]
                  /\ Link(v) /\ ~MoreLinks(op.links) => old = None
                  /\ Link(v) /\ MoreLinks(op.links) =>
                        old = Resolve[<<MLINKS + 1 - (op.links + 1), op.fs, LookFrom(op, v), Objects[v].target.names \o Tail(op.p)>>]
    BY <1>9
  <2>1. v = Entry(op.obj, Head(op.p)) /\ op.links <= MLINKS + 1 /\ old = Resolve[<<MLINKS + 1 - op.links, op.fs, op.obj, op.p>>] BY <1>9, <1>v
  <2>2. ok <=> zfs_dnode_stat(op.obj, {}) /\ Dir(op.obj) BY <1>9
  <2> HIDE DEF ok
  <2> QED BY <1>2, <1>3, <2>1, <2>2, LookMeans
<1>t. tainted \in BOOLEAN BY <1>1 DEF Types
<1> HIDE DEF ok
<1>13. ASSUME NEW dn, Fail(dn), cache' = Cache(f), ~tainted => dn = old PROVE FileInv'
  <2>1. cache'.obj = f.obj BY <1>13, FieldsSame
  <2>2. ~tainted => Held(cache', files) BY <1>11, <1>13, HeldCache
  <2> QED BY <1>3, <1>10, <1>13, <2>1, <2>2, LookEnd DEF old
<1>14. CASE ~ok /\ Fail(None) /\ cache' = cache
  <2>1. cache'.obj \in Addresses \union {None} BY <1>1, <1>14 DEF Types
  <2>2. ~tainted => None = Named[op.path] /\ Held(cache', files) BY <1>9, <1>12, <1>14 DEF old
  <2> QED BY <1>3, <1>14, <2>1, <2>2, LookEnd
<1>15. CASE ok /\ f.err /\ Fail(None) /\ cache' = Cache(f) BY <1>11, <1>13, <1>15
<1>16. CASE ok /\ Wrong(f, q) /\ Fail(Junk) /\ cache' = Cache(f) BY <1>11, <1>13, <1>16
<1>17. CASE (v = None \/ ~zfs_dnode_stat(v, op.bad)) /\ Fail(None) /\ cache' = Cache(f) BY <1>12, <1>13, <1>17
<1>18. CASE ok /\ v # None /\ zfs_dnode_stat(v, op.bad) /\ ~Link(v) /\ op' = [op EXCEPT !.dn = v, !.obj = v, !.p = Tail(@), !.at = Pass(@, Head(op.p))]
            /\ cache' = Cache(f) /\ result' = result
  <2> DEFINE ps == Tail(op.p)
             at == Pass(op.at, Head(op.p))
             new == [op EXCEPT !.dn = v, !.obj = v, !.p = ps, !.at = at]
  <2>1. op' = new BY <1>18
  <2>2. ps \in Seq(STRING) BY <1>3, <1>5, SeqTail
  <2>p. ps = Tail(op.p) OBVIOUS
  <2>3. v \in DOMAIN Objects BY <1>18, StatKnown
  <2>a. at \in Places
    <3>1. op.at \in Places BY <1>2 DEF LookRec
    <3>2. Head(op.p) \in STRING BY <1>3, <1>5, SeqTail
    <3> DEFINE x == op.at
               y == Head(op.p)
    <3>3. x \in Places /\ y \in STRING BY <3>1, <3>2
    <3> HIDE DEF x, y
    <3>4. Pass(x, y) \in Places BY <3>3, PlacePassed
    <3> QED BY <3>4 DEF x, y
  <2> HIDE DEF ps, at
  <2>4. /\ new \in LookRec /\ new.slot = op.slot /\ new.fs = op.fs /\ new.bad = op.bad /\ new.path = op.path
        /\ new.dn = v /\ new.obj = v /\ new.p = ps /\ new.links = op.links
    BY <1>2, <2>2, <2>3, <2>a DEF LookRec
  <2> HIDE DEF new
  <2>5. cache'.obj = f.obj BY <1>18, FieldsSame
  <2>6. ~tainted => LookOK(op', cache') /\ Held(cache', files)
    <3> SUFFICES ASSUME ~tainted PROVE LookOK(op', cache') /\ Held(cache', files) OBVIOUS
    <3>1. old = Resolve[<<MLINKS + 1 - op.links, op.fs, v, ps>>] BY <1>12, <1>18, <2>p
    <3>2. f.obj = mnt BY <1>11, <1>18
    <3>3. LookOK(op', cache') BY <1>9, <2>1, <2>4, <2>5, <3>1, <3>2 DEF LookOK, old, mnt
    <3>4. Held(cache', files) BY <1>11, <1>18, HeldCache
    <3> QED BY <3>3, <3>4
  <2> QED BY <1>2, <1>3, <1>10, <1>18, <2>1, <2>4, <2>5, <2>6, LookGoes
<1>19. CASE ok /\ v # None /\ zfs_dnode_stat(v, op.bad) /\ Link(v) /\ ~MoreLinks(op.links) /\ Fail(None) /\ cache' = Cache(f)
  BY <1>12, <1>13, <1>19
<1>20. CASE ok /\ v # None /\ zfs_dnode_stat(v, op.bad) /\ Link(v) /\ MoreLinks(op.links) /\ Follow(v, f, op.bad)
  <2>1. v \in DOMAIN Objects BY <1>20, StatKnown
  <2>2. ~tainted => /\ f.obj = <<"mount", op.slot>> /\ f.buf = <<Meta(op.fs), f.bn>>
                    /\ Resolve[<<MLINKS + 1 - (op.links + 1), op.fs, LookFrom(op, v), Objects[v].target.names \o Tail(op.p)>>] = Named[op.path]
    BY <1>6, <1>11, <1>12, <1>20 DEF mnt, old
  <2>3. ~tainted => Held(f, files) BY <1>11
  <2> QED BY <1>2, <1>3, <1>10, <1>20, <2>1, <2>2, <2>3, FollowStep
<1> QED BY <1>4, <1>14, <1>15, <1>16, <1>17, <1>18, <1>19, <1>20

-----------------------------------------------------------------------------
(* The end of a lookup, closing, seeking. *)

\* A directory has entries.
LEMMA DirChunks ==
    ASSUME NEW o, Dir(o)
    PROVE  /\ o \in DOMAIN Objects /\ ZapOK(Objects[o].zap) /\ Chunks(o) \in Seq(STRING \union {None}) /\ Len(Chunks(o)) \in Nat
           /\ DOMAIN Chunks(o) = 1 .. Len(Chunks(o))
<1>1. o \in DOMAIN Objects /\ Objects[o].type = "dir" BY DEF Dir
<1>2. ObjectOK(o) BY <1>1, FileAssumption
<1>3. ZapOK(Objects[o].zap) BY <1>1, <1>2 DEF ObjectOK
<1>4. Chunks(o) \in Seq(STRING \union {None}) BY <1>3 DEF ZapOK, Chunks
<1> QED BY <1>1, <1>3, <1>4

LEMMA HeldNone == ASSUME NEW c, c.obj = None, NEW fl PROVE Held(c, fl)
<1>1. \A a \in Addresses : c.obj # a BY FileAssumption
<1>2. SpaMos \in Addresses /\ <<"mount", "static">> \in Addresses /\ \A s \in Slots : <<"file", s>> \in Addresses BY AddressFacts
<1> QED BY <1>1, <1>2 DEF Held, Fits

\* The meaning of a path that is used up is the object that was reached.
LEMMA LookDone == ASSUME FileInv, op \in LookRec, op.p = <<>>, ~tainted PROVE op.dn = Named[op.path] /\ cache.obj = <<"mount", op.slot>> /\ op.bad = {}
<1> DEFINE n == MLINKS + 1 - op.links
           a == <<n, op.fs, op.obj, op.p>>
<1>0. op.k = "lookup" BY DEF LookRec
<1>1. LookOK(op, cache) BY <1>0 DEF FileInv
<1>2. n \in Nat /\ op.fs \in FileSystems /\ op.obj \in DOMAIN Objects /\ op.p \in Seq(STRING) BY <1>1 DEF LookRec, LookOK, MLINKS
<1>3. Resolve[a] = Named[op.path] /\ op.dn = op.obj BY <1>1 DEF LookOK
<1> HIDE DEF n
<1>4. a \in Args BY <1>2, MakeArgs
<1>5. a[3] = op.obj /\ a[4] = <<>> OBVIOUS
<1> HIDE DEF a
<1>6. Resolve[a] = op.obj BY <1>4, <1>5, ResolveIs DEF Stops, Value
<1> QED BY <1>1, <1>3, <1>6 DEF LookOK

\* LookupDone keeps the invariant.
LEMMA DoneStep == ASSUME FileInv, LookupDone PROVE FileInv'
<1> DEFINE new == [dn |-> op.dn, seekp |-> 0, chunk |-> 0, listed |-> {}, done |-> FALSE]
<1>1. Types /\ Results BY DEF FileInv
<1>2. op.k = "lookup" /\ op.p = <<>> /\ op.slot \in Slots /\ UNCHANGED <<cache, dev, ops, ffaults, tainted>> /\ op' = Idle
      /\ files' = [files EXCEPT ![op.slot] = new] /\ Opened(op.path, op.dn)
  BY DEF LookupDone
<1>3. op \in LookRec
  <2>1. op \notin {Idle, Overrun} BY <1>2 DEF Idle, Overrun
  <2> QED BY <1>1, <2>1 DEF Types
<1>4. op.dn \in DOMAIN Objects BY <1>3 DEF LookRec
<1>n. new \in FileRec /\ new.dn = op.dn /\ new.chunk = 0 /\ new.listed = {} BY <1>4 DEF FileRec
<1> HIDE DEF new
<1>5. Types' BY <1>1, <1>2, <1>n DEF Types
<1>6. ~tainted => op.dn = Named[op.path] /\ cache.obj = <<"mount", op.slot>> BY <1>2, <1>3, LookDone
<1>7. Results' BY <1>2, <1>6, ResultOpen
<1>8. op'.k # "lookup" BY <1>2 DEF Idle
<1>9. ~tainted' => Held(cache', files')
  <2> SUFFICES ASSUME ~tainted PROVE Held(cache, files') BY <1>2
  <2>1. op.slot \in Mounts /\ op.slot # "static" BY <1>2, FileAssumption DEF Mounts
  <2> QED BY <1>6, <2>1, HeldMount
<1>10. (~tainted /\ dev # None => DevOK(dev))' BY <1>2 DEF FileInv
<1>11. (\A t \in Slots : files[t] # None /\ Dir(files[t].dn) /\ ~files[t].done => Shown(files[t]))'
  <2> SUFFICES ASSUME NEW t \in Slots, files'[t] # None, Dir(files'[t].dn), ~files'[t].done PROVE Shown(files'[t]) OBVIOUS
  <2>1. files \in [Slots -> FileRec \union {None}] BY <1>1 DEF Types
  <2>2. CASE t # op.slot
    <3>1. files'[t] = files[t] BY <1>2, <2>1, <2>2
    <3> QED BY <3>1 DEF FileInv
  <2>3. CASE t = op.slot
    <3>1. files'[t] = new BY <1>2, <2>1, <2>3
    <3>2. Len(Chunks(new.dn)) \in Nat BY <3>1, DirChunks
    <3> DEFINE r == new
    <3>3. {Chunks(r.dn)[i] : i \in 1 .. r.chunk} = {} BY <1>n
    <3> QED BY <1>n, <3>1, <3>2, <3>3 DEF Shown
  <2> QED BY <2>2, <2>3
<1> QED BY <1>5, <1>7, <1>8, <1>9, <1>10, <1>11 DEF FileInv

\* zfs_close keeps the invariant.
LEMMA CloseStep == ASSUME FileInv, NEW s \in Slots, zfs_close(s) PROVE FileInv'
<1>1. Types /\ Results BY DEF FileInv
<1>2. /\ op = Idle /\ op' = Idle /\ UNCHANGED <<op, result, dev, ops, ffaults, tainted>> /\ cache'.obj = None
      /\ files' = [files EXCEPT ![s] = None]
  BY DEF zfs_close
<1>3. Types' BY <1>1, <1>2 DEF Types
<1>4. Results' BY <1>1, <1>2, ResultsKept
<1>5. op'.k # "lookup" BY <1>2 DEF Idle
<1>6. Held(cache', files') BY <1>2, HeldNone
<1>7. (~tainted /\ dev # None => DevOK(dev))' BY <1>2 DEF FileInv
<1>8. (\A t \in Slots : files[t] # None /\ Dir(files[t].dn) /\ ~files[t].done => Shown(files[t]))'
  <2> SUFFICES ASSUME NEW t \in Slots, files'[t] # None, Dir(files'[t].dn), ~files'[t].done PROVE Shown(files'[t]) OBVIOUS
  <2>1. files \in [Slots -> FileRec \union {None}] BY <1>1 DEF Types
  <2>2. t # s /\ files'[t] = files[t] BY <1>2, <2>1
  <2> QED BY <2>2 DEF FileInv
<1> QED BY <1>3, <1>4, <1>5, <1>6, <1>7, <1>8 DEF FileInv

\* What is said of files does not depend on where they are read.
LEMMA SeekKeeps ==
    ASSUME FileInv, NEW s \in Slots, files[s] # None, NEW to \in Nat, files' = [files EXCEPT ![s] = [files[s] EXCEPT !.seekp = to]]
    PROVE  /\ files' \in [Slots -> FileRec \union {None}] /\ (\A c : Held(c, files) => Held(c, files')) /\ files'[s].dn = files[s].dn
           /\ \A t \in Slots : files'[t] # None /\ Dir(files'[t].dn) /\ ~files'[t].done => Shown(files'[t])
<1> DEFINE x == [files[s] EXCEPT !.seekp = to]
<1>1. files \in [Slots -> FileRec \union {None}] BY DEF FileInv, Types
<1>0. x \in FileRec /\ x.dn = files[s].dn /\ x.chunk = files[s].chunk /\ x.listed = files[s].listed /\ x.done = files[s].done
  <2>1. files[s] \in FileRec BY <1>1
  <2> QED BY <2>1 DEF FileRec
<1>n. files' = [files EXCEPT ![s] = x] OBVIOUS
<1> HIDE DEF x
<1>2. /\ files' \in [Slots -> FileRec \union {None}]
      /\ \A t \in Slots : t # s => files'[t] = files[t]
      /\ files'[s].dn = files[s].dn /\ files'[s].chunk = files[s].chunk /\ files'[s].listed = files[s].listed /\ files'[s].done = files[s].done
  BY <1>1, <1>0, <1>n
<1>3. \A t \in Slots : files'[t].dn = files[t].dn BY <1>2
<1>4. \A c : Held(c, files) => Held(c, files') BY <1>3 DEF Held
<1>5. ASSUME NEW t \in Slots, files'[t] # None, Dir(files'[t].dn), ~files'[t].done PROVE Shown(files'[t])
  <2>1. CASE t # s BY <1>2, <1>5, <2>1 DEF FileInv
  <2>2. CASE t = s
    <3>1. Shown(files[s]) BY <1>2, <1>5, <2>2 DEF FileInv
    <3> QED BY <1>2, <2>2, <3>1 DEF Shown
  <2> QED BY <2>1, <2>2
<1> QED BY <1>2, <1>4, <1>5

\* A file has a size and a last block.
LEMMA FileFacts ==
    ASSUME NEW s \in Slots, IsFile(s)
    PROVE  /\ files[s] # None /\ files[s].dn \in DOMAIN Objects /\ Objects[files[s].dn].size \in Nat /\ Objects[files[s].dn].maxblkid \in Nat
           /\ BSIZE \in Nat \ {0} /\ BSIZE * (Objects[files[s].dn].maxblkid + 1) \in Nat /\ BSIZE * (Objects[files[s].dn].maxblkid + 2) \in Nat
<1>1. files[s] # None /\ files[s].dn \in DOMAIN Objects /\ Objects[files[s].dn].type = "file" BY DEF IsFile
<1>2. ObjectOK(files[s].dn) BY <1>1, FileAssumption
<1>3. Objects[files[s].dn].size \in Nat /\ Objects[files[s].dn].maxblkid \in Nat BY <1>1, <1>2 DEF ObjectOK
<1>4. BSIZE \in Nat \ {0} BY FileAssumption
<1> QED BY <1>1, <1>3, <1>4

\* zfs_seek keeps the invariant.
LEMMA SeekStep == ASSUME FileInv, NEW s \in Slots, NEW off, NEW where, zfs_seek(s, where, off) PROVE FileInv'
<1>1. Types /\ Results BY DEF FileInv
<1> DEFINE end == BSIZE * (Objects[files[s].dn].maxblkid + 1)
<1>2. /\ Call /\ IsFile(s) /\ UNCHANGED <<cache, op, result, dev, ffaults, tainted>>
      /\ \E to : to \in 0 .. end /\ files' = [files EXCEPT ![s].seekp = to]
  BY DEF zfs_seek
<1>3. op = Idle /\ ops' \in 0 .. MaxOps BY <1>1, <1>2, CallFacts
<1>f. files[s] # None /\ end \in Nat BY <1>2, FileFacts
<1> HIDE DEF end
<1>p. PICK to : to \in 0 .. end /\ files' = [files EXCEPT ![s].seekp = to] BY <1>2
<1>t. to \in Nat BY <1>f, <1>p
<1>4. files' = [files EXCEPT ![s] = [files[s] EXCEPT !.seekp = to]] BY <1>p
<1>5. /\ files' \in [Slots -> FileRec \union {None}] /\ (\A c : Held(c, files) => Held(c, files'))
      /\ \A t \in Slots : files'[t] # None /\ Dir(files'[t].dn) /\ ~files'[t].done => Shown(files'[t])
  BY <1>f, <1>t, <1>4, SeekKeeps
<1>6. Types' BY <1>1, <1>2, <1>3, <1>5 DEF Types
<1>7. Results' BY <1>1, <1>2, ResultsKept
<1>8. op'.k # "lookup" BY <1>2, <1>3 DEF Idle
<1>9. ~tainted' => Held(cache', files') BY <1>2, <1>5 DEF FileInv
<1>10. (~tainted /\ dev # None => DevOK(dev))' BY <1>2 DEF FileInv
<1> QED BY <1>5, <1>6, <1>7, <1>8, <1>9, <1>10 DEF FileInv
-----------------------------------------------------------------------------
(* Reading a file. *)

LEMMA TimesLess == ASSUME NEW k \in Nat, NEW x \in Int, NEW y \in Int, x <= y PROVE k * x <= k * y
<1>1. PICK d \in Nat : y = x + d
  <2>1. y - x \in Nat /\ y = x + (y - x) OBVIOUS
  <2> QED BY <2>1
<1>2. k * y = k * x + k * d BY <1>1
<1>3. k * d >= 0 /\ k * d \in Int /\ k * x \in Int OBVIOUS
<1> QED BY <1>2, <1>3

\* The block of a byte.
LEMMA DivFacts == ASSUME NEW k \in Nat \ {0}, NEW b \in Nat PROVE b \div k \in Nat /\ k * (b \div k) <= b /\ b < k * (b \div k + 1)
<1>1. b = k * (b \div k) + (b % k) /\ b % k \in 0 .. k - 1 /\ b \div k \in Int OBVIOUS
<1>2. b \div k \in Nat OBVIOUS
<1> DEFINE q == b \div k
<1>3. q \in Nat /\ b = k * q + (b % k) BY <1>1, <1>2
<1> HIDE DEF q
<1>4. k * (q + 1) = k * q + k BY <1>3
<1>5. k * q <= b /\ b < k * (q + 1) BY <1>1, <1>3, <1>4
<1> QED BY <1>3, <1>5 DEF q

\* A byte further on is not in an earlier block.
LEMMA DivLess == ASSUME NEW k \in Nat \ {0}, NEW b \in Nat, NEW c \in Nat, b <= c PROVE b \div k <= c \div k
<1> DEFINE x == b \div k
           y == c \div k
<1>1. x \in Nat /\ y \in Nat /\ k * x <= b /\ c < k * (y + 1) BY DivFacts
<1> HIDE DEF x, y
<1> SUFFICES ASSUME ~(x <= y) PROVE FALSE BY DEF x, y
<1>2. y + 1 <= x BY <1>1
<1>3. k * (y + 1) <= k * x BY <1>1, <1>2, TimesLess
<1>4. k * (y + 1) \in Int /\ k * x \in Int BY <1>1
<1> QED BY <1>1, <1>3, <1>4

\* The blocks of a read: all of one object, and the block of every byte is among them.
BlocksRight(q, a, o, off, n) ==
    /\ IsSeq(q) /\ Len(q) \in Nat
    /\ \A i \in 1 .. Len(q) : q[i].addr = a /\ q[i].o = o /\ q[i].bn = off \div BSIZE + i - 1
    /\ \A b \in off .. off + n - 1 : b \div BSIZE \in Nat /\ b \div BSIZE - off \div BSIZE + 1 \in 1 .. Len(q)
LEMMA BlocksAre == ASSUME NEW a, NEW o, NEW off \in Nat, NEW n \in Nat, NEW q, q = BlocksAt(a, o, off, n) PROVE BlocksRight(q, a, o, off, n)
<1>0. BSIZE \in Nat \ {0} /\ off \div BSIZE \in Nat BY FileAssumption, DivFacts
<1>1. CASE n = 0
  <2>1. q = <<>> BY <1>1 DEF BlocksAt
  <2>2. q \in Seq(Nat) /\ Len(q) = 0 BY <2>1
  <2> QED BY <1>1, <2>2, SeqIs DEF BlocksRight
<1>2. CASE n > 0
  <2> DEFINE end == off + n - 1
             x == off \div BSIZE
             y == end \div BSIZE
             m == y - x + 1
             F(i) == Req(a, o, x + i - 1)
  <2>1. end \in Nat /\ off <= end BY <1>2
  <2>2. x \in Nat /\ y \in Nat /\ x <= y BY <1>0, <2>1, DivFacts, DivLess
  <2>3. q = [i \in 1 .. m |-> F(i)] BY <1>2 DEF BlocksAt
  <2>4. \A b \in off .. end : b \div BSIZE \in Nat /\ x <= b \div BSIZE /\ b \div BSIZE <= y
    <3> SUFFICES ASSUME NEW b \in off .. end PROVE b \div BSIZE \in Nat /\ x <= b \div BSIZE /\ b \div BSIZE <= y OBVIOUS
    <3>1. b \in Nat /\ off <= b /\ b <= end BY <2>1
    <3> QED BY <1>0, <2>1, <3>1, DivFacts, DivLess
  <2>6. \A i \in 1 .. m : F(i).addr = a /\ F(i).o = o /\ F(i).bn = x + i - 1 BY ReqIs
  <2> HIDE DEF x, y, F, end
  <2>5. m \in Nat BY <2>2
  <2>7. q \in Seq({F(i) : i \in 1 .. m}) /\ Len(q) = m /\ \A i \in 1 .. m : q[i] = F(i) BY <2>3, <2>5
  <2>8. \A i \in 1 .. Len(q) : q[i].addr = a /\ q[i].o = o /\ q[i].bn = x + i - 1 BY <2>6, <2>7
  <2>9. \A b \in off .. end : b \div BSIZE \in Nat /\ b \div BSIZE - x + 1 \in 1 .. Len(q) BY <2>2, <2>4, <2>7
  <2>10. IsSeq(q) BY <2>7, SeqIs
  <2> QED BY <2>5, <2>7, <2>8, <2>9, <2>10 DEF x, end, BlocksRight
<1> QED BY <1>1, <1>2

\* The beginning of such a list.
LEMMA PartOf ==
    ASSUME NEW q, IsSeq(q), NEW a \in Addresses, NEW o, \A i \in 1 .. Len(q) : q[i].addr = a /\ q[i].o = o,
           NEW k \in Int, k <= Len(q), NEW r, r = SubSeq(q, 1, k)
    PROVE  /\ IsSeq(r) /\ Len(r) \in Nat /\ Len(r) <= Len(q) /\ (\A i \in 1 .. Len(r) : r[i] = q[i])
           /\ (r = <<>> \/ Runs(r, a, o, a, o))
<1>1. PICK S : q \in Seq(S) BY DEF IsSeq
<1>2. CASE k >= 1
  <2>1. r \in Seq(S) /\ Len(r) = k /\ \A i \in 1 .. k : r[i] = q[i] BY <1>1, <1>2
  <2>i. IsSeq(r) BY <2>1, SeqIs
  <2>l. Len(r) > 0 BY <1>2, <2>1
  <2>2. IsSeq(r) /\ r # <<>> BY <2>i, <2>l, SeqFacts
  <2>3. Len(q) \in Nat BY <1>1
  <2>4. \A i \in 1 .. Len(r) : r[i].addr = a /\ r[i].o = o BY <2>1, <2>3
  <2>5. Runs(r, a, o, a, o) BY <2>2, <2>4, RunSame
  <2> QED BY <1>2, <2>1, <2>2, <2>5
<1>3. CASE ~(k >= 1)
  <2>1. r = <<>> BY <1>1, <1>3
  <2>2. Len(r) = 0 BY <2>1
  <2>3. r \in Seq(Nat) BY <2>1
  <2>4. IsSeq(r) BY <2>3, SeqIs
  <2>5. Len(q) \in Nat BY <1>1
  <2> QED BY <2>1, <2>2, <2>4, <2>5
<1> QED BY <1>2, <1>3

\* Blocks of an open file that nothing disturbs are its own, and the buffer stays right about what it was right about.
LEMMA FetchFile ==
    ASSUME NEW s \in Slots, NEW fl, NEW c, Held(c, fl), NEW r, r = <<>> \/ Runs(r, <<"file", s>>, fl[s].dn, <<"file", s>>, fl[s].dn),
           NEW f, f = Fetch(c, r, {})
    PROVE  ~f.err /\ Held(f, fl) /\ Len(f.bufs) = Len(r) /\ \A i \in 1 .. Len(r) : f.bufs[i] = <<r[i].o, r[i].bn>>
<1> DEFINE a == <<"file", s>>
           o == fl[s].dn
<1>1. CASE r = <<>>
  <2>1. f = Fetch(c, <<>>, {}) /\ Len(r) = 0 BY <1>1
  <2>2. ~f.err /\ f.obj = c.obj /\ f.bn = c.bn /\ f.buf = c.buf /\ Len(f.bufs) = 0 BY <2>1, FetchNone
  <2>3. Held(f, fl) BY <2>2 DEF Held, Fits
  <2> QED BY <2>1, <2>2, <2>3
<1>2. CASE Runs(r, a, o, a, o)
  <2>1. Fits(c, a, o) BY DEF Held
  <2> HIDE DEF a, o
  <2>2. ~f.err /\ f.obj = a /\ f.buf = <<o, f.bn>> /\ Len(f.bufs) = Len(r) /\ \A i \in 1 .. Len(r) : f.bufs[i] = <<r[i].o, r[i].bn>>
    BY <1>2, <2>1, FetchRun
  <2>3. Held(f, fl) BY <2>2, HeldFile DEF a, o
  <2> QED BY <2>2, <2>3
<1> QED BY <1>1, <1>2
\* How much is read: what was asked for or what is left, if the place is inside the file.
CountRight(o, off, size, n) ==
    n \in Nat /\ (off <= Objects[o].size => off .. off + n - 1 = {b \in off .. off + size - 1 : b < Objects[o].size})
LEMMA CountIs ==
    ASSUME NEW o, Objects[o].size \in Nat, Objects[o].maxblkid \in Nat, NEW off \in Nat, NEW size \in Nat, NEW n, n = ReadCount(o, off, size)
    PROVE  CountRight(o, off, size, n)
<1> DEFINE z == Objects[o].size
           y == BSIZE * (Objects[o].maxblkid + 2)
<1>0. z \in Nat /\ y \in Nat BY FileAssumption
<1>1. n = IF off + size <= z THEN size ELSE IF off <= z THEN z - off ELSE y BY DEF ReadCount
<1> HIDE DEF z, y
<1>2. n \in Nat BY <1>0, <1>1
<1>3. off <= z => off .. off + n - 1 = {b \in off .. off + size - 1 : b < z} BY <1>0, <1>1
<1> QED BY <1>2, <1>3 DEF z, CountRight

\* What is said after a step that neither touches the device nor the lookup.
LEMMA StillIdle ==
    ASSUME FileInv, op = Idle, UNCHANGED <<op, dev>>, ops' \in 0 .. MaxOps, NEW bad \in BadSets, Faults(bad), cache'.obj \in Addresses \union {None},
           files' \in [Slots -> FileRec \union {None}], Results', ~tainted' => Held(cache', files'),
           \A t \in Slots : files'[t] # None /\ Dir(files'[t].dn) /\ ~files'[t].done => Shown(files'[t])
    PROVE  FileInv'
<1>1. Types /\ Results BY DEF FileInv
<1>2. ffaults' \in 0 .. MaxFaults /\ tainted' \in BOOLEAN /\ (tainted => tainted') BY <1>1, FaultFacts
<1>3. Types' BY <1>1, <1>2 DEF Types
<1>4. op'.k # "lookup" BY DEF Idle
<1>5. (~tainted /\ dev # None => DevOK(dev))' BY <1>2 DEF FileInv
<1> QED BY <1>3, <1>4, <1>5 DEF FileInv

\* zfs_read of something that has no attributes.
LEMMA ReadFails ==
    ASSUME FileInv, NEW s \in Slots, NEW size \in ReadSizes, NEW bad \in BadSets, zfs_read(s, size, bad), ~zfs_stat(s, bad)
    PROVE  FileInv'
<1>1. Types BY DEF FileInv
<1>2. Call /\ Faults(bad) /\ UNCHANGED <<cache, files, op, dev>> /\ result'.k = "read" /\ result'.err = TRUE BY DEF zfs_read
<1>3. op = Idle /\ ops' \in 0 .. MaxOps BY <1>1, <1>2, CallFacts
<1>4. FileBytesRight' BY <1>2 DEF FileBytesRight
<1>5. ReadBounded' BY <1>2 DEF ReadBounded
<1>6. Results' BY <1>2, <1>4, <1>5, ResultRead
<1>7. tainted => tainted' BY <1>1, <1>2, FaultFacts
<1>8. ~tainted' => Held(cache', files') BY <1>2, <1>7 DEF FileInv
<1>9. cache'.obj \in Addresses \union {None} /\ files' \in [Slots -> FileRec \union {None}] BY <1>1, <1>2 DEF Types
<1>10. \A t \in Slots : files'[t] # None /\ Dir(files'[t].dn) /\ ~files'[t].done => Shown(files'[t]) BY <1>2 DEF FileInv
<1> QED BY <1>2, <1>3, <1>6, <1>8, <1>9, <1>10, StillIdle

\* zfs_read keeps the invariant.
LEMMA ReadStep == ASSUME FileInv, NEW s \in Slots, NEW size \in ReadSizes, NEW bad \in BadSets, zfs_read(s, size, bad) PROVE FileInv'
<1> SUFFICES ASSUME zfs_stat(s, bad) PROVE FileInv' BY ReadFails
<1> DEFINE o == files[s].dn
           off == files[s].seekp
           n == ReadCount(o, off, size)
           a == <<"file", s>>
           reqs == BlocksAt(a, o, off, n)
           left == Objects[o].maxblkid + 1 - off \div BSIZE
           k == IF left < Len(reqs) THEN left ELSE Len(reqs)
           inside == SubSeq(reqs, 1, k)
           f == Fetch(cache, inside, bad)
           err == f.err \/ Len(inside) < Len(reqs)
           Nth(b) == b \div BSIZE - off \div BSIZE
           got == {b \in off .. off + n - 1 : Nth(b) < Len(f.bufs)}
           data == [b \in got |-> f.bufs[Nth(b) + 1]]
<1>1. Types BY DEF FileInv
<1>2. /\ IsFile(s) /\ Call /\ Faults(bad) /\ UNCHANGED <<op, dev>> /\ cache' = Cache(f)
      /\ files' = (IF err THEN files ELSE [files EXCEPT ![s] = [files[s] EXCEPT !.seekp = files[s].seekp + n]])
      /\ result' = [k |-> "read", dn |-> o, seekp |-> off, size |-> size, err |-> err, data |-> data]
  BY DEF zfs_read
<1>3. op = Idle /\ ops' \in 0 .. MaxOps BY <1>1, <1>2, CallFacts
<1>4. files \in [Slots -> FileRec \union {None}] /\ files[s] # None /\ off \in Nat
  <2>1. files \in [Slots -> FileRec \union {None}] /\ files[s] # None BY <1>1, <1>2, FileFacts DEF Types
  <2>2. files[s] \in FileRec BY <2>1
  <2> QED BY <2>1, <2>2 DEF FileRec
<1>5. Objects[o].size \in Nat /\ Objects[o].maxblkid \in Nat /\ BSIZE \in Nat \ {0} BY <1>2, FileFacts
<1>6. size \in Nat BY FileAssumption
<1>n. n = ReadCount(o, off, size) OBVIOUS
<1>8. a \in Addresses BY AddressFacts
<1>r. /\ result'.k = "read" /\ result'.dn = o /\ result'.seekp = off /\ result'.size = size /\ result'.err = err /\ result'.data = data
      /\ DOMAIN data = got /\ \A b \in got : data[b] = f.bufs[Nth(b) + 1]
  BY <1>2
<1>c. /\ cache' = Cache(f) /\ (err => files' = files) /\ (~err => files' = [files EXCEPT ![s] = [files[s] EXCEPT !.seekp = off + n]])
  BY <1>2
<1>g. got \subseteq off .. off + n - 1 /\ \A b \in off .. off + n - 1 : b \in got <=> Nth(b) < Len(f.bufs) OBVIOUS
<1>o. off \div BSIZE \in Nat BY <1>4, <1>5, DivFacts
<1> HIDE DEF n, data, got, o, off
<1>7. n \in Nat /\ (off <= Objects[o].size => off .. off + n - 1 = {b \in off .. off + size - 1 : b < Objects[o].size})
  <2>1. CountRight(o, off, size, n) BY <1>4, <1>5, <1>6, <1>n, CountIs
  <2> QED BY <2>1 DEF CountRight
<1>q. reqs = BlocksAt(a, o, off, n) OBVIOUS
<1>9. /\ IsSeq(reqs) /\ Len(reqs) \in Nat
      /\ \A i \in 1 .. Len(reqs) : reqs[i].addr = a /\ reqs[i].o = o /\ reqs[i].bn = off \div BSIZE + i - 1
      /\ \A b \in off .. off + n - 1 : b \div BSIZE \in Nat /\ Nth(b) + 1 \in 1 .. Len(reqs)
  <2> HIDE DEF reqs, a
  <2>1. BlocksRight(reqs, a, o, off, n) BY <1>4, <1>7, <1>q, BlocksAre
  <2> QED BY <2>1 DEF BlocksRight
<1>k. k \in Int /\ k <= Len(reqs)
  <2>1. left \in Int BY <1>5, <1>o
  <2> HIDE DEF left
  <2> QED BY <1>9, <2>1
<1> HIDE DEF reqs, k, o, off, a
<1>10. /\ IsSeq(inside) /\ Len(inside) \in Nat /\ Len(inside) <= Len(reqs) /\ (\A i \in 1 .. Len(inside) : inside[i] = reqs[i])
       /\ (inside = <<>> \/ Runs(inside, a, o, a, o))
  BY <1>8, <1>9, <1>k, PartOf
<1> HIDE DEF inside
<1>11. inside = <<>> \/ Asks(inside) BY <1>10, RunAsks
<1>12. Acc(f) /\ f.obj \in Addresses \union {cache.obj} /\ (~f.err => Len(f.bufs) = Len(inside)) BY <1>11, FetchSome
<1>h. tainted' \in BOOLEAN /\ (tainted => tainted') /\ (~tainted' => bad = {} /\ ~tainted) BY <1>1, <1>2, FaultFacts
<1>13. ~tainted' => Held(f, files) /\ \A i \in 1 .. Len(inside) : f.bufs[i] = <<inside[i].o, inside[i].bn>>
  <2> SUFFICES ASSUME ~tainted' PROVE Held(f, files) /\ \A i \in 1 .. Len(inside) : f.bufs[i] = <<inside[i].o, inside[i].bn>> OBVIOUS
  <2>1. f = Fetch(cache, inside, {}) BY <1>h
  <2>2. Held(cache, files) BY <1>h DEF FileInv
  <2>3. inside = <<>> \/ Runs(inside, <<"file", s>>, files[s].dn, <<"file", s>>, files[s].dn) BY <1>10 DEF a, o
  <2> HIDE DEF f
  <2> QED BY <2>1, <2>2, <2>3, FetchFile
<1>14. ~err => Len(inside) = Len(reqs) /\ Len(f.bufs) = Len(reqs) BY <1>9, <1>10, <1>12
<1> HIDE DEF f
<1>15. ~err => got = off .. off + n - 1
  <2> SUFFICES ASSUME ~err PROVE \A b \in off .. off + n - 1 : b \in got BY <1>g
  <2>1. \A b \in off .. off + n - 1 : Nth(b) + 1 \in 1 .. Len(reqs) /\ Nth(b) \in Int BY <1>9, <1>o
  <2> HIDE DEF Nth
  <2>2. \A b \in off .. off + n - 1 : Nth(b) < Len(f.bufs) BY <1>9, <1>14, <2>1
  <2> QED BY <1>g, <2>2
<1>16. ReadBounded' BY <1>7, <1>15, <1>r DEF ReadBounded
<1>17. FileBytesRight'
  <2> SUFFICES ASSUME ~tainted', ~err, NEW b \in got PROVE data[b] = <<o, b \div BSIZE>> BY <1>r DEF FileBytesRight
  <2>1. b \in off .. off + n - 1 BY <1>g
  <2> DEFINE i == Nth(b) + 1
  <2>2. i \in 1 .. Len(reqs) /\ b \div BSIZE \in Nat BY <1>9, <2>1
  <2>3. i \in 1 .. Len(inside) BY <1>14, <2>2
  <2>4. reqs[i].o = o /\ reqs[i].bn = off \div BSIZE + i - 1 BY <1>9, <2>2
  <2>5. off \div BSIZE + i - 1 = b \div BSIZE BY <1>o, <2>2
  <2>6. data[b] = f.bufs[i] BY <1>r
  <2> HIDE DEF i
  <2>7. f.bufs[i] = <<inside[i].o, inside[i].bn>> BY <1>13, <2>3
  <2>8. inside[i] = reqs[i] BY <1>10, <2>3
  <2> QED BY <2>4, <2>5, <2>6, <2>7, <2>8
<1>18. Results' BY <1>r, <1>16, <1>17, ResultRead
<1>19. cache'.obj \in Addresses \union {None}
  <2>1. cache'.obj = f.obj BY <1>c, FieldsSame
  <2> QED BY <1>1, <1>12, <2>1 DEF Types
<1>20. /\ files' \in [Slots -> FileRec \union {None}] /\ (\A c : Held(c, files) => Held(c, files'))
       /\ \A t \in Slots : files'[t] # None /\ Dir(files'[t].dn) /\ ~files'[t].done => Shown(files'[t])
  <2>1. CASE err BY <1>4, <1>c, <2>1 DEF FileInv
  <2>2. CASE ~err
    <3>1. off + n \in Nat BY <1>4, <1>7 DEF off
    <3> DEFINE to == off + n
    <3>2. files' = [files EXCEPT ![s] = [files[s] EXCEPT !.seekp = to]] /\ to \in Nat BY <1>c, <2>2, <3>1
    <3> HIDE DEF to
    <3> QED BY <1>4, <3>2, SeekKeeps
  <2> HIDE DEF err
  <2> QED BY <2>1, <2>2
<1>21. ~tainted' => Held(cache', files') BY <1>c, <1>13, <1>20, HeldCache
<1> QED BY <1>2, <1>3, <1>18, <1>19, <1>20, <1>21, StillIdle
-----------------------------------------------------------------------------
(* Listing a directory chunk by chunk. *)

\* j is the next used chunk, or the one after the last.
NextIs(o, c, j) == /\ j \in Nat /\ c < j /\ j <= Len(Chunks(o)) + 1 /\ (j <= Len(Chunks(o)) => Chunks(o)[j] # None)
                   /\ \A i \in 1 .. Len(Chunks(o)) : c < i /\ i < j => Chunks(o)[i] = None
LEMMA NextFacts == ASSUME NEW o, Dir(o), NEW c \in Nat, c <= Len(Chunks(o)) PROVE NextIs(o, c, NextChunk(o, c))
<1> DEFINE n == Len(Chunks(o))
           U == UsedAfter(o, c)
           j == NextChunk(o, c)
<1>1. n \in Nat BY DirChunks
<1>2. U = {i \in c + 1 .. n : Chunks(o)[i] # None} BY DEF UsedAfter
<1>3. CASE U = {}
  <2>1. j = n + 1 BY <1>3 DEF NextChunk
  <2>2. \A i \in 1 .. n : c < i /\ i < j => Chunks(o)[i] = None
    <3> SUFFICES ASSUME NEW i \in 1 .. n, c < i PROVE Chunks(o)[i] = None OBVIOUS
    <3>1. i \in c + 1 .. n BY <1>1
    <3> QED BY <1>2, <1>3, <3>1
  <2> HIDE DEF j, n
  <2>3. j \in Nat /\ c < j /\ j <= n + 1 /\ ~(j <= n) BY <1>1, <2>1 DEF n
  <2> QED BY <2>2, <2>3 DEF NextIs, j, n
<1>4. CASE U # {}
  <2>1. U \subseteq Nat BY <1>1, <1>2
  <2> HIDE DEF U
  <2>2. \E x \in U : \A y \in U : x <= y BY <1>4, <2>1, LeastOf
  <2>3. j = CHOOSE x \in U : \A y \in U : x <= y BY <1>4 DEF NextChunk, U
  <2>4. j \in U /\ \A y \in U : j <= y BY <2>2, <2>3
  <2> HIDE DEF j, n
  <2>5. j \in c + 1 .. n /\ Chunks(o)[j] # None BY <1>2, <2>4
  <2>6. j \in Nat /\ c < j /\ j <= n + 1 BY <1>1, <2>5
  <2>7. \A i \in 1 .. n : c < i /\ i < j => Chunks(o)[i] = None
    <3> SUFFICES ASSUME NEW i \in 1 .. n, c < i, i < j, Chunks(o)[i] # None PROVE FALSE OBVIOUS
    <3>1. i \in c + 1 .. n BY <1>1
    <3>2. i \in U BY <1>2, <3>1
    <3>3. j <= i BY <2>4, <3>2
    <3> QED BY <1>1, <2>6, <3>3
  <2> QED BY <2>5, <2>6, <2>7 DEF NextIs, j, n
<1> QED BY <1>3, <1>4

\* One chunk more has been shown.
LEMMA ShownMore ==
    ASSUME NEW r, Shown(r), Dir(r.dn), r.chunk \in Nat, NEW j, NextIs(r.dn, r.chunk, j), ~AtEof(r.dn, j),
           NEW x, x.dn = r.dn, x.chunk = j, x.listed = r.listed \union {Chunks(r.dn)[j]}
    PROVE  Shown(x) /\ x.listed \subseteq STRING \union {None}
<1> DEFINE o == r.dn
           C == Chunks(o)
           n == Len(C)
           c == r.chunk
<1>0. n \in Nat /\ C \in Seq(STRING \union {None}) /\ DOMAIN C = 1 .. n BY DirChunks
<1>1. /\ c <= n /\ r.listed = {C[i] : i \in 1 .. c} \ {None} /\ (\A i \in 1 .. c : C[i] # None => ~AtEof(o, i))
      /\ j \in Nat /\ c < j /\ (j <= n => C[j] # None) /\ \A i \in 1 .. n : c < i /\ i < j => C[i] = None
      /\ x.dn = o /\ x.chunk = j /\ x.listed = r.listed \union {C[j]} /\ c \in Nat
  BY DEF Shown, NextIs
<1>2. j <= n
  <2>1. ~(j > n) BY DEF AtEof
  <2> QED BY <1>0, <1>1, <2>1
<1> HIDE DEF o, c, n, C
<1>3. x.listed = {C[i] : i \in 1 .. j} \ {None}
  <2>1. ASSUME NEW y \in x.listed PROVE y \in {C[i] : i \in 1 .. j} \ {None}
    <3>1. CASE y = C[j]
      <4>1. j \in 1 .. j BY <1>1
      <4> QED BY <1>1, <1>2, <3>1, <4>1
    <3>2. CASE y \in r.listed
      <4>1. PICK i \in 1 .. c : y = C[i] /\ y # None BY <1>1, <3>2
      <4>2. i \in 1 .. j BY <1>1
      <4> QED BY <4>1, <4>2
    <3> QED BY <1>1, <2>1, <3>1, <3>2
  <2>2. ASSUME NEW y \in {C[i] : i \in 1 .. j} \ {None} PROVE y \in x.listed
    <3>1. PICK i \in 1 .. j : y = C[i] /\ y # None BY <2>2
    <3>2. i \in 1 .. n BY <1>0, <1>1, <1>2
    <3>3. i <= c \/ i = j BY <1>1, <3>1, <3>2
    <3>4. CASE i <= c
      <4>1. i \in 1 .. c BY <1>1, <3>4
      <4> QED BY <1>1, <3>1, <4>1
    <3> QED BY <1>1, <3>1, <3>3, <3>4
  <2> QED BY <2>1, <2>2
<1>4. \A i \in 1 .. j : C[i] # None => ~AtEof(o, i)
  <2> SUFFICES ASSUME NEW i \in 1 .. j, C[i] # None PROVE ~AtEof(o, i) OBVIOUS
  <2>2. i \in 1 .. n BY <1>0, <1>1, <1>2
  <2>3. i <= c \/ i = j BY <1>1, <2>2
  <2>4. CASE i <= c
    <3>1. i \in 1 .. c BY <1>1, <2>4
    <3> QED BY <1>1, <3>1
  <2>5. CASE i = j BY <2>5 DEF o
  <2> QED BY <2>3, <2>4, <2>5
<1>5. x.listed \subseteq STRING \union {None}
  <2>1. \A i \in 1 .. j : i \in 1 .. n BY <1>0, <1>1, <1>2
  <2>2. \A i \in 1 .. n : C[i] \in STRING \union {None} BY <1>0
  <2> QED BY <1>3, <2>1, <2>2
<1>6. Shown(x)
  <2>1. x.chunk <= Len(Chunks(x.dn)) BY <1>1, <1>2 DEF o, C, n
  <2>2. x.listed = {Chunks(x.dn)[i] : i \in 1 .. x.chunk} \ {None} BY <1>1, <1>3 DEF o, C
  <2>3. \A i \in 1 .. x.chunk : Chunks(x.dn)[i] # None => ~AtEof(x.dn, i) BY <1>1, <1>4 DEF o, C
  <2> QED BY <2>1, <2>2, <2>3 DEF Shown
<1> QED BY <1>5, <1>6

\* At the end everything before the last of several leaves has been shown.
LEMMA ShownAll ==
    ASSUME NEW r, Shown(r), Dir(r.dn), r.chunk \in Nat, NEW j, NextIs(r.dn, r.chunk, j), AtEof(r.dn, j)
    PROVE  r.listed = {Chunks(r.dn)[i] : i \in {k \in DOMAIN Chunks(r.dn) :
                          Objects[r.dn].zap.kind = "fat" /\ Objects[r.dn].zap.num_leafs > 1
                              => Leaf(r.dn, k) < Objects[r.dn].zap.num_leafs}} \ {None}
<1> DEFINE o == r.dn
           C == Chunks(o)
           n == Len(C)
           c == r.chunk
           fat == Objects[o].zap.kind = "fat"
           leafs == Objects[o].zap.num_leafs
           L(i) == Leaf(o, i)
           In(k) == fat /\ leafs > 1 => L(k) < leafs
           D == {k \in DOMAIN C : In(k)}
<1>0. n \in Nat /\ DOMAIN C = 1 .. n /\ ZapOK(Objects[o].zap) BY DirChunks
<1>1. /\ c <= n /\ r.listed = {C[i] : i \in 1 .. c} \ {None} /\ (\A i \in 1 .. c : C[i] # None => ~AtEof(o, i))
      /\ j \in Nat /\ c < j /\ \A i \in 1 .. n : c < i /\ i < j => C[i] = None
      /\ c \in Nat
  BY DEF Shown, NextIs
<1>2. \A i : AtEof(o, i) <=> i > n \/ (L(i) > 1 /\ L(i) >= leafs) BY DEF AtEof
<1>3. fat => leafs \in Nat /\ (\A i \in 1 .. n : L(i) \in 1 .. leafs) /\ \A i, k \in 1 .. n : i <= k => L(i) <= L(k)
  BY <1>0 DEF ZapOK, Leaf, Chunks
<1>4. ~fat => \A i : L(i) = 0 BY <1>0 DEF ZapOK, Leaf
<1>e. AtEof(o, j) OBVIOUS
<1> HIDE DEF o, C, n, c, L, fat, leafs
<1>5. \A i \in 1 .. n : C[i] # None => (i <= c <=> In(i))
  <2> SUFFICES ASSUME NEW i \in 1 .. n, C[i] # None PROVE i <= c <=> In(i) OBVIOUS
  <2>1. ASSUME i <= c PROVE In(i)
    <3>1. i \in 1 .. c BY <1>1, <2>1
    <3>2. ~(L(i) > 1 /\ L(i) >= leafs) BY <1>1, <1>2, <3>1
    <3> QED BY <1>3, <3>2
  <2>2. ASSUME ~(i <= c), In(i) PROVE FALSE
    <3>1. j <= i /\ j \in 1 .. n BY <1>0, <1>1, <2>2
    <3>2. L(j) > 1 /\ L(j) >= leafs BY <1>0, <1>2, <1>e, <3>1
    <3>3. fat BY <1>4, <3>2
    <3>4. leafs \in Nat /\ L(j) \in 1 .. leafs /\ L(i) \in 1 .. leafs /\ L(j) <= L(i) BY <1>3, <3>1, <3>3
    <3> QED BY <2>2, <3>2, <3>3, <3>4
  <2> QED BY <2>1, <2>2
<1> HIDE DEF In
<1>6. r.listed = {C[i] : i \in D} \ {None}
  <2>1. ASSUME NEW y \in r.listed PROVE y \in {C[i] : i \in D} \ {None}
    <3>1. PICK i \in 1 .. c : y = C[i] /\ y # None BY <1>1, <2>1
    <3>2. i \in 1 .. n /\ i <= c BY <1>0, <1>1
    <3>3. i \in D BY <1>0, <1>5, <3>1, <3>2
    <3> QED BY <3>1, <3>3
  <2>2. ASSUME NEW y \in {C[i] : i \in D} \ {None} PROVE y \in r.listed
    <3>1. PICK i \in D : y = C[i] /\ y # None BY <2>2
    <3>2. i \in 1 .. n /\ In(i) BY <1>0
    <3>3. i \in 1 .. c BY <1>1, <1>5, <3>1, <3>2
    <3> QED BY <1>1, <3>1, <3>3
  <2> QED BY <2>1, <2>2
<1> QED BY <1>6 DEF D, In, o, C, L, fat, leafs
\* Blocks in a row.
LEMMA RowRun ==
    ASSUME NEW a \in Addresses, NEW o, NEW n \in Int, NEW from \in Int, NEW q, q = [i \in 1 .. n |-> Req(a, o, from + i - 1)]
    PROVE  q = <<>> \/ Runs(q, a, o, a, o)
<1>1. CASE n <= 0
  <2>1. 1 .. n = {} BY <1>1
  <2> QED BY <2>1
<1>2. CASE n > 0
  <2> DEFINE m == n
             F(i) == Req(a, o, from + i - 1)
  <2>1. m \in Nat /\ m > 0 BY <1>2
  <2>2. \A i \in 1 .. m : F(i).addr = a /\ F(i).o = o BY ReqIs
  <2>3. q = [i \in 1 .. m |-> F(i)] OBVIOUS
  <2> HIDE DEF F, m
  <2>4. q \in Seq({F(i) : i \in 1 .. m}) /\ Len(q) = m /\ \A i \in 1 .. m : q[i] = F(i)
    <3> DEFINE g == [i \in 1 .. m |-> F(i)]
    <3>1. g \in Seq({F(i) : i \in 1 .. m}) /\ Len(g) = m /\ \A i \in 1 .. m : g[i] = F(i) BY <2>1
    <3> HIDE DEF g
    <3>2. q = g BY <2>3 DEF g
    <3> QED BY <3>1, <3>2
  <2>5. IsSeq(q) BY <2>4, SeqIs
  <2>6. q # <<>> BY <2>1, <2>4, <2>5, SeqFacts
  <2>7. \A i \in 1 .. Len(q) : q[i].addr = a /\ q[i].o = o BY <2>2, <2>4
  <2> QED BY <2>5, <2>6, <2>7, RunSame
<1> QED BY <1>1, <1>2

\* What zfs_readdir reads are blocks of the directory.
LEMMA DirRun ==
    ASSUME NEW a \in Addresses, NEW o, Dir(o), NEW c \in Nat, c <= Len(Chunks(o)), NEW j \in Nat, c < j, j <= Len(Chunks(o)) + 1,
           NEW q, q = DirBlocks(a, o, c, j)
    PROVE  q = <<>> \/ Runs(q, a, o, a, o)
<1> DEFINE fat == Objects[o].zap.kind = "fat"
           leafs == Objects[o].zap.num_leafs
           from == IF fat /\ c > 0 THEN Leaf(o, c) + 1 ELSE 0
           last == IF AtEof(o, j) THEN leafs - 1 ELSE Leaf(o, j)
           to == IF fat THEN IF c = 0 /\ last < 1 THEN 1 ELSE last
                 ELSE IF c = 0 \/ c < Len(Chunks(o)) THEN 0 ELSE -1
           n == to - from + 1
<1>1. ZapOK(Objects[o].zap) /\ Len(Chunks(o)) \in Nat /\ DOMAIN Chunks(o) = 1 .. Len(Chunks(o)) BY DirChunks
<1>2. fat => leafs \in Nat /\ \A i \in 1 .. Len(Chunks(o)) : Leaf(o, i) \in Nat BY <1>1 DEF ZapOK, Leaf, Chunks
<1>3. ~AtEof(o, j) => j \in 1 .. Len(Chunks(o)) BY <1>1 DEF AtEof
<1>4. c > 0 => c \in 1 .. Len(Chunks(o)) BY <1>1
<1>5. from \in Int BY <1>2, <1>4
<1>6. fat => last \in Int BY <1>2, <1>3
<1> HIDE DEF last
<1>7. to \in Int BY <1>6
<1>q. q = [i \in 1 .. n |-> Req(a, o, from + i - 1)] BY DEF DirBlocks, last
<1> HIDE DEF from, to
<1>8. n \in Int BY <1>5, <1>7
<1> HIDE DEF n
<1> QED BY <1>5, <1>8, <1>q, RowRun

\* zfs_readdir keeps the invariant.
LEMMA ReaddirStep == ASSUME FileInv, NEW s \in Slots, NEW bad \in BadSets, zfs_readdir(s, bad) PROVE FileInv'
<1> DEFINE r == files[s]
           o == r.dn
           j == NextChunk(o, r.chunk)
           eof == AtEof(o, j)
           a == <<"file", s>>
           reqs == IF zfs_stat(s, bad) THEN DirBlocks(a, o, r.chunk, j) ELSE <<>>
           f == Fetch(cache, reqs, bad)
           err == f.err \/ ~zfs_stat(s, bad)
           wrong == Wrong(f, reqs)
           x == [r EXCEPT !.chunk = j, !.listed = r.listed \union {Chunks(o)[j]}]
           y == [r EXCEPT !.done = TRUE]
<1>1. Types BY DEF FileInv
<1>2. /\ r # None /\ Dir(o) /\ ~r.done /\ op = Idle /\ Faults(bad) /\ UNCHANGED <<op, dev, ops>> /\ cache' = Cache(f)
      /\ result' = [k |-> "readdir", dn |-> o, listed |-> IF wrong THEN Junk ELSE r.listed, eof |-> eof /\ ~err]
      /\ files' = (IF err \/ eof \/ wrong THEN [files EXCEPT ![s].done = TRUE]
                   ELSE [files EXCEPT ![s].chunk = j, ![s].listed = @ \union {Chunks(o)[j]}])
  BY DEF zfs_readdir
<1>3. files \in [Slots -> FileRec \union {None}] /\ r \in FileRec BY <1>1, <1>2 DEF Types
<1>4. r.chunk \in Nat BY <1>3 DEF FileRec
<1>5. Shown(r) BY <1>2 DEF FileInv
<1>6. NextIs(o, r.chunk, j) BY <1>2, <1>4, <1>5, NextFacts DEF Shown
<1>x. [files EXCEPT ![s].chunk = j, ![s].listed = @ \union {Chunks(o)[j]}] = [files EXCEPT ![s] = x]
  BY <1>3 DEF FileRec
<1>y. [files EXCEPT ![s].done = TRUE] = [files EXCEPT ![s] = y] BY <1>3 DEF FileRec
<1>7. a \in Addresses BY AddressFacts
<1>9. reqs = <<>> \/ Runs(reqs, a, o, a, o)
  <2>1. CASE zfs_stat(s, bad)
    <3>1. reqs = DirBlocks(a, o, r.chunk, j) BY <2>1
    <3>2. j \in Nat /\ r.chunk < j /\ j <= Len(Chunks(o)) + 1 /\ r.chunk <= Len(Chunks(o)) BY <1>5, <1>6 DEF NextIs, Shown
    <3> HIDE DEF reqs, a, o, j
    <3> QED BY <1>2, <1>4, <1>7, <3>1, <3>2, DirRun
  <2>2. CASE ~zfs_stat(s, bad) BY <2>2
  <2> QED BY <2>1, <2>2
<1> HIDE DEF reqs
<1>10. reqs = <<>> \/ Asks(reqs) BY <1>9, RunAsks
<1>11. f.obj \in Addresses \union {cache.obj} BY <1>10, FetchSome
<1>h. tainted' \in BOOLEAN /\ (tainted => tainted') /\ (~tainted' => bad = {} /\ ~tainted) BY <1>1, <1>2, FaultFacts
<1>12. ~tainted' => Held(f, files) /\ ~wrong
  <2> SUFFICES ASSUME ~tainted' PROVE Held(f, files) /\ ~wrong OBVIOUS
  <2>1. f = Fetch(cache, reqs, {}) BY <1>h
  <2>2. Held(cache, files) BY <1>h DEF FileInv
  <2> HIDE DEF f
  <2>3. Held(f, files) /\ Len(f.bufs) = Len(reqs) /\ \A i \in 1 .. Len(reqs) : f.bufs[i] = <<reqs[i].o, reqs[i].bn>>
    BY <1>9, <2>1, <2>2, FetchFile
  <2>4. Acc(f) BY <1>10, <2>1, FetchSome
  <2>5. DOMAIN f.bufs = 1 .. Len(reqs) BY <2>3, <2>4, SeqFacts DEF Acc
  <2> QED BY <2>3, <2>5 DEF Wrong
<1>13. /\ result'.k = "readdir" /\ result'.dn = o /\ (~wrong => result'.listed = r.listed)
       /\ (result'.eof <=> eof /\ ~err)
  BY <1>2
<1>14. ListsAll'
  <2> SUFFICES ASSUME eof, ~wrong PROVE ListsAll' BY <1>12, <1>13 DEF ListsAll
  <2>1. AtEof(r.dn, j) OBVIOUS
  <2> HIDE DEF eof, j
  <2>2. r.listed = {Chunks(r.dn)[i] : i \in {k \in DOMAIN Chunks(r.dn) :
                          Objects[r.dn].zap.kind = "fat" /\ Objects[r.dn].zap.num_leafs > 1
                              => Leaf(r.dn, k) < Objects[r.dn].zap.num_leafs}} \ {None}
    BY <1>2, <1>4, <1>5, <1>6, <2>1, ShownAll
  <2> QED BY <1>13, <2>2 DEF ListsAll
<1>15. Results' BY <1>13, <1>14, ResultReaddir
<1>16. cache'.obj \in Addresses \union {None}
  <2>1. cache'.obj = f.obj BY <1>2, FieldsSame
  <2> QED BY <1>1, <1>11, <2>1 DEF Types
<1>17. /\ files' \in [Slots -> FileRec \union {None}] /\ (\A t \in Slots : files'[t].dn = files[t].dn)
       /\ \A t \in Slots : files'[t] # None /\ Dir(files'[t].dn) /\ ~files'[t].done => Shown(files'[t])
  <2>1. CASE err \/ eof \/ wrong
    <3>1. files' = [files EXCEPT ![s] = y] BY <1>2, <1>y, <2>1
    <3>2. y \in FileRec /\ y.dn = r.dn /\ y.done = TRUE BY <1>3 DEF FileRec
    <3> HIDE DEF y
    <3>7. files'[s] = y /\ \A t \in Slots : t # s => files'[t] = files[t] BY <1>3, <3>1
    <3>8. files' \in [Slots -> FileRec \union {None}] BY <1>3, <3>1, <3>2
    <3>9. \A t \in Slots : files'[t].dn = files[t].dn BY <3>2, <3>7
    <3>10. \A t \in Slots : files'[t] # None /\ Dir(files'[t].dn) /\ ~files'[t].done => Shown(files'[t]) BY <3>2, <3>7 DEF FileInv
    <3> QED BY <3>8, <3>9, <3>10
  <2>2. CASE ~(err \/ eof \/ wrong)
    <3>1. files' = [files EXCEPT ![s] = x] BY <1>2, <1>x, <2>2
    <3>2. x.dn = r.dn /\ x.chunk = j /\ x.listed = r.listed \union {Chunks(r.dn)[j]} /\ x.seekp = r.seekp /\ DOMAIN x = DOMAIN r
      BY <1>3 DEF FileRec
    <3>n. j \in Nat /\ x.listed \subseteq STRING \union {None} => x \in FileRec
      <4> DEFINE l == r.listed \union {Chunks(o)[j]}
      <4>1. x.listed = l BY <3>2
      <4>2. x = [r EXCEPT !.chunk = j, !.listed = l] OBVIOUS
      <4> HIDE DEF l, j, x, r
      <4> QED BY <1>3, <4>1, <4>2 DEF FileRec
    <3>3. ~AtEof(r.dn, j) BY <2>2
    <3>5. j \in Nat BY <1>6 DEF NextIs
    <3> HIDE DEF x, j, f, eof
    <3>4. Shown(x) /\ x.listed \subseteq STRING \union {None} BY <1>2, <1>4, <1>5, <1>6, <3>2, <3>3, ShownMore
    <3>6. x \in FileRec BY <3>4, <3>5, <3>n
    <3>7. files'[s] = x /\ \A t \in Slots : t # s => files'[t] = files[t] BY <1>3, <3>1
    <3>8. files' \in [Slots -> FileRec \union {None}] BY <1>3, <3>1, <3>6
    <3>9. \A t \in Slots : files'[t].dn = files[t].dn BY <3>2, <3>7
    <3>10. \A t \in Slots : files'[t] # None /\ Dir(files'[t].dn) /\ ~files'[t].done => Shown(files'[t]) BY <3>4, <3>7 DEF FileInv
    <3> QED BY <3>8, <3>9, <3>10
  <2> QED BY <2>1, <2>2
<1>18. ~tainted' => Held(cache', files')
  <2> SUFFICES ASSUME ~tainted' PROVE Held(cache', files') OBVIOUS
  <2>1. Held(cache', files) BY <1>2, <1>12, HeldCache
  <2> QED BY <1>17, <2>1 DEF Held
<1>19. ops' \in 0 .. MaxOps BY <1>1, <1>2 DEF Types
<1> QED BY <1>2, <1>15, <1>16, <1>17, <1>18, <1>19, StillIdle
-----------------------------------------------------------------------------
(* zfsboot's listing. *)

\* The header and every leaf.
ListRight(q, o) == /\ Runs(q, <<"local", "dn">>, o, <<"local", "dn">>, o)
                   /\ Dir(o) /\ Objects[o].zap.kind = "fat" =>
                        Len(q) = Objects[o].zap.num_leafs + 1 /\ \A i \in 2 .. Objects[o].zap.num_leafs + 1 : q[i].bn = i - 1
LEMMA ListRun == ASSUME NEW o, NEW q, q = ListReqs(o) PROVE ListRight(q, o)
<1> DEFINE a == <<"local", "dn">>
           x == <<Req(a, o, 0)>>
           n == Objects[o].zap.num_leafs
           y == [i \in 1 .. n |-> Req(a, o, i)]
<1>1. a \in Addresses BY AddressFacts
<1>2. Runs(x, a, o, a, o) BY <1>1, RunOne
<1>x. Len(x) = 1 BY OneSeq
<1>3. CASE ~(Dir(o) /\ Objects[o].zap.kind = "fat")
  <2>1. q = x \o <<>> BY <1>3 DEF ListReqs
  <2> HIDE DEF x
  <2>2. IsSeq(x) BY <1>2 DEF Runs, Chain
  <2>3. q = x BY <2>1, <2>2, JoinEmpty
  <2> QED BY <1>2, <1>3, <2>3 DEF ListRight
<1>4. CASE Dir(o) /\ Objects[o].zap.kind = "fat"
  <2>1. q = x \o y BY <1>4 DEF ListReqs
  <2>2. n \in Nat BY <1>4, DirChunks DEF ZapOK
  <2> DEFINE F(i) == Req(a, o, i)
  <2>3. \A i \in 1 .. n : F(i).addr = a /\ F(i).o = o /\ F(i).bn = i BY ReqIs
  <2>y. y = [i \in 1 .. n |-> F(i)] OBVIOUS
  <2> HIDE DEF F, n, y, x, a
  <2>4. y \in Seq({F(i) : i \in 1 .. n}) /\ Len(y) = n /\ \A i \in 1 .. n : y[i] = F(i) BY <2>2, <2>y
  <2>5. IsSeq(x) /\ IsSeq(y) BY <1>2, <2>4, SeqIs DEF Runs, Chain
  <2>6. /\ IsSeq(q) /\ Len(q) = 1 + n
        /\ \A i \in 1 .. 1 + n : q[i] = IF i <= 1 THEN x[i] ELSE y[i - 1]
    <3>1. IsSeq(x \o y) /\ Len(x \o y) = Len(x) + Len(y)
          /\ \A i \in 1 .. Len(x) + Len(y) : (x \o y)[i] = IF i <= Len(x) THEN x[i] ELSE y[i - Len(x)]
      BY <2>5, JoinFacts
    <3> QED BY <1>x, <2>1, <2>4, <3>1
  <2>7. x[1].addr = a /\ x[1].o = o BY <1>2 DEF Runs
  <2>8. \A i \in 2 .. 1 + n : i - 1 \in 1 .. n /\ q[i] = y[i - 1] /\ q[i].addr = a /\ q[i].o = o /\ q[i].bn = i - 1
    <3> SUFFICES ASSUME NEW i \in 2 .. 1 + n PROVE i - 1 \in 1 .. n /\ q[i] = y[i - 1] /\ q[i].addr = a /\ q[i].o = o /\ q[i].bn = i - 1 OBVIOUS
    <3>1. i - 1 \in 1 .. n /\ i \in 1 .. 1 + n /\ ~(i <= 1) BY <2>2
    <3>2. q[i] = y[i - 1] BY <2>6, <3>1
    <3>3. y[i - 1] = F(i - 1) BY <2>4, <3>1
    <3>4. F(i - 1).addr = a /\ F(i - 1).o = o /\ F(i - 1).bn = i - 1 BY <2>3, <3>1
    <3> QED BY <3>1, <3>2, <3>3, <3>4
  <2>9. \A i \in 1 .. Len(q) : q[i].addr = a /\ q[i].o = o
    <3> SUFFICES ASSUME NEW i \in 1 .. Len(q) PROVE q[i].addr = a /\ q[i].o = o OBVIOUS
    <3>1. CASE i = 1
      <4>1. q[1] = x[1] BY <2>2, <2>6
      <4> QED BY <2>7, <3>1, <4>1
    <3>2. CASE i # 1
      <4>1. i \in 2 .. 1 + n BY <2>2, <2>6, <3>2
      <4> QED BY <2>8, <4>1
    <3> QED BY <3>1, <3>2
  <2>10. q # <<>>
    <3>1. Len(q) > 0 BY <2>2, <2>6
    <3> QED BY <2>6, <3>1, SeqFacts
  <2>11. Runs(q, a, o, a, o) BY <1>1, <2>6, <2>9, <2>10, RunSame
  <2>12. Len(q) = n + 1 /\ \A i \in 2 .. n + 1 : q[i].bn = i - 1
    <3>1. n + 1 = 1 + n BY <2>2
    <3> QED BY <2>6, <2>8, <3>1
  <2> QED BY <2>11, <2>12 DEF ListRight, a, n
<1> QED BY <1>3, <1>4

\* All leaves have been read: all entries are listed.
LEMMA ListedAll ==
    ASSUME NEW o, Dir(o), Objects[o].zap.kind = "fat", NEW leaves, leaves = 1 .. Objects[o].zap.num_leafs PROVE fzap_list(o, leaves) = mzap_list(o)
<1> DEFINE C == Chunks(o)
<1>1. ZapOK(Objects[o].zap) BY DirChunks
<1>2. \A j \in DOMAIN C : Leaf(o, j) \in leaves BY <1>1 DEF ZapOK, Leaf, Chunks
<1>3. {j \in DOMAIN C : Leaf(o, j) \in leaves} = DOMAIN C BY <1>2
<1> QED BY <1>3 DEF fzap_list, mzap_list

\* zap_list keeps the invariant.
LEMMA ZapListStep == ASSUME FileInv, zap_list(op.bad) PROVE FileInv'
<1> DEFINE o == op.dn
           q == ListReqs(o)
           f == Fetch(cache, q, op.bad)
           leaves == {f.bufs[i][2] : i \in 2 .. Len(f.bufs)}
           l == <<"local", "dn">>
           all == IF Wrong(f, q) THEN Junk ELSE IF ~Dir(o) \/ f.bufs = <<>> THEN {}
                  ELSE IF Objects[o].zap.kind = "micro" THEN mzap_list(o) ELSE fzap_list(o, leaves)
<1>1. Types /\ Results BY DEF FileInv
<1>2. /\ op.k = "lookup" /\ op.p = <<>> /\ op.slot = "static" /\ UNCHANGED <<files, dev, ops, ffaults, tainted>>
      /\ cache' = Cache(f) /\ op' = Idle
      /\ result' = [k |-> "list", path |-> op.path, dn |-> o, err |-> f.err \/ ~Dir(o), listed |-> all]
  BY DEF zap_list
<1>3. op \in LookRec
  <2>1. op \notin {Idle, Overrun} BY <1>2 DEF Idle, Overrun
  <2> QED BY <1>1, <2>1 DEF Types
<1>4. ListRight(q, o) BY ListRun
<1>5. Runs(q, l, o, l, o) BY <1>4 DEF ListRight
<1>6. Asks(q) BY <1>5, RunAsks
<1>7. result'.k = "list" /\ result'.path = op.path /\ result'.dn = o /\ (result'.err <=> f.err \/ ~Dir(o)) /\ result'.listed = all BY <1>2
<1>8. l \in OnStack /\ l # SpaMos /\ l # <<"mount", "static">> BY AddressFacts
<1> HIDE DEF q, l
<1>9. ~tainted => /\ o = Named[op.path] /\ ~Wrong(f, q) /\ f.obj = l /\ Len(f.bufs) = Len(q) /\ IsSeq(f.bufs)
                  /\ \A i \in 1 .. Len(q) : f.bufs[i] = <<q[i].o, q[i].bn>>
  <2> SUFFICES ASSUME ~tainted
               PROVE /\ o = Named[op.path] /\ ~Wrong(f, q) /\ f.obj = l /\ Len(f.bufs) = Len(q) /\ IsSeq(f.bufs)
                     /\ \A i \in 1 .. Len(q) : f.bufs[i] = <<q[i].o, q[i].bn>>
    OBVIOUS
  <2>1. o = Named[op.path] /\ cache.obj = <<"mount", "static">> /\ op.bad = {} BY <1>2, <1>3, LookDone
  <2>2. f = Fetch(cache, q, {}) BY <2>1
  <2>3. Fits(cache, l, o) BY <1>8, <2>1 DEF Fits
  <2> HIDE DEF f, o
  <2>4. Acc(f) /\ ~Wrong(f, q) /\ f.obj = l /\ Len(f.bufs) = Len(q) /\ \A i \in 1 .. Len(q) : f.bufs[i] = <<q[i].o, q[i].bn>>
    BY <1>5, <2>2, <2>3, FetchRun
  <2> QED BY <2>1, <2>4 DEF Acc
<1>10. OpenResolves' BY <1>2, <1>7, <1>9 DEF OpenResolves
<1>11. ~tainted /\ Dir(o) => all = mzap_list(o)
  <2> SUFFICES ASSUME ~tainted, Dir(o) PROVE all = mzap_list(o) OBVIOUS
  <2>1. ~(f.bufs = <<>>)
    <3>1. Len(q) \in Nat \ {0} BY <1>5, SeqFacts DEF Runs, Chain
    <3>2. Len(f.bufs) > 0 BY <1>9, <3>1
    <3> QED BY <1>9, <3>2, SeqFacts
  <2>2. CASE Objects[o].zap.kind = "micro" BY <1>9, <2>1, <2>2
  <2>3. CASE Objects[o].zap.kind # "micro"
    <3>1. Objects[o].zap.kind = "fat" /\ Objects[o].zap.num_leafs \in Nat BY <2>3, DirChunks DEF ZapOK
    <3> DEFINE n == Objects[o].zap.num_leafs
    <3>2. Len(q) = n + 1 /\ \A i \in 2 .. n + 1 : q[i].bn = i - 1 BY <1>4, <3>1 DEF ListRight
    <3>3. leaves = 1 .. n
      <4> HIDE DEF n, f
      <4>1. \A i \in 2 .. n + 1 : f.bufs[i][2] = i - 1 BY <1>9, <3>1, <3>2 DEF n
      <4>2. Len(f.bufs) = n + 1 BY <1>9, <3>2
      <4>3. ASSUME NEW y \in leaves PROVE y \in 1 .. n BY <3>1, <4>1, <4>2, <4>3 DEF n
      <4>4. ASSUME NEW y \in 1 .. n PROVE y \in leaves
        <5>1. y + 1 \in 2 .. n + 1 /\ (y + 1) - 1 = y BY <3>1 DEF n
        <5>2. f.bufs[y + 1][2] = y BY <4>1, <5>1
        <5> QED BY <4>2, <5>1, <5>2
      <4> QED BY <4>3, <4>4
    <3> HIDE DEF leaves
    <3>4. fzap_list(o, leaves) = mzap_list(o) BY <3>1, <3>3, ListedAll
    <3> QED BY <1>9, <2>1, <2>3, <3>4
  <2> QED BY <2>2, <2>3
<1> HIDE DEF all
<1>12. BootListsAll' BY <1>2, <1>7, <1>11 DEF BootListsAll
<1>13. Results' BY <1>7, <1>10, <1>12, ResultList
<1>14. cache'.obj = f.obj BY <1>2, FieldsSame
<1>15. Types'
  <2>1. cache'.obj \in Addresses \union {None}
    <3>1. f.obj \in Addresses \union {cache.obj} BY <1>6, FetchAny
    <3> QED BY <1>1, <1>14, <3>1 DEF Types
  <2> QED BY <1>1, <1>2, <2>1 DEF Types
<1>16. ~tainted' => Held(cache', files')
  <2> SUFFICES ASSUME ~tainted PROVE Held(cache', files') BY <1>2
  <2>1. cache'.obj \in OnStack \union {SpaMos} /\ Fits(cache', SpaMos, Mos) BY <1>8, <1>9, <1>14 DEF Fits
  <2> QED BY <2>1, HeldStack
<1>17. op'.k # "lookup" BY <1>2 DEF Idle
<1>18. /\ (~tainted /\ dev # None => DevOK(dev))'
       /\ (\A t \in Slots : files[t] # None /\ Dir(files[t].dn) /\ ~files[t].done => Shown(files[t]))'
  BY <1>2, OthersKept
<1> QED BY <1>13, <1>15, <1>16, <1>17, <1>18 DEF FileInv
-----------------------------------------------------------------------------
(* Device names. *)

\* What a call that only concerns the device keeps.
LEMMA DevStep ==
    ASSUME FileInv, Call, NEW bad \in BadSets, Faults(bad), UNCHANGED <<files, op>>, cache'.obj \in Addresses \union {None},
           result'.k \in {"parsedev", "fmtdev"}, DevRoundTrip', ~tainted' => Held(cache', files), ~tainted' /\ dev' # None => DevOK(dev')
    PROVE  FileInv'
<1>1. Types BY DEF FileInv
<1>2. op = Idle /\ ops' \in 0 .. MaxOps BY <1>1, CallFacts
<1>3. ffaults' \in 0 .. MaxFaults /\ tainted' \in BOOLEAN BY <1>1, FaultFacts
<1>4. Types' BY <1>1, <1>2, <1>3 DEF Types
<1>5. Results' BY ResultDev
<1>6. op'.k # "lookup" BY <1>2 DEF Idle
<1>7. (\A t \in Slots : files[t] # None /\ Dir(files[t].dn) /\ ~files[t].done => Shown(files[t]))' BY DEF FileInv
<1> QED BY <1>4, <1>5, <1>6, <1>7 DEF FileInv

\* zfs_parsedev keeps the invariant.
LEMMA ParseStep == ASSUME FileInv, NEW names \in DevSpecs, NEW bad \in BadSets, zfs_parsedev(names, bad) PROVE FileInv'
<1> DEFINE w == IF names = <<>> THEN [v |-> 0, reqs |-> <<>>] ELSE zfs_lookup_dataset(names)
           q == w.reqs
           f == Fetch(cache, q, bad)
           root == IF f.err THEN None ELSE IF Wrong(f, q) THEN Junk ELSE w.v
           new == [names |-> names, root |-> root]
<1>1. Types BY DEF FileInv
<1>2. /\ Call /\ Faults(bad) /\ UNCHANGED <<files, op>> /\ cache' = Cache(f)
      /\ dev' = (IF root = None THEN dev ELSE new)
      /\ result' = [k |-> "parsedev", names |-> names, root |-> root]
  BY DEF zfs_parsedev
<1>3. q = <<>> \/ MosRun(q)
  <2>1. CASE names = <<>> BY <2>1
  <2>2. CASE names # <<>>
    <3>1. names \in Seq(STRING) BY FileAssumption
    <3>2. Len(names) \in Nat BY <3>1
    <3>3. w = zfs_lookup_dataset(names) BY <2>2
    <3> QED BY <3>2, <3>3, LookupRun
  <2> QED BY <2>1, <2>2
<1>v. /\ names = <<>> => w.v = 0
      /\ names # <<>> => w.v = zfs_lookup_dataset(names).v
  OBVIOUS
<1>n. DOMAIN new = {"names", "root"} /\ new.names = names /\ new.root = root OBVIOUS
<1>r. result'.k = "parsedev" BY <1>2
<1> HIDE DEF q, w, new
<1>4. q = <<>> \/ Asks(q) BY <1>3, PoolAsks
<1>5. f.obj \in Addresses \union {cache.obj} BY <1>4, FetchSome
<1>6. cache'.obj \in Addresses \union {None}
  <2>1. cache'.obj = f.obj BY <1>2, FieldsSame
  <2> QED BY <1>1, <1>5, <2>1 DEF Types
<1>h. tainted' \in BOOLEAN /\ (tainted => tainted') /\ (~tainted' => bad = {} /\ ~tainted) BY <1>1, <1>2, FaultFacts
<1>7. ~tainted' => Held(f, files) /\ root = w.v
  <2> SUFFICES ASSUME ~tainted' PROVE Held(f, files) /\ root = w.v OBVIOUS
  <2>1. f = Fetch(cache, q, {}) BY <1>h
  <2>2. Held(cache, files) BY <1>h DEF FileInv
  <2> HIDE DEF f
  <2>3. ~f.err /\ ~Wrong(f, q) /\ Held(f, files) BY <1>3, <2>1, <2>2, FetchPool
  <2> QED BY <2>3
<1>8. ~tainted' => Held(cache', files) BY <1>2, <1>7, HeldCache
<1>9. ~tainted' /\ dev' # None => DevOK(dev')
  <2> SUFFICES ASSUME ~tainted', dev' # None PROVE DevOK(dev') OBVIOUS
  <2>1. root = w.v BY <1>7
  <2>2. CASE root = None
    <3>1. dev' = dev BY <1>2, <2>2
    <3> QED BY <1>h, <3>1 DEF FileInv
  <2>3. CASE root # None
    <3>1. dev' = new BY <1>2, <2>3
    <3> HIDE DEF root
    <3>2. names = <<>> => root = 0 BY <1>v, <2>1
    <3>3. names # <<>> => root = zfs_lookup_dataset(names).v BY <1>v, <2>1
    <3> QED BY <1>n, <2>3, <3>1, <3>2, <3>3 DEF DevOK
  <2> QED BY <2>2, <2>3
<1>10. DevRoundTrip' BY <1>r DEF DevRoundTrip
<1> QED BY <1>2, <1>6, <1>8, <1>9, <1>10, <1>r, DevStep

\* The name of the dataset in use leads back to it.
LEMMA NameBack ==
    ASSUME NEW d, DevOK(d), NEW gv, gv = (IF d.root = 0 THEN DefaultRoot.v ELSE d.root), NEW lucky, NEW w, w = zfs_rlookup(gv, lucky)
    PROVE  /\ w.v # None => w.names = IF d.names = <<>> THEN BootfsNames ELSE d.names
           /\ d.names = <<>> => gv = DefaultRoot.v
           /\ d.names # <<>> => gv = d.root
<1> DEFINE R == DefaultRoot.v
<1>1. R # 0 /\ R # None BY RootDataset, TypedNat
<1>2. d.names \in Seq(STRING) /\ Len(d.names) <= Depth /\ BootfsNames \in Seq(STRING) /\ Len(BootfsNames) <= Depth
  BY FileAssumption DEF DevOK
<1> HIDE DEF R
<1>3. CASE d.names = <<>>
  <2>1. gv = R BY <1>1, <1>3 DEF DevOK, R
  <2>2. gv = zfs_lookup_dataset(BootfsNames).v /\ gv # None BY <1>1, <2>1, BootfsAssumption DEF R
  <2>3. w.v # None => w.names = BootfsNames BY <1>2, <2>2, RoundTrip
  <2> QED BY <1>3, <2>1, <2>3 DEF R
<1>4. CASE d.names # <<>>
  <2>1. d.root = zfs_lookup_dataset(d.names).v /\ d.root # None BY <1>4 DEF DevOK
  <2>2. Len(d.names) \in Nat BY <1>2
  <2>3. Typed(d.root, {"dataset"}) BY <2>1, <2>2, LookupRun
  <2>4. d.root # 0 BY <2>3, TypedNat
  <2>5. gv = d.root BY <2>4
  <2>6. gv = zfs_lookup_dataset(d.names).v /\ gv # None BY <2>1, <2>5
  <2> DEFINE names == d.names
  <2>8. names \in Seq(STRING) /\ Len(names) <= Depth /\ gv = zfs_lookup_dataset(names).v /\ gv # None BY <1>2, <2>6
  <2> HIDE DEF names
  <2>9. w.v # None => w.names = names BY <2>8, RoundTrip
  <2>7. w.v # None => w.names = d.names BY <2>9 DEF names
  <2> QED BY <1>4, <2>5, <2>7
<1> QED BY <1>3, <1>4

\* zfs_fmtdev keeps the invariant.
LEMMA FmtStep == ASSUME FileInv, NEW lucky \in BOOLEAN, NEW bad \in BadSets, zfs_fmtdev(lucky, bad) PROVE FileInv'
<1> DEFINE g == RootOr(dev.root, cache, bad)
           fg == g.f
           w == zfs_rlookup(g.v, lucky)
           q2 == w.reqs
           f == Fetch(Cache(fg), q2, bad)
           ok == ~fg.err /\ ~f.err /\ w.v # None
           name == IF ~ok THEN None ELSE IF g.wrong \/ Wrong(f, q2) THEN Junk ELSE w.names
<1>1. Types BY DEF FileInv
<1>2. /\ dev # None /\ Call /\ Faults(bad) /\ UNCHANGED <<files, op>>
      /\ cache' = (IF fg.err THEN Cache(fg) ELSE Cache(f))
      /\ dev' = (IF fg.err THEN dev ELSE [dev EXCEPT !.root = g.v])
      /\ result' = [k |-> "fmtdev", names |-> name]
  BY DEF zfs_fmtdev
<1>5. MosRun(q2) BY RlookupRun
<1>r. result'.k = "fmtdev" /\ result'.names = name BY <1>2
<1>w. w = zfs_rlookup(g.v, lucky) /\ g = RootOr(dev.root, cache, bad) OBVIOUS
<1> HIDE DEF g, w, q2
<1>7. Asks(q2) BY <1>5, MosAsks
<1>8. cache'.obj \in Addresses \union {None}
  <2>0. cache.obj \in Addresses \union {None} BY <1>1 DEF Types
  <2>1. fg.obj \in Addresses \union {None} BY <1>w, <2>0, RootOrAny
  <2>2. f.obj \in Addresses \union {Cache(fg).obj} BY <1>7, FetchAny
  <2>3. Cache(fg).obj = fg.obj /\ cache'.obj \in {fg.obj, f.obj}
    <3> HIDE DEF fg, f
    <3> QED BY <1>2 DEF Cache
  <2> HIDE DEF fg, f
  <2> QED BY <2>1, <2>2, <2>3
<1>h. tainted' \in BOOLEAN /\ (tainted => tainted') /\ (~tainted' => bad = {} /\ ~tainted) BY <1>1, <1>2, FaultFacts
<1>9. ~tainted' => /\ ~fg.err /\ ~f.err /\ ~g.wrong /\ ~Wrong(f, q2) /\ Held(f, files) /\ DevOK(dev)
                   /\ g.v = IF dev.root = 0 THEN DefaultRoot.v ELSE dev.root
  <2> SUFFICES ASSUME ~tainted'
               PROVE /\ ~fg.err /\ ~f.err /\ ~g.wrong /\ ~Wrong(f, q2) /\ Held(f, files) /\ DevOK(dev)
                     /\ g.v = IF dev.root = 0 THEN DefaultRoot.v ELSE dev.root
    OBVIOUS
  <2>1. g = RootOr(dev.root, cache, {}) /\ f = Fetch(Cache(fg), q2, {}) BY <1>h, <1>w
  <2>2. Held(cache, files) /\ DevOK(dev) BY <1>h, <1>2 DEF FileInv
  <2> HIDE DEF f
  <2>3. ~fg.err /\ ~g.wrong /\ Held(fg, files) /\ g.v = (IF dev.root = 0 THEN DefaultRoot.v ELSE dev.root) BY <2>1, <2>2, RootOrRight
  <2> HIDE DEF fg
  <2>4. Held(Cache(fg), files) BY <2>3, HeldCache
  <2>5. ~f.err /\ ~Wrong(f, q2) /\ Held(f, files) BY <1>5, <2>1, <2>4, FetchPool
  <2> QED BY <2>2, <2>3, <2>5
<1> HIDE DEF fg, f
<1>10. ~tainted' => Held(cache', files)
  <2> SUFFICES ASSUME ~tainted' PROVE Held(cache', files) OBVIOUS
  <2>1. cache' = Cache(f) /\ Held(f, files) BY <1>2, <1>9
  <2> QED BY <2>1, HeldCache
<1>11. ~tainted' => /\ DOMAIN dev' = {"names", "root"} /\ dev'.names = dev.names /\ dev'.root = g.v
  <2> SUFFICES ASSUME ~tainted' PROVE DOMAIN dev' = {"names", "root"} /\ dev'.names = dev.names /\ dev'.root = g.v OBVIOUS
  <2>1. dev' = [dev EXCEPT !.root = g.v] /\ DOMAIN dev = {"names", "root"} BY <1>2, <1>9 DEF DevOK
  <2> QED BY <2>1
<1>12. ~tainted' => /\ w.v # None => w.names = IF dev.names = <<>> THEN BootfsNames ELSE dev.names
                    /\ dev.names = <<>> => g.v = DefaultRoot.v
                    /\ dev.names # <<>> => g.v = dev.root
  BY <1>9, <1>w, NameBack
<1>13. ~tainted' /\ dev' # None => DevOK(dev')
  <2> SUFFICES ASSUME ~tainted' PROVE DevOK(dev') OBVIOUS
  <2>1. DevOK(dev) BY <1>9
  <2> QED BY <1>11, <1>12, <2>1 DEF DevOK
<1>14. DevRoundTrip'
  <2> SUFFICES ASSUME ~tainted', result'.names # None PROVE result'.names = IF dev'.names = <<>> THEN BootfsNames ELSE dev'.names
    BY DEF DevRoundTrip
  <2>1. ok /\ name = w.names BY <1>9, <1>r
  <2> QED BY <1>r, <1>11, <1>12, <2>1
<1> QED BY <1>2, <1>8, <1>10, <1>13, <1>14, <1>r, DevStep
-----------------------------------------------------------------------------
(* The theorem. *)

\* The invariant holds when the loader starts.
LEMMA FileInvInit == ZfsFileInit => FileInv
<1> SUFFICES ASSUME ZfsFileInit PROVE FileInv OBVIOUS
<1>1. /\ cache.obj = None /\ files = [s \in Slots |-> None] /\ op = Idle /\ result.k = "none"
      /\ ops = 0 /\ ffaults = 0 /\ tainted = FALSE /\ dev = None
  BY DEF ZfsFileInit
<1>2. MaxOps \in Nat /\ MaxFaults \in Nat BY FileAssumption
<1>t. tainted \in BOOLEAN BY <1>1
<1>f. ffaults \in 0 .. MaxFaults /\ ops \in 0 .. MaxOps BY <1>1, <1>2
<1>s. cache.obj \in Addresses \union {None} /\ files \in [Slots -> FileRec \union {None}] BY <1>1
<1>3. Types BY <1>1, <1>t, <1>f, <1>s DEF Types
<1>4. Results BY <1>1 DEF Results, OpenResolves, FileBytesRight, ReadBounded, ListsAll, BootListsAll, DevRoundTrip
<1>5. op.k # "lookup" BY <1>1 DEF Idle
<1>6. Held(cache, files) BY <1>1, HeldNone
<1>7. \A s \in Slots : files[s] = None BY <1>1
<1> QED BY <1>1, <1>3, <1>4, <1>5, <1>6, <1>7 DEF FileInv

\* Every step keeps it.
LEMMA FileInvNext == FileInv /\ [ZfsFileNext]_fvars => FileInv'
<1> SUFFICES ASSUME FileInv, [ZfsFileNext]_fvars PROVE FileInv' OBVIOUS
<1>1. CASE Running
  <2>1. op.k = "lookup" BY <1>1 DEF Running
  <2>2. CASE LookupDone BY <2>2, DoneStep
  <2>3. CASE zfs_lookup(op.bad) BY <2>1, <2>3, LookupStep
  <2>4. CASE zap_list(op.bad) BY <2>4, ZapListStep
  <2> QED BY <1>1, <2>2, <2>3, <2>4 DEF Running
<1>2. ASSUME NEW s \in Slots, zfs_close(s) PROVE FileInv' BY <1>2, CloseStep
<1>3. ASSUME NEW s \in Slots, NEW off \in SeekOffs, NEW w \in {"SET", "CUR", "END"}, zfs_seek(s, w, off) PROVE FileInv' BY <1>3, SeekStep
<1>4. ASSUME NEW bad \in BadSets, NEW s \in Slots, NEW path \in ZPaths, zfs_open(s, path, bad) PROVE FileInv' BY <1>4, OpenStep
<1>5. ASSUME NEW bad \in BadSets, NEW path \in ListPaths, list(path, bad) PROVE FileInv' BY <1>5, ListStep
<1>6. ASSUME NEW bad \in BadSets, NEW s \in Slots, NEW n \in ReadSizes, zfs_read(s, n, bad) PROVE FileInv' BY <1>6, ReadStep
<1>7. ASSUME NEW bad \in BadSets, NEW s \in Slots, zfs_readdir(s, bad) PROVE FileInv' BY <1>7, ReaddirStep
<1>8. ASSUME NEW bad \in BadSets, NEW nm \in DevSpecs, zfs_parsedev(nm, bad) PROVE FileInv' BY <1>8, ParseStep
<1>9. ASSUME NEW bad \in BadSets, NEW lucky \in BOOLEAN, zfs_fmtdev(lucky, bad) PROVE FileInv' BY <1>9, FmtStep
<1>10. CASE UNCHANGED fvars
  <2>1. UNCHANGED <<cache, files, op, result, dev, ops, ffaults, tainted>> BY <1>10 DEF fvars
  <2>2. Types' BY <2>1 DEF FileInv, Types
  <2>3. Results' BY <2>1, ResultsKept DEF FileInv
  <2> QED BY <2>1, <2>2, <2>3 DEF FileInv
<1> QED BY <1>1, <1>2, <1>3, <1>4, <1>5, <1>6, <1>7, <1>8, <1>9, <1>10 DEF ZfsFileNext

\* It implies what the run checks.
LEMMA FileInvSafe == FileInv => FileSafe
<1> SUFFICES ASSUME FileInv PROVE FileSafe OBVIOUS
<1>1. Types /\ Results BY DEF FileInv
<1>2. ASSUME NEW s \in Slots, files[s] # None PROVE files[s].dn \in DOMAIN Objects /\ files[s].seekp \in Nat
  <2>1. files[s] \in FileRec BY <1>1, <1>2 DEF Types
  <2> QED BY <2>1 DEF FileRec
<1>3. op.k \in {"idle", "lookup", "overrun"}
  <2>1. op \in {Idle, Overrun} \/ op \in LookRec BY <1>1 DEF Types
  <2> QED BY <2>1 DEF LookRec, Idle, Overrun
<1>4. ZfsFileTypeOK BY <1>1, <1>2, <1>3 DEF Types, ZfsFileTypeOK
<1> QED BY <1>1, <1>4 DEF FileSafe, Results

\* While no read has failed, what is opened, read, listed and named is what is on the disk: for any objects that
\* meet FileAssumption, with any files opened, closed at the same heap address and opened again, read, listed and
\* named in any order, the one block buffer of dnode_read, keyed by the address of a dnode, is never taken for the
\* block of another object.  Nothing is said of a lookup that does not return because strcpy() moves the rest of the
\* path over itself or past path[] (Overruns, zfsimpl.c:1963), nor of the last leaf of a directory (ListsAll).
THEOREM ZfsFileSafe == ZfsFileSpec => []FileSafe
<1>1. ZfsFileInit => FileInv BY FileInvInit
<1>2. FileInv /\ [ZfsFileNext]_fvars => FileInv' BY FileInvNext
<1>3. FileInv => FileSafe BY FileInvSafe
<1> QED BY <1>1, <1>2, <1>3, PTL DEF ZfsFileSpec

=============================================================================
