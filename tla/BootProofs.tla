----------------------------- MODULE BootProofs -----------------------------
(***************************************************************************)
(* Proofs about module.c and boot.c, for every catalogue of files, every   *)
(* page size and every length of the day: what is handed to the kernel is  *)
(* laid out, complete and undone as a whole; what is booted is a kernel,   *)
(* and giving up means that none could be booted; and the countdown never  *)
(* runs short.                                                             *)
(***************************************************************************)
EXTENDS Boot, SequenceTheorems, FiniteSetTheorems, TLAPS

Listed == 1 .. Len(preloaded_files)
Open == 1 .. Len(stack)

\* The type of a code file is the one in its ELF header.
Kinds == \A k \in Listed :
            preloaded_files[k].type # "raw" => preloaded_files[k].type = Kind[preloaded_files[k].name]

\* The first file is the kernel, and the only one.
KernelHead == \A k \in Listed : preloaded_files[k].type = "kernel" <=> k = 1

\* Where mod_loadkld and file_load_dependencies are.
Control ==
    /\ pc = "idle" => stack = <<>>
    /\ pc = "deps" => stack # <<>>
    /\ pc = "load" => arg \in Names

\* The records of the file whose dependencies frame x is loading.
Wants(x) == Deps(preloaded_files[stack[x].base].name)

\* Each frame stands for a code file; the frames are in the order of the list; all but the
\* innermost wait for a file they require.
Frames ==
    /\ \A x \in Open : /\ stack[x].base \in Listed
                       /\ preloaded_files[stack[x].base].type # "raw"
                       /\ x < Len(stack) \/ pc # "deps" => stack[x].dep <= Len(Wants(x))
    /\ \A x, y \in Open : x < y => stack[x].base < stack[y].base

\* One of the first l files has what dependency d asks for.
Satisfied(l, d) ==
    \E k \in 1 .. l :
        /\ preloaded_files[k].type # "raw"
        /\ \E r \in Provides[preloaded_files[k].name] : r.mod = d.mod /\ Acceptable(r.ver, d)

\* The x-th record of file k has been dealt with.
Past(k, x) == \A y \in Open : stack[y].base = k => x < stack[y].dep

\* Among the first l files, what was dealt with is satisfied by the first l files.
Closed(l) ==
    \A k \in 1 .. l : preloaded_files[k].type = "module" =>
        \A x \in 1 .. Len(Deps(preloaded_files[k].name)) :
            Past(k, x) => Satisfied(l, Deps(preloaded_files[k].name)[x])

\* This holds for the whole list, and for every shorter list a failure may cut it back to.
Lengths == {Len(preloaded_files)} \union {stack[y].base - 1 : y \in Open}
Resolved == \A l \in Lengths : Closed(l)

\* What the command found is still there, and a failure of the outermost load restores it.
Undo ==
    pc \in {"load", "deps"} \/ (pc = "ret" /\ (stack # <<>> \/ preloaded_files # <<>>)) =>
        /\ Len(before.files) <= Len(preloaded_files)
        /\ \A k \in 1 .. Len(before.files) : preloaded_files[k] = before.files[k]
        /\ before.loadaddr = IF before.files = <<>> THEN 0 ELSE End(before.files[Len(before.files)])
        /\ stack # <<>> => stack[1].base = Len(before.files) + 1
        /\ stack = <<>> /\ (pc = "load" \/ err) =>
              before.files = preloaded_files /\ before.loadaddr = loadaddr

BeforeOK == before \in [files : Seq(File), loadaddr : Nat]
Layout == Packed /\ PageAligned /\ KernelHead /\ LoadedOnce /\ Kinds
LoadInv == TypeOK /\ BeforeOK /\ Layout /\ Control /\ Frames /\ Resolved /\ Undo

-----------------------------------------------------------------------------
(* The list of files. *)

\* roundup() moves up to a page boundary.
LEMMA RoundUp ==
    ASSUME NEW a \in Nat PROVE roundup(a) \in Nat /\ a <= roundup(a) /\ roundup(a) % PAGE_SIZE = 0
  <1>1. PAGE_SIZE \in Nat /\ PAGE_SIZE > 0
      BY CatalogueAssumption
  <1> DEFINE q == (a + PAGE_SIZE - 1) \div PAGE_SIZE
  <1>2. q \in Nat /\ a <= q * PAGE_SIZE
      BY <1>1
  <1>3. q * PAGE_SIZE \in Nat /\ (q * PAGE_SIZE) % PAGE_SIZE = 0
      BY <1>1, <1>2
  <1> QED BY <1>2, <1>3 DEF roundup

LEMMA FileFacts ==
    ASSUME TypeOK
    PROVE  /\ Len(preloaded_files) \in Nat /\ Len(stack) \in Nat
           /\ \A k \in Listed : preloaded_files[k] \in File /\ End(preloaded_files[k]) \in Nat
           /\ \A x \in Open : stack[x] \in Frame
           /\ (preloaded_files = <<>> <=> Len(preloaded_files) = 0)
           /\ (stack = <<>> <=> Len(stack) = 0)
  <1>1. preloaded_files \in Seq(File) /\ stack \in Seq(Frame)
      BY DEF TypeOK
  <1>2. Len(preloaded_files) \in Nat /\ Len(stack) \in Nat
      BY <1>1
  <1>3. \A k \in Listed : preloaded_files[k] \in File
      BY <1>1 DEF Listed
  <1>4. \A x \in Open : stack[x] \in Frame
      BY <1>1 DEF Open
  <1>5. \A k \in Listed : End(preloaded_files[k]) \in Nat
      BY <1>3 DEF End, File
  <1> QED BY <1>1, <1>2, <1>3, <1>4, <1>5

\* A file added after the last one.
LEMMA GrowLayout ==
    ASSUME TypeOK, Layout, NEW f \in File, preloaded_files' = Append(preloaded_files, f),
           loadaddr' = End(f), loadaddr <= f.addr, BelowMemtop(f),
           f.type = "kernel" <=> preloaded_files = <<>>,
           f.type = "module" => f.addr % PAGE_SIZE = 0,
           f.type # "raw" => f.type = Kind[f.name] /\ ~file_findfile(f.name)
    PROVE  Layout' /\ preloaded_files' \in Seq(File) /\ loadaddr' \in Nat
  <1> DEFINE m == Len(preloaded_files)
  <1>1. /\ m \in Nat /\ \A k \in 1 .. m : preloaded_files[k] \in File /\ End(preloaded_files[k]) \in Nat
        /\ preloaded_files = <<>> <=> m = 0
      BY FileFacts DEF Listed
  <1>2. /\ preloaded_files' \in Seq(File) /\ Len(preloaded_files') = m + 1
        /\ preloaded_files'[m + 1] = f /\ \A k \in 1 .. m : preloaded_files'[k] = preloaded_files[k]
    <2>1. preloaded_files \in Seq(File)
        BY DEF TypeOK
    <2> QED BY <2>1, AppendProperties
  <1>3. f.addr \in Nat /\ f.size \in Nat /\ End(f) \in Nat /\ memtop \in Nat /\ f.name \in Names
      BY CatalogueAssumption DEF End, File
  <1>4. preloaded_files' # <<>>
      BY <1>1, <1>2
  <1> HIDE DEF m
  <1>5. Packed'
    <2>1. \A k \in 1 .. m - 1 : End(preloaded_files[k]) <= preloaded_files[k + 1].addr
        BY DEF Layout, Packed, m
    <2>2. m # 0 => End(preloaded_files[m]) <= f.addr
        BY <1>1 DEF Layout, Packed, m
    <2>3. \A k \in 1 .. m : End(preloaded_files'[k]) <= preloaded_files'[k + 1].addr
      <3> SUFFICES ASSUME NEW k \in 1 .. m PROVE End(preloaded_files'[k]) <= preloaded_files'[k + 1].addr
          OBVIOUS
      <3>1. CASE k = m
          BY <3>1, <1>1, <1>2, <2>2
      <3>2. CASE k # m
        <4>1. k \in 1 .. m - 1 /\ k + 1 \in 1 .. m
            BY <3>2, <1>1
        <4> QED BY <4>1, <1>2, <2>1
      <3> QED BY <3>1, <3>2
    <2>4. \A k \in 1 .. m + 1 : BelowMemtop(preloaded_files'[k])
      <3>1. \A k \in 1 .. m : BelowMemtop(preloaded_files[k])
          BY DEF Layout, Packed, m
      <3>2. \A k \in 1 .. m + 1 : k \in 1 .. m \/ k = m + 1
          BY <1>1
      <3> QED BY <3>1, <3>2, <1>2
    <2>5. Len(preloaded_files') - 1 = m
        BY <1>1, <1>2
    <2> QED BY <2>3, <2>4, <2>5, <1>2, <1>4 DEF Packed
  <1>6. \A k \in 1 .. m + 1 : k \in 1 .. m \/ k = m + 1
      BY <1>1
  <1>7. PageAligned'
      BY <1>2, <1>6 DEF Layout, PageAligned, m
  <1>8. KernelHead'
    <2>1. m + 1 = 1 <=> m = 0
        BY <1>1
    <2> QED BY <1>1, <1>2, <1>6, <2>1 DEF Layout, KernelHead, Listed, m
  <1>9. LoadedOnce'
    <2> SUFFICES ASSUME NEW x \in 1 .. m + 1, NEW y \in 1 .. m + 1,
                        preloaded_files'[x].name = preloaded_files'[y].name,
                        preloaded_files'[x].type # "raw", preloaded_files'[y].type # "raw"
                 PROVE  x = y
        BY <1>2 DEF LoadedOnce
    <2>1. CASE x \in 1 .. m /\ y \in 1 .. m
        BY <2>1, <1>2 DEF Layout, LoadedOnce, m
    <2>2. CASE x = m + 1 /\ y \in 1 .. m
        BY <2>2, <1>2 DEF file_findfile, m
    <2>3. CASE y = m + 1 /\ x \in 1 .. m
        BY <2>3, <1>2 DEF file_findfile, m
    <2> QED BY <1>6, <2>1, <2>2, <2>3
  <1>10. Kinds'
      BY <1>2, <1>6 DEF Layout, Kinds, Listed, m
  <1> QED BY <1>2, <1>3, <1>5, <1>7, <1>8, <1>9, <1>10 DEF Layout

\* The list cut back to the files before position b.
LEMMA CutLayout ==
    ASSUME TypeOK, Layout, NEW b \in Listed, b # 1,
           preloaded_files' = SubSeq(preloaded_files, 1, b - 1), loadaddr' = End(preloaded_files[b - 1])
    PROVE  /\ Layout' /\ preloaded_files' \in Seq(File) /\ loadaddr' \in Nat
           /\ Len(preloaded_files') = b - 1
           /\ \A k \in 1 .. b - 1 : preloaded_files'[k] = preloaded_files[k]
  <1> DEFINE m == Len(preloaded_files)
  <1>1. /\ m \in Nat /\ \A k \in 1 .. m : preloaded_files[k] \in File /\ End(preloaded_files[k]) \in Nat
        /\ b \in 2 .. m
      BY FileFacts DEF Listed
  <1>2. /\ preloaded_files' \in Seq(File) /\ Len(preloaded_files') = b - 1
        /\ \A k \in 1 .. b - 1 : preloaded_files'[k] = preloaded_files[k]
    <2>1. preloaded_files \in Seq(File) /\ 1 \in Int /\ b - 1 \in 1 .. m
        BY <1>1 DEF TypeOK
    <2> QED BY <2>1, SubSeqProperties
  <1>3. \A k \in 1 .. b - 1 : k \in 1 .. m
      BY <1>1
  <1>4. b - 1 \in 1 .. b - 1 /\ preloaded_files' # <<>>
      BY <1>1, <1>2
  <1>5. Packed'
    <2>1. \A k \in 1 .. (b - 1) - 1 : k \in 1 .. m - 1 /\ k \in 1 .. b - 1 /\ k + 1 \in 1 .. b - 1
        BY <1>1
    <2> QED BY <1>2, <1>3, <1>4, <2>1 DEF Layout, Packed
  <1>6. PageAligned' /\ KernelHead' /\ LoadedOnce' /\ Kinds'
      BY <1>2, <1>3 DEF Layout, PageAligned, KernelHead, LoadedOnce, Kinds, Listed
  <1> QED BY <1>1, <1>2, <1>3, <1>4, <1>5, <1>6 DEF Layout

-----------------------------------------------------------------------------
(* The list of directories. *)

\* A set of natural numbers that is not empty has a least member.
LEMMA Least == ASSUME NEW T \in SUBSET Nat, T # {} PROVE \E x \in T : \A y \in T : x <= y
  <1> DEFINE F == {0 .. m : m \in T}
  <1>1. F \subseteq FiniteSubsetsOf(Nat)
    <2>1. \A m \in T : IsFiniteSet(0 .. m)
        BY FS_Interval
    <2> QED BY <2>1 DEF FiniteSubsetsOf
  <1>2. PICK X \in F : \A Y \in F : ~(<<Y, X>> \in StrictSubsetOrdering(Nat))
    <2>1. F # {}
        OBVIOUS
    <2> HIDE DEF F
    <2> QED BY <1>1, <2>1, FS_StrictSubsetOrderingWellFounded, WFMin
  <1>3. PICK x \in T : X = 0 .. x
      BY <1>2
  <1>4. ASSUME NEW y \in T PROVE x <= y
    <2>1. ~(<<0 .. y, 0 .. x>> \in StrictSubsetOrdering(Nat))
        BY <1>2, <1>3
    <2>2. ~(0 .. y \subseteq 0 .. x /\ 0 .. y # 0 .. x)
        BY <2>1 DEF StrictSubsetOrdering
    <2>3. SUFFICES ASSUME y < x PROVE FALSE
        OBVIOUS
    <2>4. x \in 0 .. x /\ ~(x \in 0 .. y) /\ 0 .. y \subseteq 0 .. x
        BY <2>3
    <2> QED BY <2>2, <2>4
  <1> QED BY <1>4

\* The places of K are counted from 1 to their number.
LEMMA Counted ==
    ASSUME NEW n \in Nat, NEW K \in SUBSET (1 .. n)
    PROVE  /\ Cardinality(K) \in Nat
           /\ \A k \in K : \E i \in 1 .. Cardinality(K) : Nth(K, i) = k
           /\ \A i \in 1 .. Cardinality(K) : Nth(K, i) \in K
  <1> DEFINE c == Cardinality(K)
             Low(k) == {x \in K : x <= k}
             rank == [k \in K |-> Cardinality(Low(k))]
  <1>1. IsFiniteSet(K) /\ c \in Nat
    <2>1. IsFiniteSet(1 .. n)
        BY FS_Interval
    <2> QED BY <2>1, FS_Subset, FS_CardinalityType
  <1>2. ASSUME NEW k \in K
        PROVE  /\ IsFiniteSet(Low(k)) /\ Cardinality(Low(k)) \in 1 .. c
    <2>1. Low(k) \subseteq K /\ k \in Low(k)
        OBVIOUS
    <2> HIDE DEF Low
    <2>2. IsFiniteSet(Low(k)) /\ Cardinality(Low(k)) <= c
        BY <1>1, <2>1, FS_Subset
    <2>3. Cardinality(Low(k)) \in Nat /\ Cardinality(Low(k)) # 0
        BY <2>1, <2>2, FS_CardinalityType, FS_EmptySet
    <2> QED BY <1>1, <2>2, <2>3
  <1>3. ASSUME NEW k \in K, NEW m \in K, k < m PROVE Cardinality(Low(k)) # Cardinality(Low(m))
    <2>1. Low(k) \subseteq Low(m) /\ m \in Low(m) /\ m \notin Low(k)
      <3>1. \A x \in K : x \in Int
          OBVIOUS
      <3>2. k \in Int /\ m \in Int /\ ~(m <= k) /\ m <= m
          BY <1>3, <3>1
      <3>3. \A x \in K : x <= k => x <= m
          BY <1>3, <3>1
      <3> QED BY <3>2, <3>3
    <2>2. IsFiniteSet(Low(m))
        BY <1>2
    <2> HIDE DEF Low
    <2> QED BY <2>1, <2>2, FS_Subset
  <1>4. \A k, m \in K : Cardinality(Low(k)) = Cardinality(Low(m)) => k = m
    <2>1. \A k, m \in K : k = m \/ k < m \/ m < k
        OBVIOUS
    <2> QED BY <1>3, <2>1
  <1>5. rank \in Injection(K, 1 .. c)
      BY <1>2, <1>4 DEF Injection, IsInjective
  <1>6. Cardinality(1 .. c) = c /\ IsFiniteSet(1 .. c)
    <2> HIDE DEF c
    <2>1. IsFiniteSet(1 .. c) /\ Cardinality(1 .. c) = IF 1 > c THEN 0 ELSE c - 1 + 1
        BY <1>1, FS_Interval
    <2> QED BY <1>1, <2>1
  <1>7. rank \in Surjection(K, 1 .. c)
    <2> HIDE DEF rank
    <2> QED BY <1>5, <1>6, FS_Injection
  <1>8. \A i \in 1 .. c : \E k \in K : Cardinality(Low(k)) = i
      BY <1>7 DEF Surjection
  <1>9. \A i \in 1 .. c : Nth(K, i) \in K
      BY <1>8 DEF Nth
  <1>10. \A k \in K : Nth(K, Cardinality(Low(k))) = k
      BY <1>4 DEF Nth
  <1> QED BY <1>1, <1>2, <1>9, <1>10

\* All places: nothing changes.
LEMMA AllPlaces == ASSUME NEW n \in Nat, NEW i \in 1 .. n PROVE Nth(1 .. n, i) = i /\ Cardinality(1 .. n) = n
  <1>1. ASSUME NEW k \in 1 .. n PROVE Cardinality({x \in 1 .. n : x <= k}) = k
    <2>1. {x \in 1 .. n : x <= k} = 1 .. k
        OBVIOUS
    <2>2. Cardinality(1 .. k) = IF 1 > k THEN 0 ELSE k - 1 + 1
        BY FS_Interval
    <2>3. ~(1 > k) /\ k - 1 + 1 = k
        OBVIOUS
    <2> QED BY <2>1, <2>2, <2>3
  <1>2. Cardinality(1 .. n) = IF 1 > n THEN 0 ELSE n - 1 + 1
      BY FS_Interval
  <1> QED BY <1>1, <1>2 DEF Nth

LEMMA ThoseFacts ==
    ASSUME NEW S, NEW l \in Seq(S), NEW K \in SUBSET (1 .. Len(l))
    PROVE  /\ Those(l, K) \in Seq(S) /\ Len(Those(l, K)) = Cardinality(K)
           /\ \A k \in K : \E i \in 1 .. Cardinality(K) : Those(l, K)[i] = l[k]
           /\ \A i \in 1 .. Cardinality(K) : \E k \in K : Those(l, K)[i] = l[k]
  <1>1. Len(l) \in Nat /\ \A k \in K : l[k] \in S
      OBVIOUS
  <1>2. /\ Cardinality(K) \in Nat
        /\ \A k \in K : \E i \in 1 .. Cardinality(K) : Nth(K, i) = k
        /\ \A i \in 1 .. Cardinality(K) : Nth(K, i) \in K
      BY <1>1, Counted
  <1>3. Those(l, K) = [i \in 1 .. Cardinality(K) |-> l[Nth(K, i)]]
      BY DEF Those
  <1>4. Those(l, K) \in Seq(S) /\ Len(Those(l, K)) = Cardinality(K)
    <2>1. Those(l, K) \in [1 .. Cardinality(K) -> S]
        BY <1>1, <1>2, <1>3
    <2> QED BY <1>2, <2>1
  <1> QED BY <1>2, <1>3, <1>4

LEMMA ThoseAll == ASSUME NEW S, NEW l \in Seq(S) PROVE Those(l, 1 .. Len(l)) = l
  <1> DEFINE n == Len(l)
  <1>0. n \in Nat
      OBVIOUS
  <1>1. n \in Nat /\ l = [i \in 1 .. n |-> l[i]]
      OBVIOUS
  <1>2. Cardinality(1 .. n) = n
    <2> HIDE DEF n
    <2>1. Cardinality(1 .. n) = IF 1 > n THEN 0 ELSE n - 1 + 1
        BY <1>0, FS_Interval
    <2> QED BY <1>0, <2>1
  <1>3. \A i \in 1 .. n : Nth(1 .. n, i) = i
      BY <1>1, AllPlaces
  <1>4. Those(l, 1 .. n) = [i \in 1 .. n |-> l[Nth(1 .. n, i)]]
      BY <1>2 DEF Those
  <1>5. [i \in 1 .. n |-> l[Nth(1 .. n, i)]] = [i \in 1 .. n |-> l[i]]
      BY <1>3
  <1> QED BY <1>1, <1>4, <1>5

-----------------------------------------------------------------------------
(* Dependencies. *)

LEMMA SatisfiedKept ==
    ASSUME NEW l \in Nat, NEW l2 \in Nat, l <= l2, NEW d,
           \A k \in 1 .. l : preloaded_files'[k] = preloaded_files[k], Satisfied(l, d)
    PROVE  Satisfied(l2, d)'
  BY DEF Satisfied

\* Nothing that was dealt with is lost when the first l files stay.
LEMMA ClosedKept ==
    ASSUME NEW l \in Nat, \A k \in 1 .. l : preloaded_files'[k] = preloaded_files[k], Closed(l),
           \A k \in 1 .. l : \A x : Past(k, x)' /\ preloaded_files[k].type = "module"
                                  /\ x \in 1 .. Len(Deps(preloaded_files[k].name)) => Past(k, x)
    PROVE  Closed(l)'
  <1> SUFFICES ASSUME NEW k \in 1 .. l, preloaded_files[k].type = "module",
                      NEW x \in 1 .. Len(Deps(preloaded_files[k].name)), Past(k, x)'
               PROVE  Satisfied(l, Deps(preloaded_files[k].name)[x])'
      BY DEF Closed
  <1>1. Satisfied(l, Deps(preloaded_files[k].name)[x])
      BY DEF Closed
  <1> QED BY <1>1 DEF Satisfied

LEMMA FindIsSatisfied ==
    ASSUME NEW d, file_findmodule(d.mod, d) PROVE Satisfied(Len(preloaded_files), d)
  BY DEF file_findmodule, Satisfied

-----------------------------------------------------------------------------
(* The frames. *)

LEMMA TopFacts ==
    ASSUME TypeOK, stack # <<>>
    PROVE  /\ Len(stack) \in Nat \ {0} /\ Len(stack) \in Open
           /\ Top = stack[Len(stack)] /\ Top \in Frame
  <1>1. Len(stack) \in Nat /\ Len(stack) # 0
      BY FileFacts
  <1>2. Len(stack) \in Open
      BY <1>1 DEF Open
  <1> QED BY <1>1, <1>2, FileFacts DEF Top

LEMMA PopFacts ==
    ASSUME TypeOK, stack # <<>>, stack' = Pop
    PROVE  /\ stack' \in Seq(Frame) /\ Len(stack') = Len(stack) - 1
           /\ \A x \in 1 .. Len(stack) - 1 : stack'[x] = stack[x]
  <1>1. stack \in Seq(Frame) /\ Len(stack) \in Nat \ {0}
      BY TopFacts DEF TypeOK
  <1> DEFINE n == Len(stack) - 1
  <1>2. 1 \in Int /\ n \in Int /\ \A x \in 1 .. n : stack[x] \in Frame
      BY <1>1
  <1>3. n \in Nat /\ (n >= 1 \/ n = 0)
    <2>1. \A l \in Nat \ {0} : l - 1 \in Nat /\ (l - 1 >= 1 \/ l - 1 = 0)
        OBVIOUS
    <2> QED BY <1>1, <2>1
  <1>4. stack' = SubSeq(stack, 1, n)
      BY DEF Pop
  <1> HIDE DEF n
  <1>5. /\ stack' \in Seq(Frame) /\ Len(stack') = IF 1 <= n THEN n - 1 + 1 ELSE 0
        /\ \A x \in 1 .. n - 1 + 1 : stack'[x] = stack[1 + x - 1]
      BY <1>2, <1>4, SubSeqProperties
  <1>6. Len(stack') = n /\ \A x \in 1 .. n : stack'[x] = stack[x]
      BY <1>3, <1>5
  <1> QED BY <1>5, <1>6 DEF n

LEMMA NextFacts ==
    ASSUME TypeOK, stack # <<>>, stack' = NextDep
    PROVE  /\ stack' \in Seq(Frame) /\ Len(stack') = Len(stack)
           /\ \A x \in 1 .. Len(stack) - 1 : stack'[x] = stack[x]
           /\ stack'[Len(stack)].base = Top.base /\ stack'[Len(stack)].dep = Top.dep + 1
  <1> DEFINE n == Len(stack)
             t == [Top EXCEPT !.dep = @ + 1]
  <1>1. stack \in Seq(Frame) /\ n \in Nat \ {0} /\ n \in 1 .. n /\ Top = stack[n] /\ Top \in Frame
      BY TopFacts DEF TypeOK, Open
  <1>2. t \in Frame /\ t.base = Top.base /\ t.dep = Top.dep + 1
      BY <1>1 DEF Frame
  <1>3. stack' = [stack EXCEPT ![n] = t]
      BY <1>1 DEF NextDep
  <1> HIDE DEF n, t
  <1>4. stack' \in Seq(Frame) /\ Len(stack') = n
      BY <1>1, <1>2, <1>3, ExceptSeq DEF n
  <1>5. stack'[n] = t /\ \A x \in 1 .. n - 1 : stack'[x] = stack[x]
    <2>1. DOMAIN stack = 1 .. n
        BY <1>1 DEF n
    <2> QED BY <1>1, <1>3, <2>1
  <1> QED BY <1>2, <1>4, <1>5 DEF n

\* The frame of a call stands for a module that comes after those of the calls around it,
\* and never for the kernel, whose dependencies are not walked.
LEMMA TopWaits ==
    ASSUME LoadInv, stack # <<>>, Top.dep <= Len(Deps(Base))
    PROVE  /\ Top.base \in Listed /\ Top.base # 1 /\ preloaded_files[Top.base].type = "module"
           /\ \A x \in Open : stack[x].base <= Top.base
           /\ \A x \in 1 .. Len(stack) - 1 : stack[x].base < Top.base
  <1>0. TypeOK /\ Layout /\ Frames
      BY DEF LoadInv
  <1>1. /\ Len(stack) \in Nat \ {0} /\ Len(stack) \in Open
        /\ Top = stack[Len(stack)] /\ Top \in Frame
      BY <1>0, TopFacts
  <1>2. Top.base \in Listed /\ preloaded_files[Top.base].type # "raw"
      BY <1>0, <1>1 DEF Frames
  <1>3. preloaded_files[Top.base] \in File /\ Kind[Base] = preloaded_files[Top.base].type
      BY <1>0, <1>2, FileFacts DEF Layout, Kinds, Base
  <1>4. Top.dep \in Nat \ {0}
      BY <1>1 DEF Frame
  <1>5. Kind[Base] # "kernel"
      BY <1>4 DEF Deps
  <1>6. preloaded_files[Top.base].type = "module" /\ Top.base # 1
      BY <1>0, <1>2, <1>3, <1>5 DEF File, Layout, KernelHead
  <1>7. \A x \in 1 .. Len(stack) - 1 : x \in Open /\ x < Len(stack)
      BY <1>1 DEF Open
  <1>8. \A x \in 1 .. Len(stack) - 1 : stack[x].base < Top.base
      BY <1>0, <1>1, <1>7 DEF Frames
  <1>9. \A x \in Open : x = Len(stack) \/ x \in 1 .. Len(stack) - 1
      BY <1>1 DEF Open
  <1>10. \A x \in Open : stack[x].base \in Nat
      BY <1>0, FileFacts DEF Frame
  <1>11. \A x \in Open : stack[x].base <= Top.base
      BY <1>1, <1>8, <1>9, <1>10
  <1> QED BY <1>2, <1>6, <1>8, <1>11

-----------------------------------------------------------------------------
(* Loading. *)

\* mod_loadkld loads a file and opens a frame for it.
LEMMA LoadStepPush ==
    ASSUME LoadInv, pc = "load", ~file_findfile(arg), file_load(arg),
           stack' = Append(stack, [base |-> Len(preloaded_files) + 1, dep |-> 1]),
           pc' = "deps", arg' = None, UNCHANGED <<err, before, cmds>>
    PROVE  LoadInv'
  <1> PICK syms \in {0, Syms[arg]} :
           /\ SymbolsLoaded(arg, syms)
           /\ preloaded_files' = Append(preloaded_files,
                 [name |-> arg, type |-> Kind[arg], addr |-> Dest(arg), size |-> Size[arg] + syms])
           /\ loadaddr' = Dest(arg) + Size[arg] + syms
      BY DEF file_load
  <1> DEFINE g == [name |-> arg, type |-> Kind[arg], addr |-> Dest(arg), size |-> Size[arg] + syms]
  <1>1. TypeOK /\ BeforeOK /\ Layout /\ Control /\ Frames /\ Resolved /\ Undo
      BY DEF LoadInv
  <1> PICK m \in Nat, n \in Nat : m = Len(preloaded_files) /\ n = Len(stack)
      BY <1>1, FileFacts
  <1>2. /\ m \in Nat /\ n \in Nat /\ (preloaded_files = <<>> <=> m = 0) /\ (stack = <<>> <=> n = 0)
        /\ \A k \in 1 .. m : preloaded_files[k] \in File
        /\ \A x \in 1 .. n : stack[x] \in Frame
      BY <1>1, FileFacts DEF Listed, Open
  <1>3. arg \in Names
      BY <1>1 DEF Control
  <1>4. /\ Kind[arg] \in {"kernel", "module"} /\ (Kind[arg] = "kernel" <=> preloaded_files = <<>>)
        /\ Size[arg] \in Nat /\ Syms[arg] \in Nat /\ syms \in Nat /\ ReadEnd[arg] \in Nat /\ memtop \in Nat
      BY <1>3, CatalogueAssumption DEF file_load, Accepted
  <1>5. loadaddr \in Nat /\ Dest(arg) \in Nat /\ loadaddr <= Dest(arg)
        /\ (Kind[arg] = "module" => Dest(arg) % PAGE_SIZE = 0)
    <2>1. loadaddr \in Nat
        BY <1>1 DEF TypeOK
    <2>2. CASE Kind[arg] = "kernel"
      <3>1. loadaddr = 0
          BY <1>1, <1>4, <2>2 DEF Layout, Packed
      <3> QED BY <3>1, <2>2, CatalogueAssumption DEF Dest
    <2>3. CASE Kind[arg] = "module"
        BY <2>1, <2>3, RoundUp DEF Dest
    <2> QED BY <1>4, <2>1, <2>2, <2>3
  <1>6. g \in File /\ End(g) = Dest(arg) + Size[arg] + syms
      BY <1>3, <1>4, <1>5 DEF File, End
  <1>7. /\ preloaded_files' = Append(preloaded_files, g) /\ loadaddr' = End(g)
        /\ kernelname' = (IF Kind[arg] = "kernel" THEN arg ELSE kernelname)
        /\ faults' \in 0 .. MaxFaults
    <2>1. faults' = faults \/ (faults < MaxFaults /\ faults' = faults + 1)
        BY DEF SymbolsLoaded
    <2>2. faults \in 0 .. MaxFaults /\ MaxFaults \in Nat
        BY <1>1, CatalogueAssumption DEF TypeOK
    <2>3. kernelname' = (IF Kind[arg] = "kernel" THEN arg ELSE kernelname)
        BY DEF file_load
    <2> QED BY <1>6, <2>1, <2>2, <2>3
  <1>7a. BelowMemtop(g)
    <2>1. Dest(arg) + ReadEnd[arg] < memtop
        BY DEF file_load, Fits
    <2>2. syms > 0 => Dest(arg) + Size[arg] + syms < memtop
        BY <1>4, <1>5 DEF SymbolsLoaded
    <2>3. CASE syms > 0
        BY <1>4, <1>5, <1>6, <2>2, <2>3 DEF BelowMemtop
    <2>4. CASE syms = 0
        BY <1>4, <1>5, <2>1, <2>4 DEF BelowMemtop
    <2> QED BY <1>4, <2>3, <2>4
  <1>8. Layout' /\ preloaded_files' \in Seq(File) /\ loadaddr' \in Nat
    <2>1. /\ g.type = Kind[arg] /\ g.addr = Dest(arg) /\ g.name = arg
        OBVIOUS
    <2> HIDE DEF g
    <2> QED BY <1>1, <1>4, <1>5, <1>6, <1>7, <1>7a, <2>1, GrowLayout
  <1>9. /\ Len(preloaded_files') = m + 1 /\ preloaded_files'[m + 1] = g
        /\ \A k \in 1 .. m : preloaded_files'[k] = preloaded_files[k]
    <2>1. preloaded_files \in Seq(File)
        BY <1>1 DEF TypeOK
    <2> QED BY <1>6, <1>7, <2>1, AppendProperties
  <1>10. /\ stack' \in Seq(Frame) /\ Len(stack') = n + 1
         /\ stack'[n + 1] = [base |-> m + 1, dep |-> 1] /\ \A x \in 1 .. n : stack'[x] = stack[x]
    <2>1. stack \in Seq(Frame) /\ [base |-> m + 1, dep |-> 1] \in Frame
        BY <1>1, <1>2 DEF TypeOK, Frame
    <2> QED BY <2>1, AppendProperties
  <1>11. g.type # "raw" /\ g.name = arg
      BY <1>4
  <1> HIDE DEF g
  <1>12. TypeOK'
      BY <1>1, <1>3, <1>7, <1>8, <1>10 DEF TypeOK
  <1>13. stack' # <<>>
      BY <1>2, <1>10
  <1>14. BeforeOK' /\ Control'
      BY <1>1, <1>13 DEF BeforeOK, Control
  <1>15. \A x \in 1 .. n + 1 : x \in 1 .. n \/ x = n + 1
      BY <1>2
  <1>16. Frames'
    <2>1. \A x \in 1 .. n : stack[x].base \in 1 .. m /\ preloaded_files[stack[x].base].type # "raw"
                              /\ stack[x].dep <= Len(Wants(x))
        BY <1>1 DEF Frames, Open, Listed
    <2>2. \A x \in 1 .. n : Wants(x)' = Wants(x)
        BY <2>1, <1>9, <1>10 DEF Wants
    <2>3. m + 1 \in 1 .. m + 1 /\ \A k \in 1 .. m : k \in 1 .. m + 1 /\ k < m + 1
        BY <1>2
    <2>4. \A x \in 1 .. n + 1 : /\ stack'[x].base \in 1 .. m + 1
                                /\ preloaded_files'[stack'[x].base].type # "raw"
                                /\ x < n + 1 => stack'[x].dep <= Len(Wants(x)')
      <3> TAKE x \in 1 .. n + 1
      <3>1. CASE x \in 1 .. n
          BY <3>1, <2>1, <2>2, <2>3, <1>9, <1>10
      <3>2. CASE x = n + 1
          BY <3>2, <2>3, <1>2, <1>9, <1>10, <1>11
      <3> QED BY <3>1, <3>2, <1>15
    <2>5. \A x, y \in 1 .. n + 1 : x < y => stack'[x].base < stack'[y].base
      <3> SUFFICES ASSUME NEW x \in 1 .. n + 1, NEW y \in 1 .. n + 1, x < y
                   PROVE  stack'[x].base < stack'[y].base
          OBVIOUS
      <3>1. x \in 1 .. n
          BY <1>2
      <3>2. CASE y \in 1 .. n
          BY <3>1, <3>2, <1>1, <1>10 DEF Frames, Open
      <3>3. CASE y = n + 1
          BY <3>1, <3>3, <2>1, <2>3, <1>10
      <3> QED BY <3>2, <3>3, <1>15
    <2> QED BY <2>4, <2>5, <1>9, <1>10 DEF Frames, Open, Listed
  <1>17. \A k, x : Past(k, x)' => Past(k, x)
    <2>1. \A x \in 1 .. n : x \in 1 .. n + 1
        BY <1>2
    <2> QED BY <2>1, <1>10 DEF Past, Open
  <1>18. Resolved'
    <2>1. Closed(m) /\ \A y \in 1 .. n : Closed(stack[y].base - 1)
        BY <1>1 DEF Resolved, Lengths, Open
    <2>2. \A l \in Nat : l <= m /\ Closed(l) => Closed(l)'
      <3> SUFFICES ASSUME NEW l \in Nat, l <= m, Closed(l) PROVE Closed(l)'
          OBVIOUS
      <3>1. \A k \in 1 .. l : k \in 1 .. m
          BY <1>2
      <3> QED BY <3>1, <1>9, <1>17, ClosedKept
    <2>3. Closed(m + 1)'
      <3> SUFFICES ASSUME NEW k \in 1 .. m + 1, preloaded_files'[k].type = "module",
                          NEW x \in 1 .. Len(Deps(preloaded_files'[k].name)), Past(k, x)',
                          NEW d, d = Deps(preloaded_files'[k].name)[x]
                   PROVE  Satisfied(m + 1, d)'
          BY DEF Closed, Satisfied
      <3>1. CASE k \in 1 .. m
        <4>1. Satisfied(m, d)
            BY <3>1, <2>1, <1>9, <1>17 DEF Closed
        <4>2. m + 1 \in Nat /\ m <= m + 1
            BY <1>2
        <4> QED BY <4>1, <4>2, <1>9, SatisfiedKept
      <3>2. CASE k = m + 1
        <4>1. n + 1 \in 1 .. n + 1
            BY <1>2
        <4>2. x < 1
            BY <3>2, <4>1, <1>10 DEF Past, Open
        <4> QED BY <4>2
      <3> QED BY <3>1, <3>2, <1>2
    <2>4. \A y \in 1 .. n + 1 : \A l \in Nat : l = stack'[y].base - 1 => Closed(l)'
      <3> TAKE y \in 1 .. n + 1
      <3> SUFFICES ASSUME NEW l \in Nat, l = stack'[y].base - 1 PROVE Closed(l)'
          OBVIOUS
      <3>1. CASE y \in 1 .. n
        <4>1. stack[y].base \in 1 .. m
            BY <3>1, <1>1 DEF Frames, Open, Listed
        <4>2. l = stack[y].base - 1 /\ l <= m
            BY <3>1, <4>1, <1>2, <1>10
        <4> QED BY <3>1, <4>2, <2>1, <2>2
      <3>2. CASE y = n + 1
        <4>1. l = m /\ m <= m
            BY <3>2, <1>2, <1>10
        <4> QED BY <4>1, <2>1, <2>2
      <3> QED BY <3>1, <3>2, <1>15
    <2>5. \A y \in 1 .. n + 1 : stack'[y].base - 1 \in Nat
      <3>1. \A y \in 1 .. n + 1 : stack'[y] \in Frame
          BY <1>10
      <3> QED BY <3>1 DEF Frame
    <2>6. Lengths' = {m + 1} \union {stack'[y].base - 1 : y \in 1 .. n + 1}
        BY <1>9, <1>10 DEF Lengths, Open
    <2> QED BY <2>3, <2>4, <2>5, <2>6 DEF Resolved
  <1>19. Undo'
    <2>1. /\ Len(before.files) <= m
          /\ \A k \in 1 .. Len(before.files) : preloaded_files[k] = before.files[k]
          /\ before.loadaddr = IF before.files = <<>> THEN 0 ELSE End(before.files[Len(before.files)])
          /\ stack # <<>> => stack[1].base = Len(before.files) + 1
          /\ stack = <<>> => before.files = preloaded_files
        BY <1>1 DEF Undo
    <2>2. Len(before.files) \in Nat
        BY <1>1 DEF BeforeOK
    <2>3. stack'[1].base = Len(before.files) + 1
      <3>1. CASE stack = <<>>
          BY <3>1, <2>1, <1>2, <1>10
      <3>2. CASE stack # <<>>
        <4>1. 1 \in 1 .. n
            BY <3>2, <1>2
        <4> QED BY <3>2, <4>1, <2>1, <1>10
      <3> QED BY <3>1, <3>2
    <2>4. Len(before.files) <= m + 1 /\ \A k \in 1 .. Len(before.files) : k \in 1 .. m
        BY <2>1, <2>2, <1>2
    <2> QED BY <2>1, <2>3, <2>4, <1>9, <1>13 DEF Undo
  <1> QED BY <1>8, <1>12, <1>14, <1>16, <1>18, <1>19 DEF LoadInv

\* The list and the frames stay: the file was there already, it could not be loaded, or
\* the file of a dependency was found on the disk.
LEMMA LoadStepStay ==
    ASSUME LoadInv, TypeOK', UNCHANGED <<preloaded_files, loadaddr, stack, before>>,
           \/ pc = "load" /\ pc' = "ret"
           \/ pc = "deps" /\ pc' = "load" /\ arg' \in Names /\ Top.dep <= Len(Deps(Base))
    PROVE  LoadInv'
  <1>1. TypeOK /\ BeforeOK /\ Layout /\ Control /\ Frames /\ Resolved /\ Undo
      BY DEF LoadInv
  <1>2. BeforeOK' /\ Control'
      BY <1>1 DEF BeforeOK, Control
  <1>3. Layout'
      BY <1>1 DEF Layout, Packed, PageAligned, KernelHead, LoadedOnce, Kinds, Listed
  <1>4. Frames'
    <2>1. \A x \in Open : stack[x].dep <= Len(Wants(x))
      <3> SUFFICES ASSUME NEW x \in Open PROVE stack[x].dep <= Len(Wants(x))
          OBVIOUS
      <3>1. x < Len(stack) \/ x = Len(stack)
          BY <1>1, FileFacts DEF Open
      <3> QED BY <3>1, <1>1 DEF Frames, Wants, Top, Base
    <2>2. Open' = Open /\ Listed' = Listed /\ \A x : Wants(x)' = Wants(x)
        BY DEF Open, Listed, Wants
    <2> QED BY <1>1, <2>1, <2>2 DEF Frames
  <1>5. Resolved'
    <2>1. Lengths' = Lengths
        BY DEF Lengths, Open
    <2>2. \A l : Closed(l)' <=> Closed(l)
        BY DEF Closed, Satisfied, Past, Open
    <2> QED BY <1>1, <2>1, <2>2 DEF Resolved
  <1>6. Undo'
      BY <1>1 DEF Undo, Control
  <1> QED BY <1>2, <1>3, <1>4, <1>5, <1>6 DEF LoadInv

\* All dependencies of the innermost file are there: its call returns.
LEMMA LoadStepPop ==
    ASSUME LoadInv, pc = "deps", Top.dep > Len(Deps(Base)), stack' = Pop, pc' = "ret", err' = FALSE,
           UNCHANGED <<preloaded_files, loadaddr, before, arg, kernelname, cmds, faults>>
    PROVE  LoadInv'
  <1>1. TypeOK /\ BeforeOK /\ Layout /\ Control /\ Frames /\ Resolved /\ Undo
      BY DEF LoadInv
  <1>2. stack # <<>>
      BY <1>1 DEF Control
  <1> PICK n \in Nat : n = Len(stack)
      BY <1>1, FileFacts
  <1>3. /\ n \in Nat \ {0} /\ Top = stack[n] /\ Top \in Frame
      BY <1>1, <1>2, TopFacts
  <1>4. /\ stack' \in Seq(Frame) /\ Len(stack') = n - 1
        /\ \A x \in 1 .. n - 1 : stack'[x] = stack[x]
      BY <1>1, <1>2, PopFacts
  <1>5. \A x \in 1 .. n - 1 : x \in 1 .. n /\ x < n
      BY <1>3
  <1>6. TypeOK' /\ BeforeOK' /\ Control'
      BY <1>1, <1>4 DEF TypeOK, BeforeOK, Control
  <1>7. Layout'
      BY <1>1 DEF Layout, Packed, PageAligned, KernelHead, LoadedOnce, Kinds, Listed
  <1>8. Frames'
    <2>1. \A x \in 1 .. n - 1 : Wants(x)' = Wants(x)
        BY <1>4 DEF Wants
    <2>2. Open = 1 .. n /\ Open' = 1 .. n - 1 /\ Listed' = Listed
        BY <1>4 DEF Open, Listed
    <2> QED BY <1>1, <1>4, <1>5, <2>1, <2>2 DEF Frames
  <1>9. Resolved'
    <2>1. \A k : \A x \in 1 .. Len(Deps(preloaded_files[k].name)) : Past(k, x)' => Past(k, x)
      <3> SUFFICES ASSUME NEW k, NEW x \in 1 .. Len(Deps(preloaded_files[k].name)), Past(k, x)',
                          NEW y \in 1 .. n, stack[y].base = k
                   PROVE  x < stack[y].dep
          BY DEF Past, Open
      <3>1. CASE y = n
        <4>1. Len(Deps(Base)) \in Nat /\ Top.dep \in Nat
          <5>1. Top.base \in Listed
              BY <1>1, <1>2, TopFacts DEF Frames
          <5>2. Base \in Names
              BY <1>1, <5>1, FileFacts DEF Base, File
          <5>3. Len(<<>>) \in Nat
              OBVIOUS
          <5> QED BY <1>3, <5>2, <5>3, CatalogueAssumption DEF Deps, Frame
        <4>2. x \in 1 .. Len(Deps(Base))
            BY <3>1, <1>3 DEF Base
        <4> QED BY <3>1, <4>1, <4>2, <1>3
      <3>2. CASE y # n
        <4>1. y \in 1 .. n - 1
            BY <3>2, <1>3
        <4> QED BY <4>1, <1>4 DEF Past, Open
      <3> QED BY <3>1, <3>2
    <2>2. \A l \in Nat : Closed(l) => Closed(l)'
        BY <2>1, ClosedKept
    <2>3. Lengths' \subseteq Lengths
        BY <1>4, <1>5 DEF Lengths, Open
    <2>4. Lengths \subseteq Nat
      <3>1. \A y \in Open : stack[y].base - 1 \in Nat
          BY <1>1, FileFacts DEF Frame
      <3> QED BY <3>1, <1>1, FileFacts DEF Lengths
    <2> QED BY <1>1, <2>2, <2>3, <2>4 DEF Resolved
  <1>10. Undo'
    <2>1. stack' # <<>> => stack[1] = stack'[1]
      <3>1. stack' # <<>> => 1 \in 1 .. n - 1
          BY <1>3, <1>4
      <3> QED BY <3>1, <1>4
    <2> QED BY <1>1, <1>2, <2>1 DEF Undo
  <1> QED BY <1>6, <1>7, <1>8, <1>9, <1>10 DEF LoadInv

\* The dependency is there: on to the next record.
LEMMA LoadStepNext ==
    ASSUME LoadInv, pc \in {"deps", "ret"}, stack # <<>>, Top.dep <= Len(Deps(Base)),
           file_findmodule(Dep.mod, Dep), stack' = NextDep, pc' = "deps",
           UNCHANGED <<preloaded_files, loadaddr, before, arg, err, kernelname, cmds, faults>>
    PROVE  LoadInv'
  <1>1. TypeOK /\ BeforeOK /\ Layout /\ Control /\ Frames /\ Resolved /\ Undo
      BY DEF LoadInv
  <1> PICK n \in Nat : n = Len(stack)
      BY <1>1, FileFacts
  <1>3. /\ n \in Nat \ {0} /\ Top = stack[n] /\ Top \in Frame
      BY <1>1, TopFacts
  <1>4. /\ stack' \in Seq(Frame) /\ Len(stack') = n
        /\ \A x \in 1 .. n - 1 : stack'[x] = stack[x]
        /\ stack'[n].base = Top.base /\ stack'[n].dep = Top.dep + 1
      BY <1>1, NextFacts
  <1>5. \A x \in 1 .. n : x = n \/ (x \in 1 .. n - 1 /\ x < n)
      BY <1>3
  <1>6. \A x \in 1 .. n : stack'[x].base = stack[x].base
      BY <1>3, <1>4, <1>5
  <1>7. TypeOK' /\ BeforeOK' /\ Control'
    <2>1. stack' # <<>>
        BY <1>3, <1>4
    <2> QED BY <1>1, <1>4, <2>1 DEF TypeOK, BeforeOK, Control
  <1>8. Layout'
      BY <1>1 DEF Layout, Packed, PageAligned, KernelHead, LoadedOnce, Kinds, Listed
  <1>9. Frames'
    <2>1. \A x \in 1 .. n : Wants(x)' = Wants(x)
        BY <1>6 DEF Wants
    <2>2. Open = 1 .. n /\ Open' = 1 .. n /\ Listed' = Listed
        BY <1>4 DEF Open, Listed
    <2>3. \A x \in 1 .. n : x < n => stack'[x].dep <= Len(Wants(x)')
        BY <1>1, <1>3, <1>4, <1>5, <2>1, <2>2 DEF Frames
    <2> QED BY <1>1, <1>4, <1>6, <2>2, <2>3 DEF Frames
  <1>10. Resolved'
    <2>1. \A k : \A x \in Nat : Past(k, x)' => Past(k, x) \/ (k = Top.base /\ x = Top.dep)
      <3> SUFFICES ASSUME NEW k, NEW x \in Nat, Past(k, x)', ~(k = Top.base /\ x = Top.dep),
                          NEW y \in 1 .. n, stack[y].base = k
                   PROVE  x < stack[y].dep
          BY DEF Past, Open
      <3>1. x < stack'[y].dep
          BY <1>4, <1>6 DEF Past, Open
      <3>2. CASE y = n
          BY <3>1, <3>2, <1>3, <1>4 DEF Frame
      <3>3. CASE y # n
          BY <3>1, <3>3, <1>4, <1>5
      <3> QED BY <3>2, <3>3
    <2>2. Lengths' = Lengths
        BY <1>4, <1>6 DEF Lengths, Open
    <2>3. Lengths \subseteq Nat
      <3>1. \A y \in Open : stack[y].base - 1 \in Nat
          BY <1>1, FileFacts DEF Frame
      <3> QED BY <3>1, <1>1, FileFacts DEF Lengths
    <2>4. \A l \in Lengths : l = Len(preloaded_files) \/ l < Top.base
      <3>1. \A x \in Open : stack[x].base <= Top.base /\ stack[x].base \in Nat /\ Top.base \in Nat
          BY <1>1, <1>3, FileFacts, TopWaits DEF Frame
      <3> QED BY <3>1 DEF Lengths
    <2>5. ASSUME NEW l \in Lengths PROVE Closed(l)'
      <3> SUFFICES ASSUME NEW k \in 1 .. l, preloaded_files[k].type = "module",
                          NEW x \in 1 .. Len(Deps(preloaded_files[k].name)), Past(k, x)',
                          NEW d, d = Deps(preloaded_files[k].name)[x]
                   PROVE  Satisfied(l, d)
          BY DEF Closed, Satisfied
      <3>1. CASE Past(k, x)
          BY <3>1, <1>1 DEF Resolved, Closed
      <3>2. CASE ~Past(k, x)
        <4>1. k = Top.base /\ x = Top.dep
            BY <3>2, <2>1
        <4>2. l = Len(preloaded_files)
            BY <4>1, <2>3, <2>4
        <4>3. d = Dep
            BY <4>1 DEF Dep, Base
        <4> QED BY <4>2, <4>3, FindIsSatisfied
      <3> QED BY <3>1, <3>2
    <2> QED BY <2>2, <2>5 DEF Resolved
  <1>11. Undo'
    <2>1. 1 \in 1 .. n /\ stack' # <<>>
        BY <1>3, <1>4
    <2> QED BY <1>1, <1>6, <2>1 DEF Undo
  <1> QED BY <1>7, <1>8, <1>9, <1>10, <1>11 DEF LoadInv

\* A dependency cannot be had: the file that asked for it goes, with all that came after it.
LEMMA LoadStepDiscard ==
    ASSUME LoadInv, pc \in {"deps", "ret"}, stack # <<>>, Top.dep <= Len(Deps(Base)), Discard,
           UNCHANGED <<before, arg, kernelname, cmds, faults>>
    PROVE  LoadInv'
  <1>1. TypeOK /\ BeforeOK /\ Layout /\ Control /\ Frames /\ Resolved /\ Undo
      BY DEF LoadInv
  <1> PICK n \in Nat : n = Len(stack)
      BY <1>1, FileFacts
  <1>2. /\ n \in Nat \ {0} /\ Top = stack[n] /\ Top \in Frame /\ Top.base \in Nat \ {0}
      BY <1>1, TopFacts DEF Frame
  <1> PICK b \in Nat : b = Top.base
      BY <1>2
  <1>3. /\ stack' \in Seq(Frame) /\ Len(stack') = n - 1
        /\ \A x \in 1 .. n - 1 : stack'[x] = stack[x]
      BY <1>1, PopFacts DEF Discard
  <1>4. /\ b \in Listed /\ b # 1 /\ \A x \in 1 .. n - 1 : stack[x].base < b
      BY TopWaits
  <1>5. /\ b \in Nat /\ b >= 2 /\ b <= Len(preloaded_files) /\ Len(preloaded_files) \in Nat
      BY <1>1, <1>4, FileFacts DEF Listed
  <1>6. /\ Layout' /\ preloaded_files' \in Seq(File) /\ loadaddr' \in Nat
        /\ Len(preloaded_files') = b - 1
        /\ \A k \in 1 .. b - 1 : preloaded_files'[k] = preloaded_files[k]
      BY <1>1, <1>4, CutLayout DEF Discard
  <1>7. TypeOK' /\ BeforeOK' /\ Control'
      BY <1>1, <1>3, <1>6 DEF TypeOK, BeforeOK, Control, Discard
  <1>8. \A x \in 1 .. n - 1 : x \in 1 .. n /\ x < n
      BY <1>2
  <1>9. \A x \in 1 .. n - 1 : stack[x].base \in 1 .. b - 1
    <2> TAKE x \in 1 .. n - 1
    <2>1. stack[x] \in Frame
        BY <1>1, <1>8, FileFacts DEF Open
    <2> QED BY <2>1, <1>4, <1>5 DEF Frame
  <1>10. Frames'
    <2>1. \A x \in 1 .. n - 1 : Wants(x)' = Wants(x)
        BY <1>3, <1>6, <1>9 DEF Wants
    <2>2. Open = 1 .. n /\ Open' = 1 .. n - 1 /\ Listed' = 1 .. b - 1
        BY <1>3, <1>6 DEF Open, Listed
    <2>3. \A x \in 1 .. n - 1 : /\ stack'[x].base \in 1 .. b - 1
                                /\ preloaded_files'[stack'[x].base].type # "raw"
                                /\ stack'[x].dep <= Len(Wants(x)')
        BY <1>1, <1>3, <1>6, <1>8, <1>9, <2>1, <2>2 DEF Frames
    <2>4. \A x, y \in 1 .. n - 1 : x < y => stack'[x].base < stack'[y].base
        BY <1>1, <1>3, <1>8, <2>2 DEF Frames
    <2> QED BY <2>2, <2>3, <2>4 DEF Frames
  <1>11. Resolved'
    <2>1. \A k \in 1 .. b - 1 : \A x : Past(k, x)' => Past(k, x)
      <3> SUFFICES ASSUME NEW k \in 1 .. b - 1, NEW x, Past(k, x)', NEW y \in 1 .. n, stack[y].base = k
                   PROVE  x < stack[y].dep
          BY DEF Past, Open
      <3>1. y # n
          BY <1>2, <1>5
      <3>2. y \in 1 .. n - 1
          BY <3>1, <1>2
      <3> QED BY <3>2, <1>3 DEF Past, Open
    <2>2. \A l \in Nat : l < b /\ Closed(l) => Closed(l)'
      <3> SUFFICES ASSUME NEW l \in Nat, l < b, Closed(l) PROVE Closed(l)'
          OBVIOUS
      <3>1. \A k \in 1 .. l : k \in 1 .. b - 1
          BY <1>5
      <3> QED BY <3>1, <2>1, <1>6, ClosedKept
    <2>3. Lengths' = {b - 1} \union {stack[y].base - 1 : y \in 1 .. n - 1}
        BY <1>3, <1>6 DEF Lengths, Open
    <2>4. n \in Open /\ stack[n].base - 1 = b - 1
        BY <1>2 DEF Open
    <2>5. Lengths' \subseteq Lengths
        BY <2>3, <2>4, <1>8 DEF Lengths, Open
    <2>6. \A l \in Lengths' : l \in Nat /\ l < b
        BY <2>3, <1>5, <1>9
    <2> QED BY <1>1, <2>2, <2>5, <2>6 DEF Resolved
  <1>12. Undo'
    <2>1. /\ Len(before.files) <= Len(preloaded_files)
          /\ \A k \in 1 .. Len(before.files) : preloaded_files[k] = before.files[k]
          /\ before.loadaddr = IF before.files = <<>> THEN 0 ELSE End(before.files[Len(before.files)])
          /\ stack[1].base = Len(before.files) + 1
        BY <1>1 DEF Undo
    <2>2. before.files \in Seq(File) /\ Len(before.files) \in Nat
        BY <1>1 DEF BeforeOK
    <2>3. Len(before.files) <= b - 1
      <3>1. CASE n = 1
          BY <3>1, <1>2, <1>5, <2>1, <2>2
      <3>2. CASE n # 1
        <4>1. 1 \in 1 .. n - 1
            BY <3>2, <1>2
        <4> QED BY <4>1, <1>5, <1>9, <2>1, <2>2
      <3> QED BY <3>1, <3>2
    <2>4. \A k \in 1 .. Len(before.files) : k \in 1 .. b - 1
        BY <1>5, <2>2, <2>3
    <2>5. \A k \in 1 .. Len(before.files) : preloaded_files'[k] = before.files[k]
        BY <1>6, <2>1, <2>4
    <2>6. stack' # <<>> => stack'[1].base = Len(before.files) + 1
      <3>1. stack' # <<>> => 1 \in 1 .. n - 1
          BY <1>2, <1>3
      <3> QED BY <3>1, <1>3, <2>1
    <2>7. ASSUME stack' = <<>> PROVE before.files = preloaded_files' /\ before.loadaddr = loadaddr'
      <3>0. Len(stack') = 0 /\ Len(stack') = n - 1
          BY <2>7, <1>3
      <3>1. n = 1
        <4>1. \A i \in Nat : i - 1 = 0 => i = 1
            OBVIOUS
        <4>2. n \in Nat /\ n - 1 = 0
            BY <3>0
        <4> QED BY <4>1, <4>2
      <3>2. Len(before.files) = b - 1
          BY <3>1, <1>2, <1>5, <2>1, <2>2
      <3>3. before.files = preloaded_files'
          BY <3>2, <1>6, <2>2, <2>5, SeqEqual
      <3>4. before.files # <<>> /\ b - 1 \in 1 .. b - 1
          BY <3>2, <1>5, <2>2
      <3>5. before.loadaddr = End(preloaded_files[b - 1])
          BY <3>2, <3>4, <2>1
      <3> QED BY <3>3, <3>5 DEF Discard
    <2> QED BY <1>6, <2>1, <2>3, <2>5, <2>6, <2>7 DEF Undo
  <1> QED BY <1>6, <1>7, <1>10, <1>11, <1>12 DEF LoadInv

-----------------------------------------------------------------------------
(* Commands. *)

\* Without frames, what is left of the invariant.
LEMMA NoFrames ==
    ASSUME TypeOK', BeforeOK', Layout', Undo', stack' = <<>>, pc' \in {"idle", "load", "ret"},
           pc' = "load" => arg' \in Names, \A l : l = Len(preloaded_files') => Closed(l)'
    PROVE  LoadInv'
  <1>1. Len(stack') = 0 /\ Open' = {}
      BY DEF Open
  <1>2. Frames' /\ Control'
      BY <1>1 DEF Frames, Control
  <1>3. Lengths' = {Len(preloaded_files')}
      BY <1>1 DEF Lengths
  <1>4. Resolved'
      BY <1>3 DEF Resolved
  <1> QED BY <1>2, <1>4 DEF LoadInv

\* A command that has not touched the list yet, or will not.
LEMMA CommandStays ==
    ASSUME LoadInv, pc = "idle", TypeOK', UNCHANGED <<preloaded_files, loadaddr, stack>>,
           before' = [files |-> preloaded_files, loadaddr |-> loadaddr],
           pc' \in {"idle", "load", "ret"}, pc' = "load" => arg' \in Names
    PROVE  LoadInv'
  <1>1. TypeOK /\ BeforeOK /\ Layout /\ Control /\ Frames /\ Resolved /\ Undo
      BY DEF LoadInv
  <1>2. stack = <<>> /\ stack' = <<>>
      BY <1>1 DEF Control
  <1>3. before' \in [files : Seq(File), loadaddr : Nat]
      BY <1>1 DEF TypeOK
  <1>4. BeforeOK' /\ Layout'
      BY <1>1, <1>3 DEF BeforeOK, Layout, Packed, PageAligned, KernelHead, LoadedOnce, Kinds, Listed
  <1>5. Undo'
    <2>1. before'.files = preloaded_files /\ before'.loadaddr = loadaddr
        OBVIOUS
    <2>2. loadaddr = IF preloaded_files = <<>> THEN 0 ELSE End(preloaded_files[Len(preloaded_files)])
        BY <1>1 DEF Layout, Packed
    <2>3. Len(preloaded_files) <= Len(preloaded_files)
        BY <1>1, FileFacts
    <2> QED BY <1>2, <2>1, <2>2, <2>3 DEF Undo
  <1>6. \A l : l = Len(preloaded_files') => Closed(l)'
    <2>1. \A l : Closed(l)' <=> Closed(l)
        BY DEF Closed, Satisfied, Past, Open
    <2> QED BY <1>1, <2>1 DEF Resolved, Lengths
  <1> QED BY <1>2, <1>4, <1>5, <1>6, NoFrames

\* The command is over.
LEMMA CommandEnds ==
    ASSUME LoadInv, pc = "ret", stack = <<>>, pc' = "idle", err' = FALSE,
           UNCHANGED <<preloaded_files, loadaddr, kernelname, arg, stack, before, cmds, faults>>
    PROVE  LoadInv'
  <1>1. TypeOK /\ BeforeOK /\ Layout /\ Control /\ Frames /\ Resolved /\ Undo
      BY DEF LoadInv
  <1>2. TypeOK' /\ BeforeOK' /\ Undo'
      BY <1>1 DEF TypeOK, BeforeOK, Undo
  <1>3. Layout'
      BY <1>1 DEF Layout, Packed, PageAligned, KernelHead, LoadedOnce, Kinds, Listed
  <1>4. \A l : l = Len(preloaded_files') => Closed(l)'
    <2>1. \A l : Closed(l)' <=> Closed(l)
        BY DEF Closed, Satisfied, Past, Open
    <2> QED BY <1>1, <2>1 DEF Resolved, Lengths
  <1> QED BY <1>2, <1>3, <1>4, NoFrames

\* A data file is added after the files that are there.
LEMMA RawAdded ==
    ASSUME LoadInv, pc = "idle", NEW f \in Names, preloaded_files # <<>>,
           loadaddr + Size[f] + Chunk < memtop,
           preloaded_files' = Append(preloaded_files,
                [name |-> f, type |-> "raw", addr |-> loadaddr, size |-> Size[f]]),
           loadaddr' = loadaddr + Size[f], pc' = "ret", err' = FALSE,
           before' = [files |-> preloaded_files, loadaddr |-> loadaddr],
           cmds' \in 0 .. MaxCmds, UNCHANGED <<kernelname, arg, stack, faults>>
    PROVE  LoadInv'
  <1> DEFINE g == [name |-> f, type |-> "raw", addr |-> loadaddr, size |-> Size[f]]
  <1>1. TypeOK /\ BeforeOK /\ Layout /\ Control /\ Frames /\ Resolved /\ Undo
      BY DEF LoadInv
  <1>2. stack = <<>> /\ stack' = <<>>
      BY <1>1 DEF Control
  <1>3. loadaddr \in Nat /\ Size[f] \in Nat /\ Chunk \in Nat /\ memtop \in Nat
      BY <1>1, CatalogueAssumption DEF TypeOK
  <1>4. /\ g \in File /\ g.type = "raw" /\ g.addr = loadaddr /\ End(g) = loadaddr + Size[f]
        /\ BelowMemtop(g) /\ loadaddr <= g.addr
      BY <1>3 DEF File, End, BelowMemtop
  <1>5. preloaded_files' = Append(preloaded_files, g)
      OBVIOUS
  <1> HIDE DEF g
  <1>6. Layout' /\ preloaded_files' \in Seq(File) /\ loadaddr' \in Nat
      BY <1>1, <1>4, <1>5, GrowLayout
  <1> PICK m \in Nat : m = Len(preloaded_files)
      BY <1>1, FileFacts
  <1>7. /\ Len(preloaded_files') = m + 1 /\ preloaded_files'[m + 1] = g
        /\ \A k \in 1 .. m : preloaded_files'[k] = preloaded_files[k]
    <2>1. preloaded_files \in Seq(File)
        BY <1>1 DEF TypeOK
    <2> QED BY <1>4, <1>5, <2>1, AppendProperties
  <1>8. TypeOK' /\ BeforeOK'
    <2>1. before' \in [files : Seq(File), loadaddr : Nat]
        BY <1>1 DEF TypeOK
    <2> QED BY <1>1, <1>6, <2>1 DEF TypeOK, BeforeOK
  <1>9. Undo'
    <2>1. before'.files = preloaded_files /\ before'.loadaddr = loadaddr
        OBVIOUS
    <2>2. loadaddr = IF preloaded_files = <<>> THEN 0 ELSE End(preloaded_files[Len(preloaded_files)])
        BY <1>1 DEF Layout, Packed
    <2>3. m <= m + 1
        OBVIOUS
    <2> QED BY <1>2, <1>7, <2>1, <2>2, <2>3 DEF Undo
  <1>10. Closed(m + 1)'
    <2> SUFFICES ASSUME NEW k \in 1 .. m + 1, preloaded_files'[k].type = "module",
                        NEW x \in 1 .. Len(Deps(preloaded_files'[k].name)), Past(k, x)',
                        NEW d, d = Deps(preloaded_files'[k].name)[x]
                 PROVE  Satisfied(m + 1, d)'
        BY DEF Closed, Satisfied
    <2>1. k \in 1 .. m
        BY <1>4, <1>7
    <2>2. Past(k, x)
        BY DEF Past, Open
    <2>3. Satisfied(m, d)
        BY <1>1, <1>7, <2>1, <2>2 DEF Resolved, Lengths, Closed
    <2>4. m + 1 \in Nat /\ m <= m + 1
        OBVIOUS
    <2> QED BY <1>7, <2>3, <2>4, SatisfiedKept
  <1> QED BY <1>2, <1>6, <1>7, <1>8, <1>9, <1>10, NoFrames

\* Everything is unloaded.
LEMMA Unloaded ==
    ASSUME TypeOK', BeforeOK', preloaded_files' = <<>>, loadaddr' = 0, stack' = <<>>,
           pc' \in {"idle", "ret"}
    PROVE  LoadInv'
  <1>1. Len(preloaded_files') = 0
      OBVIOUS
  <1>2. Layout'
      BY <1>1 DEF Layout, Packed, PageAligned, KernelHead, LoadedOnce, Kinds, Listed
  <1>3. Undo'
      BY DEF Undo
  <1>4. \A l : l = Len(preloaded_files') => Closed(l)'
      BY <1>1 DEF Closed
  <1> QED BY <1>2, <1>3, <1>4, NoFrames

-----------------------------------------------------------------------------
(* The theorems about module.c. *)

LEMMA LoadInit == Init => LoadInv
  <1> SUFFICES ASSUME Init PROVE LoadInv
      OBVIOUS
  <1>1. preloaded_files = <<>> /\ stack = <<>> /\ Len(preloaded_files) = 0 /\ Len(stack) = 0
      BY DEF Init
  <1>2. TypeOK
    <2>1. <<>> \in Seq(File) /\ <<>> \in Seq(Frame)
        OBVIOUS
    <2>2. 0 \in 0 .. MaxCmds /\ 0 \in 0 .. MaxFaults
        BY CatalogueAssumption
    <2> QED BY <2>1, <2>2 DEF Init, TypeOK
  <1>3. before.files = <<>> /\ before.files \in Seq(File) /\ BeforeOK
    <2>1. <<>> \in Seq(File)
        OBVIOUS
    <2> QED BY <2>1 DEF Init, BeforeOK
  <1>4. Layout
      BY <1>1 DEF Init, Layout, Packed, PageAligned, KernelHead, LoadedOnce, Kinds, Listed
  <1>5. Control /\ Frames /\ Undo
      BY <1>1 DEF Init, Control, Frames, Undo, Open
  <1>6. Resolved
      BY <1>1 DEF Resolved, Lengths, Closed, Open
  <1> QED BY <1>2, <1>3, <1>4, <1>5, <1>6 DEF LoadInv

LEMMA RunningKeeps == LoadInv /\ Running => LoadInv'
  <1> SUFFICES ASSUME LoadInv, Running PROVE LoadInv'
      OBVIOUS
  <1>1. TypeOK /\ Control /\ Frames
      BY DEF LoadInv
  <1>2. CASE mod_loadkld
    <2>1. CASE file_findfile(arg)
      <3>1. TypeOK'
          BY <1>1, <1>2, <2>1 DEF TypeOK, mod_loadkld
      <3> QED BY <1>2, <2>1, <3>1, LoadStepStay DEF mod_loadkld
    <2>2. CASE file_load_fails(arg) /\ pc' = "ret" /\ err' = TRUE /\ UNCHANGED stack
      <3>1. arg \in Names
          BY <1>1, <1>2 DEF Control, mod_loadkld
      <3>2. faults' \in 0 .. MaxFaults
          BY <1>1, <2>2, CatalogueAssumption DEF TypeOK, file_load_fails
      <3>3. kernelname' \in Names \union {None}
          BY <1>1, <2>2, <3>1 DEF TypeOK, file_load_fails
      <3>4. UNCHANGED <<preloaded_files, loadaddr, before, cmds>> /\ arg' = None /\ pc = "load"
          BY <1>2, <2>2 DEF mod_loadkld, file_load_fails
      <3>5. TypeOK'
          BY <1>1, <2>2, <3>2, <3>3, <3>4 DEF TypeOK
      <3> QED BY <2>2, <3>4, <3>5, LoadStepStay
    <2>3. CASE /\ ~file_findfile(arg) /\ file_load(arg)
               /\ stack' = Append(stack, [base |-> Len(preloaded_files) + 1, dep |-> 1])
               /\ pc' = "deps" /\ UNCHANGED err
        BY <1>2, <2>3, LoadStepPush DEF mod_loadkld
    <2> QED BY <1>2, <2>1, <2>2, <2>3 DEF mod_loadkld
  <1>3. CASE file_load_dependencies
    <2>1. pc = "deps" /\ stack # <<>> /\ UNCHANGED <<kernelname, module_path, before, cmds, faults>>
        BY <1>1, <1>3 DEF file_load_dependencies, Control
    <2>2. CASE /\ Top.dep > Len(Deps(Base)) /\ stack' = Pop /\ pc' = "ret" /\ err' = FALSE
               /\ UNCHANGED <<preloaded_files, loadaddr, moduledir_list, arg>>
        BY <2>1, <2>2, LoadStepPop
    <2>3. CASE /\ Top.dep <= Len(Deps(Base)) /\ file_findmodule(Dep.mod, Dep) /\ stack' = NextDep
               /\ UNCHANGED <<preloaded_files, loadaddr, moduledir_list, pc, arg, err>>
        BY <2>1, <2>3, LoadStepNext
    <2>4. CASE /\ Top.dep <= Len(Deps(Base)) /\ arg' \in Names /\ pc' = "load"
               /\ UNCHANGED <<preloaded_files, loadaddr, stack, err>>
      <3>1. TypeOK'
          BY <1>1, <2>1, <2>4 DEF TypeOK
      <3> QED BY <2>1, <2>4, <3>1, LoadStepStay
    <2>5. CASE Top.dep <= Len(Deps(Base)) /\ Discard /\ UNCHANGED arg
        BY <2>1, <2>5, LoadStepDiscard
    <2> QED BY <1>3, <2>2, <2>3, <2>4, <2>5 DEF file_load_dependencies
  <1>4. CASE DepLoaded
    <2>1. /\ pc = "ret" /\ stack # <<>>
          /\ UNCHANGED <<kernelname, module_path, moduledir_list, arg, before, cmds, faults>>
        BY <1>4 DEF DepLoaded
    <2>2. Top.dep <= Len(Deps(Base))
      <3>1. Len(stack) \in Open /\ Top = stack[Len(stack)]
          BY <1>1, <2>1, TopFacts
      <3> QED BY <1>1, <2>1, <3>1 DEF Frames, Wants, Base
    <2>3. CASE /\ ~err /\ file_findmodule(Dep.mod, Dep) /\ stack' = NextDep /\ pc' = "deps"
               /\ UNCHANGED <<preloaded_files, loadaddr, err>>
        BY <2>1, <2>2, <2>3, LoadStepNext
    <2>4. CASE Discard
        BY <2>1, <2>2, <2>4, LoadStepDiscard
    <2> QED BY <1>4, <2>3, <2>4 DEF DepLoaded
  <1> QED BY <1>2, <1>3, <1>4 DEF Running

LEMMA CommandKeeps ==
    LoadInv /\ (mod_load \/ command_load \/ file_loadraw \/ command_unload \/ SetPath) => LoadInv'
  <1> SUFFICES ASSUME LoadInv, mod_load \/ command_load \/ file_loadraw \/ command_unload \/ SetPath
               PROVE  LoadInv'
      OBVIOUS
  <1>1. TypeOK /\ Control
      BY DEF LoadInv
  <1>2. /\ pc = "idle" /\ before' = [files |-> preloaded_files, loadaddr |-> loadaddr]
        /\ cmds < MaxCmds /\ cmds' = cmds + 1 /\ stack' = stack
      BY DEF mod_load, command_load, file_loadraw, command_unload, SetPath, Command
  <1>3. cmds' \in 0 .. MaxCmds
      BY <1>1, <1>2, CatalogueAssumption DEF TypeOK
  <1>4. ASSUME UNCHANGED <<preloaded_files, loadaddr, kernelname>>, faults' \in 0 .. MaxFaults,
               err' \in BOOLEAN, pc' \in {"load", "ret"},
               arg' \in Names \/ (pc' = "ret" /\ arg' = arg)
        PROVE  LoadInv'
    <2>1. TypeOK'
        BY <1>1, <1>2, <1>3, <1>4 DEF TypeOK
    <2> QED BY <1>2, <1>4, <2>1, CommandStays
  <1>5. err \in BOOLEAN /\ faults \in 0 .. MaxFaults
      BY <1>1 DEF TypeOK
  <1>6. CASE mod_load
    <2>1. UNCHANGED <<preloaded_files, loadaddr, kernelname, faults>>
        BY <1>6 DEF mod_load
    <2>2. /\ pc' \in {"load", "ret"} /\ (err' \in {TRUE, FALSE} \/ err' = err)
          /\ arg' \in Names \/ (pc' = "ret" /\ arg' = arg)
        BY <1>6 DEF mod_load
    <2> QED BY <1>4, <1>5, <2>1, <2>2
  <1>7. CASE command_load
    <2>1. UNCHANGED <<preloaded_files, loadaddr, kernelname, faults>>
        BY <1>7 DEF command_load
    <2>2. /\ pc' \in {"load", "ret"} /\ (err' \in {TRUE, FALSE} \/ err' = err)
          /\ arg' \in Names \/ (pc' = "ret" /\ arg' = arg)
        BY <1>7 DEF command_load
    <2> QED BY <1>4, <1>5, <2>1, <2>2
  <1>8. CASE file_loadraw
    <2>1. pc' = "ret" /\ UNCHANGED <<kernelname, arg>>
        BY <1>8 DEF file_loadraw
    <2>2. CASE /\ err' = TRUE /\ UNCHANGED <<preloaded_files, loadaddr>>
               /\ faults' = faults \/ (faults < MaxFaults /\ faults' = faults + 1)
      <3>1. faults' \in 0 .. MaxFaults
          BY <1>5, <2>2, CatalogueAssumption
      <3> QED BY <1>4, <2>1, <2>2, <3>1
    <2>3. CASE \E f \in Names :
                  /\ preloaded_files # <<>> /\ loadaddr + Size[f] + Chunk < memtop
                  /\ preloaded_files' = Append(preloaded_files,
                         [name |-> f, type |-> "raw", addr |-> loadaddr, size |-> Size[f]])
                  /\ loadaddr' = loadaddr + Size[f] /\ err' = FALSE /\ UNCHANGED faults
        BY <1>2, <1>3, <2>1, <2>3, RawAdded
    <2> QED BY <1>8, <2>2, <2>3 DEF file_loadraw
  <1>9. CASE command_unload
    <2>1. /\ preloaded_files' = <<>> /\ loadaddr' = 0 /\ kernelname' = None /\ pc' = "ret"
          /\ UNCHANGED <<arg, err, stack, faults>>
        BY <1>9 DEF command_unload
    <2>2. <<>> \in Seq(File) /\ before' \in [files : Seq(File), loadaddr : Nat]
        BY <1>1, <1>2 DEF TypeOK
    <2>3. TypeOK' /\ BeforeOK' /\ stack' = <<>>
        BY <1>1, <1>2, <1>3, <2>1, <2>2 DEF TypeOK, BeforeOK, Control
    <2> QED BY <2>1, <2>3, Unloaded
  <1>10. CASE SetPath
    <2>1. pc' = "ret" /\ UNCHANGED <<preloaded_files, loadaddr, kernelname, arg, err, faults>>
        BY <1>10 DEF SetPath
    <2> QED BY <1>4, <1>5, <2>1
  <1> QED BY <1>6, <1>7, <1>8, <1>9, <1>10

LEMMA StutterKeeps == LoadInv /\ UNCHANGED vars => LoadInv'
  BY DEF LoadInv, vars, TypeOK, BeforeOK, Layout, Packed, PageAligned, KernelHead, LoadedOnce, Kinds,
         Listed, Control, Frames, Wants, Open, Resolved, Lengths, Closed, Satisfied, Past, Undo

LEMMA LoadInvInductive == LoadInv /\ [Next]_vars => LoadInv'
  <1> SUFFICES ASSUME LoadInv, [Next]_vars PROVE LoadInv'
      OBVIOUS
  <1>1. CASE Done
      BY <1>1, CommandEnds DEF Done
  <1> QED BY <1>1, RunningKeeps, CommandKeeps, StutterKeeps DEF Next

\* What the invariant says of the states the properties speak of.
LEMMA LoadInvLaidOut == LoadInv => LaidOut
  <1> SUFFICES ASSUME LoadInv PROVE LaidOut
      OBVIOUS
  <1>1. TypeOK /\ Layout /\ Frames
      BY DEF LoadInv
  <1>2. ASSUME stack # <<>>, Top.base = 1 PROVE Deps(Base) = <<>>
    <2>1. Top.base \in Listed /\ preloaded_files[1].type # "raw"
        BY <1>1, <1>2, TopFacts DEF Frames
    <2>2. preloaded_files[1].type = "kernel" /\ Kind[Base] = "kernel"
        BY <1>1, <1>2, <2>1 DEF Layout, KernelHead, Kinds, Base
    <2> QED BY <2>2 DEF Deps
  <1>3. KernelFirst
      BY <1>1, <1>2 DEF Layout, KernelHead, Listed, KernelFirst
  <1> QED BY <1>1, <1>3 DEF LaidOut, Layout

LEMMA LoadInvComplete == LoadInv => Complete
  <1> SUFFICES ASSUME LoadInv, pc = "idle", NEW k \in 1 .. Len(preloaded_files),
                      preloaded_files[k].type = "module",
                      NEW x \in 1 .. Len(Deps(preloaded_files[k].name)),
                      NEW d, d = Deps(preloaded_files[k].name)[x]
               PROVE  file_findmodule(d.mod, d)
      BY DEF Complete
  <1>1. Control /\ Resolved
      BY DEF LoadInv
  <1>2. Open = {}
    <2>1. stack = <<>>
        BY <1>1 DEF Control
    <2>2. Len(stack) = 0
        BY <2>1
    <2> QED BY <2>2 DEF Open
  <1>3. Past(k, x)
      BY <1>2 DEF Past
  <1>4. Satisfied(Len(preloaded_files), d)
      BY <1>1, <1>3 DEF Resolved, Lengths, Closed
  <1> QED BY <1>4 DEF Satisfied, file_findmodule

LEMMA LoadInvAllOrNothing == LoadInv => AllOrNothing
  <1> SUFFICES ASSUME LoadInv, pc = "ret", stack = <<>>, preloaded_files # <<>>
               PROVE  /\ err => before = [files |-> preloaded_files, loadaddr |-> loadaddr]
                      /\ IsPrefix(before.files, preloaded_files)
      BY DEF AllOrNothing
  <1>1. TypeOK /\ BeforeOK /\ Undo
      BY DEF LoadInv
  <1>2. /\ before \in [files : Seq(File), loadaddr : Nat] /\ Len(before.files) \in Nat
        /\ preloaded_files \in Seq(File) /\ Len(preloaded_files) \in Nat
      BY <1>1 DEF BeforeOK, TypeOK
  <1>3. /\ Len(before.files) <= Len(preloaded_files)
        /\ \A k \in 1 .. Len(before.files) : preloaded_files[k] = before.files[k]
        /\ err => before.files = preloaded_files /\ before.loadaddr = loadaddr
      BY <1>1 DEF Undo
  <1>4. err => before = [files |-> preloaded_files, loadaddr |-> loadaddr]
      BY <1>2, <1>3
  <1>5. IsPrefix(before.files, preloaded_files)
    <2> DEFINE l == Len(before.files)
               p == SubSeq(preloaded_files, 1, l)
    <2>1. 1 \in Int /\ l \in Int /\ l \in Nat /\ \A k \in 1 .. l : preloaded_files[k] \in File
        BY <1>2, <1>3
    <2> HIDE DEF l
    <2>2. /\ p \in Seq(File) /\ Len(p) = IF 1 <= l THEN l - 1 + 1 ELSE 0
          /\ \A k \in 1 .. l - 1 + 1 : p[k] = preloaded_files[1 + k - 1]
        BY <2>1, SubSeqProperties
    <2>3. Len(p) = l /\ \A k \in 1 .. l : p[k] = preloaded_files[k]
        BY <2>1, <2>2
    <2>4. before.files = p
      <3>1. before.files \in Seq(File)
          BY <1>2
      <3> HIDE DEF p
      <3> QED BY <3>1, <1>3, <2>2, <2>3, SeqEqual DEF l
    <2> QED BY <1>3, <2>4 DEF IsPrefix, l
  <1> QED BY <1>4, <1>5

\* What the kernel is handed is one kernel and then modules and data that do not overlap,
\* each module on a page of its own and no code twice, after any sequence of commands,
\* failures and roll-backs.
THEOREM FilesLaidOut == Spec => []LaidOut
  <1>1. Spec => []LoadInv
      BY LoadInit, LoadInvInductive, PTL DEF Spec
  <1> QED BY <1>1, LoadInvLaidOut, PTL

\* Between commands every module in the list of mod_loadkld's files has all it requires, in
\* versions file_findmodule accepts, for every catalogue, cyclic ones included.
THEOREM DependenciesComplete == Spec => []Complete
  <1>1. Spec => []LoadInv
      BY LoadInit, LoadInvInductive, PTL DEF Spec
  <1> QED BY <1>1, LoadInvComplete, PTL

\* A load that fails, at any depth of file_load_dependencies, leaves the list and the load
\* address as the command found them.
THEOREM LoadsAllOrNothing == Spec => []AllOrNothing
  <1>1. Spec => []LoadInv
      BY LoadInit, LoadInvInductive, PTL DEF Spec
  <1> QED BY <1>1, LoadInvAllOrNothing, PTL

-----------------------------------------------------------------------------
(* boot.c over module.c. *)

\* Where boot.c is while mod_loadkld runs, and when it may execute.
BootControl ==
    /\ pc # "idle" => bpc \in {"command", "loading", "explicit"}
    /\ bpc = "loading" => try <= Len(bootfile)
    /\ bpc = "exec" => preloaded_files # <<>>
    /\ bootfile \in Bootfiles /\ autoboot_delay \in Delays \union {NO}

\* The seconds that are still to pass fit between the clock and the end of the countdown.
Counting ==
    bpc = "count" =>
        /\ timeout >= 0 /\ elapsed <= timeout
        /\ elapsed < timeout => time + (timeout - elapsed) <= when

BootInv == LoadInv /\ BootTypeOK /\ BootControl /\ Counting

\* No step of boot.c breaks what module.c keeps.
LEMMA CallKeeps ==
    ASSUME LoadInv, pc = "idle", moduledir_list' = Rebuilt,
           before' = [files |-> preloaded_files, loadaddr |-> loadaddr],
           (arg' \in Names /\ pc' = "load") \/ UNCHANGED <<arg, pc>>,
           UNCHANGED <<loadVars, module_path, err, cmds>>
    PROVE  LoadInv'
  <1>1. TypeOK
      BY DEF LoadInv
  <1>2. UNCHANGED <<preloaded_files, loadaddr, kernelname, stack, faults>>
      BY DEF loadVars
  <1>3. TypeOK' /\ pc' \in {"idle", "load"}
      BY <1>1, <1>2 DEF TypeOK
  <1> QED BY <1>2, <1>3, CommandStays

LEMMA ReturnKeeps == LoadInv /\ Returned => LoadInv'
  BY CommandEnds DEF Returned, loadVars

LEMMA BootKeepsLoad == LoadInv /\ [BootNext]_<<vars, bootVars>> => LoadInv'
  <1> SUFFICES ASSUME LoadInv, [BootNext]_<<vars, bootVars>> PROVE LoadInv'
      OBVIOUS
  <1>1. ASSUME UNCHANGED vars PROVE LoadInv'
      BY <1>1, StutterKeeps
  <1>2. CASE LoaderCommand
      BY <1>2, CommandKeeps DEF LoaderCommand
  <1>3. CASE LoadStep
      BY <1>3, RunningKeeps, CommandEnds DEF LoadStep, Done
  <1>4. CASE loadakernel
      BY <1>1, <1>4, CallKeeps DEF loadakernel, CallLoadkld
  <1>5. CASE KernelLoaded
      BY <1>5, ReturnKeeps DEF KernelLoaded
  <1>6. CASE autoboot_maybe
      BY <1>1, <1>6 DEF autoboot_maybe, autoboot
  <1>7. CASE command_autoboot
      BY <1>1, <1>7 DEF command_autoboot, autoboot
  <1>8. CASE StartCount
      BY <1>1, <1>8 DEF StartCount
  <1>9. CASE Poll
      BY <1>1, <1>9 DEF Poll
  <1>10. CASE NamedLoaded
      BY <1>10, ReturnKeeps DEF NamedLoaded
  <1>11. CASE command_boot
      BY <1>1, <1>11 DEF command_boot
  <1>12. CASE BootNamed
      BY <1>12, CallKeeps DEF BootNamed, Asked, CallLoadkld
  <1>13. CASE Tick
      BY <1>1, <1>13 DEF Tick
  <1>14. CASE \E enter \in BOOLEAN : Key(enter)
      BY <1>1, <1>14 DEF Key
  <1> QED BY <1>1, <1>2, <1>3, <1>4, <1>5, <1>6, <1>7, <1>8, <1>9, <1>10, <1>11, <1>12, <1>13, <1>14
          DEF BootNext, BootStep

\* The clock: reading it again in the same second changes nothing, and between two looks of
\* the loop it goes on by at most a second, midnight included.
LEMMA Clock ==
    ASSUME BootTypeOK
    PROVE  /\ time \in 0 .. 2 * Day - 1 /\ (time = bios \/ time = bios + Day)
           /\ UNCHANGED bios /\ lasttime' = time => time' = time
           /\ bios' = (bios + 1) % Day /\ lasttime' = lasttime /\ lasttime % Day = bios => time' <= time + 1
  <1>1. /\ Day \in Nat /\ Day > 0 /\ bios \in Nat /\ bios < Day
        /\ lasttime \in Nat /\ lasttime < 2 * Day
      BY BootAssumption DEF BootTypeOK
  <1>2. time \in 0 .. 2 * Day - 1 /\ (time = bios \/ time = bios + Day)
      BY <1>1 DEF time
  <1>3. ASSUME bios' = bios, lasttime' = time PROVE time' = time
      BY <1>1, <1>3 DEF time
  <1>4. ASSUME bios' = (bios + 1) % Day, lasttime' = lasttime, lasttime % Day = bios
        PROVE  time' <= time + 1
    <2>1. bios' = IF bios + 1 = Day THEN 0 ELSE bios + 1
        BY <1>1, <1>4
    <2>2. lasttime = bios \/ lasttime = bios + Day
        BY <1>1, <1>4
    <2> QED BY <1>1, <1>4, <2>1, <2>2 DEF time
  <1> QED BY <1>2, <1>3, <1>4

LEMMA BootInitInv == BootInit => BootInv
  <1> SUFFICES ASSUME BootInit PROVE BootInv
      OBVIOUS
  <1>1. LoadInv
      BY LoadInit DEF BootInit
  <1>2. Len(bootfile) \in Nat
      BY BootAssumption DEF BootInit
  <1>3. BootTypeOK
    <2>1. 1 \in 1 .. Len(bootfile) + 1 /\ 0 \in 0 .. 2 * Day - 1
        BY <1>2, BootAssumption
    <2> QED BY <2>1 DEF BootInit, BootTypeOK
  <1>4. BootControl /\ Counting
      BY DEF BootInit, Init, BootControl, Counting
  <1> QED BY <1>1, <1>3, <1>4 DEF BootInv

\* The steps that leave the countdown alone.
LEMMA OffTheClock ==
    ASSUME BootInv, [BootNext]_<<vars, bootVars>>, ~StartCount, ~Poll, ~Tick
    PROVE  BootTypeOK' /\ BootControl' /\ Counting'
  <1>1. BootTypeOK /\ BootControl /\ Counting
      BY DEF BootInv
  <1>2. bootfile \in Bootfiles /\ Len(bootfile) \in Nat
      BY <1>1, BootAssumption DEF BootControl
  <1>3. CASE UNCHANGED <<vars, bootVars>>
    <2>1. UNCHANGED <<pc, preloaded_files, bpc, interactive, bootfile, autoboot_delay, autoboot_tried,
                      next, try, timeout, when, bios, lasttime, elapsed>>
        BY <1>3 DEF vars, bootVars, settings, clock
    <2> QED BY <1>1, <2>1 DEF BootTypeOK, BootControl, Counting, time
  <1>4. ASSUME UNCHANGED bootVars, pc # "idle" \/ bpc = "command" PROVE BootTypeOK' /\ BootControl' /\ Counting'
    <2>1. UNCHANGED <<bpc, interactive, bootfile, autoboot_delay, autoboot_tried,
                      next, try, timeout, when, bios, lasttime, elapsed>>
        BY <1>4 DEF bootVars, settings, clock
    <2> QED BY <1>1, <1>4, <2>1 DEF BootTypeOK, BootControl, Counting, time
  <1>5. CASE LoaderCommand
      BY <1>4, <1>5 DEF LoaderCommand
  <1>6. CASE LoadStep
      BY <1>4, <1>6 DEF LoadStep, Running, mod_loadkld, file_load_dependencies, DepLoaded
  \* A step within loadakernel, command_boot and their callers.
  <1>7. ASSUME UNCHANGED <<interactive, bootfile, autoboot_delay, autoboot_tried, clock>>,
               next' \in {"named", "check"}, try' \in 1 .. Len(bootfile) + 1,
               bpc' \in {"command", "akernel", "loading", "explicit", "named", "boot", "check", "exec"},
               pc' # "idle" => bpc' \in {"loading", "explicit"},
               bpc' = "loading" => try' <= Len(bootfile), bpc' = "exec" => preloaded_files' # <<>>
        PROVE  BootTypeOK' /\ BootControl' /\ Counting'
    <2>1. UNCHANGED <<interactive, bootfile, autoboot_delay, autoboot_tried,
                      timeout, when, bios, lasttime, elapsed>>
        BY <1>7 DEF clock
    <2> QED BY <1>1, <1>7, <2>1 DEF BootTypeOK, BootControl, Counting
  <1>8. try \in Nat \ {0} /\ try <= Len(bootfile) + 1 /\ next \in {"named", "check"}
      BY <1>1, <1>2 DEF BootTypeOK
  <1>9. CASE loadakernel
    <2>1. UNCHANGED <<interactive, bootfile, autoboot_delay, autoboot_tried, clock, next>> /\ pc = "idle"
        BY <1>9 DEF loadakernel, settings
    <2>2. CASE getbootfile(try) = Empty /\ bpc' = next /\ UNCHANGED <<vars, try>>
        BY <1>7, <1>8, <2>1, <2>2 DEF vars
    <2>3. CASE getbootfile(try) # Empty /\ CallLoadkld(getbootfile(try), "loading", bpc' = "akernel" /\ try' = try + 1)
      <3>1. try <= Len(bootfile)
          BY <2>3 DEF getbootfile
      <3>2. \/ bpc' = "loading" /\ try' = try
            \/ bpc' = "akernel" /\ try' = try + 1 /\ pc' = pc
          BY <2>3 DEF CallLoadkld
      <3>3. try' \in 1 .. Len(bootfile) + 1
          BY <1>2, <1>8, <3>1, <3>2
      <3> QED BY <1>7, <1>8, <2>1, <3>1, <3>2, <3>3
    <2> QED BY <1>9, <2>2, <2>3 DEF loadakernel
  <1>10. CASE KernelLoaded
    <2>1. UNCHANGED <<interactive, bootfile, autoboot_delay, autoboot_tried, clock, next>> /\ pc' = "idle"
        BY <1>10 DEF KernelLoaded, Returned, settings
    <2>2. try <= Len(bootfile)
        BY <1>1, <1>10 DEF KernelLoaded, BootControl
    <2>3. (bpc' = "akernel" /\ try' = try + 1) \/ (bpc' = next /\ try' = try)
        BY <1>10 DEF KernelLoaded
    <2>4. try' \in 1 .. Len(bootfile) + 1
        BY <1>2, <1>8, <2>2, <2>3
    <2> QED BY <1>7, <1>8, <2>1, <2>3, <2>4
  <1>11. CASE BootNamed
    <2>1. UNCHANGED <<interactive, bootfile, autoboot_delay, autoboot_tried, clock, next>> /\ pc = "idle"
        BY <1>11 DEF BootNamed, Asked, settings
    <2>2. /\ try' = try
          /\ bpc' = "explicit" \/ (bpc' = "command" /\ pc' = pc)
        BY <1>11 DEF BootNamed, CallLoadkld
    <2> QED BY <1>2, <1>7, <1>8, <2>1, <2>2
  <1>12. CASE NamedLoaded
    <2>1. UNCHANGED <<interactive, bootfile, autoboot_delay, autoboot_tried, clock, next, try>> /\ pc' = "idle"
        BY <1>12 DEF NamedLoaded, Returned, settings
    <2>2. bpc' \in {"command", "boot"}
        BY <1>12 DEF NamedLoaded
    <2> QED BY <1>2, <1>7, <1>8, <2>1, <2>2
  <1>13. CASE command_boot
    <2>1. /\ UNCHANGED <<interactive, bootfile, autoboot_delay, autoboot_tried, clock>> /\ pc = "idle"
          /\ pc' = pc /\ preloaded_files' = preloaded_files
        BY <1>13 DEF command_boot, settings, vars
    <2>2. /\ (next' = "check" /\ try' = 1) \/ (next' = next /\ try' = try)
          /\ bpc' \in {"akernel", "check", "command"} \/ (bpc' = "exec" /\ preloaded_files # <<>>)
        BY <1>13 DEF command_boot
    <2>3. 1 \in 1 .. Len(bootfile) + 1 /\ try \in 1 .. Len(bootfile) + 1
        BY <1>2, <1>8
    <2> QED BY <1>7, <1>8, <2>1, <2>2, <2>3
  <1>14. ASSUME NEW enter, Key(enter) PROVE BootTypeOK' /\ BootControl' /\ Counting'
    <2>1. /\ UNCHANGED <<interactive, bootfile, autoboot_delay, autoboot_tried, clock, next, try>>
          /\ pc' = pc /\ bpc = "count" /\ bpc' \in {"boot", "command"}
        BY <1>14 DEF Key, settings, vars
    <2>2. pc = "idle"
        BY <1>1, <2>1 DEF BootControl
    <2> QED BY <1>2, <1>7, <1>8, <2>1, <2>2
  <1>15. ASSUME NEW t \in Nat \union {-1}, autoboot(t), pc = "idle", interactive' \in BOOLEAN
         PROVE  BootTypeOK' /\ BootControl' /\ Counting'
    <2>1. /\ autoboot_tried' = TRUE /\ next' = "named" /\ try' = 1 /\ bpc' \in {"akernel", "named"}
          /\ UNCHANGED <<bootfile, autoboot_delay, when, bios, lasttime, elapsed>>
          /\ pc' = pc /\ preloaded_files' = preloaded_files
        BY <1>15 DEF autoboot, vars
    <2>2. timeout' \in Nat \union {-1}
        BY <1>1, <1>15, BootAssumption DEF autoboot, BootControl
    <2>3. 1 \in 1 .. Len(bootfile) + 1
        BY <1>2
    <2> QED BY <1>1, <1>15, <2>1, <2>2, <2>3 DEF BootTypeOK, BootControl, Counting
  <1>16. CASE command_autoboot
    <2>1. PICK t \in Delays : autoboot(t) /\ pc = "idle" /\ interactive' = interactive
        BY <1>16 DEF command_autoboot, Asked
    <2>2. t \in Nat \union {-1} /\ interactive \in BOOLEAN
        BY <1>1, BootAssumption DEF BootTypeOK
    <2> QED BY <1>15, <2>1, <2>2
  <1>17. CASE autoboot_maybe
    <2>1. pc = "idle" /\ bpc = "command" /\ interactive' = TRUE
        BY <1>17 DEF autoboot_maybe
    <2>2. CASE autoboot(-1)
        BY <1>15, <2>1, <2>2
    <2>3. CASE UNCHANGED <<vars, bpc, bootfile, autoboot_delay, autoboot_tried, next, try, clock>>
      <3>1. UNCHANGED <<pc, preloaded_files, bpc, bootfile, autoboot_delay, autoboot_tried,
                        next, try, timeout, when, bios, lasttime, elapsed>>
          BY <2>3 DEF vars, clock
      <3> QED BY <1>1, <2>1, <3>1 DEF BootTypeOK, BootControl, Counting
    <2> QED BY <1>17, <2>2, <2>3 DEF autoboot_maybe
  <1> QED BY <1>3, <1>5, <1>6, <1>9, <1>10, <1>11, <1>12, <1>13, <1>14, <1>16, <1>17 DEF BootNext, BootStep

\* The steps of the countdown.
LEMMA OnTheClock ==
    ASSUME BootInv, StartCount \/ Poll \/ Tick
    PROVE  BootTypeOK' /\ BootControl' /\ Counting'
  <1>1. BootTypeOK /\ BootControl /\ Counting
      BY DEF BootInv
  <1>2. /\ UNCHANGED <<pc, preloaded_files, interactive, bootfile, autoboot_delay, autoboot_tried, next, try, timeout>>
      BY DEF StartCount, Poll, Tick, vars, settings
  <1>3. /\ timeout \in Nat \union {-1} /\ when \in Nat /\ elapsed \in Nat
        /\ bios \in 0 .. Day - 1 /\ lasttime \in 0 .. 2 * Day - 1 /\ Day \in Nat /\ Day > 0
      BY <1>1, BootAssumption DEF BootTypeOK
  <1>4. time \in Nat /\ time \in 0 .. 2 * Day - 1
      BY <1>1, <1>3, Clock
  <1>5. CASE StartCount
    <2>1. pc = "idle" /\ bios' = bios
        BY <1>5 DEF StartCount
    <2>2. CASE /\ kernelname # None /\ timeout >= 0
               /\ bpc' = "count" /\ when' = time + timeout /\ lasttime' = time /\ elapsed' = 0
      <3>1. time' = time
          BY <1>1, <2>1, <2>2, Clock
      <3>2. timeout \in Nat
          BY <1>3, <2>2
      <3>3. BootTypeOK' /\ BootControl'
          BY <1>1, <1>2, <1>3, <1>4, <2>1, <2>2, <3>2 DEF BootTypeOK, BootControl
      <3>4. Counting'
        <4> SUFFICES timeout' >= 0 /\ elapsed' <= timeout'
                     /\ (elapsed' < timeout' => time' + (timeout' - elapsed') <= when')
            BY DEF Counting
        <4> QED BY <1>2, <1>4, <2>2, <3>1, <3>2
      <3> QED BY <3>3, <3>4
    <2>3. CASE bpc' \in {"command", "boot"} /\ UNCHANGED <<when, lasttime, elapsed>>
        BY <1>1, <1>2, <2>1, <2>3 DEF BootTypeOK, BootControl, Counting
    <2> QED BY <1>5, <2>2, <2>3 DEF StartCount
  <1>6. CASE Poll
    <2>1. /\ bpc = "count" /\ lasttime' = time /\ bpc' \in {"boot", "count"}
          /\ UNCHANGED <<when, bios, elapsed>>
        BY <1>6 DEF Poll
    <2>2. time' = time
        BY <1>1, <2>1, Clock
    <2>3. BootTypeOK' /\ BootControl'
        BY <1>1, <1>2, <1>4, <2>1 DEF BootTypeOK, BootControl
    <2>4. Counting'
        BY <1>1, <1>2, <2>1, <2>2 DEF Counting
    <2> QED BY <2>3, <2>4
  <1>7. CASE Tick
    <2>1. /\ UNCHANGED <<bpc, when, lasttime>> /\ bios' = (bios + 1) % Day
          /\ elapsed' = (IF bpc = "count" /\ elapsed < timeout THEN elapsed + 1 ELSE elapsed)
          /\ (bpc = "count" => lasttime % Day = bios)
        BY <1>7 DEF Tick
    <2>2. bios' \in 0 .. Day - 1 /\ elapsed' \in Nat
        BY <1>3, <2>1
    <2>3. BootTypeOK' /\ BootControl'
        BY <1>1, <1>2, <2>1, <2>2 DEF BootTypeOK, BootControl
    <2>4. Counting'
      <3> SUFFICES ASSUME bpc = "count"
                   PROVE  timeout >= 0 /\ elapsed' <= timeout
                          /\ (elapsed' < timeout => time' + (timeout - elapsed') <= when)
          BY <1>2, <2>1 DEF Counting
      <3>1. time' <= time + 1
          BY <1>1, <2>1, Clock
      <3>2. time' \in Nat
        <4>1. time' = (IF bios' < lasttime' THEN bios' + Day ELSE bios')
            BY DEF time
        <4>2. bios' \in Nat /\ bios' + Day \in Nat
          <5>1. \A d \in Nat : \A i \in 0 .. d - 1 : i \in Nat /\ i + d \in Nat
              OBVIOUS
          <5> QED BY <1>3, <2>2, <5>1
        <4> QED BY <4>1, <4>2
      <3>3. timeout \in Nat /\ elapsed <= timeout /\ (elapsed < timeout => time + (timeout - elapsed) <= when)
          BY <1>1, <1>3 DEF Counting
      <3>4. CASE elapsed < timeout
        <4>1. elapsed' = elapsed + 1
            BY <2>1, <3>4
        <4>2. \A p, q, w, e, t \in Nat :
                 q <= p + 1 /\ e < t /\ p + (t - e) <= w
                   => t >= 0 /\ e + 1 <= t /\ (e + 1 < t => q + (t - (e + 1)) <= w)
            OBVIOUS
        <4> QED BY <1>3, <1>4, <3>1, <3>2, <3>3, <3>4, <4>1, <4>2
      <3>5. CASE ~(elapsed < timeout)
        <4>1. elapsed' = elapsed
            BY <2>1, <3>5
        <4> QED BY <3>3, <3>5, <4>1
      <3> QED BY <3>4, <3>5
    <2> QED BY <2>3, <2>4
  <1> QED BY <1>5, <1>6, <1>7

LEMMA BootInvInductive == BootInv /\ [BootNext]_<<vars, bootVars>> => BootInv'
  <1> SUFFICES ASSUME BootInv, [BootNext]_<<vars, bootVars>> PROVE BootInv'
      OBVIOUS
  <1>1. LoadInv'
      BY BootKeepsLoad DEF BootInv
  <1>2. BootTypeOK' /\ BootControl' /\ Counting'
      BY OffTheClock, OnTheClock
  <1> QED BY <1>1, <1>2 DEF BootInv

\* Whatever is executed, after whatever commands, boot files and countdowns, is a kernel, and
\* every module handed to it has all it requires (command_boot, loadakernel, autoboot).
THEOREM ExecutesAKernel == BootSpec => []BootsKernel
  <1>1. BootInv => BootsKernel
    <2> SUFFICES ASSUME BootInv, bpc = "exec"
                 PROVE  preloaded_files # <<>> /\ preloaded_files[1].type = "kernel" /\ Complete
        BY DEF BootsKernel
    <2>1. LoadInv /\ preloaded_files # <<>>
        BY DEF BootInv, BootControl
    <2>2. TypeOK /\ KernelHead
        BY <2>1 DEF LoadInv, Layout
    <2>3. 1 \in Listed
        BY <2>1, <2>2, FileFacts DEF Listed
    <2> QED BY <2>1, <2>2, <2>3, LoadInvComplete DEF KernelHead
  <1> QED BY <1>1, BootInitInv, BootInvInductive, PTL DEF BootSpec

\* Without a key autoboot boots only after as many seconds as it was given, for every length
\* of the delay and wherever in the countdown midnight falls.
THEOREM CountdownNotEarly == BootSpec => NotEarly
  <1>1. BootInv /\ [BootNext]_<<vars, bootVars>>
          => [bpc = "count" /\ Poll /\ bpc' = "boot" => elapsed >= timeout]_<<vars, bootVars>>
    <2> SUFFICES ASSUME BootInv, bpc = "count", Poll, bpc' = "boot" PROVE elapsed >= timeout
        OBVIOUS
    <2>1. BootTypeOK /\ Counting
        BY DEF BootInv
    <2>2. time >= when
        BY DEF Poll
    <2>3. time \in Nat /\ when \in Nat /\ elapsed \in Nat /\ timeout \in Nat \union {-1}
        BY <2>1, Clock, BootAssumption DEF BootTypeOK
    <2> QED BY <2>1, <2>2, <2>3 DEF Counting
  <1> QED BY <1>1, BootInitInv, BootInvInductive, PTL DEF BootSpec, NotEarly
-----------------------------------------------------------------------------
(* What loadakernel has tried. *)

PathsOK == moduledir_list \in Seq(Dirs) /\ module_path \in Seq(Dirs)

\* Once moduledir_rebuild has been called, calling it again changes nothing.
LEMMA RebuiltStays ==
    ASSUME PathsOK, moduledir_list' = Rebuilt, UNCHANGED module_path
    PROVE  PathsOK' /\ Rebuilt' = moduledir_list'
  <1> DEFINE l == moduledir_list
             p == module_path
             a == Those(l, Kept)
             b == Those(p, New)
             r == moduledir_list'
  <1>1. /\ l \in Seq(Dirs) /\ p \in Seq(Dirs) /\ Len(p) \in Nat /\ DOMAIN p = 1 .. Len(p)
        /\ DOMAIN l = 1 .. Len(l)
      BY DEF PathsOK
  <1>2. Kept \subseteq 1 .. Len(l) /\ New \subseteq 1 .. Len(p)
      BY DEF Kept, New
  <1>3. /\ a \in Seq(Dirs) /\ Len(a) = Cardinality(Kept)
        /\ \A k \in Kept : \E i \in 1 .. Len(a) : a[i] = l[k]
        /\ \A i \in 1 .. Len(a) : \E k \in Kept : a[i] = l[k]
      BY <1>1, <1>2, ThoseFacts
  <1>4. /\ b \in Seq(Dirs) /\ Len(b) = Cardinality(New)
        /\ \A k \in New : \E i \in 1 .. Len(b) : b[i] = p[k]
        /\ \A i \in 1 .. Len(b) : \E k \in New : b[i] = p[k]
      BY <1>1, <1>2, ThoseFacts
  <1>5. r = a \o b
      BY DEF Rebuilt
  <1> HIDE DEF a, b
  <1>6. /\ r \in Seq(Dirs) /\ Len(r) = Len(a) + Len(b) /\ Len(a) \in Nat /\ Len(b) \in Nat
        /\ \A i \in 1 .. Len(a) + Len(b) : r[i] = IF i <= Len(a) THEN a[i] ELSE b[i - Len(a)]
      BY <1>3, <1>4, <1>5, ConcatProperties
  <1>7. \A i \in 1 .. Len(r) : (i \in 1 .. Len(a) /\ r[i] = a[i])
                               \/ (i - Len(a) \in 1 .. Len(b) /\ r[i] = b[i - Len(a)])
      BY <1>6
  <1>8. \A i \in 1 .. Len(a) : i \in 1 .. Len(r) /\ r[i] = a[i]
      BY <1>6
  <1>9. \A i \in 1 .. Len(b) : i + Len(a) \in 1 .. Len(r) /\ r[i + Len(a)] = b[i]
    <2> TAKE i \in 1 .. Len(b)
    <2>1. i + Len(a) \in 1 .. Len(a) + Len(b) /\ ~(i + Len(a) <= Len(a)) /\ (i + Len(a)) - Len(a) = i
        BY <1>6
    <2> QED BY <1>6, <2>1
  <1>10. \A i \in 1 .. Len(r) : r[i] \in Range(p)
    <2>1. \A k \in Kept : l[k] \in Range(p)
        BY DEF Kept
    <2>2. \A k \in New : p[k] \in Range(p)
        BY <1>1, <1>2 DEF Range
    <2>3. \A i \in 1 .. Len(a) : a[i] \in Range(p)
        BY <1>3, <2>1
    <2>4. \A i \in 1 .. Len(b) : b[i] \in Range(p)
        BY <1>4, <2>2
    <2> QED BY <1>7, <2>3, <2>4
  <1>11. ASSUME NEW k \in 1 .. Len(p) PROVE \E i \in 1 .. Len(r) : r[i] = p[k]
    <2>1. CASE p[k] \in Range(l)
      <3>1. PICK j \in 1 .. Len(l) : l[j] = p[k]
          BY <1>1, <2>1 DEF Range
      <3>2. p[k] \in Range(p)
          BY <1>1 DEF Range
      <3>3. j \in Kept
          BY <3>1, <3>2 DEF Kept
      <3>4. PICK i \in 1 .. Len(a) : a[i] = l[j]
          BY <1>3, <3>3
      <3> QED BY <1>8, <3>1, <3>4
    <2>2. CASE p[k] \notin Range(l)
      <3> DEFINE T == {j \in 1 .. Len(p) : p[j] = p[k]}
      <3>1. T \in SUBSET Nat /\ T # {}
          OBVIOUS
      <3>2. PICK x \in T : \A y \in T : x <= y
        <4> HIDE DEF T
        <4> QED BY <3>1, Least
      <3>3. \A j \in 1 .. x - 1 : p[j] # p[x]
        <4> SUFFICES ASSUME NEW j \in 1 .. x - 1, p[j] = p[x] PROVE FALSE
            OBVIOUS
        <4>1. x \in 1 .. Len(p) /\ p[x] = p[k]
            OBVIOUS
        <4>2. j \in 1 .. Len(p) /\ ~(x <= j)
            BY <1>1, <4>1
        <4> QED BY <3>2, <4>1, <4>2
      <3>4. x \in New /\ p[x] = p[k]
          BY <2>2, <3>3 DEF New
      <3>5. PICK i \in 1 .. Len(b) : b[i] = p[x]
          BY <1>4, <3>4
      <3> QED BY <1>9, <3>4, <3>5
    <2> QED BY <2>1, <2>2
  <1>12. p' = p
      OBVIOUS
  <1>13. DOMAIN r = 1 .. Len(r)
      BY <1>6
  <1>14. Kept' = 1 .. Len(r)
      BY <1>10, <1>12 DEF Kept
  <1>15. New' = {}
    <2>1. \A k \in 1 .. Len(p) : p[k] \in Range(r)
        BY <1>11, <1>13 DEF Range
    <2> QED BY <2>1, <1>12 DEF New
  <1>16. Rebuilt' = Those(r, 1 .. Len(r)) \o Those(p, {})
    <2>1. Rebuilt' = Those(r, Kept') \o Those(p', New')
        BY DEF Rebuilt, Those
    <2> QED BY <1>12, <1>14, <1>15, <2>1
  <1>17. Those(r, 1 .. Len(r)) = r
      BY <1>6, ThoseAll
  <1>18. Those(p, {}) = <<>>
    <2>1. Those(p, {}) \in Seq(Dirs) /\ Len(Those(p, {})) = 0
        BY <1>1, ThoseFacts, FS_EmptySet
    <2> QED BY <2>1
  <1>19. r \o <<>> = r
      BY <1>6, ConcatEmptySeq
  <1> QED BY <1>1, <1>6, <1>12, <1>16, <1>17, <1>18, <1>19 DEF PathsOK

\* A load that fails behind the first file leaves at least that one.
LEMMA NeverEmptied ==
    ASSUME LoadInv, Running, preloaded_files # <<>> PROVE preloaded_files' # <<>>
  <1>1. TypeOK /\ Control /\ Frames /\ Layout
      BY DEF LoadInv
  <1>2. ASSUME stack # <<>>, Top.dep <= Len(Deps(Base)), Discard PROVE preloaded_files' # <<>>
    <2>1. Top.base \in Listed /\ Top.base # 1
        BY <1>2, TopWaits
    <2>2. Len(preloaded_files') = Top.base - 1
        BY <1>1, <1>2, <2>1, CutLayout DEF Discard
    <2>3. Top.base - 1 # 0
      <3>1. Len(preloaded_files) \in Nat
          BY <1>1, FileFacts
      <3> QED BY <2>1, <3>1 DEF Listed
    <2> QED BY <2>2, <2>3
  <1>3. CASE mod_loadkld
    <2>1. preloaded_files' = preloaded_files \/ \E f : preloaded_files' = Append(preloaded_files, f)
        BY <1>3 DEF mod_loadkld, file_load_fails, file_load
    <2>2. \A f : Append(preloaded_files, f) # <<>>
        BY <1>1 DEF TypeOK
    <2> QED BY <2>1, <2>2
  <1>4. CASE file_load_dependencies
    <2>1. stack # <<>>
        BY <1>1, <1>4 DEF Control, file_load_dependencies
    <2>2. preloaded_files' = preloaded_files \/ (Top.dep <= Len(Deps(Base)) /\ Discard)
        BY <1>4 DEF file_load_dependencies
    <2> QED BY <1>2, <2>1, <2>2
  <1>5. CASE DepLoaded
    <2>1. pc = "ret" /\ stack # <<>> /\ (preloaded_files' = preloaded_files \/ Discard)
        BY <1>5 DEF DepLoaded
    <2>2. Top.dep <= Len(Deps(Base))
      <3>1. Len(stack) \in Open /\ Top = stack[Len(stack)]
          BY <1>1, <2>1, TopFacts
      <3> QED BY <1>1, <2>1, <3>1 DEF Frames, Wants, Base
    <2> QED BY <1>2, <2>1, <2>2
  <1> QED BY <1>3, <1>4, <1>5 DEF Running

\* The list of directories is rebuilt from module_path, or left alone.
LEMMA PathsKept == PathsOK /\ [BootNext]_<<vars, bootVars>> => PathsOK'
  <1> SUFFICES ASSUME PathsOK, [BootNext]_<<vars, bootVars>> PROVE PathsOK'
      OBVIOUS
  <1>1. ASSUME UNCHANGED <<module_path, moduledir_list>> PROVE PathsOK'
      BY <1>1 DEF PathsOK
  <1>2. ASSUME moduledir_list' = Rebuilt \/ UNCHANGED moduledir_list, UNCHANGED module_path PROVE PathsOK'
      BY <1>1, <1>2, RebuiltStays
  <1>3. CASE UNCHANGED <<vars, bootVars>>
      BY <1>1, <1>3 DEF vars
  <1>4. CASE LoaderCommand
    <2>1. CASE mod_load \/ command_load
        BY <1>2, <2>1 DEF mod_load, command_load
    <2>2. CASE file_loadraw \/ command_unload
        BY <1>1, <2>2 DEF file_loadraw, command_unload
    <2>3. CASE SetPath
      <3>1. module_path' \in Paths /\ moduledir_list' = moduledir_list
          BY <2>3 DEF SetPath
      <3> QED BY <3>1, CatalogueAssumption DEF PathsOK
    <2> QED BY <1>4, <2>1, <2>2, <2>3 DEF LoaderCommand
  <1>5. CASE LoadStep
    <2>1. CASE mod_loadkld \/ DepLoaded \/ Done
        BY <1>1, <2>1 DEF mod_loadkld, DepLoaded, Done
    <2>2. CASE file_load_dependencies
        BY <1>2, <2>2 DEF file_load_dependencies
    <2> QED BY <1>5, <2>1, <2>2 DEF LoadStep, Running
  <1>6. CASE loadakernel \/ BootNamed
      BY <1>1, <1>2, <1>6 DEF loadakernel, BootNamed, CallLoadkld, vars
  <1>7. CASE KernelLoaded \/ NamedLoaded
      BY <1>1, <1>7 DEF KernelLoaded, NamedLoaded, Returned
  <1>8. CASE autoboot_maybe \/ command_autoboot
      BY <1>1, <1>8 DEF autoboot_maybe, command_autoboot, autoboot, vars
  <1>9. CASE StartCount \/ Poll \/ command_boot \/ Tick \/ \E enter \in BOOLEAN : Key(enter)
      BY <1>1, <1>9 DEF StartCount, Poll, command_boot, Tick, Key, vars
  <1> QED BY <1>3, <1>4, <1>5, <1>6, <1>7, <1>8, <1>9 DEF BootNext, BootStep

\* Nothing is in memory and no read has failed since the loader was started.
NothingLoaded == preloaded_files = <<>> /\ faults = 0
\* No name before the present one leads to a kernel that fits.
TriedBefore == \A t \in 1 .. try - 1 : ~Bootable(bootfile[t])
\* While loadakernel walks its names, the directories it searches stay the same ones.
Tried ==
    bpc \in {"akernel", "loading", "named", "check"} /\ NothingLoaded =>
        /\ try > 1 \/ bpc = "loading" => Rebuilt = moduledir_list
        /\ TriedBefore
        /\ bpc \in {"named", "check"} /\ try > 1 => getbootfile(try) = Empty
        /\ bpc = "loading" =>
              /\ pc = "load" => arg = file_search(moduledir_list, bootfile[try])
              /\ pc = "ret" => err /\ ~Bootable(bootfile[try])

TriedInv == BootInv /\ PathsOK /\ Tried

\* The steps of the loads themselves.
LEMMA TriedLoading ==
    ASSUME TriedInv, Running, UNCHANGED bootVars PROVE Tried'
  <1>1. BootInv /\ PathsOK /\ Tried /\ LoadInv /\ BootControl
      BY DEF TriedInv, BootInv
  <1>2. UNCHANGED <<bpc, try, bootfile>> /\ pc # "idle"
      BY DEF bootVars, settings, Running, mod_loadkld, file_load_dependencies, DepLoaded
  <1> SUFFICES ASSUME bpc \in {"akernel", "loading", "named", "check"}, NothingLoaded' PROVE Tried'
      BY <1>2 DEF Tried
  <1>3. bpc = "loading"
      BY <1>1, <1>2 DEF BootControl
  <1>4. preloaded_files = <<>>
      BY <1>1, NeverEmptied DEF NothingLoaded
  <1>5. stack = <<>>
    <2>1. Listed = {} /\ TypeOK /\ Frames
        BY <1>1, <1>4 DEF Listed, LoadInv
    <2>2. \A x \in Open : FALSE
        BY <2>1 DEF Frames
    <2>3. Len(stack) \in Nat
        BY <2>1, FileFacts
    <2> QED BY <2>1, <2>2, <2>3, FileFacts DEF Open
  <1>6. mod_loadkld
      BY <1>1, <1>5 DEF Running, file_load_dependencies, DepLoaded, LoadInv, Control
  <1>7. UNCHANGED <<module_path, moduledir_list>> /\ pc = "load" /\ ~file_findfile(arg)
      BY <1>4, <1>6 DEF mod_loadkld, file_findfile
  <1>8. ~file_load(arg)
    <2>1. \A f : Append(preloaded_files, f) # <<>>
        BY <1>4
    <2> QED BY <2>1 DEF file_load, NothingLoaded
  <1>9. file_load_fails(arg) /\ pc' = "ret" /\ err' = TRUE
      BY <1>6, <1>7, <1>8 DEF mod_loadkld
  <1>10. faults = 0 /\ (~Accepted(arg) \/ ~Fits(arg))
    <2>1. faults \in Nat
        BY <1>1, CatalogueAssumption DEF LoadInv, TypeOK
    <2> QED BY <1>9, <2>1 DEF file_load_fails, NothingLoaded
  <1>11. /\ Rebuilt = moduledir_list /\ TriedBefore
         /\ arg = file_search(moduledir_list, bootfile[try])
      BY <1>1, <1>3, <1>4, <1>7, <1>10 DEF Tried, NothingLoaded
  <1>12. ~Bootable(bootfile[try])
    <2> SUFFICES ASSUME Kind[arg] = "kernel", KernelAddr + ReadEnd[arg] < memtop PROVE FALSE
        BY <1>11 DEF Bootable
    <2>1. Accepted(arg) /\ Dest(arg) = KernelAddr
        BY <1>4 DEF Accepted, Dest
    <2> QED BY <1>10, <2>1 DEF Fits
  <1>13. Rebuilt' = Rebuilt
      BY <1>7 DEF Rebuilt, Kept, New, Those
  <1>14. TriedBefore' /\ ~Bootable(bootfile[try])'
      BY <1>2, <1>7, <1>11, <1>12 DEF TriedBefore, Bootable
  <1> QED BY <1>2, <1>3, <1>7, <1>9, <1>11, <1>13, <1>14 DEF Tried

\* A step that leaves loadakernel, or that begins it anew.
LEMMA TriedElsewhere ==
    ASSUME bpc' \notin {"akernel", "loading", "named", "check"}
           \/ (try' = 1 /\ bpc' # "loading")
    PROVE  Tried'
  <1>1. CASE bpc' \notin {"akernel", "loading", "named", "check"}
      BY <1>1 DEF Tried
  <1>2. CASE try' = 1 /\ bpc' # "loading"
    <2>1. TriedBefore'
        BY <1>2 DEF TriedBefore
    <2> QED BY <1>2, <2>1 DEF Tried
  <1> QED BY <1>1, <1>2

\* The steps of loadakernel.
LEMMA TriedWalking ==
    ASSUME TriedInv, loadakernel \/ KernelLoaded PROVE Tried'
  <1>1. BootInv /\ PathsOK /\ Tried /\ BootTypeOK /\ BootControl /\ bootfile' = bootfile
      BY DEF TriedInv, BootInv, loadakernel, KernelLoaded, settings
  <1>2. UNCHANGED <<preloaded_files, faults, module_path>>
      BY DEF loadakernel, KernelLoaded, CallLoadkld, Returned, vars, loadVars
  <1> SUFFICES ASSUME NothingLoaded PROVE Tried'
      BY <1>2 DEF Tried, NothingLoaded
  <1>3. try \in Nat \ {0} /\ try \in 1 .. Len(bootfile) + 1
      BY <1>1 DEF BootTypeOK, BootControl
  <1>4. PICK n \in Nat : n = try
      BY <1>3
  <1>5. CASE loadakernel
    <2>1. TriedBefore /\ (try > 1 => Rebuilt = moduledir_list)
        BY <1>1, <1>5 DEF loadakernel, Tried
    <2>2. CASE getbootfile(try) = Empty /\ bpc' = next /\ UNCHANGED <<vars, try>>
      <3>1. UNCHANGED <<moduledir_list, module_path, try>> /\ bpc' \in {"named", "check"}
          BY <1>1, <2>2 DEF vars, BootTypeOK
      <3>2. TriedBefore' /\ Rebuilt' = Rebuilt /\ getbootfile(try)' = getbootfile(try)
          BY <1>1, <2>1, <3>1 DEF TriedBefore, Bootable, Rebuilt, Kept, New, Those, getbootfile
      <3> QED BY <2>1, <2>2, <3>1, <3>2 DEF Tried
    <2>3. CASE /\ getbootfile(try) # Empty
               /\ CallLoadkld(getbootfile(try), "loading", bpc' = "akernel" /\ try' = try + 1)
      <3>1. getbootfile(try) = bootfile[try]
          BY <2>3 DEF getbootfile
      <3>2. moduledir_list' = Rebuilt
          BY <2>3 DEF CallLoadkld
      <3>3. Rebuilt' = moduledir_list'
          BY <1>1, <1>2, <3>2, RebuiltStays
      <3>4. \A t \in 1 .. try - 1 : ~Bootable(bootfile[t])'
        <4>1. CASE try > 1
            BY <1>1, <2>1, <3>2, <4>1 DEF TriedBefore, Bootable
        <4>2. CASE try = 1
            BY <4>2
        <4> QED BY <1>3, <4>1, <4>2
      <3>5. CASE /\ arg' = file_search(moduledir_list', bootfile[try])
                 /\ pc' = "load" /\ bpc' = "loading" /\ try' = try
        <4>1. TriedBefore'
            BY <3>4, <3>5 DEF TriedBefore
        <4> QED BY <1>1, <3>3, <3>5, <4>1 DEF Tried
      <3>6. CASE file_search(moduledir_list', bootfile[try]) = None /\ bpc' = "akernel" /\ try' = try + 1
        <4>1. ~Bootable(bootfile[n])'
            BY <1>1, <1>4, <3>6 DEF Bootable
        <4>2. \A t \in 1 .. try' - 1 : t \in 1 .. try - 1 \/ t = n
            BY <1>3, <1>4, <3>6
        <4>3. TriedBefore'
            BY <3>4, <4>1, <4>2 DEF TriedBefore
        <4> QED BY <3>3, <3>6, <4>3 DEF Tried
      <3> QED BY <2>3, <3>1, <3>5, <3>6 DEF CallLoadkld
    <2> QED BY <1>5, <2>2, <2>3 DEF loadakernel
  <1>6. CASE KernelLoaded
    <2>1. /\ Rebuilt = moduledir_list /\ TriedBefore /\ err /\ ~Bootable(bootfile[try])
        BY <1>1, <1>6 DEF KernelLoaded, Returned, Tried
    <2>2. /\ bpc' = "akernel" /\ try' = try + 1 /\ UNCHANGED moduledir_list
        BY <1>6, <2>1 DEF KernelLoaded, Returned
    <2>3. Rebuilt' = Rebuilt
        BY <1>2, <2>2 DEF Rebuilt, Kept, New, Those
    <2>4. \A t \in 1 .. try' - 1 : t \in 1 .. try - 1 \/ t = try
        BY <1>3, <2>2
    <2>5. TriedBefore'
        BY <1>1, <2>1, <2>2, <2>4 DEF TriedBefore, Bootable
    <2> QED BY <2>1, <2>2, <2>3, <2>5 DEF Tried
  <1> QED BY <1>5, <1>6

LEMMA TriedInductive == TriedInv /\ [BootNext]_<<vars, bootVars>> => TriedInv'
  <1> SUFFICES ASSUME TriedInv, [BootNext]_<<vars, bootVars>> PROVE TriedInv'
      OBVIOUS
  <1>1. BootInv' /\ PathsOK' /\ Tried
      BY BootInvInductive, PathsKept DEF TriedInv
  <1> SUFFICES Tried'
      BY <1>1 DEF TriedInv
  <1>2. ASSUME UNCHANGED <<preloaded_files, faults, moduledir_list, module_path, pc, arg, err,
                           bpc, try, bootfile>>
        PROVE  Tried'
    <2>1. Rebuilt' = Rebuilt /\ NothingLoaded' = NothingLoaded
        BY <1>2 DEF Rebuilt, Kept, New, Those, NothingLoaded
    <2>2. TriedBefore' = TriedBefore /\ Bootable(bootfile[try])' = Bootable(bootfile[try])
          /\ getbootfile(try)' = getbootfile(try)
        BY <1>2 DEF TriedBefore, Bootable, getbootfile
    <2> QED BY <1>1, <1>2, <2>1, <2>2 DEF Tried
  <1>3. CASE UNCHANGED <<vars, bootVars>>
      BY <1>2, <1>3 DEF vars, bootVars, settings
  <1>4. CASE LoaderCommand
      BY <1>4, TriedElsewhere DEF LoaderCommand, bootVars
  <1>5. CASE LoadStep
    <2>1. CASE Running
        BY <1>5, <2>1, TriedLoading DEF LoadStep
    <2>2. CASE bpc = "command"
        BY <1>5, <2>2, TriedElsewhere DEF LoadStep, bootVars
    <2> QED BY <1>5, <2>1, <2>2 DEF LoadStep
  <1>6. CASE loadakernel \/ KernelLoaded
      BY <1>6, TriedWalking
  <1>7. CASE autoboot_maybe
    <2>1. autoboot(-1) \/ (bpc = "command" /\ bpc' = bpc)
        BY <1>7 DEF autoboot_maybe
    <2> QED BY <2>1, TriedElsewhere DEF autoboot
  <1>8. CASE command_autoboot
      BY <1>8, TriedElsewhere DEF command_autoboot, autoboot
  <1>9. CASE StartCount \/ Poll \/ NamedLoaded \/ BootNamed \/ \E enter \in BOOLEAN : Key(enter)
      BY <1>9, TriedElsewhere DEF StartCount, Poll, NamedLoaded, BootNamed, CallLoadkld, Key
  <1>10. CASE command_boot
      BY <1>10, TriedElsewhere DEF command_boot
  <1>11. CASE Tick
      BY <1>2, <1>11 DEF Tick, vars, settings
  <1> QED BY <1>3, <1>4, <1>5, <1>6, <1>7, <1>8, <1>9, <1>10, <1>11 DEF BootNext, BootStep

\* Unless a read failed, loadakernel comes back with nothing in memory only when no name of
\* $bootfile before an empty one leads to a kernel that fits, for every list of names and every
\* module_path, whatever was loaded, unloaded or changed before.
THEOREM GivesUpOnlyInVain == BootSpec => []GivesUpRightly
  <1>1. BootInit => TriedInv
    <2> SUFFICES ASSUME BootInit PROVE TriedInv
        OBVIOUS
    <2>1. BootInv /\ bpc = "command"
        BY BootInitInv DEF BootInit
    <2>2. PathsOK
        BY CatalogueAssumption DEF BootInit, Init, PathsOK
    <2> QED BY <2>1, <2>2 DEF TriedInv, Tried
  <1>2. TriedInv => GivesUpRightly
    <2> SUFFICES ASSUME TriedInv, bpc \in {"named", "check"}, try > 1, preloaded_files = <<>>, faults = 0,
                        NEW t \in 1 .. Len(bootfile), \A x \in 1 .. t : bootfile[x] # Empty
                 PROVE  ~Bootable(bootfile[t])
        BY DEF GivesUpRightly
    <2>1. TriedBefore /\ getbootfile(try) = Empty
        BY DEF TriedInv, Tried, NothingLoaded
    <2>2. try \in Nat \ {0} /\ Len(bootfile) \in Nat
        BY BootAssumption DEF TriedInv, BootInv, BootTypeOK, BootControl
    <2>3. try <= t => FALSE
      <3> SUFFICES ASSUME try <= t PROVE FALSE
          OBVIOUS
      <3>1. try \in 1 .. t /\ try <= Len(bootfile)
          BY <2>2
      <3> QED BY <2>1, <3>1 DEF getbootfile
    <2>4. t \in 1 .. try - 1
        BY <2>2, <2>3
    <2> QED BY <2>1, <2>4 DEF TriedBefore
  <1> QED BY <1>1, <1>2, TriedInductive, PTL DEF BootSpec

=============================================================================
