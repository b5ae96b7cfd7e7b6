----------------------------- MODULE FiclWords -----------------------------
(***************************************************************************)
(* The words of boot/ficl that work on the stacks and on memory: words.c,    *)
(* search.c, stack.c, the dictionary pointer of dict.c, parsing of vm.c and   *)
(* the loader's words of loader.c.  A word is an operator from machine to     *)
(* machine, and the machine does nothing to protect itself: vmCheckStack,      *)
(* which a word calls with what it says it takes and leaves, is all there is.  *)
(*                                                                         *)
(* Memory is bytes of WB values, a cell two of them, little end first.  The   *)
(* pad, the input and the dictionary lie one after the other.                 *)
(***************************************************************************)
EXTENDS Integers, Sequences, FiniteSets, SequencesExt

CONSTANTS
    WB,             \* values of a byte
    TIB, DICT, MEMSIZE,     \* where the input and the dictionary begin, where memory ends
    STACKSIZE,      \* cells of a stack
    WVOCS,          \* FICL_DEFAULT_VOCS
    USERCELLS,      \* FICL_USER_CELLS
    Machines        \* states a behaviour starts from
ASSUME WordsAssumption == WB \in Nat \ {0} /\ TIB < DICT /\ DICT < MEMSIZE /\ STACKSIZE \in Nat \ {0}

VARIABLES fw,       \* the machine
          fprev,    \* the word run last and the machine before it
          lit       \* a literal compiled by SLITERAL: address and text
fwvars == <<fw, fprev, lit>>

CELLS == WB * WB
TRUEFLAG == CELLS - 1
Mod(x) == x % CELLS
Sgn(x) == IF x >= CELLS \div 2 THEN x - CELLS ELSE x
Bool(b) == IF b THEN TRUEFLAG ELSE 0
SPACE9 == 1

-----------------------------------------------------------------------------
(* stack.c *)
stackDepth(w) == Len(w.stk)
Arg(w, i) == IF i <= Len(w.stk) THEN w.stk[Len(w.stk) - i + 1] ELSE 0
Popped(w, n) == [w EXCEPT !.stk = SubSeq(@, 1, Len(@) - n), !.bad = @ \/ Len(w.stk) < n]
Pushed(w, x) == [w EXCEPT !.stk = Append(@, Mod(x)), !.bad = @ \/ Len(w.stk) >= STACKSIZE]
stackSetTop(w, x) == [w EXCEPT !.stk[Len(w.stk)] = Mod(x)]
RPushed(w, x) == [w EXCEPT !.rstk = Append(@, x)]
RPopped(w) == [w EXCEPT !.rstk = IF @ = <<>> THEN @ ELSE Front(@), !.bad = @ \/ w.rstk = <<>>]
RArg(w, i) == IF i <= Len(w.rstk) THEN w.rstk[Len(w.rstk) - i + 1] ELSE 0
\* n > 0 brings the cell below n others to the top, n < 0 the top below them.
stackRoll(s, n) == LET k == Len(s) IN
    IF n > 0 THEN SubSeq(s, 1, k - n - 1) \o SubSeq(s, k - n + 1, k) \o <<s[k - n]>>
    ELSE IF n < 0 THEN SubSeq(s, 1, k + n - 1) \o <<s[k]>> \o SubSeq(s, k + n, k - 1) ELSE s
Throw9(w) == [w EXCEPT !.thrown = TRUE]
Checked(w, pop, push) == Len(w.stk) >= pop /\ Len(w.stk) - pop + push <= STACKSIZE
\* Replace the n topmost cells.
Leaves(w, n, seq) == FoldLeft(Pushed, Popped(w, n), seq)
Pops9(w, n, seq) == IF Checked(w, n, Len(seq)) THEN Leaves(w, n, seq) ELSE Throw9(w)

-----------------------------------------------------------------------------
(* Memory *)
Byte(w, a) == IF a \in DOMAIN w.mem THEN w.mem[a] ELSE 0
SetByte(w, a, b) == IF a \in DOMAIN w.mem THEN [w EXCEPT !.mem[a] = b % WB] ELSE [w EXCEPT !.wild = TRUE]
CellAt(w, a) == Byte(w, a) + (WB * Byte(w, a + 1))
SetCell(w, a, x) == SetByte(SetByte(w, a, x), a + 1, x \div WB)
Text(w, a, n) == [i \in 1 .. n |-> Byte(w, a + i - 1)]
SetText(w, a, t) == FoldLeft(LAMBDA v, i : SetByte(v, a + i - 1, t[i]), w, [i \in 1 .. Len(t) |-> i])
alignPtr(a) == ((a + 1) \div 2) * 2
dictCellsUsed(w) == (w.here - DICT) \div 2
dictCellsAvail(w) == ((MEMSIZE - DICT) \div 2) - dictCellsUsed(w)
\* Room that is not there is not taken, and the caller not told.
dictAllot(w, n) == IF n > 0 THEN IF n <= dictCellsAvail(w) * 2 THEN [w EXCEPT !.here = @ + n] ELSE w
                   ELSE IF -n <= dictCellsUsed(w) * 2 THEN [w EXCEPT !.here = @ + n] ELSE [w EXCEPT !.here = @ - (dictCellsUsed(w) * 2)]
dictAlign(w) == [w EXCEPT !.here = alignPtr(@)]
dictAppendChar(w, c) == [SetByte(w, w.here, c) EXCEPT !.here = @ + 1]
dictAppendCell9(w, x) == [SetCell(w, w.here, x) EXCEPT !.here = @ + 2]

-----------------------------------------------------------------------------
(* words.c: numbers *)
mul(w) == Pops9(w, 2, <<Sgn(Arg(w, 2)) * Sgn(Arg(w, 1))>>)
negate(w) == Pops9(w, 1, <<-Arg(w, 1)>>)
onePlus(w) == IF Checked(w, 1, 1) THEN stackSetTop(w, Arg(w, 1) + 1) ELSE Throw9(w)
oneMinus(w) == IF Checked(w, 1, 1) THEN stackSetTop(w, Arg(w, 1) - 1) ELSE Throw9(w)
twoMul(w) == IF Checked(w, 1, 1) THEN stackSetTop(w, Arg(w, 1) * 2) ELSE Throw9(w)
twoDiv(w) == IF Checked(w, 1, 1) THEN stackSetTop(w, Sgn(Arg(w, 1)) \div 2) ELSE Throw9(w)
zeroGreater(w) == Pops9(w, 1, <<Bool(Sgn(Arg(w, 1)) > 0)>>)
isEqual(w) == Pops9(w, 2, <<Bool(Arg(w, 2) = Arg(w, 1))>>)
isLess(w) == Pops9(w, 2, <<Bool(Sgn(Arg(w, 2)) < Sgn(Arg(w, 1)))>>)
uIsLess(w) == Pops9(w, 2, <<Bool(Arg(w, 2) < Arg(w, 1))>>)
isGreater(w) == Pops9(w, 2, <<Bool(Sgn(Arg(w, 2)) > Sgn(Arg(w, 1)))>>)
BitsOf(x) == {i \in 0 .. 15 : (x \div 2 ^ i) % 2 = 1}
FromBits(S) == FoldLeft(LAMBDA n, i : IF i - 1 \in S THEN n + 2 ^ (i - 1) ELSE n, 0, [i \in 1 .. 16 |-> i])
bitwiseAnd(w) == Pops9(w, 2, <<FromBits(BitsOf(Arg(w, 1)) \intersect BitsOf(Arg(w, 2)))>>)
bitwiseOr(w) == Pops9(w, 2, <<FromBits(BitsOf(Arg(w, 1)) \union BitsOf(Arg(w, 2)))>>)
bitwiseXor(w) == Pops9(w, 2, <<FromBits((BitsOf(Arg(w, 1)) \union BitsOf(Arg(w, 2))) \ (BitsOf(Arg(w, 1)) \intersect BitsOf(Arg(w, 2))))>>)
bitwiseNot(w) == Pops9(w, 1, <<TRUEFLAG - Arg(w, 1)>>)
Shift(w) == Arg(w, 1) % 8
lshift(w) == Pops9(w, 2, <<Arg(w, 2) * 2 ^ Shift(w)>>)
rshift(w) == Pops9(w, 2, <<Arg(w, 2) \div 2 ^ Shift(w)>>)
ficlMax(w) == Pops9(w, 2, <<IF Sgn(Arg(w, 2)) > Sgn(Arg(w, 1)) THEN Arg(w, 2) ELSE Arg(w, 1)>>)
ficlMin(w) == Pops9(w, 2, <<IF Sgn(Arg(w, 2)) < Sgn(Arg(w, 1)) THEN Arg(w, 2) ELSE Arg(w, 1)>>)
depthWord(w) == Pops9(w, 0, <<stackDepth(w)>>)
cellsWord(w) == Pops9(w, 1, <<Arg(w, 1) * 2>>)
cellPlus(w) == Pops9(w, 1, <<Arg(w, 1) + 2>>)
charPlus(w) == Pops9(w, 1, <<Arg(w, 1) + 1>>)
aligned(w) == Pops9(w, 1, <<alignPtr(Arg(w, 1))>>)
\* Output goes through the pad: the pad of pictured numbers is lost.
TextOut(w, n) == [w EXCEPT !.out = @ + 1, !.mem = [a \in DOMAIN @ |-> IF a \in 0 .. n - 1 THEN SPACE9 ELSE @[a]]]
displayCell(w) == IF Checked(w, 1, 0) THEN TextOut(Popped(w, 1), 2) ELSE Throw9(w)
uDot(w) == IF Checked(w, 1, 0) THEN TextOut(Popped(w, 1), 2) ELSE Throw9(w)
hexDot(w) == IF Checked(w, 1, 0) THEN TextOut(Popped(w, 1), 2) ELSE Throw9(w)
emit(w) == IF Checked(w, 1, 0) THEN TextOut(Popped(w, 1), 1) ELSE Throw9(w)

-----------------------------------------------------------------------------
(* words.c: the return stack, memory, the dictionary *)
twoToR(w) == IF ~Checked(w, 2, 0) THEN Throw9(w)
             ELSE LET v == [w EXCEPT !.stk = stackRoll(@, 1)] IN Popped(RPushed(RPushed(v, Arg(v, 1)), Arg(v, 2)), 2)
twoRFrom(w) == IF ~Checked(w, 0, 2) THEN Throw9(w)
               ELSE LET v == RPopped(RPopped(Pushed(Pushed(w, RArg(w, 1)), RArg(w, 2)))) IN [v EXCEPT !.stk = stackRoll(@, 1)]
twoRFetch(w) == IF ~Checked(w, 0, 2) THEN Throw9(w) ELSE [Pushed(Pushed(w, RArg(w, 2)), RArg(w, 1)) EXCEPT !.bad = @ \/ Len(w.rstk) < 2]
twoFetch(w) == Pops9(w, 1, <<CellAt(w, Arg(w, 1) + 2), CellAt(w, Arg(w, 1))>>)
\* Mutant of twoStore: the check counts the cells stored and not their address.
twoStoreTwo(w) == IF ~Checked(w, 2, 0) THEN Throw9(w)
                  ELSE LET a == Arg(w, 1) IN Popped(SetCell(SetCell(w, a, Arg(w, 2)), a + 2, Arg(w, 3)), 3)
twoStore(w) == IF ~Checked(w, 3, 0) THEN Throw9(w)
               ELSE LET a == Arg(w, 1) IN Popped(SetCell(SetCell(w, a, Arg(w, 2)), a + 2, Arg(w, 3)), 3)
plusStore(w) == IF ~Checked(w, 2, 0) THEN Throw9(w) ELSE Popped(SetCell(w, Arg(w, 1), Mod(CellAt(w, Arg(w, 1)) + Arg(w, 2))), 2)
quadFetch(w) == Pops9(w, 1, <<CellAt(w, Arg(w, 1))>>)
quadStore(w) == IF ~Checked(w, 2, 0) THEN Throw9(w) ELSE Popped(SetCell(w, Arg(w, 1), Arg(w, 2)), 2)
wFetch(w) == Pops9(w, 1, <<Byte(w, Arg(w, 1))>>)
wStore(w) == IF ~Checked(w, 2, 0) THEN Throw9(w) ELSE Popped(SetByte(w, Arg(w, 1), Arg(w, 2)), 2)
cFetch(w) == Pops9(w, 1, <<Byte(w, Arg(w, 1))>>)
cStore(w) == IF ~Checked(w, 2, 0) THEN Throw9(w) ELSE Popped(SetByte(w, Arg(w, 1), Arg(w, 2)), 2)
\* Full, underflow, and a search order too long, which is put back.
dictCheck9(w, n) ==
    IF (n >= 0 /\ dictCellsAvail(w) * 2 < n) \/ (n <= 0 /\ dictCellsUsed(w) * 2 < -n) THEN Throw9(w)
    ELSE IF Len(w.lists) > WVOCS THEN Throw9([w EXCEPT !.lists = <<1>>, !.cur = 1]) ELSE w
allot(w) ==
    IF ~Checked(w, 1, 0) THEN Throw9(w)
    ELSE LET n == Sgn(Arg(w, 1))
             v == dictCheck9(Popped(w, 1), n)
         IN  IF v.thrown THEN v ELSE dictAllot(v, n)
hereWord(w) == Pops9(w, 0, <<w.here>>)
cComma(w) == IF ~Checked(w, 1, 0) THEN Throw9(w) ELSE dictAppendChar(Popped(w, 1), Arg(w, 1))
alignWord(w) == dictAlign(w)
decimal(w) == [w EXCEPT !.base = 10]
hex(w) == [w EXCEPT !.base = 16]
fill(w) == IF ~Checked(w, 3, 0) THEN Throw9(w) ELSE Popped(SetText(w, Arg(w, 3), [i \in 1 .. Arg(w, 2) |-> Arg(w, 1) % WB]), 3)
\* One byte after the other, up or down.
Copy(w, a1, a2, is) == FoldLeft(LAMBDA v, i : SetByte(v, a2 + i, Byte(v, a1 + i)), w, is)
move(w) ==
    IF ~Checked(w, 3, 0) THEN Throw9(w)
    ELSE LET n == Arg(w, 1)
             a2 == Arg(w, 2)
             a1 == Arg(w, 3)
         IN  Popped(Copy(w, a1, a2, IF a1 >= a2 THEN [i \in 1 .. n |-> i - 1] ELSE [i \in 1 .. n |-> n - i]), 3)
tolower(c) == IF c \in {4, 5} THEN c - 2 ELSE c
compareInternal(w, fold) ==
    LET n2 == Arg(w, 1)
        n1 == Arg(w, 3)
        c1 == [i \in 0 .. n1 - 1 |-> LET c == Byte(w, Arg(w, 4) + i) IN IF fold THEN tolower(c) ELSE c]
        c2 == [i \in 0 .. n2 - 1 |-> LET c == Byte(w, Arg(w, 2) + i) IN IF fold THEN tolower(c) ELSE c]
        m == IF n1 < n2 THEN n1 ELSE n2
        D == {i \in 0 .. m - 1 : c1[i] # c2[i]}
        n == IF D = {} THEN n1 - n2 ELSE LET i == CHOOSE i \in D : \A j \in D : i <= j IN c1[i] - c2[i]
    IN  Pops9(w, 4, <<IF n < 0 THEN -1 ELSE IF n > 0 THEN 1 ELSE 0>>)
compareString(w) == compareInternal(w, FALSE)
compareStringInsensitive(w) == compareInternal(w, TRUE)

-----------------------------------------------------------------------------
(* Strings and input *)
INEND == DICT
\* Where the text ends that begins at a: at the delimiter or a line end, or with the input.
Ends(w, a, delim) == CHOOSE e \in a .. INEND : (e = INEND \/ Byte(w, e) = delim) /\ \A x \in a .. e - 1 : Byte(w, x) # delim
vmParseStringEx(w, delim, skip) ==
    LET src == TIB + w.in
        a == IF skip THEN CHOOSE x \in src .. INEND : (x = INEND \/ Byte(w, x) # delim) /\ \A y \in src .. x - 1 : Byte(w, y) = delim ELSE src
        e == Ends(w, a, delim)
    IN  [a |-> a, n |-> e - a, w |-> [w EXCEPT !.in = IF e = INEND THEN e - TIB ELSE e + 1 - TIB]]
parseWord9(w) == IF ~Checked(w, 1, 2) THEN Throw9(w) ELSE LET p == vmParseStringEx(w, Arg(w, 1) % WB, FALSE) IN Leaves(p.w, 1, <<p.a, p.n>>)
parseNoCopy(w) == IF ~Checked(w, 0, 2) THEN Throw9(w) ELSE LET p == vmParseStringEx(w, SPACE9, TRUE) IN Leaves(p.w, 0, <<p.a, p.n>>)
ficlChar(w) == IF ~Checked(w, 0, 1) THEN Throw9(w)
               ELSE LET p == vmParseStringEx(w, SPACE9, TRUE) IN IF p.n = 0 THEN Throw9(p.w) ELSE Leaves(p.w, 0, <<Byte(w, p.a)>>)
commentHang(w) == vmParseStringEx(w, 6, FALSE).w
\* To the pad, as a counted string of up to nPAD - 1 characters.  Count, text, a space and a
\* NUL are two bytes more than the text and the count: the longest do not fit the pad.
ficlWord(w) ==
    IF ~Checked(w, 1, 1) THEN Throw9(w)
    ELSE LET p == vmParseStringEx(w, Arg(w, 1) % WB, TRUE)
             n == IF p.n > TIB - 1 THEN TIB - 1 ELSE p.n
         IN  Leaves(SetText(p.w, 0, <<n>> \o Text(w, p.a, n) \o <<SPACE9, 0>>), 1, <<0>>)
countWord(w) == Pops9(w, 1, <<Arg(w, 1) + 1, Byte(w, Arg(w, 1))>>)
accept(w) ==
    IF ~Checked(w, 2, 1) THEN Throw9(w)
    ELSE LET room == INEND - TIB - w.in
             n == IF Arg(w, 1) < room THEN Arg(w, 1) ELSE room
         IN  IF room = 0 THEN Throw9(w) ELSE Leaves([SetText(w, Arg(w, 2), Text(w, TIB + w.in, n)) EXCEPT !.in = @ + n], 2, <<n>>)
source(w) == Pops9(w, 0, <<TIB, INEND - TIB>>)
\* Compiles a literal: the word, a counted string with its end, and room up to the next cell.
STRLIT == 5
sLiteralCoIm(w) ==
    IF ~Checked(w, 2, 0) THEN Throw9(w)
    ELSE LET n == Arg(w, 1)
             v == dictAppendCell9(Popped(w, 2), STRLIT)
             t == SetText(v, v.here, <<n % WB>> \o Text(w, Arg(w, 2), n) \o <<0>>)
         IN  [t EXCEPT !.here = alignPtr(@ + n + 2)]
\* Runs it: the string, and the instruction pointer behind it.
stringLit(w, ip) == IF ~Checked(w, 0, 2) THEN [w |-> Throw9(w), ip |-> ip]
                    ELSE [w |-> Leaves(w, 0, <<ip + 1, Byte(w, ip)>>), ip |-> alignPtr(ip + 1 + Byte(w, ip) + 1)]
twoLiteralIm(w) == Popped(dictAppendCell9(dictAppendCell9(dictAppendCell9(w, 7), Arg(w, 1)), Arg(w, 2)), 2)
twoLitParen(w, ip) == Pops9(w, 0, <<CellAt(w, ip + 2), CellAt(w, ip)>>)
typeWord(w) == [Popped(w, 2) EXCEPT !.out = @ + 1]

-----------------------------------------------------------------------------
(* Allocation, user variables, the search order *)
ansAllocate(w, ok) == IF ok THEN [Leaves(w, 1, <<40, 0>>) EXCEPT !.heap = @ + 1] ELSE Leaves(w, 1, <<0, 1>>)
ansFree(w) == [Leaves(w, 1, <<0>>) EXCEPT !.heap = @ - 1]
ansResize(w, ok) == IF ok THEN Leaves(w, 2, <<41, 0>>) ELSE Leaves(w, 2, <<Arg(w, 2), 1>>)
userVariable(w) == LET v == Popped(w, 1) IN IF Sgn(Arg(w, 1)) >= USERCELLS THEN Throw9(v) ELSE dictAppendCell9(v, Arg(w, 1))
getOrder(w) == Leaves(w, 0, Append(w.lists, Len(w.lists)))
setOrder(w) ==
    LET n == Sgn(Arg(w, 1))
        v == Popped(w, 1)
    IN  CASE n > WVOCS -> Throw9(v)
          [] n < 0 -> [v EXCEPT !.lists = <<1>>]
          [] OTHER -> [Popped(v, n) EXCEPT !.lists = [i \in 1 .. n |-> Arg(v, n - i + 1)]]
getCurrent(w) == Leaves(w, 0, <<w.cur>>)
setCurrent(w) == [Popped(w, 1) EXCEPT !.cur = Arg(w, 1)]
forthWordlist(w) == Leaves(w, 0, <<1>>)

-----------------------------------------------------------------------------
(* loader.c: copies of the strings are made for the loader and released, but for ficlFindfile's *)
Strings(w, n, ok) == IF ok THEN w ELSE [Throw9(w) EXCEPT !.heap = @ + n - 1]
ficlSetenv(w, ok) == IF ~Checked(w, 4, 0) THEN Throw9(w) ELSE Strings([Popped(w, 4) EXCEPT !.env = IF ok THEN TRUE ELSE @], 2, ok)
ficlSetenvq(w, ok) == IF ~Checked(w, 5, 0) THEN Throw9(w) ELSE Strings([Popped(w, 5) EXCEPT !.env = IF ok THEN TRUE ELSE @], 2, ok)
ficlGetenv(w, ok) == IF ~Checked(w, 2, 2) THEN Throw9(w) ELSE IF ~ok THEN Strings(Popped(w, 2), 1, FALSE) ELSE Leaves(w, 2, IF w.env THEN <<TIB, 2>> ELSE <<-1>>)
ficlUnsetenv(w, ok) == IF ~Checked(w, 2, 0) THEN Throw9(w) ELSE Strings([Popped(w, 2) EXCEPT !.env = IF ok THEN FALSE ELSE @], 1, ok)
ficlFindfile(w, ok) == IF ~Checked(w, 4, 1) THEN Throw9(w) ELSE IF ok THEN [Leaves(w, 4, <<0>>) EXCEPT !.heap = @ + 2] ELSE Strings(Popped(w, 4), 2, FALSE)
ficlCopyin(w) == IF ~Checked(w, 3, 0) THEN Throw9(w) ELSE Popped(w, 3)
ficlCopyout(w) == IF ~Checked(w, 3, 0) THEN Throw9(w) ELSE Popped(w, 3)
ficlCcall(w) == IF ~Checked(w, 2, 0) THEN Throw9(w)
                ELSE LET n == Sgn(Arg(w, 2)) IN IF ~Checked(Popped(w, 2), n, 1) THEN Throw9(Popped(w, 2)) ELSE Leaves(Popped(w, 2), IF n > 0 THEN n ELSE 0, <<0>>)
pfopen(w, ok) == IF ~Checked(w, 3, 1) THEN Throw9(w)
                 ELSE IF Sgn(Arg(w, 2)) < 0 \/ Arg(w, 3) = 0 \/ ~ok THEN Leaves(w, 3, <<-1>>) ELSE [Leaves(w, 3, <<3>>) EXCEPT !.fds = @ \union {3}]
pfclose(w) == IF ~Checked(w, 1, 0) THEN Throw9(w) ELSE [Popped(w, 1) EXCEPT !.fds = @ \ {Arg(w, 1)}]
pfread(w, ok) == IF ~Checked(w, 3, 1) THEN Throw9(w)
                 ELSE IF Sgn(Arg(w, 1)) > 0 /\ Arg(w, 2) # 0 /\ Arg(w, 3) \in w.fds /\ ok THEN Leaves(SetText(w, Arg(w, 2), <<2>>), 3, <<1>>) ELSE Leaves(w, 3, <<-1>>)
pfwrite(w, ok) == Pops9(w, 3, <<IF Sgn(Arg(w, 1)) > 0 /\ Arg(w, 2) # 0 /\ Arg(w, 3) \in w.fds /\ ok THEN Arg(w, 1) ELSE -1>>)
pfseek(w, ok) == Pops9(w, 3, <<IF ok /\ Arg(w, 3) \in w.fds THEN Arg(w, 2) ELSE -1>>)
fkey(w, ok) == Pops9(w, 1, <<IF ok /\ Arg(w, 1) \in w.fds THEN 2 ELSE -1>>)
key(w) == Pops9(w, 0, <<2>>)
keyQuestion(w, ok) == Pops9(w, 0, <<Bool(ok)>>)
pseconds(w) == Pops9(w, 0, <<9>>)
ms(w) == IF ~Checked(w, 1, 0) THEN Throw9(w) ELSE Popped(w, 1)

-----------------------------------------------------------------------------
Unary == {"negate", "1+", "1-", "2*", "2/", "0>", "invert", "cells", "cell+", "char+", "aligned"}
Binary9 == {"*", "=", "<", "u<", ">", "and", "or", "xor", "lshift", "rshift", "max", "min"}
Memory == {"2@", "2!", "+!", "q@", "q!", "w@", "w!", "c@", "c!", "allot", "here", "c,", "align", "fill", "move", "compare", "compare-insensitive", "count", "2>r", "2r>", "2r@"}
Input == {"parse", "parse-word", "char", "(", "word", "accept", "source", "sliteral", ".", "u.", ".x", "emit", "type", "depth", "decimal", "hex", "2literal"}
Loader9 == {"setenv", "setenv?", "getenv", "unsetenv", "findfile", "copyin", "copyout", "ccall", "fopen", "fclose", "fread", "fwrite", "fseek", "fkey", "key", "key?", "seconds", "ms",
            "allocate", "free", "resize", "user", "get-order", "set-order", "get-current", "set-current", "forth-wordlist"}
WordNames == Unary \union Binary9 \union Memory \union Input \union Loader9
RunNumber(n, w) ==
    CASE n = "negate" -> negate(w) [] n = "1+" -> onePlus(w) [] n = "1-" -> oneMinus(w) [] n = "2*" -> twoMul(w) [] n = "2/" -> twoDiv(w) [] n = "0>" -> zeroGreater(w)
      [] n = "invert" -> bitwiseNot(w) [] n = "cells" -> cellsWord(w) [] n = "cell+" -> cellPlus(w) [] n = "char+" -> charPlus(w) [] n = "aligned" -> aligned(w)
      [] n = "*" -> mul(w) [] n = "=" -> isEqual(w) [] n = "<" -> isLess(w) [] n = "u<" -> uIsLess(w) [] n = ">" -> isGreater(w) [] n = "and" -> bitwiseAnd(w)
      [] n = "or" -> bitwiseOr(w) [] n = "xor" -> bitwiseXor(w) [] n = "lshift" -> lshift(w) [] n = "rshift" -> rshift(w) [] n = "max" -> ficlMax(w) [] n = "min" -> ficlMin(w)
RunMemory(n, w) ==
    CASE n = "2@" -> twoFetch(w) [] n = "2!" -> twoStore(w) [] n = "+!" -> plusStore(w) [] n = "q@" -> quadFetch(w) [] n = "q!" -> quadStore(w) [] n = "w@" -> wFetch(w)
      [] n = "w!" -> wStore(w) [] n = "c@" -> cFetch(w) [] n = "c!" -> cStore(w) [] n = "allot" -> allot(w) [] n = "here" -> hereWord(w) [] n = "c," -> cComma(w)
      [] n = "align" -> alignWord(w) [] n = "fill" -> fill(w) [] n = "move" -> move(w) [] n = "count" -> countWord(w)
      [] n = "compare" -> IF Checked(w, 4, 1) THEN compareString(w) ELSE Throw9(w) [] n = "compare-insensitive" -> IF Checked(w, 4, 1) THEN compareStringInsensitive(w) ELSE Throw9(w)
      [] n = "2>r" -> twoToR(w) [] n = "2r>" -> twoRFrom(w) [] n = "2r@" -> twoRFetch(w)
RunInput(n, w) ==
    CASE n = "parse" -> parseWord9(w) [] n = "parse-word" -> parseNoCopy(w) [] n = "char" -> ficlChar(w) [] n = "(" -> commentHang(w) [] n = "word" -> ficlWord(w)
      [] n = "accept" -> accept(w) [] n = "source" -> source(w) [] n = "sliteral" -> sLiteralCoIm(w) [] n = "." -> displayCell(w) [] n = "u." -> uDot(w) [] n = ".x" -> hexDot(w)
      [] n = "emit" -> emit(w) [] n = "type" -> typeWord(w) [] n = "depth" -> depthWord(w) [] n = "decimal" -> decimal(w) [] n = "hex" -> hex(w) [] n = "2literal" -> twoLiteralIm(w)
RunLoader(n, w, ok) ==
    CASE n = "setenv" -> ficlSetenv(w, ok) [] n = "setenv?" -> ficlSetenvq(w, ok) [] n = "getenv" -> ficlGetenv(w, ok) [] n = "unsetenv" -> ficlUnsetenv(w, ok)
      [] n = "findfile" -> ficlFindfile(w, ok) [] n = "copyin" -> ficlCopyin(w) [] n = "copyout" -> ficlCopyout(w) [] n = "ccall" -> ficlCcall(w) [] n = "fopen" -> pfopen(w, ok)
      [] n = "fclose" -> pfclose(w) [] n = "fread" -> pfread(w, ok) [] n = "fwrite" -> pfwrite(w, ok) [] n = "fseek" -> pfseek(w, ok) [] n = "fkey" -> fkey(w, ok)
      [] n = "key" -> key(w) [] n = "key?" -> keyQuestion(w, ok) [] n = "seconds" -> pseconds(w) [] n = "ms" -> ms(w) [] n = "allocate" -> ansAllocate(w, ok) [] n = "free" -> ansFree(w)
      [] n = "resize" -> ansResize(w, ok) [] n = "user" -> userVariable(w) [] n = "get-order" -> getOrder(w) [] n = "set-order" -> setOrder(w) [] n = "get-current" -> getCurrent(w)
      [] n = "set-current" -> setCurrent(w) [] n = "forth-wordlist" -> forthWordlist(w)
RunWord(n, w, ok) == CASE n \in Unary \union Binary9 -> RunNumber(n, w) [] n \in Memory -> RunMemory(n, w) [] n \in Input -> RunInput(n, w) [] n \in Loader9 -> RunLoader(n, w, ok)

\* A line: up to two words, then a compiled literal is run or the search order put back.
Stops == fw.thrown \/ fw.bad \/ fw.wild
NoLit == [at |-> 0, text |-> <<>>]
WordStep(n, ok) ==
    /\ ~Stops /\ fprev.n < 2
    /\ fw' = RunWord(n, fw, ok)
    /\ fprev' = [n |-> fprev.n + 1, word |-> n, ok |-> ok, was |-> fw]
    /\ lit' = IF n = "sliteral" /\ ~fw'.thrown THEN [at |-> fw.here + 2, text |-> Text(fw, Arg(fw, 2), Arg(fw, 1))]
              ELSE IF n \in {"allot", "2!", "+!", "q!", "w!", "c!", "fill", "move", "accept", "fread"} THEN NoLit ELSE lit
RunLiteral ==
    /\ ~Stops /\ lit # NoLit /\ fprev.n < 9
    /\ fw' = stringLit(fw, lit.at).w
    /\ fprev' = [n |-> 9, word |-> "(.\")", ok |-> stringLit(fw, lit.at).ip <= fw.here, was |-> fw]
    /\ UNCHANGED lit
PutBack == /\ ~Stops /\ fprev.word = "get-order" /\ fw' = setOrder(fw) /\ fprev' = [fprev EXCEPT !.n = 9, !.word = "put-back"] /\ UNCHANGED lit
WordsInit == fw \in Machines /\ fprev = [n |-> 0, word |-> "", ok |-> TRUE, was |-> fw] /\ lit = NoLit
WordsNext == RunLiteral \/ PutBack \/ \E n \in WordNames : \E ok \in IF n \in Loader9 THEN BOOLEAN ELSE {TRUE} : WordStep(n, ok)

-----------------------------------------------------------------------------
\* Words that take or leave cells without a check.
Unchecked == {"type", "2literal", "allocate", "free", "resize", "user", "get-order", "set-order", "get-current", "set-current", "forth-wordlist", "put-back"}
\* A word that checks never reads below a stack nor writes above it: what it checks is what it does.
StackBounds == fw.bad => fprev.word \in Unchecked \/ (fprev.word \in {"2r>", "2r@"} /\ Len(fprev.was.rstk) < 2)
\* MOVE copies as if by way of a buffer, however the two overlap.
MoveRight == fprev.word = "move" /\ ~Stops =>
    LET was == fprev.was IN
    fw.mem = [a \in DOMAIN was.mem |-> IF a - Arg(was, 2) \in 0 .. Arg(was, 1) - 1 THEN Byte(was, Arg(was, 3) + a - Arg(was, 2)) ELSE was.mem[a]]
\* COMPARE orders strings: equal ones and only those are 0, a proper beginning comes first.
CompareRight == fprev.word = "compare" /\ ~Stops =>
    LET s == Text(fprev.was, Arg(fprev.was, 4), Arg(fprev.was, 3))
        t == Text(fprev.was, Arg(fprev.was, 2), Arg(fprev.was, 1))
        Less9(x, y) == (IsStrictPrefix(x, y)) \/ \E i \in DOMAIN x \intersect DOMAIN y : x[i] < y[i] /\ SubSeq(x, 1, i - 1) = SubSeq(y, 1, i - 1)
    IN  Sgn(Arg(fw, 1)) = IF s = t THEN 0 ELSE IF Less9(s, t) THEN -1 ELSE 1
\* A compiled literal gives back the string, and the code behind it is not run into.
LiteralRight == fprev.word = "(.\")" /\ ~Stops /\ Len(lit.text) < WB => Text(fw, Arg(fw, 2), Arg(fw, 1)) = lit.text /\ fprev.ok
\* SET-ORDER undoes GET-ORDER.
OrderRight == fprev.word = "put-back" /\ ~Stops => fw.lists = fprev.was.lists
\* Nothing allocated is lost but by FINDFILE, and when memory runs out for the second string.
HeapKept == fprev.word \in WordNames \ {"allocate", "free", "findfile"} /\ fprev.ok => fw.heap = fprev.was.heap
\* ALLOT leaves HERE in the dictionary; beside it by less than a cell when HERE was not aligned.
DictBounds == fprev.word = "allot" /\ fprev.was.here <= MEMSIZE => fw.here \in DICT .. MEMSIZE + (fprev.was.here % 2)
\* ALLOT moves HERE by what was asked or throws: dictAllot, which takes less in silence
\* (dict.c:125-154), agrees with the check before it.
AllotWhole == fprev.word = "allot" /\ ~fw.thrown => fw.here = fprev.was.here + Sgn(Arg(fprev.was, 1))
\* WORD leaves the text in the pad and what lies behind the pad as it was; but one text of
\* nPAD - 2 characters and more, whose space and NUL go past it (words.c:3532-3539).
PadBounds == fprev.word = "word" /\ ~Stops =>
    LET n == fw.mem[0]
        p == vmParseStringEx(fprev.was, Arg(fprev.was, 1) % WB, TRUE)
    IN  /\ n = p.n => Text(fw, 1, n) = Text(fprev.was, p.a, n)
        /\ n <= TIB - 3 => \A a \in TIB .. MEMSIZE - 1 : fw.mem[a] = fprev.was.mem[a]
\* What the words promise together.
WordsSafe == StackBounds /\ MoveRight /\ CompareRight /\ LiteralRight /\ OrderRight /\ HeapKept /\ DictBounds /\ AllotWhole /\ PadBounds
=============================================================================
