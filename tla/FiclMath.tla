------------------------------ MODULE FiclMath ------------------------------
(***************************************************************************)
(* Numbers of the Forth interpreter: boot/ficl/math64.c, the native double   *)
(* cell arithmetic of boot/ficl/i386/sysdep.c, ltoa() and ultoa() of vm.c,   *)
(* and the words of words.c that divide, print and read numbers.             *)
(*                                                                         *)
(* A cell has BITS bits; a double cell is [hi, lo].  Characters are the      *)
(* values of digits, and Minus.  A number is printed digit by digit into the   *)
(* pad and read back.                                                       *)
(***************************************************************************)
EXTENDS Integers, Sequences, SequencesExt

CONSTANTS BITS,         \* BITS_PER_CELL
          Bases         \* values of BASE
ASSUME BitsEven == BITS \in Nat /\ BITS % 2 = 0

VARIABLES number,       \* the double cell given to <#
          divisor,      \* and a cell
          base,         \* BASE
          ud,           \* what is left of the number, on the stack
          pad,          \* digits so far, the last one first; then the string
          count,        \* digits of the string
          stage
mathvars == <<number, divisor, base, ud, pad, count, stage>>

Cells == 0 .. 2 ^ BITS - 1
HiBit == 2 ^ (BITS - 1)
Cell(i) == i % 2 ^ BITS
Signed(x) == IF x >= HiBit THEN x - 2 ^ BITS ELSE x
Wide(d) == d.hi * 2 ^ BITS + d.lo
Double(v) == [hi |-> Cell(v \div 2 ^ BITS), lo |-> Cell(v)]
IntWide(d) == Signed(d.hi) * 2 ^ BITS + d.lo
Not(x) == 2 ^ BITS - 1 - x

-----------------------------------------------------------------------------
(* sysdep.c, and the same without a wider type (PORTABLE_LONGMULDIV). *)

ficlLongMul(x, y) == Double(x * y)
ficlLongDiv(q, y) == [quot |-> Cell(Wide(q) \div y), rem |-> Wide(q) % y]

m64Add(x, y) ==
    LET lo == Cell(x.lo + y.lo)
        carry == \/ (x.lo >= HiBit \/ y.lo >= HiBit) /\ lo < HiBit
                 \/ x.lo >= HiBit /\ y.lo >= HiBit IN
    [hi |-> Cell(x.hi + y.hi + (IF carry THEN 1 ELSE 0)), lo |-> lo]
m64Sub(x, y) == [hi |-> Cell(x.hi - y.hi - (IF x.lo < y.lo THEN 1 ELSE 0)), lo |-> Cell(x.lo - y.lo)]
m64ASL(x) == [hi |-> Cell(2 * x.hi + (IF x.lo >= HiBit THEN 1 ELSE 0)), lo |-> Cell(2 * x.lo)]
m64ASR(x) == [hi |-> x.hi \div 2, lo |-> x.lo \div 2 + (IF x.hi % 2 = 1 THEN HiBit ELSE 0)]
\* The bits of x and y are never set in both here.
m64Or(x, y) == [hi |-> x.hi + y.hi, lo |-> x.lo + y.lo]
m64Less(x, y) == x.hi < y.hi \/ (x.hi = y.hi /\ x.lo < y.lo)       \* m64Compare(x, y) < 0
Zero == [hi |-> 0, lo |-> 0]

PortableLongMul(x, y) ==
    LET mul[n \in 0 .. BITS] ==
            IF n = 0 THEN [result |-> Zero, addend |-> [hi |-> 0, lo |-> y]]
            ELSE LET m == mul[n - 1] IN
                 [result |-> IF (x \div 2 ^ (n - 1)) % 2 = 1 THEN m64Add(m.result, m.addend) ELSE m.result,
                  addend |-> m64ASL(m.addend)] IN
    mul[BITS].result
\* The divisor is shifted up to the dividend and back, one bit of the quotient a step.
PortableLongDiv(q, y) ==
    LET up[n \in 0 .. 2 * BITS] ==
            IF n = 0 THEN [mask |-> [hi |-> 0, lo |-> 1], sub |-> [hi |-> 0, lo |-> y]]
            ELSE LET u == up[n - 1] IN
                 IF m64Less(u.sub, q) /\ u.sub.hi < HiBit THEN [mask |-> m64ASL(u.mask), sub |-> m64ASL(u.sub)] ELSE u
        down[n \in 0 .. 2 * BITS] ==
            IF n = 0 THEN [q |-> q, quotient |-> Zero, mask |-> up[2 * BITS].mask, sub |-> up[2 * BITS].sub]
            ELSE LET d == down[n - 1] IN
                 IF d.mask = Zero THEN d
                 ELSE LET fits == ~m64Less(d.q, d.sub) IN
                      [q |-> IF fits THEN m64Sub(d.q, d.sub) ELSE d.q,
                       quotient |-> IF fits THEN m64Or(d.quotient, d.mask) ELSE d.quotient,
                       mask |-> m64ASR(d.mask), sub |-> m64ASR(d.sub)] IN
    [quot |-> down[2 * BITS].quotient.lo, rem |-> down[2 * BITS].q.lo]

-----------------------------------------------------------------------------
(* math64.c on signed double cells. *)

m64IsNegative(x) == Signed(x.hi) < 0
m64Negate(x) ==
    LET lo == Cell(Not(x.lo) + 1) IN [hi |-> Cell(Not(x.hi) + (IF lo = 0 THEN 1 ELSE 0)), lo |-> lo]
m64Abs(x) == IF m64IsNegative(x) THEN m64Negate(x) ELSE x
AbsCell(n) == IF Signed(n) < 0 THEN Cell(-Signed(n)) ELSE n
i64Extend(lo) == [hi |-> IF Signed(lo) < 0 THEN 2 ^ BITS - 1 ELSE 0, lo |-> lo]
m64MulI(x, y) ==
    LET prod == ficlLongMul(AbsCell(x), AbsCell(y)) IN
    IF (Signed(x) < 0) = (Signed(y) < 0) THEN prod ELSE m64Negate(prod)
\* Mutant of m64FlooredDivI: the quotient is truncated.
m64TruncatedDivI(num, den) ==
    LET u == ficlLongDiv(m64Abs(num), AbsCell(den))
        opposite == m64IsNegative(num) # (Signed(den) < 0) IN
    [quot |-> IF opposite THEN Cell(-u.quot) ELSE u.quot, rem |-> IF Signed(den) < 0 THEN Cell(-u.rem) ELSE u.rem]
m64FlooredDivI(num, den) ==
    LET u == ficlLongDiv(m64Abs(num), AbsCell(den))
        opposite == m64IsNegative(num) # (Signed(den) < 0)
        down == opposite /\ u.rem # 0
        rem == IF down THEN AbsCell(den) - u.rem ELSE u.rem IN
    [quot |-> Cell((IF opposite THEN -u.quot ELSE u.quot) - (IF down THEN 1 ELSE 0)),
     rem |-> Cell(IF Signed(den) < 0 THEN -rem ELSE rem)]
m64SymmetricDivI(num, den) ==
    LET u == ficlLongDiv(m64Abs(num), AbsCell(den)) IN
    [quot |-> Cell(IF m64IsNegative(num) # (Signed(den) < 0) THEN -u.quot ELSE u.quot),
     rem |-> Cell(IF m64IsNegative(num) THEN -u.rem ELSE u.rem)]
slashMod(n1, n2) == m64SymmetricDivI(i64Extend(n1), n2)
mulDivRem(x, y, z) == m64SymmetricDivI(m64MulI(x, y), z)
m64Mac(u, mul, add) ==
    LET resultLo == ficlLongMul(u.lo, mul)
        lo == Cell(resultLo.lo + add) IN
    [hi |-> Cell(resultLo.hi + ficlLongMul(u.hi, mul).lo + (IF lo < resultLo.lo THEN 1 ELSE 0)), lo |-> lo]
\* Mutant of m64UMod: the remainder of the upper cell is forgotten.
m64UModCells(u, b) == [ud |-> [hi |-> u.hi \div b, lo |-> u.lo \div b], rem |-> u.lo % b]
\* Long division by a small base, half a cell at a time.
m64UMod(u, b) ==
    LET half == 2 ^ (BITS \div 2)
        q1 == ficlLongDiv([hi |-> 0, lo |-> u.hi \div half], b)
        q2 == ficlLongDiv([hi |-> 0, lo |-> Cell(q1.rem * half) + (u.hi % half)], b)
        q3 == ficlLongDiv([hi |-> 0, lo |-> Cell(q2.rem * half) + u.lo \div half], b)
        q4 == ficlLongDiv([hi |-> 0, lo |-> Cell(q3.rem * half) + (u.lo % half)], b) IN
    [ud |-> [hi |-> Cell(q1.quot * half) + (q2.quot % half), lo |-> Cell(q3.quot * half) + (q4.quot % half)], rem |-> q4.rem]

-----------------------------------------------------------------------------
(* The words, on a stack with its top last and the upper cell of a double above *)
(* the lower.                                                                 *)

Below(s, n) == SubSeq(s, 1, Len(s) - n)
TopCell(s, n) == s[Len(s) - n]
i64Pop(s) == [hi |-> TopCell(s, 0), lo |-> TopCell(s, 1)]
i64Push(s, d) == s \o <<d.lo, d.hi>>
fmSlashMod(s) == LET qr == m64FlooredDivI(i64Pop(Below(s, 1)), TopCell(s, 0)) IN Below(s, 3) \o <<qr.rem, qr.quot>>
smSlashRem(s) == LET qr == m64SymmetricDivI(i64Pop(Below(s, 1)), TopCell(s, 0)) IN Below(s, 3) \o <<qr.rem, qr.quot>>
umSlashMod(s) == LET qr == ficlLongDiv(i64Pop(Below(s, 1)), TopCell(s, 0)) IN Below(s, 3) \o <<qr.rem, qr.quot>>
ficlMod(s) == Append(Below(s, 2), m64SymmetricDivI(i64Extend(TopCell(s, 1)), TopCell(s, 0)).rem)
\* C's division, towards zero.
Truncate(a, b) == IF (a < 0) = (b < 0) THEN (IF a < 0 THEN -a ELSE a) \div (IF b < 0 THEN -b ELSE b) ELSE -((IF a < 0 THEN -a ELSE a) \div (IF b < 0 THEN -b ELSE b))
ficlDiv(s) == Append(Below(s, 2), Cell(Truncate(Signed(TopCell(s, 1)), Signed(TopCell(s, 0)))))
mStar(s) == i64Push(Below(s, 2), m64MulI(TopCell(s, 1), TopCell(s, 0)))
umStar(s) == i64Push(Below(s, 2), ficlLongMul(TopCell(s, 1), TopCell(s, 0)))
dnegate(s) == i64Push(Below(s, 2), m64Negate(i64Pop(s)))
sToD(s) == s \o <<IF Signed(TopCell(s, 0)) < 0 THEN 2 ^ BITS - 1 ELSE 0>>

-----------------------------------------------------------------------------
(* Printing and reading one cell. *)

Minus == -1
NotANumber == -1       \* ficlParseNumber returns FALSE
isPowerOfTwo(u) == IF \E i \in 1 .. BITS - 1 : u = 2 ^ i THEN CHOOSE i \in 1 .. BITS - 1 : u = 2 ^ i ELSE 0
\* The digits of an unsigned cell, the first one first.
Digits(v, radix) ==
    LET rest[n \in 0 .. BITS] ==
            IF n = 0 THEN [v |-> v, text |-> <<>>]
            ELSE LET r == rest[n - 1]
                     qr == ficlLongDiv([hi |-> 0, lo |-> r.v], radix) IN
                 IF r.v = 0 THEN r ELSE [v |-> qr.quot, text |-> <<qr.rem>> \o r.text] IN
    rest[BITS].text
\* By shifting, for a power of two.
Shifted(v, pwr) == [i \in 1 .. Len(Digits(v, 2 ^ pwr)) |-> (v \div 2 ^ (pwr * (Len(Digits(v, 2 ^ pwr)) - i))) % 2 ^ pwr]
ultoa(v, radix) == IF v = 0 THEN <<0>> ELSE Digits(v, radix)
ltoa(v, radix) ==
    LET sign == radix = 10 /\ Signed(v) < 0
        abs == IF sign THEN Cell(-Signed(v)) ELSE v
        pwr == isPowerOfTwo(radix) IN
    (IF sign THEN <<Minus>> ELSE <<>>)
        \o (IF abs = 0 THEN <<0>> ELSE IF pwr # 0 THEN Shifted(abs, pwr) ELSE Digits(abs, radix))
ParseNumber(text, radix) ==
    LET neg == Len(text) > 1 /\ text[1] = Minus
        digits == IF neg THEN Tail(text) ELSE text
        accum[n \in 0 .. Len(digits)] == IF n = 0 THEN 0 ELSE Cell(accum[n - 1] * radix + digits[n]) IN
    IF \E i \in DOMAIN digits : digits[i] \notin 0 .. radix - 1 THEN NotANumber
    ELSE Cell(IF neg THEN -accum[Len(digits)] ELSE accum[Len(digits)])

-----------------------------------------------------------------------------
(* Pictured output and >NUMBER. *)

HalfBase == base <= 2 ^ (BITS \div 2)      \* a base is far below half a cell
lessNumberSign == /\ stage = "given" /\ HalfBase /\ pad' = <<>> /\ ud' = number /\ stage' = "picture"
                  /\ UNCHANGED <<number, divisor, base, count>>
numberSign == /\ stage = "picture" /\ Len(pad) < 2 * BITS + 1
              /\ ud' = m64UMod(ud, base).ud /\ pad' = Append(pad, m64UMod(ud, base).rem)
              /\ UNCHANGED <<number, divisor, base, count, stage>>
numberSignS == /\ stage = "picture" /\ Len(pad) = 0
               /\ LET rest[n \in 0 .. 2 * BITS] ==
                          LET r == rest[n - 1]
                              qr == m64UMod(r.ud, base) IN
                          IF n = 0 THEN [ud |-> ud, text |-> pad]
                          ELSE IF n > 1 /\ Wide(r.ud) = 0 THEN r ELSE [ud |-> qr.ud, text |-> Append(r.text, qr.rem)] IN
                  ud' = rest[2 * BITS].ud /\ pad' = rest[2 * BITS].text
               /\ UNCHANGED <<number, divisor, base, count, stage>>
numberSignGreater == /\ stage = "picture"
                     /\ pad' = Reverse(pad) /\ count' = Len(pad) /\ ud' = Zero /\ stage' = "string"
                     /\ UNCHANGED <<number, divisor, base>>
\* One digit of >NUMBER.
toNumber == /\ stage = "string" /\ pad # <<>>
            /\ ud' = m64Mac(ud, base, Head(pad)) /\ pad' = Tail(pad)
            /\ UNCHANGED <<number, divisor, base, count, stage>>

MathInit == /\ number \in [hi : Cells, lo : Cells] /\ divisor \in Cells \ {0} /\ base \in Bases
            /\ ud = Zero /\ pad = <<>> /\ count = 0 /\ stage = "given"
MathNext == lessNumberSign \/ numberSign \/ numberSignS \/ numberSignGreater \/ toNumber
MathSpec == MathInit /\ [][MathNext]_mathvars

-----------------------------------------------------------------------------
Abs(i) == IF i < 0 THEN -i ELSE i
Fits(i) == -HiBit <= i /\ i < HiBit
Sign(i) == IF i < 0 THEN -1 ELSE IF i = 0 THEN 0 ELSE 1
\* Division of a signed double cell by a cell, where the quotient fits: dividend =
\* quotient * divisor + remainder, the remainder smaller than the divisor and with the
\* sign of the divisor (floored) or of the dividend (symmetric).
Divides(qr, num, den, sign) ==
    LET r == Signed(qr.rem) IN
    /\ num = Signed(qr.quot) * den + r
    /\ Abs(r) < Abs(den) /\ Sign(r) \in {0, sign}
DivisionRight ==
    LET n == IntWide(number)
        d == Signed(divisor) IN
    Fits(n \div Abs(d)) /\ Fits(-(n \div Abs(d))) /\ Fits(1 + n \div Abs(d)) /\ n # -(2 ^ (2 * BITS - 1)) =>
        /\ Divides(m64FlooredDivI(number, divisor), n, d, Sign(d))
        /\ Divides(m64SymmetricDivI(number, divisor), n, d, Sign(n))
\* Multiplication is exact, and the portable arithmetic agrees with the native one.
ProductRight ==
    /\ IntWide(m64MulI(number.lo, divisor)) = Signed(number.lo) * Signed(divisor)
    /\ PortableLongMul(number.lo, divisor) = ficlLongMul(number.lo, divisor)
    /\ PortableLongDiv(number, divisor) = ficlLongDiv(number, divisor)
\* What one word multiplies another divides; / and MOD belong together; a single made
\* double is itself; negated twice too.
WordsAgree ==
    LET n == number.lo
        d == divisor IN
    /\ smSlashRem(Append(mStar(<<n, d>>), d)) = <<0, n>> /\ fmSlashMod(Append(mStar(<<n, d>>), d)) = <<0, n>>
    /\ umSlashMod(Append(umStar(<<n, d>>), d)) = <<0, n>>
    /\ Cell((Signed(ficlDiv(<<n, d>>)[1]) * Signed(d)) + Signed(ficlMod(<<n, d>>)[1])) = n
    /\ smSlashRem(Append(sToD(<<n>>), d)) = <<ficlMod(<<n, d>>)[1], ficlDiv(<<n, d>>)[1]>>
    /\ dnegate(dnegate(<<n, d>>)) = <<n, d>>
\* A cell printed in any base is read back as the same cell.
ReadsBack ==
    \A text \in {ltoa(number.lo, base), ultoa(number.lo, base)} :
        base < 2 ^ BITS => ParseNumber(text, base) = number.lo
\* While a double cell is printed, the digits in the pad and what is left make up
\* the number; when it is read back, what was read and the digits left do (of a number
\* that was cut short, its last digits).
Value(digits) == FoldLeft(LAMBDA acc, d : acc * base + d, 0, digits)
PictureExact ==
    /\ stage = "picture" => Wide(number) = Wide(ud) * base ^ Len(pad) + Value(Reverse(pad))
    /\ stage = "string" => Wide(number) % base ^ count = Wide(ud) * base ^ Len(pad) + Value(pad)

\* Division, multiplication, printing and reading of numbers are exact.
MathSafe == (stage = "given" => DivisionRight /\ ProductRight /\ WordsAgree /\ ReadsBack) /\ PictureExact
=============================================================================
