------------------------------- MODULE QJSLimbs -------------------------------
(***************************************************************************)
(* libbf.c: arithmetic on arrays of limbs, least significant first. The    *)
(* operators return records: the array, and the carry, borrow or remainder *)
(* that the function returns.                                              *)
(***************************************************************************)
EXTENDS Integers, Sequences, SequencesExt, Folds, Bitwise

CONSTANTS
  LimbBits,       \* LIMB_BITS
  Udiv1Threshold, \* UDIV1NORM_THRESHOLD
  LargeThreshold, \* DIVNORM_LARGE_THRESHOLD
  TableBits       \* half the bits of the square roots in sqrt_table

Base == 2 ^ LimbBits
Wrap(v) == v % Base
Bits(v, from, n) == (v \div 2 ^ from) % 2 ^ n

\* a value that is computed once and named in what follows
With(v, In(_)) == In(v)

Indices(n) == [i \in 1..n |-> i]
Zeros(n) == [i \in 1..n |-> 0]
\* limbs from .. from + n - 1, counted from 0 as in the code
Window(x, from, n) == SubSeq(x, from + 1, from + n)
Put(x, from, y) == SubSeq(x, 1, from) \o y \o SubSeq(x, from + Len(y) + 1, Len(x))

\* the number an array stands for, and back
Value(x) == FoldRight(LAMBDA limb, v : limb + Base * v, x, 0)
Limbs(v, n) == [i \in 1..n |-> (v \div Base ^ (i - 1)) % Base]

\* from the lowest limb to the highest, with a carry
Ripple(n, carry, limb(_, _)) ==
  FoldLeft(LAMBDA s, i : LET r == limb(i, s.k) IN [tab |-> Append(s.tab, r[1]), k |-> r[2]],
           [tab |-> <<>>, k |-> carry], Indices(n))

One(condition) == IF condition THEN 1 ELSE 0

\* two limbs and a carry: the sum and the carry of either addition
AddLimb(v, w, k) ==
  LET a == Wrap(v + w)
      b == Wrap(a + k)
  IN  <<b, One(b < k \/ a < v)>>

MpAdd(x, y, carry) == Ripple(Len(x), carry, LAMBDA i, k : AddLimb(x[i], y[i], k))

MpAddUi(x, b) == Ripple(Len(x), b, LAMBDA i, k : LET a == Wrap(x[i] + k) IN <<a, One(a < k)>>)

MpSub(x, y, carry) ==
  Ripple(Len(x), carry, LAMBDA i, k : LET a == Wrap(x[i] - y[i])
                                          b == Wrap(a - k)
                                      IN  <<b, One(b > a \/ a > x[i])>>)

MpNeg(x, carry) == MpSub(Zeros(Len(x)), x, carry)
MpSubUi(x, b) == Ripple(Len(x), b, LAMBDA i, k : LET a == Wrap(x[i] - k) IN <<a, One(a > x[i])>>)

MpShr(x, shift, high) ==
  [tab |-> [i \in DOMAIN x |-> x[i] \div 2 ^ shift + Wrap((IF i = Len(x) THEN high ELSE x[i + 1]) * 2 ^ (LimbBits - shift))],
   k |-> x[1] % 2 ^ shift]

MpMul1(x, b, l) == Ripple(Len(x), l, LAMBDA i, k : LET t == x[i] * b + k IN <<t % Base, t \div Base>>)
MpAddMul1(r, x, b) == Ripple(Len(x), 0, LAMBDA i, k : LET t == x[i] * b + k + r[i] IN <<t % Base, t \div Base>>)
MpSubMul1(r, x, b) == Ripple(Len(x), 0, LAMBDA i, k : LET t == r[i] - x[i] * b - k IN <<t % Base, Wrap(-(t \div Base))>>)

\* mp_mul_basecase, which mp_mul is below the threshold of the transform
MpMul(x, y) ==
  LET first == MpMul1(x, y[1], 0)
      row(r, j) == LET s == MpAddMul1(Window(r, j, Len(x)), x, y[j + 1]) IN SubSeq(r, 1, j) \o Append(s.tab, s.k)
  IN  FoldLeft(row, Append(first.tab, first.k), Indices(Len(y) - 1))

-----------------------------------------------------------------------------
(* Division.                                                               *)

Udiv1normInit(d) == (Wrap(-d - 1) * Base + Base - 1) \div d

\* quotient and remainder of two limbs by one, with its inverse
Udiv1norm(a1, a0, d, inv) ==
  LET high == a0 \div 2 ^ (LimbBits - 1)
      estimate == (inv * Wrap(a1 + high) + Wrap(a0 + high * d)) % Base ^ 2
  IN  With(Wrap(estimate \div Base + a1), LAMBDA q :
      With((a1 * Base + a0 - q * d - d) % Base ^ 2, LAMBDA a :
        <<Wrap(q + 1 + a \div Base), Wrap(a + ((a \div Base) & d))>>))

\* one limb of a quotient
Quotient1(a1, a0, d, inverted) ==
  IF inverted THEN Udiv1norm(a1, a0, d, Udiv1normInit(d))
  ELSE <<(a1 * Base + a0) \div d, (a1 * Base + a0) % d>>

MpDiv1norm(x, b, r) ==
  LET step(limb, s) == With(Quotient1(s.k, limb, b, Len(x) >= Udiv1Threshold), LAMBDA q : [tab |-> <<q[1]>> \o s.tab, k |-> q[2]])
  IN  FoldRight(step, x, [tab |-> <<>>, k |-> r])

RECURSIVE Correct(_, _, _, _), MpDivnorm(_, _), MpRecip(_)

\* the quotient was too large: the divisor is added until the remainder is not
\* negative
Correct(w, y, high, q) ==
  With(MpAdd(w, y, 0), LAMBDA s :
    IF s.k = 1 /\ Wrap(high + s.k) = 0 THEN [tab |-> s.tab, q |-> q - 1, count |-> 1]
    ELSE [Correct(s.tab, y, Wrap(high + s.k), q - 1) EXCEPT !.count = @ + 1])

\* -1, 0 or 1, by the highest limb that differs
MpCmp(x, y) ==
  With({i \in DOMAIN x : x[i] # y[i]}, LAMBDA differing :
    IF differing = {} THEN 0
    ELSE With(CHOOSE i \in differing : \A j \in differing : j <= i, LAMBDA i : IF x[i] < y[i] THEN -1 ELSE 1))

\* one limb of the quotient of a by y: the highest one that is left, at i
DivStep(s, i, y) ==
  LET nb == Len(y)
      high == s.rem[i + nb + 1]
      estimate == IF high >= y[nb] THEN Base - 1 ELSE Quotient1(high, s.rem[i + nb], y[nb], s.inverted)[1]
      put(fixed, left) == [s EXCEPT !.rem = Put(@, i, Append(fixed.tab, left)), !.q = <<fixed.q>> \o @,
                                    !.count = IF fixed.count > @ THEN fixed.count ELSE @]
  IN  With(estimate, LAMBDA q :
      With(MpSubMul1(Window(s.rem, i, nb), y, q), LAMBDA r :
      With(Wrap(high - r.k), LAMBDA left :
        IF left > high THEN put(Correct(r.tab, y, left, q), 0) ELSE put([tab |-> r.tab, q |-> q, count |-> 0], left))))

MpDivnormBase(x, y) ==
  LET n == Len(x) - Len(y)
      top == Window(x, n, Len(y))
      start(q) == [rem |-> IF q = 1 THEN Put(x, n, MpSub(top, y, 0).tab) ELSE x, q |-> <<q>>, count |-> 0,
                   inverted |-> n >= Udiv1Threshold]
  IN  With(FoldRight(LAMBDA i, s : DivStep(s, i - 1, y), Indices(n), start(One(MpCmp(top, y) >= 0))), LAMBDA end :
        [end EXCEPT !.rem = Window(@, 0, Len(y))])

Truncated(y, n) == Window(y, Len(y) - n, n)

\* Fault: the divisor cut off is not incremented
ApproximateInverse0(y, n) == MpRecip(IF n >= Len(y) THEN Zeros(n - Len(y)) \o y ELSE Truncated(y, n))

\* the inverse the quotient is multiplied with: of the divisor filled up with
\* zeros, or cut off and incremented
ApproximateInverse(y, n) ==
  With(MpAddUi(Truncated(y, IF n < Len(y) THEN n ELSE Len(y)), 1), LAMBDA cut :
    IF n < Len(y) /\ cut.k = 1 THEN Append(Zeros(n), 1)
    ELSE MpRecip(IF n >= Len(y) THEN Zeros(n - Len(y)) \o y ELSE cut.tab))

RECURSIVE Increase(_, _, _, _)
\* the quotient was too small: it is incremented until the remainder is less
\* than the divisor
Increase(rem, y, q, count) ==
  LET nb == Len(y)
      s == MpSub(Window(rem, 0, nb), y, 0)
  IN  IF rem[nb + 1] = 0 /\ MpCmp(Window(rem, 0, nb), y) < 0 THEN [q |-> q, rem |-> Window(rem, 0, nb), count |-> count]
      ELSE Increase(Append(s.tab, Wrap(rem[nb + 1] - s.k)), y, MpAddUi(q, 1).tab, count + 1)

MpDivnormLarge(x, y) ==
  LET na == Len(x)
      nb == Len(y)
      nq == na - nb
      n == IF nq < nb THEN nq + 1 ELSE nq
  IN  With(Window(MpMul(ApproximateInverse(y, n), Window(x, na - (n + 1), n + 1)), 2 * (n + 1) - (nq + 1), nq + 1), LAMBDA q :
        Increase(MpSub(Window(x, 0, nb + 1), Window(MpMul(q, y), 0, nb + 1), 0).tab, y, q, 0))

MpDivnorm(x, y) ==
  LET n == Len(x) - Len(y)
  IN  IF Len(y) = 1 THEN With(MpDiv1norm(x, y[1], 0), LAMBDA d : [q |-> d.tab, rem |-> <<d.k>>, count |-> 0])
      ELSE IF (IF n < Len(y) THEN n ELSE Len(y)) >= LargeThreshold THEN MpDivnormLarge(x, y)
      ELSE MpDivnormBase(x, y)

RECURSIVE Lower(_, _, _, _)
\* the inverse of the high limbs was too large: it is decremented
Lower(t, xh, x, h) ==
  LET n == Len(x)
      s == MpSub(Window(t, 0, n), x, 0)
  IN  IF t[n + h + 1] = 0 THEN [t |-> t, xh |-> xh]
      ELSE Lower(s.tab \o MpSubUi(Window(t, n, h + 1), s.k).tab, MpSubUi(xh, 1).tab, x, h)

MpRecipSmall(x) ==
  LET n == Len(x)
  IN  With(MpDivnorm(Append(Zeros(2 * n), 1), x), LAMBDA d :
        IF \A i \in 1..n : d.rem[i] = 0 THEN MpSubUi(Window(d.q, 0, n + 1), 1).tab ELSE Window(d.q, 0, n + 1))

\* the inverse of the high limbs is made longer by one step of Newton's method
MpRecip(x) ==
  LET n == Len(x)
      l == (n - 1) \div 2
      h == n - l
  IN  IF n <= 2 THEN MpRecipSmall(x)
      ELSE With(MpRecip(Window(x, l, h)), LAMBDA start :
           With(Lower(MpMul(x, start), start, x, h), LAMBDA lowered :
           With([MpNeg(lowered.t, 0).tab EXCEPT ![n + h + 1] = Wrap(@ + 1)], LAMBDA t :
           With(MpMul(Window(t, l, n + h + 1 - l), lowered.xh), LAMBDA u :
             Window(u, 2 * h - l, l) \o Append(MpAdd(Window(lowered.xh, 0, h), Window(u, 2 * h, h), 0).tab, lowered.xh[h + 1])))))

-----------------------------------------------------------------------------
(* Square roots.                                                           *)

\* sqrt_table: the roots of numbers whose lower half is zero
Isqrt(v) == CHOOSE s \in 0..v : s * s <= v /\ (s + 1) * (s + 1) > v
SqrtTable == [i \in 2 ^ (TableBits - 2)..2 ^ TableBits - 1 |-> Isqrt(i * 2 ^ TableBits)]

\* the root and remainder of twice as many bits
SqrtDouble(s, half, a) ==
  LET num == s[2] * 2 ^ half + Bits(a, LimbBits - 3 * half, half)
  IN  With(num \div (2 * s[1]), LAMBDA q :
      With((num % (2 * s[1])) * 2 ^ half + Bits(a, LimbBits - 4 * half, half) - q * q, LAMBDA r :
      With(s[1] * 2 ^ half + q, LAMBDA root : IF r < 0 THEN <<root - 1, r + 2 * root - 1>> ELSE <<root, r>>)))

RECURSIVE SqrtFrom(_, _, _)
SqrtFrom(s, half, a) == IF 2 * half = LimbBits THEN s ELSE SqrtFrom(SqrtDouble(s, half, a), 2 * half, a)

MpSqrtrem1(a) ==
  With(SqrtTable[a \div 2 ^ (LimbBits - TableBits)], LAMBDA s :
  With(a \div 2 ^ (LimbBits - 2 * TableBits) - s * s, LAMBDA r :
    SqrtFrom(IF r > 2 * s THEN <<s + 1, r - 2 * s - 1>> ELSE <<s, r>>, TableBits, a)))

Squared(q) == IF q >= 2 ^ (LimbBits \div 2) THEN Base ELSE q * q

\* of two limbs: the root, the low limb of the remainder and its high bit
MpSqrtrem2(a1, a0) ==
  LET half == LimbBits \div 2
      is(root, rem) == [s |-> <<Wrap(root)>>, rem |-> <<Wrap(rem)>>, k |-> rem \div Base]
  IN  With(MpSqrtrem1(a1), LAMBDA s1 :
      With(s1[2] * 2 ^ half + a0 \div 2 ^ half, LAMBDA num :
      With(num \div (2 * s1[1]), LAMBDA q :
      With(s1[1] * 2 ^ half + q, LAMBDA s :
      With((num % (2 * s1[1])) * 2 ^ half + (a0 % 2 ^ half) - Squared(q), LAMBDA r :
        IF r < 0 THEN is(s - 1, r + 2 * (s - 1) + 1) ELSE is(s, r))))))

\* a remainder below zero: the root is one less
SqrtLess(s, r, rh) ==
  With(MpSubUi(s, 1).tab, LAMBDA less :
  With(MpAddMul1(r, less, 2), LAMBDA back :
  With(MpAddUi(back.tab, 1), LAMBDA more : [s |-> less, rem |-> more.tab, k |-> rh + back.k + more.k])))

\* the square of the lower half of the root, whose high limb is qh, is taken from
\* the rest
SqrtSubtract(s, qh, rest, carry) ==
  LET l == Len(s) \div 2
      n == Len(s)
      low == SubSeq(s, 1, l)
      squared == IF qh = 1 THEN [tab |-> Window(rest, 0, 2 * l), k |-> 1]
                 ELSE MpSub(Window(rest, 0, 2 * l), MpMul(low, low), 0)
  IN  With(squared, LAMBDA d :
      With(MpSubUi(Window(rest, 2 * l, n - 2 * l), d.k), LAMBDA high :
        IF carry < high.k THEN SqrtLess(s, d.tab \o high.tab, carry - high.k)
        ELSE [s |-> s, rem |-> d.tab \o high.tab, k |-> carry - high.k]))

RECURSIVE MpSqrtrem(_)

\* mp_sqrtrem_rec, of 2 * n limbs: the root of the upper half is divided into
\* the rest
MpSqrtrem(x) ==
  LET n == Len(x) \div 2
      l == n \div 2
      h == n - l
  IN  IF n = 1 THEN MpSqrtrem2(x[2], x[1])
      ELSE With(MpSqrtrem(Window(x, 2 * l, 2 * h)), LAMBDA upper :
           With(IF upper.k = 1 THEN MpSub(upper.rem, upper.s, 0).tab ELSE upper.rem, LAMBDA r1 :
           With(MpDivnorm(Window(x, l, l) \o r1, upper.s), LAMBDA d :
           With(upper.k + d.q[l + 1], LAMBDA qh :
           With(MpShr(Window(d.q, 0, l), 1, qh % 2), LAMBDA half :
           With(IF half.k = 1 THEN MpAdd(d.rem, upper.s, 0) ELSE [tab |-> d.rem, k |-> 0], LAMBDA u :
             SqrtSubtract(half.tab \o MpAddUi(upper.s, qh \div 2).tab, qh \div 2, Window(x, 0, l) \o u.tab, u.k)))))))
=============================================================================
