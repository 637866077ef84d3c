------------------------------- MODULE MCRoots -------------------------------
(* Calls of the square roots of QJSLimbs and QJSBigFloat, and of the        *)
(* division they rest on, beside what they compute. Limbs have eight bits,  *)
(* for the root of a limb to be computed from the table in two steps.       *)
EXTENDS QJSBigFloat

VARIABLES fn, a, b, prec, flags, out

vars == <<fn, a, b, prec, flags, out>>

Modes == {"RNDN", "RNDZ", "RNDD", "RNDU", "RNDNA", "RNDA"}
RootArgs ==
  Finite({0}, {0, 1}, Mantissas(1)) \cup Finite({0}, {2}, {<<1, 128>>, <<255, 255>>, <<9, 200>>})
    \cup Specials \cup {Bf(1, 0, <<129>>)}
Squares == {SetUi(v) : v \in 0..255} \cup {SetUi(v * v + d) : v \in 16..40, d \in {-1, 0, 1}}
Integral(x) == Special(x) \/ (x.expn > 0 /\ x.expn >= Size(x) - (IF Head(x.tab) % 2 = 0 THEN 1 ELSE 0))

\* arrays of n limbs with a high limb that is at least `least`
Digits == {0, 1, 128, 255}
Arrays(n, least) == {Append(low, high) : low \in [1..n - 1 -> Digits], high \in {least, least + 1, 100, 128, 200, 255} \ 0..least - 1}
Pairs == {<<low, high>> : low \in {0, 1, 17, 128, 254, 255}, high \in 64..255}

Call(f, x, y, p, fl, result) == fn' = f /\ a' = x /\ b' = y /\ prec' = p /\ flags' = fl /\ out' = result

CallSqrt == \E x \in RootArgs, p \in {2, 5, 9}, r \in Modes :
              LET fl == Flags(r, 7, "plain") IN (p = 9 => Size(x) = 8) /\ Call("sqrt", x, <<>>, p, fl, Sqrt(x, p, fl))
CallSqrtRem == \E x \in {y \in Squares : Integral(y)} : Call("sqrtrem", x, <<>>, 0, Exact, SqrtRem(x))
CallMpSqrt == \E x \in Pairs \cup Arrays(4, 64) \cup {w \in Arrays(6, 64) : w[1] = w[2]} : Call("mp_sqrt", x, <<>>, 0, Exact, MpSqrtrem(x))
CallMpDiv == \E n \in 2..3 : \E m \in 1..n - 1 : \E x \in Arrays(n, 0), y \in Arrays(m, 128) : Call("mp_div", x, y, 0, Exact, MpDivnorm(x, y))

Init == fn = "none" /\ a = <<>> /\ b = <<>> /\ prec = 0 /\ flags = Exact /\ out = 0
Next == fn = "none" /\ (CallSqrt \/ CallSqrtRem \/ CallMpSqrt \/ CallMpDiv)

Spec == Init /\ [][Next]_vars

-----------------------------------------------------------------------------
(* Properties.                                                             *)

\* A root is the exact one, correctly rounded, and that of a negative number is
\* invalid (bf_sqrt).
RootRounded ==
  /\ (fn = "sqrt" /\ a.sign = 1 /\ a.expn # ExpZero) => out = Result(Nan, {"invalid"})
  /\ (fn = "sqrt" /\ ~Special(a) /\ a.sign = 0) =>
       LET e == Exponent(Num(a), Den(a))
           q == (e + 1) \div 2 - prec
           n == IF q < 0 THEN Num(a) * Pow(-2 * q) ELSE Num(a)
           d == IF q > 0 THEN Den(a) * Pow(2 * q) ELSE Den(a)
           low == CHOOSE s \in 0..Pow(prec + 1) : s * s * d <= n /\ (s + 1) * (s + 1) * d > n
           exact == low * low * d = n
           half == (2 * low + 1) * (2 * low + 1) * d - 4 * n
           u == [low |-> low, whole |-> 4, rest |-> IF exact THEN 0 ELSE IF half > 0 THEN 1 ELSE IF half = 0 THEN 2 ELSE 3]
       IN  \E m \in Roundings(u, 0, flags.rnd) :
             Is(Num(out.bf), Den(out.bf), m, q) /\ (out.st = IF exact THEN {} ELSE {"inexact"})

\* The root of an integer is the largest whose square is not above it, and the
\* remainder is what is left (bf_sqrtrem).
RootRemainder ==
  (fn = "sqrtrem" /\ ~Special(a) /\ a.sign = 0) =>
    LET s == IntOf(out.r)
        rem == IntOf(out.rem)
    IN  Whole(out.r) /\ s * s + rem = IntOf(a) /\ rem \in 0..2 * s /\ ((out.st = {}) <=> (rem = 0))

\* A root of limbs is the largest whose square is not above the number, and the
\* remainder, which may need a bit more than the root has, is what is left
\* (mp_sqrtrem). Sums and products are those of QJSLimbs.
RootExact ==
  fn = "mp_sqrt" =>
    LET n == Len(out.s)
        rem == Append(out.rem, out.k)
        double == MpMul1(out.s, 2, 0)
    IN  /\ MpAdd(MpMul(out.s, out.s), IF n = 1 THEN rem ELSE rem \o Zeros(n - 1), 0) = [tab |-> a, k |-> 0]
        /\ MpCmp(rem, Append(double.tab, double.k)) <= 0

\* Division returns the quotient and the remainder, with limbs so wide that a
\* quotient is estimated too large (mp_divnorm).
WideDivisionExact ==
  fn = "mp_div" => Value(a) = Value(out.q) * Value(b) + Value(out.rem) /\ Value(out.rem) < Value(b)

\* Roots, and divisions on the way to them, are exact or rounded as asked.
RootsExact == RootRounded /\ RootRemainder /\ RootExact /\ WideDivisionExact
=============================================================================
