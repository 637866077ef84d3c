------------------------------ MODULE MCNumbers ------------------------------
(* Calls of the functions of libbf beside what they compute, each family of *)
(* calls by itself: `on` says which. Limbs have two bits, so that small     *)
(* numbers have many. Square roots, which need wider ones, are in MCRoots.  *)
EXTENDS QJSBigFloat

VARIABLES on, fn, a, b, prec, flags, out

vars == <<on, fn, a, b, prec, flags, out>>

-----------------------------------------------------------------------------
(* The families of calls.                                                  *)

Odd == {<<3>>, <<2>>, <<1, 2>>, <<3, 3>>, <<3, 0, 2>>, <<1, 2, 3>>, <<1, 0, 0, 2>>}
Wide == Finite({0, 1}, -4..5, Mantissas(1) \cup Mantissas(2) \cup Mantissas(3)) \cup Specials
Longs == Finite({0}, {0, 1}, Mantissas(1) \cup Mantissas(2) \cup Odd) \cup Finite({1}, {1}, Odd) \cup {Zero(0), Infinity(1), Nan}
Spread == Finite({0, 1}, -5..1, Odd) \cup Specials
Positive == Finite({0}, {0, 1}, Mantissas(1) \cup Mantissas(2)) \cup Finite({0}, 2..5, Odd) \cup Specials \cup {Bf(1, 0, <<3>>)}
Small == {SetSi(v) : v \in -40..40}
Quotients == Finite({0}, {0, 3}, Odd) \cup Finite({1}, {1, 3}, {<<3>>, <<2>>, <<3, 3>>}) \cup Specials
Fractions == Finite({0, 1}, -4..7, Mantissas(1) \cup Mantissas(2)) \cup Specials

Call(f, x, y, p, fl, result) == fn' = f /\ a' = x /\ b' = y /\ prec' = p /\ flags' = fl /\ out' = result
None == Zero(0)

Modes == {"RNDN", "RNDZ", "RNDD", "RNDU", "RNDNA", "RNDA"}
Functions ==
  [round |-> {"round", "mul2exp"}, add |-> {"add", "sub", "mul"}, quotients |-> {"div", "divrem"},
   integers |-> {"logic", "cmp", "pow"}, formats |-> {"getint", "float", "canround"}]
Lefts ==
  CASE on = "round" -> Wide [] on = "add" -> Longs [] on = "quotients" -> Positive [] on = "integers" -> Small [] on = "formats" -> Fractions
Rights ==
  CASE on = "add" -> Spread [] on = "quotients" -> Quotients [] on = "integers" -> Small
Precs == CASE on \in {"round", "formats"} -> {2, 3} [] on = "add" -> {2, 4} [] on = "quotients" -> {3} [] on = "integers" -> {2}
Options == IF on = "round" THEN {<<3, "plain">>, <<3, "subnormal">>, <<7, "radpnt">>} ELSE {<<7, "plain">>}
SomeFlags == {Flags(r, o[1], o[2]) : r \in Modes, o \in Options}
Calls(f) == f \in Functions[on]

CallRound == Calls("round") /\ \E x \in Lefts, p \in Precs, fl \in SomeFlags : Call("round", x, None, p, fl, Round(x, p, fl))
CallAdd == Calls("add") /\ \E x \in Lefts, y \in Rights, p \in Precs, fl \in SomeFlags : Call("add", x, y, p, fl, Add(x, y, p, fl))
CallSub == Calls("sub") /\ \E x \in Lefts, y \in Rights, p \in Precs, fl \in SomeFlags : Call("sub", x, y, p, fl, Sub(x, y, p, fl))
CallMul == Calls("mul") /\ \E x \in Lefts, y \in Rights, p \in Precs, fl \in SomeFlags : Call("mul", x, y, p, fl, Mul(x, y, p, fl))
CallDiv == Calls("div") /\ \E x \in Lefts, y \in Rights, p \in Precs, fl \in SomeFlags : Call("div", x, y, p, fl, Div(x, y, p, fl))
CallDivRem == Calls("divrem") /\ \E x \in Lefts, y \in Rights, r \in Modes \cup {"EUCLIDIAN"} :
                Call("divrem", x, y, PrecInf, Flags(r, 7, "plain"), DivRem(x, y, PrecInf, Exact, r))
CallPow == Calls("pow") /\ \E x \in {y \in Lefts : y.expn \in 1..3}, n \in 0..4 : Call("pow", x, SetUi(n), PrecInf, Exact, PowUi(x, n, PrecInf, Exact))
CallMul2Exp == Calls("mul2exp") /\ \E x \in Lefts, e \in -3..3, p \in Precs, fl \in SomeFlags : Call("mul2exp", x, SetSi(e), p, fl, Mul2Exp(x, e, p, fl))
CallCmp == Calls("cmp") /\ \E x \in Lefts, y \in Rights : Call("cmp", x, y, 0, Exact, <<Cmp(x, y), CmpFull(x, y)>>)
CallLogic == Calls("logic") /\ \E x \in Lefts, y \in Rights, op \in {"or", "xor", "and"} : Call(op, x, y, 0, Exact, Logic(x, y, op))
CallGetInt == Calls("getint") /\ \E x \in Lefts, n \in {LimbBits - 1, LimbBits}, mod \in BOOLEAN :
                Call(IF mod THEN "getintmod" ELSE "getint", x, None, n, Exact, GetInt(x, n, mod))
CallGetUint == Calls("getint") /\ \E x \in Lefts : Call("getuint", x, None, LimbBits, Exact, GetUint(x, LimbBits))
CallFloat == Calls("float") /\ \E x \in Lefts, r \in Modes : Call("float", x, None, 2, Flags(r, 3, "subnormal"), GetFloat(x, 3, 1, r))
CallCanRound == Calls("canround") /\ \E x \in Lefts, p \in Precs, r \in Modes, k \in 3..5 : Call("canround", x, SetUi(k), p, Flags(r, 7, "plain"), CanRound(x, p, r, k))

FloatCalls ==
  \/ CallRound \/ CallAdd \/ CallSub \/ CallMul \/ CallDiv \/ CallDivRem \/ CallPow \/ CallMul2Exp
  \/ CallCmp \/ CallLogic \/ CallGetInt \/ CallGetUint \/ CallFloat \/ CallCanRound

-----------------------------------------------------------------------------
(* Arithmetic on limbs, with thresholds that make division of small numbers *)
(* reach each of its algorithms.                                           *)

\* lengths of dividends and divisors, and one dividend in how many
DivisionLengths ==
  {<<1, 1, 1>>, <<3, 1, 1>>, <<4, 1, 1>>, <<2, 2, 1>>, <<3, 2, 1>>, <<4, 2, 3>>, <<5, 2, 7>>, <<5, 3, 11>>,
   <<6, 3, 131>>, <<7, 3, 809>>, <<7, 4, 2003>>, <<8, 5, 9001>>}

Arrays(n) == {Limbs(v, n) : v \in 0..Base ^ n - 1}
Normalizeds(n) == {Limbs(v, n) : v \in Base ^ n \div 2..Base ^ n - 1}
\* those that are a multiple of stride, and the highest
Every(n, stride) == {Limbs(v * stride, n) : v \in 0..(Base ^ n - 1) \div stride} \cup {Limbs(Base ^ n - 1 - v, n) : v \in 0..Base}

Limbed(f, x, y, arg, result) == Call(f, x, y, arg, Exact, result)

MpSums ==
  \E n \in 1..3 : \E x \in Arrays(n), k \in {0, 1} :
    \/ \E y \in Arrays(n) : Limbed("mp_add", x, y, k, MpAdd(x, y, k)) \/ Limbed("mp_sub", x, y, k, MpSub(x, y, k))
    \/ Limbed("mp_neg", x, <<>>, k, MpNeg(x, k))
MpSmall ==
  \E n \in 1..3 : \E x \in Arrays(n) :
    \/ \E k \in 0..Base - 1 : Limbed("mp_addui", x, <<>>, k, MpAddUi(x, k)) \/ Limbed("mp_subui", x, <<>>, k, MpSubUi(x, k))
    \/ \E k \in 1..LimbBits - 1 : Limbed("mp_shr", x, <<>>, k, MpShr(x, k, 1))
MpProducts == \E n, m \in 1..3 : \E x \in Arrays(n), y \in Arrays(m) : Limbed("mp_mul", x, y, 0, [tab |-> MpMul(x, y), k |-> 0])
MpDivisions == \E d \in DivisionLengths : \E x \in Every(d[1], d[3]), y \in Normalizeds(d[2]) : Limbed("mp_div", x, y, 0, MpDivnorm(x, y))
MpInverses == \E n \in 1..5 : \E x \in Normalizeds(n) : Limbed("mp_recip", x, <<>>, 0, MpRecip(x))

-----------------------------------------------------------------------------

Init ==
  /\ on \in DOMAIN Functions \cup {"sums", "divisions"}
  /\ fn = "none" /\ a = None /\ b = None /\ prec = 0 /\ flags = Exact /\ out = 0

Next ==
  /\ fn = "none" /\ on' = on
  /\ \/ on \in DOMAIN Functions /\ FloatCalls
     \/ on = "sums" /\ (MpSums \/ MpSmall \/ MpProducts)
     \/ on = "divisions" /\ (MpDivisions \/ MpInverses)

Spec == Init /\ [][Next]_vars

-----------------------------------------------------------------------------
(* What the calls compute.                                                 *)

\* in units of 2 ^ -13
Scaled(x) == Minus(x, Num(x) * (Pow(13) \div Den(x)))

\* the unit in the last place of a number with exponent e
Ulp(e, p, fl) ==
  LET digits == IF p = PrecInf THEN 14 ELSE p
  IN  IF fl.mode = "radpnt" THEN -digits
      ELSE (IF fl.mode = "subnormal" THEN Larger(e, EMin(fl)) ELSE e) - digits

\* r is what m * 2 ^ q becomes when exponents are bounded, and st its status
Bounded(r, st, sign, m, q, p, fl, inexact) ==
  LET e == Exponent(m, 1) + q
      base == IF inexact THEN {"inexact"} ELSE {}
      ignored == IF fl.mode = "radpnt" THEN {"underflow"} ELSE {}
      largest == Bf(sign, EMax(fl), Limbs((Pow(p) - 1) * Pow(CeilDiv(p, LimbBits) * LimbBits - p), CeilDiv(p, LimbBits)))
  IN  IF m = 0 THEN r = Zero(sign) /\ st \ ignored = (base \cup {"underflow"}) \ ignored
      ELSE IF e < EMin(fl) /\ fl.mode # "subnormal" THEN r = Zero(sign) /\ st = {"inexact", "underflow"}
      ELSE IF e > EMax(fl)
      THEN /\ st = {"inexact", "overflow"}
           /\ r = (IF ToInfinity(sign, fl.rnd) THEN Infinity(sign) ELSE largest)
      ELSE /\ r.sign = sign /\ ~Special(r) /\ Is(Num(r), Den(r), m, q)
           /\ st \ ignored = (IF inexact /\ e < EMin(fl) THEN base \cup {"underflow"} ELSE base) \ ignored

\* r and st are the number n/d rounded
RoundsTo(r, st, sign, n, d, p, fl) ==
  LET q == Ulp(Exponent(n, d), p, fl)
      u == Units(n, d, q)
  IN  \E m \in Roundings(u, sign, fl.rnd) : Bounded(r, st, sign, m, q, p, fl, u.rest # 0 \/ fl.rnd = "RNDF")

Computed == fn \in {"round", "add", "sub", "mul", "div", "mul2exp", "pow"} /\ IsFinite(a) /\ IsFinite(b)

\* the exact result, with its sign
Sum == Scaled(a) + (IF fn = "sub" THEN -Scaled(b) ELSE Scaled(b))
ExactResult ==
  CASE fn = "round" -> <<a.sign, Num(a), Den(a)>>
    [] fn \in {"add", "sub"} -> <<One(Sum < 0), Abs(Sum), Pow(13)>>
    [] fn = "mul" -> <<a.sign ^^ b.sign, Num(a) * Num(b), Den(a) * Den(b)>>
    [] fn = "div" -> <<a.sign ^^ b.sign, Num(a) * Den(b), Den(a) * Num(b)>>
    [] fn = "mul2exp" -> LET e == IntOf(b) IN <<a.sign, Num(a) * Pow(Larger(e, 0)), Den(a) * Pow(Larger(-e, 0))>>
    [] fn = "pow" -> <<IF IntOf(b) % 2 = 1 THEN a.sign ELSE 0, Num(a) ^ IntOf(b), Den(a) ^ IntOf(b)>>

-----------------------------------------------------------------------------
(* Properties.                                                             *)

\* Every result is the exact one, correctly rounded, with the status that says
\* what became of it (bf_round, bf_add_internal, bf_mul, __bf_div).
CorrectlyRounded ==
  Computed /\ (fn = "div" => ~Special(b)) =>
    LET e == ExactResult
    IN  IF e[2] = 0 THEN out.bf.expn = ExpZero /\ out.st = {}
        ELSE RoundsTo(out.bf, out.st, e[1], e[2], e[3], prec, flags)

\* Numbers are kept with the highest bit of the mantissa set and no zero limb at
\* the low end: what comparison relies on (bf_cmpu).
Normal(x) == Special(x) \/ (Last(x.tab) >= Base \div 2 /\ Head(x.tab) # 0 /\ x.expn \in -60..60)
Normalized ==
  /\ fn \in {"round", "add", "sub", "mul", "div", "mul2exp"} => Normal(out.bf)
  /\ fn = "divrem" => Normal(out.q) /\ Normal(out.r.bf)
  /\ fn \in {"or", "xor", "and"} => Normal(out)

\* Results for infinities, zeros and NaN are those of IEEE 754.
SpecialResults ==
  /\ fn \in {"add", "sub", "mul", "div"} =>
       LET r == out.bf
           nan == \/ ExpNan \in {a.expn, b.expn}
                  \/ fn \in {"add", "sub"} /\ a.expn = ExpInf /\ b.expn = ExpInf /\ ((a.sign = b.sign) <=> (fn = "sub"))
                  \/ fn = "mul" /\ {a.expn, b.expn} = {ExpInf, ExpZero}
                  \/ fn = "div" /\ {a.expn, b.expn} \in {{ExpInf}, {ExpZero}}
       IN  /\ (r.expn = ExpNan) <=> nan
           /\ "invalid" \in out.st <=> (nan /\ ExpNan \notin {a.expn, b.expn})
  /\ (fn = "div" /\ IsFinite(a) /\ a.expn # ExpZero /\ b.expn = ExpZero) => out.bf.expn = ExpInf /\ out.st = {"divzero"}
  /\ (fn \in {"add", "sub"} /\ IsFinite(a) /\ IsFinite(b) /\ Sum = 0) =>
       out.bf.sign = (LET y == IF fn = "sub" THEN 1 - b.sign ELSE b.sign
                      IN  IF a.sign = y THEN a.sign ELSE One(flags.rnd = "RNDD"))

\* The integer quotient is that of the mode, and the remainder is what is left
\* (bf_divrem).
RemaindersExact ==
  (fn = "divrem" /\ ~Special(a) /\ ~Special(b)) =>
       LET q == IntOf(out.q)
           u == Units(Num(a) * Den(b), Den(a) * Num(b), 0)
           sign == a.sign ^^ b.sign
           mode == IF flags.rnd # "EUCLIDIAN" THEN flags.rnd ELSE IF b.sign = 0 THEN "RNDD" ELSE "RNDU"
       IN  /\ Whole(out.q) /\ Abs(q) \in Roundings(u, sign, mode)
           /\ Scaled(a) = q * Scaled(b) + Scaled(out.r.bf)
           /\ out.q.sign = sign

\* Bitwise operations are those of two's complement numbers (bf_logic_op).
TwosComplement ==
  fn \in {"or", "xor", "and"} =>
    LET bits(x) == IntOf(x) % Pow(8)
        signed(v) == IF v >= Pow(7) THEN v - Pow(8) ELSE v
    IN  Whole(out) /\ IntOf(out) = signed(LogicOp1(bits(a), bits(b), fn))

\* Numbers become the integer towards zero, the nearest one there is, or its low
\* bits (bf_get_int32, bf_get_int64, bf_get_uint64).
IntegersNearest ==
  fn \in {"getint", "getintmod", "getuint"} /\ IsFinite(a) =>
    LET v == IntOf(a)
        least == IF fn = "getuint" THEN 0 ELSE -Pow(prec - 1)
        most == IF fn = "getuint" THEN Pow(prec) - 1 ELSE Pow(prec - 1) - 1
        clamped == IF v < least THEN least ELSE IF v > most THEN most ELSE v
    IN  IF fn = "getintmod" THEN out = [v |-> ((v - least) % Pow(prec)) + least, st |-> {}]
        ELSE out.v = clamped /\ (out.st = IF v = clamped THEN {} ELSE {"invalid"})

\* A number becomes the nearest of the format, and is read back as it is
\* (bf_get_float64, bf_set_float64).
FloatsRounded ==
  fn = "float" =>
    LET back == SetFloat(out, 3, 1)
    IN  IF IsFinite(a) /\ a.expn # ExpZero THEN RoundsTo(back, out.st, a.sign, Num(a), Den(a), 2, flags)
        ELSE back = a

\* The order is that of the numbers (bf_cmp, bf_cmp_full).
Ordered ==
  fn = "cmp" =>
    LET rank(x) == IF x.expn = ExpInf THEN Minus(x, Pow(20)) ELSE Scaled(x)
        order(i, j) == IF i < j THEN -1 ELSE IF i = j THEN 0 ELSE 1
        zero(x) == IF x.expn = ExpZero THEN -x.sign ELSE 0
    IN  /\ ExpNan \notin {a.expn, b.expn} =>
             /\ out[1] = order(rank(a), rank(b))
             /\ out[2] = IF rank(a) = rank(b) THEN order(zero(a), zero(b)) ELSE order(rank(a), rank(b))
        /\ ExpNan \in {a.expn, b.expn} => out = <<2, order(One(a.expn = ExpNan), One(b.expn = ExpNan))>>

\* Where a result can be rounded, everything within its error rounds the same
\* (bf_can_round).
RoundingSafe ==
  (fn = "canround" /\ out /\ ~Special(a)) =>
    LET err == a.expn - IntOf(b)
        \* in units of a quarter of the last bit or of the error
        s == (IF a.expn - Size(a) < err THEN a.expn - Size(a) ELSE err) - 2
        units(i, j) == LET x == IF i - s >= 0 THEN Pow(i - s) ELSE 1 IN j * x
        v == units(a.expn - Size(a), Value(a.tab))
        around == {v + i : i \in -units(err, 1) + 1..units(err, 1) - 1}
        rounded(w) == LET q == Ulp(Exponent(w, 1), prec, flags) IN {m * Pow(q + 8) : m \in Roundings(Units(w, 1, q), a.sign, flags.rnd)}
    IN  \A w \in around : rounded(w) = rounded(v)

Carried == Value(out.tab) + out.k * Base ^ Len(a)
Borrowed == Value(out.tab) - out.k * Base ^ Len(a)

\* Sums, differences, products and shifts of limbs are those of the numbers, with
\* the carry or borrow that is returned (mp_add .. mp_mul).
ArithmeticExact ==
  CASE fn = "mp_add" -> Carried = Value(a) + Value(b) + prec
    [] fn = "mp_sub" -> Borrowed = Value(a) - Value(b) - prec
    [] fn = "mp_neg" -> Borrowed = -Value(a) - prec
    [] fn = "mp_addui" -> Carried = Value(a) + prec
    [] fn = "mp_subui" -> Borrowed = Value(a) - prec
    [] fn = "mp_shr" -> Value(out.tab) * 2 ^ prec + out.k = Value(a) + Base ^ Len(a)
    [] fn = "mp_mul" -> Value(out.tab) = Value(a) * Value(b)
    [] OTHER -> TRUE

\* Division, by either algorithm, returns the quotient and the remainder; when
\* the quotient has its highest limb above the divisor's, it is 0 or 1
\* (mp_divnorm).
DivisionExact ==
  fn = "mp_div" =>
    /\ Value(a) = Value(out.q) * Value(b) + Value(out.rem)
    /\ Value(out.rem) < Value(b)
    /\ Len(b) > 1 => Last(out.q) <= 1

\* An inverse of n limbs is below the exact one by at most two units, and its
\* highest limb is 1 (mp_recip).
InverseClose ==
  fn = "mp_recip" =>
    LET power == Base ^ (2 * Len(a))
        r == Value(out)
    IN  Value(a) * r < power /\ power <= Value(a) * (r + 2) /\ Last(out) = 1

\* What the functions on limbs return is exact.
LimbsExact == ArithmeticExact /\ DivisionExact /\ InverseClose

\* What the functions on numbers return is the exact result, rounded as asked.
NumbersRounded ==
  /\ CorrectlyRounded /\ Normalized /\ SpecialResults /\ RemaindersExact
  /\ TwosComplement /\ IntegersNearest /\ FloatsRounded /\ Ordered /\ RoundingSafe
=============================================================================
