----------------------------- MODULE QJSBigFloat -----------------------------
(***************************************************************************)
(* libbf.c: floating point numbers with a mantissa of limbs. A number is   *)
(* 0.tab * 2 ^ expn; zero, the infinities and NaN have no limbs and an     *)
(* exponent of their own. The operators return the number, and the status  *)
(* as a set.                                                               *)
(***************************************************************************)
EXTENDS QJSLimbs, FiniteSets, FiniteSetsExt

ExpZero == -100
ExpInf == 100
ExpNan == 101
PrecInf == 1000

Bf(sign, expn, tab) == [sign |-> sign, expn |-> expn, tab |-> tab]
Zero(sign) == Bf(sign, ExpZero, <<>>)
Infinity(sign) == Bf(sign, ExpInf, <<>>)
Nan == Bf(0, ExpNan, <<>>)
Special(a) == a.tab = <<>>

\* flags: the rounding mode, the bits of exponents, and whether there are
\* subnormal numbers or the precision is that after the radix point
Flags(rnd, exps, mode) == [rnd |-> rnd, exps |-> exps, mode |-> mode]
Exact == Flags("RNDZ", 7, "plain")

Result(a, st) == [bf |-> a, st |-> st]
Size(a) == Len(a.tab) * LimbBits
BitLength(v) == IF v = 0 THEN 0 ELSE CHOOSE n \in 1..31 : 2 ^ (n - 1) <= v /\ (n = 31 \/ v < 2 ^ n)
CeilDiv(v, n) == (v + n - 1) \div n
Lesser(i, j) == IF i < j THEN i ELSE j
Larger(i, j) == IF i < j THEN j ELSE i

\* without the limbs below the first that is not zero
RECURSIVE Trimmed(_)
Trimmed(tab) == IF Head(tab) = 0 THEN Trimmed(Tail(tab)) ELSE tab

\* bf_set_ui, bf_set_si
SetUi(v) == IF v = 0 THEN Zero(0) ELSE LET n == BitLength(v) IN Bf(0, n, Trimmed(Limbs(v * 2 ^ ((-n) % LimbBits), CeilDiv(n, LimbBits))))
SetSi(v) == IF v < 0 THEN [SetUi(-v) EXCEPT !.sign = 1] ELSE SetUi(v)

\* a bit, and LimbBits bits from a position on; there are zeros around the limbs
GetBit(tab, pos) == IF pos < 0 \/ pos >= Len(tab) * LimbBits THEN 0 ELSE (Value(tab) \div 2 ^ pos) % 2
GetBits(tab, pos) ==
  IF pos <= -LimbBits \/ pos >= Len(tab) * LimbBits THEN 0
  ELSE IF pos < 0 THEN Wrap(Value(tab) * 2 ^ (-pos)) ELSE Wrap(Value(tab) \div 2 ^ pos)
ScanBitNz(tab, pos) == IF pos < 0 THEN 0 ELSE One(Value(tab) % 2 ^ (pos + 1) # 0)
GetLimbz(a, i) == IF i \in 0..Len(a.tab) - 1 THEN a.tab[i + 1] ELSE 0

EMax(flags) == 2 ^ (flags.exps - 1)
EMin(flags) == 3 - EMax(flags)

-----------------------------------------------------------------------------
(* Rounding.                                                               *)

\* Fault: a tie is rounded away from zero
RndAdd0(r, prec, rnd) ==
  LET last == Size(r) - 1
  IN  With(IF rnd = "RNDF" THEN 1 ELSE ScanBitNz(r.tab, last - Larger(0, prec + 1)), LAMBDA bit0 :
      With(GetBit(r.tab, last - prec), LAMBDA bit1 :
      With(bit1 + bit0 > 0, LAMBDA inexact :
        [inexact |-> inexact,
         add |-> CASE rnd = "RNDZ" -> FALSE
                   [] rnd \in {"RNDN", "RNDNA", "RNDF"} -> bit1 = 1
                   [] rnd = "RNDD" -> inexact /\ r.sign = 1
                   [] rnd = "RNDU" -> inexact /\ r.sign = 0
                   [] rnd = "RNDA" -> inexact])))

\* bf_get_rnd_add: whether one is added to the last bit that is kept
RndAdd(r, prec, rnd) ==
  LET last == Size(r) - 1
  IN  With(IF rnd = "RNDF" THEN 1 ELSE ScanBitNz(r.tab, last - Larger(0, prec + 1)), LAMBDA bit0 :
      With(GetBit(r.tab, last - prec), LAMBDA bit1 :
      With(bit1 + bit0 > 0, LAMBDA inexact :
        [inexact |-> inexact,
         add |-> CASE rnd = "RNDZ" -> FALSE
                   [] rnd = "RNDN" -> bit1 = 1 /\ (bit0 = 1 \/ GetBit(r.tab, last - (prec - 1)) = 1)
                   [] rnd = "RNDD" -> inexact /\ r.sign = 1
                   [] rnd = "RNDU" -> inexact /\ r.sign = 0
                   [] rnd = "RNDA" -> inexact
                   [] rnd \in {"RNDNA", "RNDF"} -> bit1 = 1])))

\* bf_set_overflow: infinity, or the largest number
Overflow(sign, prec, flags) ==
  LET l == CeilDiv(prec, LimbBits)
      away == prec = PrecInf \/ flags.rnd \in {"RNDN", "RNDNA", "RNDA"}
                \/ (flags.rnd = "RNDD" /\ sign = 1) \/ (flags.rnd = "RNDU" /\ sign = 0)
  IN  Result(IF away THEN Infinity(sign)
             ELSE Bf(sign, EMax(flags), Limbs((2 ^ prec - 1) * 2 ^ (l * LimbBits - prec), l)),
             {"overflow", "inexact"})

\* the precision that is left, of a subnormal number or after the radix point
EffectivePrec(r, prec, flags) ==
  IF flags.mode = "radpnt" THEN IF prec = PrecInf THEN prec ELSE r.expn + prec
  ELSE IF flags.mode = "subnormal" /\ r.expn < EMin(flags) THEN prec - (EMin(flags) - r.expn)
  ELSE prec

\* the bits up to the precision, with one added to the last: a carry out of the
\* mantissa shifts it
Kept(r, prec, add) ==
  LET pos == Size(r) - prec
  IN  With(Value(r.tab), LAMBDA v :
      With(IF add THEN v + 2 ^ pos ELSE v, LAMBDA sum :
      With(sum >= 2 ^ Size(r), LAMBDA carry :
      With(IF pos <= 0 THEN v ELSE ((IF carry THEN sum \div 2 ELSE sum) \div 2 ^ pos) * 2 ^ pos, LAMBDA kept :
        [r EXCEPT !.tab = Trimmed(Limbs(kept, Len(r.tab))), !.expn = IF carry THEN @ + 1 ELSE @]))))

\* __bf_round
RoundTo(r, prec1, flags) ==
  LET none(st) == Result(Zero(r.sign), st \cup {"underflow", "inexact"})
  IN  With(EffectivePrec(r, prec1, flags), LAMBDA prec :
      With(RndAdd(r, prec, flags.rnd), LAMBDA rnd :
      With(IF rnd.inexact THEN {"inexact"} ELSE {}, LAMBDA st :
        IF prec <= 0 /\ rnd.add
        THEN Result(Bf(r.sign, r.expn + 1 - prec, <<2 ^ (LimbBits - 1)>>), st \cup {"underflow", "inexact"})
        ELSE IF prec <= 0 THEN none(st)
        ELSE With(Kept(r, prec, rnd.add), LAMBDA kept :
               IF kept.expn < EMin(flags) /\ flags.mode # "subnormal" THEN none(st)
               ELSE IF kept.expn > EMax(flags) THEN Overflow(r.sign, prec1, flags)
               ELSE Result(kept, IF kept.expn < EMin(flags) /\ rnd.inexact THEN st \cup {"underflow"} ELSE st)))))

\* bf_round
Round(r, prec, flags) == IF Special(r) THEN Result(r, {}) ELSE RoundTo(r, prec, flags)

\* bf_normalize_and_round: the highest bit of the mantissa is made one
NormalizeAndRound(r, prec, flags) ==
  With(Value(r.tab), LAMBDA v :
  With(BitLength(v), LAMBDA n :
  With(CeilDiv(n, LimbBits), LAMBDA l :
    IF v = 0 THEN Result(Zero(r.sign), {})
    ELSE RoundTo([r EXCEPT !.tab = Limbs(v * 2 ^ (l * LimbBits - n), l), !.expn = @ - (Size(r) - n)], prec, flags))))

\* bf_rint
Rint(r, rnd) == Round(r, 0, Flags(rnd, 7, "radpnt"))

\* bf_can_round: whether a result with an error of 2 ^ (expn - k) rounds the same
CanRound(a, prec, rnd, k) ==
  LET nearest == rnd \in {"RNDN", "RNDNA"}
      pos == Size(a) - 1 - prec
      bit == IF nearest THEN 1 - GetBit(a.tab, pos) ELSE GetBit(a.tab, pos)
  IN  IF a.expn \in {ExpInf, ExpNan} THEN FALSE
      ELSE IF rnd = "RNDF" THEN k >= prec + 1
      ELSE IF a.expn = ExpZero \/ k < prec + 2 THEN FALSE
      ELSE \E i \in 1..k - prec - 1 : GetBit(a.tab, pos - i) # bit

-----------------------------------------------------------------------------
(* Comparison, sum and product.                                            *)

\* bf_cmpu
CmpU(a, b) ==
  LET len == Larger(Len(a.tab), Len(b.tab))
      limb(c, i) == GetLimbz(c, Len(c.tab) - len + i)
  IN  IF a.expn # b.expn THEN IF a.expn < b.expn THEN -1 ELSE 1
      ELSE With({i \in 0..len - 1 : limb(a, i) # limb(b, i)}, LAMBDA differing :
             IF differing = {} THEN 0
             ELSE With(Max(differing), LAMBDA i : IF limb(a, i) < limb(b, i) THEN -1 ELSE 1))

Signed(a, res) == IF a.sign = 1 THEN -res ELSE res

CmpFull(a, b) ==
  IF ExpNan \in {a.expn, b.expn} THEN IF a.expn = b.expn THEN 0 ELSE IF a.expn = ExpNan THEN 1 ELSE -1
  ELSE IF a.sign # b.sign THEN 1 - 2 * a.sign ELSE Signed(a, CmpU(a, b))

Cmp(a, b) ==
  IF ExpNan \in {a.expn, b.expn} THEN 2
  ELSE IF a.sign # b.sign THEN IF {a.expn, b.expn} = {ExpZero} THEN 0 ELSE 1 - 2 * a.sign
  ELSE Signed(a, CmpU(a, b))

Clz(v) == LimbBits - BitLength(v)
\* the offset of b's limbs from those of a
Shifted(a, b) == (Len(b.tab) - Len(a.tab)) * LimbBits - (LimbBits - 1) + a.expn - b.expn

RECURSIVE EqualBits(_, _, _), CancelledFrom(_, _, _)

\* the offset of the first limb that differs
EqualBits(a, b, at) ==
  IF GetLimbz(a, at \div LimbBits) = GetBits(b.tab, at + Shifted(a, b)) THEN EqualBits(a, b, at - LimbBits) ELSE at

\* how far there are zeros in a and ones in b
CancelledFrom(a, b, at) ==
  With(GetLimbz(a, at \div LimbBits), LAMBDA v1 :
  With(GetBits(b.tab, at + Shifted(a, b)), LAMBDA v2 :
    IF v1 # 0 \/ v2 # Base - 1 THEN Lesser(Clz(v1), Clz(Base - 1 - v2))
    ELSE LimbBits + CancelledFrom(a, b, at - LimbBits)))

\* count_cancelled_bits
CancelledBits(a, b) ==
  With(EqualBits(a, b, Size(a) - 1), LAMBDA at :
  With(GetLimbz(a, at \div LimbBits), LAMBDA v1 :
  With(GetBits(b.tab, at + Shifted(a, b)), LAMBDA v2 :
  With(Clz(v1 ^^ v2) + 1, LAMBDA p :
  With(LimbBits - p, LAMBDA left :
  With(Lesser(Clz(v1 % 2 ^ left), Clz((Base - 1 - v2) % 2 ^ left)) - p, LAMBDA p1 :
  With(Size(a) - 1 - at + p, LAMBDA n :
    IF left > 0 /\ p1 # left THEN n + p1
    ELSE n + left + CancelledFrom(a, b, at - LimbBits))))))))

\* the lowest bit stands for all that follow
WithRemainder(tab, inexact) == IF inexact THEN <<tab[1] | 1>> \o Tail(tab) ELSE tab

RECURSIVE Sticky(_, _, _, _)

\* the sum of the bits below the result: whether one is not zero, and the carry;
\* limbs outside both numbers are passed over
Sticky(a, b, offsets, s) ==
  LET ap == offsets.a + s.i
      bp == offsets.b + s.i * LimbBits
      ina == ap \in 0..Len(a.tab) - 1
      inb == bp + LimbBits > 0 /\ bp < Size(b)
      skip == Lesser(IF ap < 0 THEN Lesser(0, -offsets.a) ELSE 0,
                     IF bp + LimbBits <= 0 THEN (-offsets.b) \div LimbBits ELSE 0)
  IN  IF s.i >= 0 THEN s
      ELSE With(IF inb THEN GetBits(b.tab, bp) ELSE 0, LAMBDA v2 :
           With(AddLimb(IF ina THEN a.tab[ap + 1] ELSE 0, IF offsets.sub THEN Base - 1 - v2 ELSE v2, s.carry), LAMBDA sum :
             Sticky(a, b, offsets, [i |-> IF ina \/ inb THEN s.i + 1 ELSE skip, carry |-> sum[2], z |-> s.z \/ sum[1] # 0])))

\* the sum of two numbers that are not special, the first not the smaller
AddMantissas(a, b, prec, flags, sub) ==
  LET d == a.expn - b.expn
      total == Larger(Len(a.tab), Len(b.tab) + CeilDiv(d, LimbBits))
  IN  With(IF ~sub THEN 0 ELSE IF d <= 1 THEN CancelledBits(a, b) ELSE 1, LAMBDA cancelled :
      With(Lesser(CeilDiv(cancelled + prec + 2, LimbBits), total), LAMBDA len :
      With([a |-> Len(a.tab) - len, b |-> (Len(b.tab) - len) * LimbBits + d, sub |-> sub], LAMBDA offsets :
      With(Sticky(a, b, offsets, [i |-> len - total, carry |-> One(sub), z |-> FALSE]), LAMBDA s :
      With(Ripple(len, s.carry,
                  LAMBDA i, k : With(GetBits(b.tab, offsets.b + (i - 1) * LimbBits), LAMBDA v2 :
                                  AddLimb(GetLimbz(a, offsets.a + i - 1), IF sub THEN Base - 1 - v2 ELSE v2, k))), LAMBDA sum :
      With(WithRemainder(sum.tab, s.z), LAMBDA tab :
      With(~sub /\ sum.k = 1, LAMBDA over :
        NormalizeAndRound(Bf(a.sign, IF over THEN a.expn + LimbBits ELSE a.expn, IF over THEN Append(tab, 1) ELSE tab), prec, flags))))))))

\* the larger is special, or the smaller is zero
AddSpecial(a, b, prec, flags, sub) ==
  IF a.expn = ExpNan THEN Result(Nan, {})
  ELSE IF a.expn = ExpInf THEN IF b.expn = ExpInf /\ sub THEN Result(Nan, {"invalid"}) ELSE Result(Infinity(a.sign), {})
  ELSE NormalizeAndRound(a, prec, flags)

\* bf_add_internal: the larger first
AddOrdered(a, b, prec, flags) ==
  LET sub == a.sign # b.sign
  IN  IF CmpU(a, b) = 0 /\ sub /\ a.expn < ExpInf THEN Result(Zero(One(flags.rnd = "RNDD")), {})
      ELSE IF ~Special(a) /\ ~Special(b) THEN AddMantissas(a, b, prec, flags, sub)
      ELSE AddSpecial(a, b, prec, flags, sub)

AddInternal(a, b, prec, flags) ==
  With(CmpU(a, b) < 0, LAMBDA smaller : AddOrdered(IF smaller THEN b ELSE a, IF smaller THEN a ELSE b, prec, flags))

Negated(a) == [a EXCEPT !.sign = 1 - @]
Add(a, b, prec, flags) == AddInternal(a, b, prec, flags)
Sub(a, b, prec, flags) == AddInternal(a, Negated(b), prec, flags)
AddSi(a, v, prec, flags) == Add(a, SetSi(v), prec, flags)

\* bf_mul
Mul(a, b, prec, flags) ==
  LET sign == a.sign ^^ b.sign
      expns == {a.expn, b.expn}
      most == CeilDiv(prec + 2, LimbBits)
      used(tab) == IF flags.rnd = "RNDF" /\ Len(tab) > most THEN Truncated(tab, most) ELSE tab
  IN  IF ~Special(a) /\ ~Special(b)
      THEN NormalizeAndRound(Bf(sign, a.expn + b.expn, MpMul(used(a.tab), used(b.tab))), prec, flags)
      ELSE IF ExpNan \in expns THEN Result(Nan, {})
      ELSE IF {ExpInf, ExpZero} \subseteq expns THEN Result(Nan, {"invalid"})
      ELSE IF ExpInf \in expns THEN Result(Infinity(sign), {})
      ELSE Result(Zero(sign), {})

\* bf_mul_2exp
Mul2Exp(r, e, prec, flags) == IF Special(r) THEN Result(r, {}) ELSE RoundTo([r EXCEPT !.expn = @ + e], prec, flags)

RECURSIVE PowBits(_, _, _, _, _)
PowBits(r, a, b, i, to) ==
  IF i < 0 THEN r
  ELSE With(Mul(r.bf, r.bf, to.prec, to.flags), LAMBDA square :
       With(IF Bits(b, i, 1) = 1 THEN Mul(square.bf, a, to.prec, to.flags) ELSE Result(square.bf, {}), LAMBDA next :
         PowBits(Result(next.bf, r.st \cup square.st \cup next.st), a, b, i - 1, to)))

\* bf_pow_ui
PowUi(a, b, prec, flags) ==
  IF b = 0 THEN Result(SetUi(1), {}) ELSE PowBits(Result(a, {}), a, b, BitLength(b) - 2, [prec |-> prec, flags |-> flags])

-----------------------------------------------------------------------------
(* Quotient, remainder and root.                                           *)

DivSpecial(a, b, sign) ==
  IF ExpNan \in {a.expn, b.expn} THEN Result(Nan, {})
  ELSE IF {a.expn, b.expn} \in {{ExpInf}, {ExpZero}} THEN Result(Nan, {"invalid"})
  ELSE IF a.expn = ExpInf THEN Result(Infinity(sign), {})
  ELSE IF b.expn = ExpInf \/ a.expn = ExpZero THEN Result(Zero(sign), {})
  ELSE Result(Infinity(sign), {"divzero"})

\* __bf_div
Div(a, b, prec, flags) ==
  LET sign == a.sign ^^ b.sign
      n == Larger(Len(a.tab), CeilDiv(prec + 2, LimbBits))
  IN  IF Special(a) \/ Special(b) THEN DivSpecial(a, b, sign)
      ELSE With(MpDivnorm(Zeros(n + Len(b.tab) - Len(a.tab)) \o a.tab, b.tab), LAMBDA d :
             NormalizeAndRound(Bf(sign, a.expn - b.expn + LimbBits, WithRemainder(d.q, \E i \in DOMAIN d.rem : d.rem[i] # 0)), prec, flags))

\* bf_tdivremu
TDivRem(a, b) ==
  IF CmpU(a, b) < 0 THEN [q |-> Zero(0), r |-> a]
  ELSE With(Rint(Div(a, b, Larger(a.expn - b.expn + 1, 2), Exact).bf, "RNDZ").bf, LAMBDA q :
         [q |-> q, r |-> Sub(a, Mul(q, b, PrecInf, Exact).bf, PrecInf, Exact).bf])

\* whether the mode asks for one more than the quotient towards zero
OneMore(a, b, d, rnd) ==
  With(CmpU(d.r, [b EXCEPT !.expn = @ - 1]), LAMBDA half :
    CASE rnd = "RNDZ" -> FALSE
      [] rnd \in {"RNDN", "RNDNA"} ->
           half > 0 \/ (half = 0 /\ (rnd = "RNDNA" \/ GetBit(d.q.tab, Size(d.q) - d.q.expn) = 1))
      [] rnd = "RNDD" -> a.sign # b.sign
      [] rnd = "RNDU" -> a.sign = b.sign
      [] rnd = "RNDA" -> TRUE
      [] rnd = "EUCLIDIAN" -> a.sign = 1)

\* bf_divrem
DivRem(a, b, prec, flags, rnd) ==
  LET sign == a.sign ^^ b.sign
      b1 == [b EXCEPT !.sign = 0]
      is(q, r) == [q |-> [q EXCEPT !.sign = sign], r |-> Round([r EXCEPT !.sign = @ ^^ a.sign], prec, flags)]
  IN  IF Special(a) \/ Special(b)
      THEN IF ExpNan \in {a.expn, b.expn} THEN [q |-> Zero(0), r |-> Result(Nan, {})]
           ELSE IF a.expn = ExpInf \/ b.expn = ExpZero THEN [q |-> Zero(0), r |-> Result(Nan, {"invalid"})]
           ELSE [q |-> Zero(0), r |-> Round(a, prec, flags)]
      ELSE With(TDivRem([a EXCEPT !.sign = 0], b1), LAMBDA d :
             IF ~Special(d.r) /\ OneMore(a, b, d, rnd)
             THEN is(AddSi(d.q, 1, PrecInf, Exact).bf, Sub(d.r, b1, PrecInf, Exact).bf)
             ELSE is(d.q, d.r))

\* bf_sqrt
Sqrt(a, prec, flags) ==
  LET n == CeilDiv(2 * (prec + 2), 2 * LimbBits)
      used == Lesser(2 * n, Len(a.tab))
      odd == a.expn % 2 = 1
      cut == \E i \in 1..Len(a.tab) - used : a.tab[i] # 0
  IN  IF a.expn \in {ExpNan, ExpZero} \/ (a.expn = ExpInf /\ a.sign = 0) THEN Result(a, {})
      ELSE IF a.sign = 1 THEN Result(Nan, {"invalid"})
      ELSE With(Zeros(2 * n - used) \o Truncated(a.tab, used), LAMBDA x :
           With(MpSqrtrem(IF odd THEN MpShr(x, 1, 0).tab ELSE x), LAMBDA s :
           With(cut \/ (odd /\ x[1] % 2 = 1) \/ s.k # 0 \/ \E i \in DOMAIN s.rem : s.rem[i] # 0, LAMBDA inexact :
             Round(Bf(0, (a.expn + 1) \div 2, WithRemainder(s.s, inexact)), prec, flags))))

\* Fault: the root of a number with an odd exponent has one bit more
RootDigits0(a) == a.expn \div 2

RootDigits(a) == (a.expn + 1) \div 2

\* bf_sqrtrem
SqrtRem(a) ==
  IF Special(a) \/ a.sign = 1
  THEN With(Sqrt(a, 2, Exact), LAMBDA root : [r |-> root.bf, rem |-> Zero(0), st |-> root.st])
  ELSE With(Rint(Sqrt(a, RootDigits(a), Exact).bf, "RNDZ").bf, LAMBDA r :
       With(Add(Negated(Mul(r, r, PrecInf, Exact).bf), a, PrecInf, Exact).bf, LAMBDA rem :
         [r |-> r, rem |-> rem, st |-> IF Special(rem) THEN {} ELSE {"inexact"}]))

-----------------------------------------------------------------------------
(* Bitwise operations and conversions.                                     *)

LogicOp1(v, w, op) == CASE op = "or" -> v | w [] op = "xor" -> v ^^ w [] op = "and" -> v & w

\* how many bits of the result there are
LogicLength(a, b, as, bs, op) ==
  IF op = "and" /\ LogicOp1(as, bs, op) = 0
  THEN IF as = 0 /\ bs = 0 THEN Lesser(a.expn, b.expn) ELSE IF as = 0 THEN a.expn ELSE b.expn
  ELSE Larger(a.expn, b.expn)

\* bf_logic_op: negative numbers as the complement of one more
Logic(a1, b1, op) ==
  LET negative(c) == IF c.expn <= 0 THEN 0 ELSE c.sign
      complement(c) == IF negative(c) = 1 THEN AddSi(c, 1, PrecInf, Exact).bf ELSE c
      as == negative(a1)
      bs == negative(b1)
      rs == LogicOp1(as, bs, op)
      flip(v, sign) == IF sign = 1 THEN Base - 1 - v ELSE v
      limb(c, sign, i) == flip(GetBits(c.tab, Size(c) - c.expn + i * LimbBits), sign)
  IN  With(complement(a1), LAMBDA a :
      With(complement(b1), LAMBDA b :
      With(CeilDiv(Larger(LogicLength(a, b, as, bs, op), 1), LimbBits), LAMBDA l :
      With([i \in 1..l |-> flip(LogicOp1(limb(a, as, i - 1), limb(b, bs, i - 1), op), rs)], LAMBDA tab :
      With(NormalizeAndRound(Bf(rs, l * LimbBits, tab), PrecInf, Exact).bf, LAMBDA r :
        IF rs = 1 THEN AddSi(r, -1, PrecInf, Exact).bf ELSE r)))))

\* the lowest number of n bits, whose magnitude has one bit more
Fits(a, n) == a.sign = 1 /\ a.expn = n /\ Last(a.tab) \div 2 ^ (LimbBits - n) = 2 ^ (n - 1)

\* bf_get_int32, bf_get_int64: n bits of a number, none beyond the limb; or the
\* nearest there is
GetInt(a, n, mod) ==
  LET top == Last(a.tab) \div 2 ^ (LimbBits - a.expn)
      wrapped(v) == ((v + 2 ^ (n - 1)) % 2 ^ n) - 2 ^ (n - 1)
      low == GetBits(a.tab, Size(a) - a.expn)
  IN  IF a.expn >= ExpInf
      THEN [v |-> IF mod THEN 0 ELSE IF a.expn = ExpInf /\ a.sign = 1 THEN -(2 ^ (n - 1)) ELSE 2 ^ (n - 1) - 1, st |-> {"invalid"}]
      ELSE IF a.expn <= 0 THEN [v |-> 0, st |-> {}]
      ELSE IF a.expn <= n - 1 THEN [v |-> IF a.sign = 1 THEN -top ELSE top, st |-> {}]
      ELSE IF mod THEN [v |-> wrapped(IF a.sign = 1 THEN -low ELSE low), st |-> {}]
      ELSE IF a.sign = 1 THEN [v |-> -(2 ^ (n - 1)), st |-> IF Fits(a, n) THEN {} ELSE {"invalid"}]
      ELSE [v |-> 2 ^ (n - 1) - 1, st |-> {"invalid"}]

\* bf_get_uint64
GetUint(a, n) ==
  IF a.expn = ExpNan \/ (a.expn > n /\ a.sign = 0) THEN [v |-> 2 ^ n - 1, st |-> {"invalid"}]
  ELSE IF a.expn <= 0 THEN [v |-> 0, st |-> {}]
  ELSE IF a.sign = 1 THEN [v |-> 0, st |-> {"invalid"}]
  ELSE [v |-> Last(a.tab) \div 2 ^ (LimbBits - a.expn), st |-> {}]

\* the bits of the mantissa after the leading one, which a subnormal number keeps
FloatFraction(m, expn, f) ==
  IF expn <= 0 THEN m \div 2 ^ (LimbBits - f - expn) ELSE Wrap(m * 2) \div 2 ^ (LimbBits - f)

\* bf_get_float64: sign, exponent and fraction in a format with e bits of
\* exponent and a fraction of f bits, all in one limb
GetFloat(a, e, f, rnd) ==
  IF a.expn = ExpNan THEN [sign |-> 0, expn |-> 2 ^ e - 1, frac |-> 2 ^ (f - 1), st |-> {}]
  ELSE With(Round(a, f + 1, Flags(rnd, e, "subnormal")), LAMBDA b :
       With(b.bf.expn + 2 ^ (e - 1) - 2, LAMBDA expn :
         LET float(x, frac) == [sign |-> b.bf.sign, expn |-> x, frac |-> frac, st |-> b.st]
         IN  IF b.bf.expn = ExpInf THEN float(2 ^ e - 1, 0)
             ELSE IF b.bf.expn = ExpZero THEN float(0, 0)
             ELSE float(Larger(expn, 0), FloatFraction(b.bf.tab[1], expn, f))))

\* bf_set_float64
SetFloat(d, e, f) ==
  LET shift == Clz(Wrap(d.frac * 2 ^ (LimbBits - f)))
      bias == 2 ^ (e - 1) - 2
  IN  IF d.expn = 2 ^ e - 1 THEN IF d.frac # 0 THEN Nan ELSE Infinity(d.sign)
      ELSE IF d.expn = 0
      THEN IF d.frac = 0 THEN Zero(d.sign) ELSE Bf(d.sign, -shift - bias, <<d.frac * 2 ^ (LimbBits - f + shift)>>)
      ELSE Bf(d.sign, d.expn - bias, <<d.frac * 2 ^ (LimbBits - f - 1) + 2 ^ (LimbBits - 1)>>)

-----------------------------------------------------------------------------
(* What rounding means: the rational numbers n/d that numbers stand for,    *)
(* the multiples of a power of two next to one, and which of them a         *)
(* rounding mode prefers. The runs compare the results above with these.    *)

Pow(k) == 2 ^ k
\* n/d < 2 ^ e
Below(n, d, e) == IF e >= 0 THEN n < d * Pow(e) ELSE n * Pow(-e) < d

RECURSIVE ExponentFrom(_, _, _)
ExponentFrom(n, d, e) ==
  IF ~Below(n, d, e) THEN ExponentFrom(n, d, e + 1) ELSE IF Below(n, d, e - 1) THEN ExponentFrom(n, d, e - 1) ELSE e

\* 2 ^ (e - 1) <= n/d < 2 ^ e
Exponent(n, d) == ExponentFrom(n, d, 0)

\* the number in units of 2 ^ q: what is below it, what is left, out of how much
Units(n, d, q) ==
  LET num == IF q < 0 THEN n * Pow(-q) ELSE n
      den == IF q > 0 THEN d * Pow(q) ELSE d
  IN  [low |-> num \div den, rest |-> num % den, whole |-> den]

Ties == {"RNDN", "RNDNA"}

\* the units a mode may choose, of a number with a sign (1 for negative)
Roundings(u, sign, rnd) ==
  LET up == {u.low + 1}
      down == {u.low}
  IN  CASE u.rest = 0 -> down
        [] rnd = "RNDZ" -> down
        [] rnd = "RNDA" -> up
        [] rnd = "RNDU" -> IF sign = 0 THEN up ELSE down
        [] rnd = "RNDD" -> IF sign = 0 THEN down ELSE up
        [] rnd = "RNDF" -> up \cup down
        [] rnd \in Ties ->
             IF 2 * u.rest # u.whole THEN IF 2 * u.rest > u.whole THEN up ELSE down
             ELSE IF rnd = "RNDNA" \/ u.low % 2 = 1 THEN up ELSE down

\* whether a mode takes what is too large to the infinity of its sign
ToInfinity(sign, rnd) == rnd \in {"RNDN", "RNDNA", "RNDA"} \/ (rnd = "RNDU" /\ sign = 0) \/ (rnd = "RNDD" /\ sign = 1)

-----------------------------------------------------------------------------
(* Numbers of libbf.                                                       *)

\* the rational number, without its sign
Num(x) == IF Special(x) THEN 0 ELSE Value(x.tab) * (IF x.expn > Size(x) THEN Pow(x.expn - Size(x)) ELSE 1)
Den(x) == IF Special(x) \/ x.expn >= Size(x) THEN 1 ELSE Pow(Size(x) - x.expn)
IsFinite(x) == x.expn < ExpInf
Minus(x, n) == IF x.sign = 1 THEN -n ELSE n
Abs(n) == IF n < 0 THEN -n ELSE n
\* n/d = m * 2 ^ q
Is(n, d, m, q) == IF q >= 0 THEN n = m * Pow(q) * d ELSE n * Pow(-q) = m * d

\* of an integer
Whole(x) == Num(x) % Den(x) = 0
IntOf(x) == Minus(x, Num(x) \div Den(x))

\* sets of numbers
Mantissas(n) == {Limbs(v, n) : v \in {w \in Base ^ n \div 2..Base ^ n - 1 : w % Base # 0}}
Finite(signs, expns, tabs) == {Bf(s, e, t) : s \in signs, e \in expns, t \in tabs}
Specials == {Zero(0), Zero(1), Infinity(0), Infinity(1), Nan}
=============================================================================
