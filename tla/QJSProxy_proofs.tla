---------------------------- MODULE QJSProxy_proofs ----------------------------
(***************************************************************************)
(* Proofs about QJSProxy, for every set of keys and values and both kinds  *)
(* of properties.                                                          *)
(***************************************************************************)
EXTENDS QJSProxy, TLAPS

ProxyTypes ==
  /\ target \in [Keys -> Props \cup {Absent}]
  /\ value \in [Keys -> Vals \cup {Undef, Absent}]
  /\ fixed \subseteq Keys /\ frozen \subseteq Keys /\ gone \subseteq Keys

BooleanTypes == ext \in BOOLEAN /\ closed \in BOOLEAN /\ revoked \in BOOLEAN

\* What was read of a frozen key is what the target has, nothing was answered to
\* be gone before the proxy was closed, and no prototype but the target's.
MemoryInv ==
  /\ \A k \in Keys : value[k] # Absent => k \in frozen /\ value[k] = target[k].v
  /\ gone # {} => closed
  /\ protoSaid # "none" => closed /\ protoSaid = proto

\* What history holds is true of the target.
TruthInv == ProxyTypes /\ BooleanTypes /\ SaidIsTrue /\ MemoryInv

PInv == TruthInv /\ FixedForGood /\ FrozenForGood /\ ClosedForGood

-----------------------------------------------------------------------------
(* Properties and what they may turn into.                                 *)

\* The fields of a property.
LEMMA PropFields ==
  ASSUME NEW p \in Props
  PROVE  /\ p.kind \in {"data", "acc"} /\ p.c \in BOOLEAN
         /\ p.kind = "data" => p.w \in BOOLEAN /\ p.v \in Vals
  BY DEF Props, Data, Acc

\* A property that is not configurable stays so, and a frozen one stays as it is.
LEMMA MayKeeps ==
  ASSUME NEW p \in Props, p # Absent, ~p.c, NEW q \in Props \cup {Absent}, May(p, q)
  PROVE  /\ q # Absent /\ ~q.c
         /\ p.kind = "data" /\ ~p.w => q = p
  BY PropFields DEF May

-----------------------------------------------------------------------------
(* The types, and what history holds.                                      *)

\* The invariant holds at first.
LEMMA InitPInv == Init => PInv
<1> SUFFICES ASSUME Init
             PROVE  PInv
  OBVIOUS
<1>1. ProxyTypes /\ BooleanTypes
  BY DEF Init, ProxyTypes, BooleanTypes
<1>2. SaidIsTrue /\ MemoryInv
  BY DEF Init, SaidIsTrue, MemoryInv
<1>3. FixedForGood /\ FrozenForGood /\ ClosedForGood
  BY DEF Init, FixedForGood, FrozenForGood, ClosedForGood
<1> QED
  BY <1>1, <1>2, <1>3 DEF PInv, TruthInv

\* Nothing the target may do contradicts what was answered for good.
LEMMA TargetKeepsTruth ==
  ASSUME TruthInv, TargetStep
  PROVE  TruthInv'
<1> USE DEF TruthInv
<1>u. UNCHANGED <<revoked, history>>
  BY DEF TargetStep
<1>1. ASSUME NEW k \in Keys, NEW q \in Props \cup {Absent}, May(target[k], q),
             target' = [target EXCEPT ![k] = q], UNCHANGED <<ext, proto>>
      PROVE  TruthInv'
  <2>1. ProxyTypes' /\ BooleanTypes'
    BY <1>1, <1>u DEF ProxyTypes, BooleanTypes, history
  <2>2. ASSUME NEW x \in Keys, Fixed(x) PROVE Fixed(x)' /\ (Frozen(x) => target'[x] = target[x])
    BY <1>1, <2>2, MayKeeps DEF ProxyTypes, Fixed, Frozen, Has
  <2>3. ASSUME NEW x \in gone PROVE ~ Has(x)'
    BY <1>1, <2>3 DEF MemoryInv, SaidIsTrue, ProxyTypes, Has, May
  <2>4. SaidIsTrue'
    BY <1>1, <1>u, <2>2, <2>3 DEF SaidIsTrue, ProxyTypes, history, Frozen, Fixed
  <2>5. MemoryInv'
    BY <1>1, <1>u, <2>2 DEF MemoryInv, SaidIsTrue, ProxyTypes, history, Frozen
  <2> QED
    BY <2>1, <2>4, <2>5
<1>2. ASSUME ext' = FALSE, UNCHANGED <<target, proto>> PROVE TruthInv'
  BY <1>2, <1>u DEF ProxyTypes, BooleanTypes, SaidIsTrue, MemoryInv, history, Fixed, Frozen, Has
<1>3. ASSUME ext, UNCHANGED <<target, ext>> PROVE TruthInv'
  BY <1>3, <1>u DEF ProxyTypes, BooleanTypes, SaidIsTrue, MemoryInv, history, Fixed, Frozen, Has
<1> QED
  BY <1>1, <1>2, <1>3 DEF TargetStep

-----------------------------------------------------------------------------
(* Each operation: what it adds to history is true of the target, and its  *)
(* answer agrees with what history held.                                   *)

\* js_proxy_has
LEMMA HasKeeps ==
  ASSUME PInv, NEW k \in Keys, NEW r \in BOOLEAN, HasOp(k, r)
  PROVE  PInv'
<1> USE DEF HasOp, Answer, Heard, HasAnswer, object
<1>1. TruthInv'
  BY DEF PInv, TruthInv, ProxyTypes, BooleanTypes, SaidIsTrue, MemoryInv, Fixed, Frozen, Has
<1>2. FixedForGood' /\ FrozenForGood' /\ ClosedForGood'
  BY DEF PInv, TruthInv, SaidIsTrue, FixedForGood, FrozenForGood, ClosedForGood, Answered, Fixed
<1> QED
  BY <1>1, <1>2 DEF PInv

\* js_proxy_get
LEMMA GetKeeps ==
  ASSUME PInv, NEW k \in Keys, NEW v \in Vals \cup {Undef}, GetOp(k, v)
  PROVE  PInv'
<1> USE DEF GetOp, Answer, Heard, GetAnswer, object
<1>1. TruthInv'
  BY DEF PInv, TruthInv, ProxyTypes, BooleanTypes, SaidIsTrue, MemoryInv, Fixed, Frozen, Has
<1>2. FrozenForGood'
  BY DEF PInv, TruthInv, ProxyTypes, SaidIsTrue, MemoryInv, FrozenForGood, Answered
<1>3. FixedForGood' /\ ClosedForGood'
  BY DEF PInv, FixedForGood, ClosedForGood, Answered
<1> QED
  BY <1>1, <1>2, <1>3 DEF PInv

\* js_proxy_set
LEMMA SetKeeps ==
  ASSUME PInv, NEW k \in Keys, NEW v \in Vals, SetOp(k, v)
  PROVE  PInv'
<1> USE DEF SetOp, Answer, SetAnswer, object, history
<1>1. TruthInv'
  BY DEF PInv, TruthInv, ProxyTypes, BooleanTypes, SaidIsTrue, MemoryInv, Fixed, Frozen, Has
<1>2. FrozenForGood'
  BY DEF PInv, TruthInv, ProxyTypes, SaidIsTrue, MemoryInv, FrozenForGood, Answered
<1>3. FixedForGood' /\ ClosedForGood'
  BY DEF PInv, FixedForGood, ClosedForGood, Answered
<1> QED
  BY <1>1, <1>2, <1>3 DEF PInv

\* js_proxy_get_own_property
LEMMA GetOwnKeeps ==
  ASSUME PInv, NEW k \in Keys, NEW d \in Props \cup {Absent}, GetOwnOp(k, d)
  PROVE  PInv'
<1> DEFINE ok == Heard(GetOwnAnswer(k, d))
<1>u. UNCHANGED <<target, ext, proto, revoked, value, closed, protoSaid>>
  BY DEF GetOwnOp, Answer, object
<1>s. /\ said'.op = "getOwn" /\ said'.k = k /\ said'.r = d
      /\ Answered("getOwn")' => ok
  BY DEF GetOwnOp, Answer, Heard, Answered
<1>h. /\ fixed' = IF ok /\ d # Absent /\ ~d.c THEN fixed \cup {k} ELSE fixed
      /\ frozen' = IF ok /\ d # Absent /\ ~d.c /\ d.kind = "data" /\ ~d.w THEN frozen \cup {k} ELSE frozen
      /\ gone' = IF ok /\ d = Absent /\ closed THEN gone \cup {k} ELSE gone
  BY DEF GetOwnOp
<1>1. ASSUME ok, d # Absent, ~d.c
      PROVE  Fixed(k) /\ (d.kind = "data" /\ ~d.w => Frozen(k))
  <2>1. Fixed(k) /\ target[k] \in Props
    BY <1>1 DEF Heard, GetOwnAnswer, PInv, TruthInv, ProxyTypes, Fixed, Has
  <2>2. FlagsAllow(target[k], d) /\ (d.kind = "data" /\ ~d.w => ~(target[k].kind = "data" /\ target[k].w))
    BY <1>1, <2>1 DEF Heard, GetOwnAnswer, Fixed
  <2> QED
    BY <2>1, <2>2, PropFields DEF FlagsAllow, Fixed, Frozen
<1>2. ASSUME ok, d = Absent, closed PROVE ~ Has(k)
  BY <1>2 DEF Heard, GetOwnAnswer, PInv, TruthInv, SaidIsTrue
<1>3. ASSUME ok, NEW x \in fixed, x = k PROVE d # Absent /\ ~d.c
  <2>1. Fixed(k) /\ target[k] \in Props
    BY <1>3 DEF PInv, TruthInv, SaidIsTrue, ProxyTypes, Fixed, Has
  <2>2. d # Absent
    BY <1>3, <2>1 DEF Heard, GetOwnAnswer, Fixed
  <2>3. FlagsAllow(target[k], d) /\ d \in Props
    BY <1>3, <2>1, <2>2 DEF Heard, GetOwnAnswer, Fixed
  <2>4. d.c \in {Absent, FALSE} /\ d.c \in BOOLEAN
    BY <2>1, <2>3, PropFields DEF FlagsAllow, Fixed
  <2>5. Absent \notin BOOLEAN
    BY ProxyAssumption
  <2> QED
    BY <2>2, <2>4, <2>5
<1> HIDE DEF ok
<1>4. ProxyTypes' /\ BooleanTypes'
  BY <1>u, <1>h DEF PInv, TruthInv, ProxyTypes, BooleanTypes
<1>5. SaidIsTrue'
  BY <1>u, <1>h, <1>1, <1>2 DEF PInv, TruthInv, SaidIsTrue, Fixed, Frozen, Has
<1>6. MemoryInv'
  BY <1>u, <1>h DEF PInv, TruthInv, MemoryInv
<1>7. FixedForGood'
  BY <1>s, <1>h, <1>3 DEF FixedForGood, Answered
<1>8. FrozenForGood'
  BY <1>s DEF FrozenForGood, Answered
<1>9. ClosedForGood'
  <2>1. ASSUME ok, k \in gone, closed PROVE d = Absent
    BY <2>1 DEF ok, Heard, GetOwnAnswer, PInv, TruthInv, SaidIsTrue
  <2> QED
    BY <1>s, <1>u, <1>h, <2>1 DEF ClosedForGood, Answered
<1> QED
  BY <1>4, <1>5, <1>6, <1>7, <1>8, <1>9 DEF PInv, TruthInv

\* js_proxy_define_own_property
LEMMA DefineKeeps ==
  ASSUME PInv, NEW k \in Keys, NEW d \in Requests, DefineOp(k, d)
  PROVE  PInv'
<1> DEFINE ok == Heard(DefineAnswer(k, d))
<1>u. UNCHANGED <<target, ext, proto, revoked, frozen, value, closed, gone, protoSaid>>
  BY DEF DefineOp, Answer, object
<1>s. /\ said'.op = "define" /\ said'.k = k
      /\ Answered("define")' => ok
  BY DEF DefineOp, Answer, Heard, Answered
<1>h. fixed' = IF ok /\ d.c = FALSE THEN fixed \cup {k} ELSE fixed
  BY DEF DefineOp
<1>1. ASSUME ok, d.c = FALSE PROVE Fixed(k)
  BY <1>1 DEF Heard, DefineAnswer, Fixed
<1>2. ASSUME ok, closed PROVE k \notin gone
  BY <1>2 DEF Heard, DefineAnswer, PInv, TruthInv, SaidIsTrue
<1> HIDE DEF ok
<1>3. TruthInv'
  BY <1>u, <1>h, <1>1 DEF PInv, TruthInv, ProxyTypes, BooleanTypes, SaidIsTrue, MemoryInv, Fixed, Frozen, Has
<1>4. FixedForGood' /\ FrozenForGood'
  BY <1>s DEF FixedForGood, FrozenForGood, Answered
<1>5. ClosedForGood'
  BY <1>s, <1>u, <1>2 DEF ClosedForGood, Answered
<1> QED
  BY <1>3, <1>4, <1>5 DEF PInv

\* js_proxy_delete_property
LEMMA DeleteKeeps ==
  ASSUME PInv, NEW k \in Keys, DeleteOp(k)
  PROVE  PInv'
<1> USE DEF DeleteOp, Answer, Heard, DeleteAnswer, object
<1>1. TruthInv'
  BY DEF PInv, TruthInv, ProxyTypes, BooleanTypes, SaidIsTrue, MemoryInv, Fixed, Frozen, Has
<1>2. FixedForGood' /\ FrozenForGood' /\ ClosedForGood'
  BY DEF PInv, TruthInv, SaidIsTrue, FixedForGood, FrozenForGood, ClosedForGood, Answered, Fixed
<1> QED
  BY <1>1, <1>2 DEF PInv

\* js_proxy_get_own_property_names
LEMMA NamesKeeps ==
  ASSUME PInv, NEW l, NamesOp(l)
  PROVE  PInv'
<1> USE DEF NamesOp, Answer, Heard, NamesAnswer, object
<1>1. TruthInv'
  BY DEF PInv, TruthInv, ProxyTypes, BooleanTypes, SaidIsTrue, MemoryInv, Fixed, Frozen, Has
<1>2. FixedForGood' /\ FrozenForGood'
  BY DEF PInv, TruthInv, ProxyTypes, SaidIsTrue, FixedForGood, FrozenForGood, Answered, Fixed
<1>3. ClosedForGood'
  BY DEF PInv, TruthInv, ProxyTypes, SaidIsTrue, ClosedForGood, Answered
<1> QED
  BY <1>1, <1>2, <1>3 DEF PInv

\* js_proxy_isExtensible and js_proxy_preventExtensions
LEMMA ClosesKeeps ==
  ASSUME PInv, (\E r \in BOOLEAN : IsExtensibleOp(r)) \/ PreventOp
  PROVE  PInv'
<1>1. /\ UNCHANGED <<target, ext, proto, revoked, fixed, frozen, value, gone, protoSaid>>
      /\ said'.op \in {"isExtensible", "prevent"}
      /\ said'.op = "isExtensible" /\ ~said'.threw => said'.r = ext
  <2>1. ASSUME NEW r \in BOOLEAN, IsExtensibleOp(r)
        PROVE  /\ UNCHANGED <<target, ext, proto, revoked, fixed, frozen, value, gone, protoSaid>>
               /\ said'.op = "isExtensible" /\ (~said'.threw => said'.r = ext)
    <3>1. /\ UNCHANGED <<target, ext, proto, revoked, fixed, frozen, value, gone, protoSaid>>
          /\ said'.op = "isExtensible" /\ said'.r = r
      BY <2>1 DEF IsExtensibleOp, Answer, object
    <3>2. said'.threw = (revoked \/ ~(r = ext))
      BY <2>1 DEF IsExtensibleOp, Answer
    <3> QED
      BY <3>1, <3>2
  <2>2. CASE PreventOp
    BY <2>2 DEF PreventOp, Answer, object
  <2> QED
    BY <2>1, <2>2
<1>2. closed' \in BOOLEAN /\ (closed => closed') /\ (closed' => ~ext)
  <2>0. ext \in BOOLEAN /\ closed \in BOOLEAN /\ (closed => ~ext)
    BY DEF PInv, TruthInv, BooleanTypes, SaidIsTrue
  <2>1. ASSUME NEW r \in BOOLEAN, IsExtensibleOp(r)
        PROVE  closed' = (closed \/ (~revoked /\ r = ext /\ ~r))
    BY <2>1 DEF IsExtensibleOp, Heard
  <2>2. ASSUME PreventOp PROVE closed' = (closed \/ (~revoked /\ ~ext))
    BY <2>2 DEF PreventOp, PreventAnswer, Heard
  <2> QED
    BY <2>0, <2>1, <2>2
<1>4. TruthInv'
  BY <1>1, <1>2 DEF PInv, TruthInv, ProxyTypes, BooleanTypes, SaidIsTrue, MemoryInv, Fixed, Frozen, Has
<1>5. FixedForGood' /\ FrozenForGood'
  BY <1>1 DEF FixedForGood, FrozenForGood, Answered
<1>6. ClosedForGood'
  BY <1>1, <1>2 DEF ClosedForGood, Answered
<1> QED
  BY <1>4, <1>5, <1>6 DEF PInv

\* js_proxy_getPrototypeOf and js_proxy_setPrototypeOf
LEMMA ProtoKeeps ==
  ASSUME PInv, NEW p \in Protos, GetProtoOp(p) \/ SetProtoOp(p)
  PROVE  PInv'
<1>1. /\ UNCHANGED <<target, ext, proto, revoked, fixed, frozen, value, closed, gone>>
      /\ said'.op \in {"getProto", "setProto"} /\ said'.r = p
      /\ ~said'.threw /\ ~ext => p = proto
  <2>1. CASE GetProtoOp(p)
    BY <2>1 DEF GetProtoOp, Answer, ProtoAnswer, object
  <2>2. CASE SetProtoOp(p)
    BY <2>2 DEF SetProtoOp, Answer, ProtoAnswer, object, history
  <2> QED
    BY <2>1, <2>2
<1>3. protoSaid' = protoSaid \/ (closed /\ protoSaid' = proto)
  <2>1. CASE GetProtoOp(p)
    BY <2>1 DEF GetProtoOp, ProtoAnswer, Heard, PInv, TruthInv, SaidIsTrue
  <2>2. CASE SetProtoOp(p)
    BY <2>2 DEF SetProtoOp, history
  <2> QED
    BY <2>1, <2>2
<1>4. TruthInv'
  BY <1>1, <1>3 DEF PInv, TruthInv, ProxyTypes, BooleanTypes, SaidIsTrue, MemoryInv, Fixed, Frozen, Has
<1>5. FixedForGood' /\ FrozenForGood'
  BY <1>1 DEF FixedForGood, FrozenForGood, Answered
<1>6. ClosedForGood'
  BY <1>1, <1>3 DEF PInv, TruthInv, SaidIsTrue, MemoryInv, ClosedForGood, Answered
<1> QED
  BY <1>4, <1>5, <1>6 DEF PInv

\* The target changes, or the proxy is revoked: history and the last answer stay.
LEMMA OthersKeep ==
  ASSUME PInv, TargetStep \/ Revoke \/ UNCHANGED vars
  PROVE  PInv'
<1>1. UNCHANGED <<said, history>>
  BY DEF TargetStep, Revoke, vars
<1>2. FixedForGood' /\ FrozenForGood' /\ ClosedForGood'
  BY <1>1 DEF PInv, FixedForGood, FrozenForGood, ClosedForGood, Answered, history
<1>3. CASE TargetStep
  BY <1>2, <1>3, TargetKeepsTruth DEF PInv
<1>4. CASE Revoke \/ UNCHANGED vars
  <2>1. UNCHANGED <<target, ext, proto, fixed, frozen, value, closed, gone, protoSaid>>
    BY <1>4 DEF Revoke, vars, object, history
  <2>2. revoked' \in BOOLEAN
    BY <1>4 DEF Revoke, vars, PInv, TruthInv, BooleanTypes
  <2>3. TruthInv'
    BY <2>1, <2>2 DEF PInv, TruthInv, ProxyTypes, BooleanTypes, SaidIsTrue, MemoryInv, Fixed, Frozen, Has
  <2> QED
    BY <1>2, <2>3 DEF PInv
<1> QED
  BY <1>3, <1>4

\* The invariant is inductive.
LEMMA Inductive == PInv /\ [Next]_vars => PInv'
  BY HasKeeps, GetKeeps, SetKeeps, GetOwnKeeps, DefineKeeps, DeleteKeeps, NamesKeeps, ClosesKeeps, ProtoKeeps, OthersKeep
     DEF Next, KeyOp

\* What a proxy has answered for good is true for good, of the target and of
\* every later answer, whatever the handler says and the target does meanwhile.
THEOREM AnswersKeptCorrect == Spec => []AnswersKept
<1>1. PInv => AnswersKept
  BY DEF PInv, TruthInv, AnswersKept
<1> QED
  BY <1>1, InitPInv, Inductive, PTL DEF Spec

-----------------------------------------------------------------------------
(* Handlers that answer what the target would say.                         *)

\* An operation that throws only when its answer is refused, and whose honest
\* answers are not, does not throw at honest answers.
LEMMA HonestAnswer ==
  ASSUME NEW op, NEW key, NEW r, NEW ok \in BOOLEAN, NEW honest \in BOOLEAN,
         Answer(op, key, r, ok, honest), honest => ok
  PROVE  HonestNeverThrows'
<1>1. said'.threw = (revoked \/ ~ok) /\ said'.honest = (honest /\ ~revoked)
  BY DEF Answer
<1> QED
  BY <1>1 DEF HonestNeverThrows

\* The checks of descriptors answer yes or no.
LEMMA BooleanAnswers ==
  ASSUME NEW k, NEW d
  PROVE  GetOwnAnswer(k, d) \in BOOLEAN /\ DefineAnswer(k, d) \in BOOLEAN
<1>1. GetOwnAnswer(k, d) \in BOOLEAN
  BY DEF GetOwnAnswer
<1>2. DefineAnswer(k, d) \in BOOLEAN
  BY DEF DefineAnswer
<1> QED
  BY <1>1, <1>2

\* The honest answer of js_proxy_get_own_property is let through.
LEMMA GetOwnHonest ==
  ASSUME ProxyTypes, NEW k \in Keys
  PROVE  GetOwnAnswer(k, target[k])
  BY PropFields DEF ProxyTypes, GetOwnAnswer, FlagsAllow, Has, Fixed

\* A request for what a property is, of js_proxy_define_own_property, is let
\* through, unless the property is writable and not configurable.
LEMMA DefineHonest ==
  ASSUME ProxyTypes, NEW k \in Keys, NEW d \in Requests, Asks(d, target[k]),
         ~(Fixed(k) /\ target[k].kind = "data" /\ target[k].w)
  PROVE  DefineAnswer(k, d)
<1>1. target[k] \in Props /\ Has(k)
  BY DEF ProxyTypes, Asks, Has
<1>2. d.c = Absent \/ d.c = target[k].c
  BY DEF Asks, Requests
<1>3. d.kind = "data" => (d.w = Absent \/ d.w = target[k].w) /\ (d.v = Absent \/ d.v = target[k].v)
  BY DEF Asks, Requests
<1>4. d.kind = "acc" => (d.g = Absent \/ d.g = target[k].g) /\ (d.s = Absent \/ d.s = target[k].s)
  BY DEF Asks, Requests
<1>5. d.kind \in {"generic", target[k].kind}
  BY DEF Asks
<1>6. Absent \notin BOOLEAN
  BY ProxyAssumption
<1>7. FlagsAllow(target[k], d)
  BY <1>1, <1>2, <1>3, <1>5, PropFields DEF FlagsAllow, Fixed
<1> QED
  BY <1>1, <1>2, <1>3, <1>4, <1>5, <1>6, <1>7, PropFields DEF DefineAnswer, Fixed

\* Nothing throws at an honest answer.
LEMMA HonestStep ==
  ASSUME ProxyTypes, HonestNeverThrows, [Next]_vars
  PROVE  HonestNeverThrows'
<1>1. ASSUME NEW k \in Keys, NEW r \in BOOLEAN, HasOp(k, r) PROVE HonestNeverThrows'
  <2>1. r = Has(k) => HasAnswer(k, r)
    BY DEF HasAnswer
  <2> QED
    BY <1>1, <2>1, HonestAnswer DEF HasOp, HasAnswer
<1>2. ASSUME NEW k \in Keys, NEW v \in Vals \cup {Undef}, GetOp(k, v) PROVE HonestNeverThrows'
  <2> DEFINE honest == IF ~Has(k) THEN v = Undef
                       ELSE IF target[k].kind = "data" THEN v = target[k].v ELSE target[k].g = Undef => v = Undef
  <2>1. honest => GetAnswer(k, v)
    BY PropFields DEF GetAnswer, Frozen, Fixed, Has, Lacks, ProxyTypes
  <2>2. Answer("get", k, v, GetAnswer(k, v), honest)
    BY <1>2 DEF GetOp
  <2>3. GetAnswer(k, v) \in BOOLEAN /\ honest \in BOOLEAN
    BY DEF GetAnswer
  <2> HIDE DEF honest
  <2> QED
    BY <2>1, <2>2, <2>3, HonestAnswer
<1>3. ASSUME NEW k \in Keys, NEW v \in Vals, SetOp(k, v) PROVE HonestNeverThrows'
  <2> DEFINE honest == Has(k) /\ target[k].kind = "data" /\ target[k].v = v
  <2>1. honest => SetAnswer(k, v)
    BY DEF SetAnswer, Frozen, Fixed, Has, Lacks
  <2>2. Answer("set", k, v, SetAnswer(k, v), honest)
    BY <1>3 DEF SetOp
  <2>3. SetAnswer(k, v) \in BOOLEAN /\ honest \in BOOLEAN
    BY DEF SetAnswer
  <2> HIDE DEF honest
  <2> QED
    BY <2>1, <2>2, <2>3, HonestAnswer
<1>4. ASSUME NEW k \in Keys, NEW d \in Props \cup {Absent}, GetOwnOp(k, d) PROVE HonestNeverThrows'
  <2>1. d = target[k] => GetOwnAnswer(k, d)
    BY GetOwnHonest
  <2>2. GetOwnAnswer(k, d) \in BOOLEAN
    BY BooleanAnswers
  <2>3. Answer("getOwn", k, d, GetOwnAnswer(k, d), d = target[k])
    BY <1>4 DEF GetOwnOp
  <2> QED
    BY <2>1, <2>2, <2>3, HonestAnswer
<1>5. ASSUME NEW k \in Keys, NEW d \in Requests, DefineOp(k, d) PROVE HonestNeverThrows'
  <2> DEFINE honest == Asks(d, target[k]) /\ ~(Fixed(k) /\ target[k].kind = "data" /\ target[k].w)
  <2>1. honest => DefineAnswer(k, d)
    BY DefineHonest
  <2>2. DefineAnswer(k, d) \in BOOLEAN
    BY BooleanAnswers
  <2>3. Answer("define", k, d.c = FALSE, DefineAnswer(k, d), honest)
    BY <1>5 DEF DefineOp
  <2>4. honest \in BOOLEAN
    OBVIOUS
  <2> HIDE DEF honest
  <2> QED
    BY <2>1, <2>2, <2>3, <2>4, HonestAnswer
<1>6. ASSUME NEW k \in Keys, DeleteOp(k) PROVE HonestNeverThrows'
  <2>1. ~Has(k) => DeleteAnswer(k)
    BY DEF DeleteAnswer
  <2> QED
    BY <1>6, <2>1, HonestAnswer DEF DeleteOp, DeleteAnswer, Has
<1>7. ASSUME NEW l, NamesOp(l) PROVE HonestNeverThrows'
  <2> DEFINE honest == IsInjective(l) /\ ToSet(l) = {k \in Keys : Has(k)}
  <2>1. honest => NamesAnswer(l)
    BY DEF NamesAnswer
  <2>2. NamesAnswer(l) \in BOOLEAN /\ honest \in BOOLEAN
    BY DEF NamesAnswer, IsInjective
  <2>3. Answer("ownKeys", "", l, NamesAnswer(l), honest)
    BY <1>7 DEF NamesOp
  <2> HIDE DEF honest
  <2> QED
    BY <2>1, <2>2, <2>3, HonestAnswer
<1>8. ASSUME NEW r \in BOOLEAN, IsExtensibleOp(r) PROVE HonestNeverThrows'
  BY <1>8, HonestAnswer DEF IsExtensibleOp
<1>9. ASSUME PreventOp PROVE HonestNeverThrows'
  BY <1>9, HonestAnswer DEF PreventOp, PreventAnswer
<1>10. ASSUME NEW p \in Protos, GetProtoOp(p) \/ SetProtoOp(p) PROVE HonestNeverThrows'
  <2>1. p = proto => ProtoAnswer(p)
    BY DEF ProtoAnswer
  <2>2. ProtoAnswer(p) \in BOOLEAN
    BY DEF ProtoAnswer
  <2> QED
    BY <1>10, <2>1, <2>2, HonestAnswer DEF GetProtoOp, SetProtoOp
<1>11. CASE TargetStep \/ Revoke \/ UNCHANGED vars
  BY <1>11 DEF TargetStep, Revoke, vars, HonestNeverThrows
<1> QED
  BY <1>1, <1>2, <1>3, <1>4, <1>5, <1>6, <1>7, <1>8, <1>9, <1>10, <1>11 DEF Next, KeyOp

\* A handler that answers what the target would say makes nothing throw, except
\* a define of a property that is writable and not configurable.
THEOREM HonestNeverThrowsCorrect == Spec => []HonestNeverThrows
<1>1. Init => HonestNeverThrows
  <2>1. ASSUME Init PROVE said.honest = FALSE
    BY <2>1 DEF Init
  <2> QED
    BY <2>1 DEF HonestNeverThrows
<1>2. PInv /\ HonestNeverThrows /\ [Next]_vars => HonestNeverThrows'
  BY HonestStep DEF PInv, TruthInv
<1> QED
  BY <1>1, <1>2, InitPInv, Inductive, PTL DEF Spec
=============================================================================
