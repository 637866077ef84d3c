------------------------------ MODULE QJSProxy ------------------------------
(***************************************************************************)
(* Proxy objects of the QuickJS engine. A handler answers each operation   *)
(* as it likes; js_proxy_* compare the answer with the target and throw    *)
(* when it breaks what a program may rely on. The target changes meanwhile *)
(* by any step an ordinary object allows, the traps' own doing included.   *)
(* What the proxy has answered is remembered, to be held against what it   *)
(* answers later.                                                          *)
(***************************************************************************)
EXTENDS Integers, Sequences, SequencesExt, FiniteSets

CONSTANTS
  Keys, Vals,
  Kinds,    \* the kinds of properties in use: "data", "acc"
  Absent,   \* no property; also an absent field of a descriptor
  Undef     \* undefined, as a value, a getter or a setter

ASSUME ProxyAssumption ==
  /\ Kinds \subseteq {"data", "acc"} /\ Undef \notin Vals
  /\ Absent \notin Vals /\ Absent \notin BOOLEAN /\ Absent \notin {Undef, "f"}

VARIABLES
  target,   \* target[k]: the property of the target, or Absent
  ext,      \* whether the target is extensible
  proto,    \* its prototype
  revoked,  \* is_revoked
  said,     \* the last answer of the proxy
  fixed,    \* history: the keys answered to be not configurable
  frozen,   \* history: those answered to be not writable as well
  value,    \* history: value[k]: the value a frozen key was first read as
  closed,   \* history: the proxy was answered not to be extensible
  gone,     \* history: the keys answered not to exist after that
  protoSaid \* history: the prototype answered after that

object == <<target, ext, proto>>
history == <<fixed, frozen, value, closed, gone, protoSaid>>
vars == <<object, revoked, said, history>>

Protos == {"p", "q"}
Funcs == {Undef, "f"}
Data == [kind : {"data"} \cap Kinds, c : BOOLEAN, w : BOOLEAN, v : Vals]
Acc == [kind : {"acc"} \cap Kinds, c : BOOLEAN, g : Funcs, s : Funcs]
Props == Data \cup Acc

\* the descriptors of a define: fields may be absent
Maybe(s) == s \cup {Absent}
Requests ==
  [kind : {"generic"}, c : Maybe(BOOLEAN)]
  \cup {d \in [kind : {"data"} \cap Kinds, c : Maybe(BOOLEAN), w : Maybe(BOOLEAN), v : Maybe(Vals)] :
          d.w # Absent \/ d.v # Absent}
  \cup {d \in [kind : {"acc"} \cap Kinds, c : Maybe(BOOLEAN), g : Maybe(Funcs), s : Maybe(Funcs)] :
          d.g # Absent \/ d.s # Absent}

Has(k) == target[k] # Absent
Fixed(k) == Has(k) /\ ~target[k].c
Frozen(k) == Fixed(k) /\ target[k].kind = "data" /\ ~target[k].w
Lacks(k, half) == Fixed(k) /\ target[k].kind = "acc" /\ target[k][half] = Undef

-----------------------------------------------------------------------------
(* The target: an ordinary object.                                         *)

\* what JS_DefineProperty and a delete may turn a property into
May(p, q) ==
  IF p = Absent THEN q = Absent \/ ext
  ELSE p.c \/ p = q
       \/ /\ q # Absent /\ p.kind = "data" /\ p.w
          /\ q.kind = "data" /\ ~q.c

TargetStep ==
  /\ \/ \E k \in Keys, q \in Props \cup {Absent} :
          May(target[k], q) /\ target' = [target EXCEPT ![k] = q] /\ UNCHANGED <<ext, proto>>
     \/ ext' = FALSE /\ UNCHANGED <<target, proto>>
     \/ ext /\ proto' \in Protos /\ UNCHANGED <<target, ext>>
  /\ UNCHANGED <<revoked, said, history>>

-----------------------------------------------------------------------------
(* The operations. honest: the answer is what the target would say.        *)

Answer(op, k, r, ok, honest) ==
  /\ said' = [op |-> op, k |-> k, r |-> r, threw |-> revoked \/ ~ok, honest |-> honest /\ ~revoked]
  /\ UNCHANGED <<object, revoked>>
Heard(ok) == ok /\ ~revoked

\* js_proxy_has
HasAnswer(k, r) == r \/ ~Has(k) \/ (target[k].c /\ ext)

HasOp(k, r) ==
  /\ Answer("has", k, r, HasAnswer(k, r), r = Has(k))
  /\ gone' = IF Heard(HasAnswer(k, r)) /\ closed /\ ~r THEN gone \cup {k} ELSE gone
  /\ UNCHANGED <<fixed, frozen, value, closed, protoSaid>>

\* Fault: the setter is looked at
GetAnswer1(k, v) == (Frozen(k) => v = target[k].v) /\ (Lacks(k, "s") => v = Undef)

\* js_proxy_get
GetAnswer(k, v) == (Frozen(k) => v = target[k].v) /\ (Lacks(k, "g") => v = Undef)

GetOp(k, v) ==
  /\ Answer("get", k, v, GetAnswer(k, v),
            IF ~Has(k) THEN v = Undef
            ELSE IF target[k].kind = "data" THEN v = target[k].v ELSE target[k].g = Undef => v = Undef)
  /\ value' = IF Heard(GetAnswer(k, v)) /\ k \in frozen /\ value[k] = Absent
              THEN [value EXCEPT ![k] = v] ELSE value
  /\ UNCHANGED <<fixed, frozen, closed, gone, protoSaid>>

\* js_proxy_set, with a trap that returns true
SetAnswer(k, v) == (Frozen(k) => v = target[k].v) /\ ~Lacks(k, "s")

SetOp(k, v) ==
  /\ Answer("set", k, v, SetAnswer(k, v), Has(k) /\ target[k].kind = "data" /\ target[k].v = v)
  /\ UNCHANGED history

\* check_define_prop_flags, for the fields in use
FlagsAllow(p, d) ==
  p.c \/ /\ d.c \in {Absent, FALSE}
         /\ d.kind # "generic" => d.kind = p.kind
         /\ (d.kind = "data" /\ p.kind = "data" /\ ~p.w) => d.w \in {Absent, FALSE}

\* Fault: a property may be answered to be not configurable before it is
GetOwnAnswer0(k, d) ==
  IF d = Absent THEN ~Has(k) \/ (target[k].c /\ ext)
  ELSE IF Has(k) THEN FlagsAllow(target[k], d) ELSE ext

\* js_proxy_get_own_property
GetOwnAnswer(k, d) ==
  IF d = Absent THEN ~Has(k) \/ (target[k].c /\ ext)
  ELSE /\ IF Has(k) THEN FlagsAllow(target[k], d) ELSE ext
       /\ ~d.c => /\ Fixed(k)
                  /\ (d.kind = "data" /\ ~d.w) => ~(target[k].kind = "data" /\ target[k].w)

GetOwnOp(k, d) ==
  LET ok == Heard(GetOwnAnswer(k, d))
  IN  /\ Answer("getOwn", k, d, GetOwnAnswer(k, d), d = target[k])
      /\ fixed' = IF ok /\ d # Absent /\ ~d.c THEN fixed \cup {k} ELSE fixed
      /\ frozen' = IF ok /\ d # Absent /\ ~d.c /\ d.kind = "data" /\ ~d.w THEN frozen \cup {k} ELSE frozen
      /\ gone' = IF ok /\ d = Absent /\ closed THEN gone \cup {k} ELSE gone
      /\ UNCHANGED <<value, closed, protoSaid>>

\* js_proxy_define_own_property, with a trap that returns true
DefineAnswer(k, d) ==
  LET hardens == d.c = FALSE
      p == target[k]
  IN  IF ~Has(k) THEN ext /\ ~hardens
      ELSE /\ FlagsAllow(p, d) /\ ~(p.c /\ hardens)
           /\ (d.kind = "acc" /\ ~p.c) => d.g \in {Absent, p.g} /\ d.s \in {Absent, p.s}
           /\ (d.kind = "data" /\ d.v # Absent /\ ~p.c) =>
                IF p.w THEN d.w = TRUE ELSE d.v = p.v
           /\ ~(d.kind = "data" /\ d.w # Absent /\ ~p.c /\ p.w)

\* the request asks for what the target has
Asks(d, p) == /\ p # Absent /\ d.kind \in {"generic", p.kind}
              /\ \A f \in DOMAIN d \ {"kind"} : d[f] = Absent \/ d[f] = p[f]

DefineOp(k, d) ==
  LET ok == Heard(DefineAnswer(k, d))
  IN  /\ Answer("define", k, d.c = FALSE, DefineAnswer(k, d),
                Asks(d, target[k]) /\ ~(Fixed(k) /\ target[k].kind = "data" /\ target[k].w))
      /\ fixed' = IF ok /\ d.c = FALSE THEN fixed \cup {k} ELSE fixed
      /\ UNCHANGED <<frozen, value, closed, gone, protoSaid>>

\* js_proxy_delete_property, with a trap that returns true
DeleteAnswer(k) == Has(k) => target[k].c /\ ext

DeleteOp(k) ==
  /\ Answer("delete", k, TRUE, DeleteAnswer(k), ~Has(k))
  /\ gone' = IF Heard(DeleteAnswer(k)) /\ closed THEN gone \cup {k} ELSE gone
  /\ UNCHANGED <<fixed, frozen, value, closed, protoSaid>>

\* js_proxy_get_own_property_names
NamesAnswer(l) ==
  /\ IsInjective(l)
  /\ \A k \in Keys : Has(k) /\ (~target[k].c \/ ~ext) => k \in ToSet(l)
  /\ ~ext => \A k \in ToSet(l) : Has(k)

NamesOp(l) ==
  /\ Answer("ownKeys", "", l, NamesAnswer(l), IsInjective(l) /\ ToSet(l) = {k \in Keys : Has(k)})
  /\ gone' = IF Heard(NamesAnswer(l)) /\ closed THEN gone \cup (Keys \ ToSet(l)) ELSE gone
  /\ UNCHANGED <<fixed, frozen, value, closed, protoSaid>>

\* js_proxy_isExtensible
IsExtensibleOp(r) ==
  /\ Answer("isExtensible", "", r, r = ext, r = ext)
  /\ closed' = (closed \/ (Heard(r = ext) /\ ~r))
  /\ UNCHANGED <<fixed, frozen, value, gone, protoSaid>>

\* js_proxy_preventExtensions, with a trap that returns true
PreventAnswer == ~ext

PreventOp ==
  /\ Answer("prevent", "", TRUE, PreventAnswer, ~ext)
  /\ closed' = (closed \/ Heard(PreventAnswer))
  /\ UNCHANGED <<fixed, frozen, value, gone, protoSaid>>

\* js_proxy_getPrototypeOf; js_proxy_setPrototypeOf with a trap that returns true
ProtoAnswer(p) == ~ext => p = proto

GetProtoOp(p) ==
  /\ Answer("getProto", "", p, ProtoAnswer(p), p = proto)
  /\ protoSaid' = IF Heard(ProtoAnswer(p)) /\ closed THEN p ELSE protoSaid
  /\ UNCHANGED <<fixed, frozen, value, closed, gone>>

SetProtoOp(p) ==
  /\ Answer("setProto", "", p, ProtoAnswer(p), p = proto)
  /\ UNCHANGED history

\* js_proxy_revoke
Revoke == revoked' = TRUE /\ UNCHANGED <<object, said, history>>

-----------------------------------------------------------------------------

Init ==
  /\ target = [k \in Keys |-> Absent] /\ ext = TRUE /\ proto \in Protos /\ revoked = FALSE
  /\ said = [op |-> "none", k |-> "", r |-> "", threw |-> FALSE, honest |-> FALSE]
  /\ fixed = {} /\ frozen = {} /\ value = [k \in Keys |-> Absent]
  /\ closed = FALSE /\ gone = {} /\ protoSaid = "none"

KeyOp(k) ==
  \/ \E r \in BOOLEAN : HasOp(k, r)
  \/ \E v \in Vals \cup {Undef} : GetOp(k, v)
  \/ \E v \in Vals : SetOp(k, v)
  \/ \E d \in Props \cup {Absent} : GetOwnOp(k, d)
  \/ \E d \in Requests : DefineOp(k, d)
  \/ DeleteOp(k)

Next ==
  \/ TargetStep \/ Revoke
  \/ \E k \in Keys : KeyOp(k)
  \/ \E l \in SeqOf(Keys, Cardinality(Keys)) : NamesOp(l)
  \/ \E r \in BOOLEAN : IsExtensibleOp(r)
  \/ PreventOp
  \/ \E p \in Protos : GetProtoOp(p) \/ SetProtoOp(p)

Spec == Init /\ [][Next]_vars

-----------------------------------------------------------------------------
(* Properties.                                                             *)

Answered(op) == said.op = op /\ ~said.threw

\* A key once answered to be not configurable is never answered to be missing,
\* configurable again, or deleted.
FixedForGood ==
  \A k \in fixed :
    /\ Answered("has") /\ said.k = k => said.r
    /\ Answered("getOwn") /\ said.k = k => IF said.r = Absent THEN FALSE ELSE ~said.r.c
    /\ Answered("ownKeys") => k \in ToSet(said.r)
    /\ ~(Answered("delete") /\ said.k = k)

\* A key once answered to be frozen is always read as one value, and set to
\* no other.
FrozenForGood ==
  \A k \in frozen :
    value[k] # Absent /\ (Answered("get") \/ Answered("set")) /\ said.k = k => said.r = value[k]

\* A proxy once answered not to be extensible stays so, gets no keys and keeps
\* its prototype.
ClosedForGood ==
  closed =>
    /\ Answered("isExtensible") => ~said.r
    /\ Answered("getOwn") /\ said.k \in gone => said.r = Absent
    /\ Answered("ownKeys") => ToSet(said.r) \cap gone = {}
    /\ Answered("define") => said.k \notin gone
    /\ protoSaid # "none" /\ (Answered("getProto") \/ Answered("setProto")) => said.r = protoSaid

\* What was answered for good is true of the target for good.
SaidIsTrue ==
  /\ \A k \in fixed : Fixed(k)
  /\ \A k \in frozen : Frozen(k)
  /\ closed => ~ext
  /\ \A k \in gone : ~Has(k)

\* A handler that answers what the target would say makes nothing throw. (A
\* define of a property that is writable and not configurable is left out: the
\* code refuses some that the target accepts.)
HonestNeverThrows == said.honest => ~said.threw

\* What a proxy has answered for good is true for good, of the target and of
\* every later answer, whatever the handler says.
AnswersKept == SaidIsTrue /\ FixedForGood /\ FrozenForGood /\ ClosedForGood
=============================================================================
