--------------------------- MODULE OrdinaryObjects ---------------------------
(***************************************************************************)
(* What the language says of the properties of ordinary objects, arrays,   *)
(* the arguments object of a function with mapped arguments and module     *)
(* namespaces: validate and apply a descriptor, set, delete, prevent       *)
(* extensions. An object is a function from its keys to properties.        *)
(***************************************************************************)
EXTENDS Integers, Sequences, SequencesExt, FiniteSets

CONSTANTS
  Indices,      \* the keys that are array indices
  Names,        \* other keys
  Length        \* the key of an array's length

KeysAssumption == Indices \subseteq Nat /\ Length \notin Indices \cup Names /\ Indices \cap Names = {}

PropertyKeys == Indices \cup Names \cup {Length}

Undefined == -1
NoFunc == 0

\* properties: data or accessor; attributes W, E, C
Data(v, on) == [data |-> TRUE, v |-> v, get |-> NoFunc, set |-> NoFunc, on |-> on]
Accessor(g, s, on) == [data |-> FALSE, v |-> Undefined, get |-> g, set |-> s, on |-> on]
AllOn == {"W", "E", "C"}
Missing == Data(-2, {})

\* descriptors: has names the fields that are present
Descriptor(has, v, g, s, on) == [has |-> has, v |-> v, get |-> g, set |-> s, on |-> on]
IsAccessor(d) == d.has \cap {"get", "set"} # {}
IsData(d) == d.has \cap {"value", "W"} # {}

\* what applying d makes of a property that it may change
Applied(p, d) ==
  LET base == IF IsAccessor(d) /\ p.data THEN Accessor(NoFunc, NoFunc, p.on \ {"W"})
              ELSE IF IsData(d) /\ ~p.data THEN Data(Undefined, p.on \ {"W"})
              ELSE p
  IN  [base EXCEPT !.v = IF "value" \in d.has THEN d.v ELSE @,
                   !.get = IF "get" \in d.has THEN d.get ELSE @,
                   !.set = IF "set" \in d.has THEN d.set ELSE @,
                   !.on = (@ \ d.has) \cup d.on]

\* a property that is not configurable changes only its value, and loses only its writable attribute
Allowed(p, d) ==
  \/ "C" \in p.on
  \/ /\ "C" \notin d.on
     /\ "E" \in d.has => ("E" \in d.on) = ("E" \in p.on)
     /\ IsAccessor(d) => ~p.data /\ ("get" \in d.has => d.get = p.get) /\ ("set" \in d.has => d.set = p.set)
     /\ IsData(d) => p.data
     /\ (p.data /\ "W" \notin p.on) => "W" \notin d.on /\ ("value" \in d.has => d.v = p.v)

Created(d) == Applied(IF IsAccessor(d) THEN Accessor(NoFunc, NoFunc, {}) ELSE Data(Undefined, {}), d)

\* an object: its properties, the order they were made in, whether it may get
\* more, and for arguments the variable the mapped one is an alias of
Answer(o, r) == [o |-> o, r |-> r]
Put(o, k, p) == [o EXCEPT !.props[k] = p, !.order = IF o.props[k] = Missing THEN Append(@, k) ELSE @]

OrdinaryDefine(o, k, d) ==
  IF o.props[k] = Missing
  THEN IF o.ext THEN Answer(Put(o, k, Created(d)), TRUE) ELSE Answer(o, FALSE)
  ELSE IF Allowed(o.props[k], d) THEN Answer(Put(o, k, Applied(o.props[k], d)), TRUE)
  ELSE Answer(o, FALSE)

\* a property becomes absent
RemoveKeys(o, ks) ==
  [o EXCEPT !.props = [k \in DOMAIN @ |-> IF k \in ks THEN Missing ELSE @[k]], !.order = SelectSeq(@, LAMBDA k : k \notin ks)]

OrdinaryDelete(o, k) ==
  IF o.props[k] = Missing THEN Answer(o, TRUE)
  ELSE IF "C" \in o.props[k].on THEN Answer(RemoveKeys(o, {k}), TRUE)
  ELSE Answer(o, FALSE)

\* the elements at or after a new length are deleted from the end, up to one that cannot be
ArraySetLength(o, d) ==
  LET old == o.props[Length]
      stuck == {i \in Indices : i >= d.v /\ o.props[i] # Missing /\ "C" \notin o.props[i].on}
      len == IF stuck = {} THEN d.v ELSE 1 + CHOOSE i \in stuck : \A j \in stuck : j <= i
      new == OrdinaryDefine(o, Length, [d EXCEPT !.v = len])
  IN  IF "value" \notin d.has \/ d.v >= old.v THEN OrdinaryDefine(o, Length, d)
      ELSE IF "W" \notin old.on THEN Answer(o, FALSE)
      ELSE IF ~Allowed(old, d) THEN Answer(o, FALSE)
      ELSE Answer(RemoveKeys(new.o, {i \in Indices : i >= len}), stuck = {})

ArrayDefine(o, k, d) ==
  IF k = Length THEN ArraySetLength(o, d)
  ELSE IF k \notin Indices THEN OrdinaryDefine(o, k, d)
  ELSE IF k >= o.props[Length].v /\ "W" \notin o.props[Length].on THEN Answer(o, FALSE)
  ELSE LET a == OrdinaryDefine(o, k, d)
       IN  IF a.r /\ k >= o.props[Length].v THEN [a EXCEPT !.o.props[Length].v = k + 1] ELSE a

\* the value of a mapped argument is that of the variable
Current(o, k) == IF k \in o.mapped THEN [o.props[k] EXCEPT !.v = o.var] ELSE o.props[k]

ArgumentsDefine(o, k, d) ==
  IF k \notin o.mapped THEN OrdinaryDefine(o, k, d)
  ELSE LET now == [o EXCEPT !.props[k] = Current(o, k)]
           a == OrdinaryDefine(now, k, d)
           value == IF "value" \in d.has THEN d.v ELSE o.var
       IN  IF ~a.r THEN Answer(o, FALSE)
           ELSE IF IsAccessor(d) THEN [a EXCEPT !.o.mapped = @ \ {k}]
           ELSE Answer([a.o EXCEPT !.var = value, !.mapped = IF "W" \in d.has /\ "W" \notin d.on THEN @ \ {k} ELSE @], TRUE)

\* a module namespace accepts only what changes nothing
NamespaceDefine(o, k, d) ==
  IF o.props[k] = Missing THEN Answer(o, FALSE)
  ELSE Answer(o, /\ "C" \notin d.on /\ ("E" \in d.has => "E" \in d.on) /\ ~IsAccessor(d)
                 /\ ("W" \in d.has => "W" \in d.on) /\ ("value" \in d.has => d.v = o.var))

DefineOwnProperty(o, k, d) ==
  CASE o.class = "array" -> ArrayDefine(o, k, d)
    [] o.class = "arguments" -> ArgumentsDefine(o, k, d)
    [] o.class = "namespace" -> NamespaceDefine(o, k, d)
    [] OTHER -> OrdinaryDefine(o, k, d)

Delete(o, k) ==
  LET a == OrdinaryDelete(o, k)
  IN  IF a.r THEN [a EXCEPT !.o.mapped = @ \ {k}] ELSE a

\* a property found in the chain of prototypes, or none
Holder(objs, chain, k) ==
  IF \E i \in DOMAIN chain : objs[chain[i]].props[k] # Missing
  THEN chain[CHOOSE i \in DOMAIN chain : objs[chain[i]].props[k] # Missing
                                         /\ \A j \in 1..(i - 1) : objs[chain[j]].props[k] = Missing]
  ELSE "none"

\* a value, or the getter that is called with the receiver
Got(v, getter) == [v |-> v, getter |-> getter]
Get(objs, chain, k) ==
  LET h == Holder(objs, chain, k)
      p == Current(objs[h], k)
  IN  IF h = "none" THEN Got(Undefined, NoFunc)
      ELSE IF p.data THEN Got(p.v, NoFunc) ELSE Got(Undefined, p.get)

\* a change, or the setter that is called with the receiver
Changed(objs, r) == [objs |-> objs, r |-> r, setter |-> NoFunc]

Set(objs, chain, k, v, receiver) ==
  LET h == Holder(objs, chain, k)
      p == IF h = "none" THEN Data(Undefined, AllOn) ELSE objs[h].props[k]
      own == objs[receiver].props[k]
      d == IF own = Missing THEN Descriptor(AllOn \cup {"value"}, v, NoFunc, NoFunc, AllOn)
           ELSE Descriptor({"value"}, v, NoFunc, NoFunc, {})
      a == DefineOwnProperty(objs[receiver], k, d)
  IN  IF h # "none" /\ objs[h].class = "namespace" THEN Changed(objs, FALSE)
      ELSE IF ~p.data THEN [Changed(objs, p.set # NoFunc) EXCEPT !.setter = p.set]
      ELSE IF "W" \notin p.on THEN Changed(objs, FALSE)
      ELSE IF own # Missing /\ (~own.data \/ "W" \notin own.on) THEN Changed(objs, FALSE)
      ELSE Changed([objs EXCEPT ![receiver] = a.o], a.r)

PreventExtensions(o) == [o EXCEPT !.ext = FALSE]

\* the indices in order, then the others in the order they were made in
OwnKeys(o) ==
  SetToSortSeq({i \in Indices : o.props[i] # Missing}, <) \o SelectSeq(o.order, LAMBDA k : k \notin Indices)

\* every property loses C, and W when it is a data property; a namespace refuses to lose W
Integrity(o, freeze) ==
  LET closed == PreventExtensions(o)
      lost(k) == IF o.props[k] = Missing THEN Missing
                 ELSE [Current(o, k) EXCEPT !.on = @ \ (IF freeze THEN {"C", "W"} ELSE {"C"})]
  IN  IF o.class = "namespace" THEN Answer(closed, ~freeze \/ \A k \in DOMAIN o.props : o.props[k] = Missing)
      ELSE Answer([closed EXCEPT !.props = [k \in DOMAIN @ |-> lost(k)], !.mapped = IF freeze THEN {} ELSE @], TRUE)

TestIntegrity(o, frozen) ==
  ~o.ext /\ \A k \in DOMAIN o.props : o.props[k].on \cap (IF frozen THEN {"C", "W"} ELSE {"C"}) = {}
=============================================================================
