------------------------------ MODULE QJSObject ------------------------------
(***************************************************************************)
(* The properties of objects as QuickJS keeps them: slots in the order of  *)
(* the shape, deleted slots that are removed later, elements of fast       *)
(* arrays beside them, accessors, references to variables and properties   *)
(* made on first use; and what defining, setting, deleting and listing do. *)
(* Every operation is also applied to the objects of OrdinaryObjects.      *)
(***************************************************************************)
EXTENDS OrdinaryObjects, Folds, TLC

CONSTANTS
  Chain,        \* for each object, itself and its prototypes
  Initial,      \* the object at the start
  Values,       \* values of properties
  Descriptors,  \* descriptors given to defineProperty
  Defined,      \* the objects whose properties are defined with a descriptor
  Closable,     \* the objects that may become not extensible
  Receivers,    \* pairs of an object and the receiver of a set
  CompactAt,    \* deleted slots an object may have
  MaxSlots      \* bound on the slots

VARIABLES
  heap,         \* the objects of the engine
  objs,         \* the objects of the language
  agree         \* whether the last results were the same

vars == <<heap, objs, agree>>

Objects == DOMAIN Chain

\* kinds of slots: JS_PROP_TMASK and JS_PROP_LENGTH
Slot(k, kind, v, g, s, on) == [key |-> k, kind |-> kind, v |-> v, get |-> g, set |-> s, on |-> on]
Hole == Slot(-1, "deleted", Undefined, NoFunc, NoFunc, {})

Live(ob) == {i \in DOMAIN ob.slots : ob.slots[i].kind # "deleted"}

\* find_own_property
Find(ob, k) == IF \E i \in Live(ob) : ob.slots[i].key = k THEN CHOOSE i \in Live(ob) : ob.slots[i].key = k ELSE 0
Element(ob, k) == k \in Indices /\ k < Len(ob.values)

Done(ob, r) == [ob |-> ob, r |-> r]
Refused(ob) == Done(ob, FALSE)

\* add_property
Add(ob, s) == [ob EXCEPT !.slots = Append(@, s), !.small = @ \/ s.key \in Indices]

\* convert_fast_array_to_array
Slow(ob) ==
  [FoldLeft(LAMBDA o, i : Add(o, Slot(i - 1, "normal", ob.values[i], NoFunc, NoFunc, AllOn)), ob, [i \in DOMAIN ob.values |-> i])
     EXCEPT !.fast = FALSE, !.values = <<>>]

\* compact_properties
Compact(ob) ==
  IF ob.deleted >= CompactAt /\ ob.deleted >= Len(ob.slots) \div 2
  THEN [ob EXCEPT !.slots = SelectSeq(@, LAMBDA s : s.kind # "deleted"), !.deleted = 0]
  ELSE ob

\* Fault: an element in the middle leaves a hole that reads as undefined
DeleteProperty0(ob, k) ==
  LET i == Find(ob, k)
  IN  IF i # 0 THEN IF "C" \notin ob.slots[i].on THEN Refused(ob) ELSE Done(Compact([ob EXCEPT !.slots[i] = Hole, !.deleted = @ + 1]), TRUE)
      ELSE IF ob.fast /\ Element(ob, k) THEN Done([ob EXCEPT !.values = SubSeq(@, 1, k)], TRUE)
      ELSE Done(ob, TRUE)

\* delete_property: the last element is dropped, another one makes the array a slow one
DeleteProperty(ob, k) ==
  LET slow == ob.fast /\ Element(ob, k) /\ k < Len(ob.values) - 1
      o == IF slow THEN Slow(ob) ELSE ob
      i == Find(o, k)
  IN  IF i # 0 THEN IF "C" \notin o.slots[i].on THEN Refused(o)
                    ELSE Done(Compact([o EXCEPT !.slots[i] = Hole, !.deleted = @ + 1]), TRUE)
      ELSE IF ob.fast /\ Element(ob, k) THEN Done([ob EXCEPT !.values = Front(@)], TRUE)
      ELSE Done(ob, TRUE)

-----------------------------------------------------------------------------
(* Arrays. The length is the first slot.                                   *)

LengthOf(ob) == ob.slots[1].v
WithLength(ob, n) == [ob EXCEPT !.slots[1].v = n]
Writable(s) == "W" \in s.on

\* the elements from the end down to a length, up to one that stays
Shorten(ob, cur, len) ==
  LET kept == {i \in len..(cur - 1) : Find(ob, i) # 0 /\ "C" \notin ob.slots[Find(ob, i)].on}
      stop == IF kept = {} THEN len ELSE 1 + CHOOSE i \in kept : \A j \in kept : j <= i
      down == [n \in 1..(cur - stop) |-> cur - n]
  IN  [ob |-> FoldLeft(LAMBDA o, i : DeleteProperty(o, i).ob, ob, down), len |-> stop]

\* the same by two passes over the slots; the second goes on at the same
\* position when the deleted slots have been removed
Sweep(ob, len) ==
  LET kept == {i \in Live(ob) : ob.slots[i].key \in Indices /\ ob.slots[i].key >= len /\ "C" \notin ob.slots[i].on}
      stop == IF kept = {} THEN len ELSE 1 + CHOOSE k \in {ob.slots[i].key : i \in kept} : \A j \in kept : ob.slots[j].key <= k
      step(o, i) == IF i \in Live(o) /\ o.slots[i].key \in Indices /\ o.slots[i].key >= stop THEN DeleteProperty(o, o.slots[i].key).ob ELSE o
  IN  [ob |-> FoldLeft(step, ob, [i \in DOMAIN ob.slots |-> i]), len |-> stop]

\* set_array_length: of a slow array either way, after the number of its slots
Resized(new, len) == Done(WithLength(new.ob, new.len), new.len = len)

SetArrayLength(ob, len) ==
  LET cur == LengthOf(ob)
  IN  IF ~Writable(ob.slots[1]) THEN Refused(ob)
      ELSE IF ob.fast
      THEN Done(WithLength([ob EXCEPT !.values = SubSeq(@, 1, IF len < Len(@) THEN len ELSE Len(@))], len), TRUE)
      ELSE Resized(IF len >= cur THEN [ob |-> ob, len |-> len]
                   ELSE IF cur - len <= Len(ob.slots) THEN Shorten(ob, cur, len) ELSE Sweep(ob, len), len)

AddFastArrayElement(ob, v) ==
  LET n == Len(ob.values) + 1
  IN  IF n > LengthOf(ob) /\ ~Writable(ob.slots[1]) THEN Refused(ob)
      ELSE Done([WithLength(ob, IF n > LengthOf(ob) THEN n ELSE LengthOf(ob)) EXCEPT !.values = Append(@, v)], TRUE)

-----------------------------------------------------------------------------
(* JS_CreateProperty, JS_DefineProperty.                                   *)

\* get_prop_flags
PropFlags(d, default) == (default \ d.has) \cup d.on

NewSlot(k, d) ==
  IF IsAccessor(d) THEN Slot(k, "getset", Undefined, IF "get" \in d.has THEN d.get ELSE NoFunc, IF "set" \in d.has THEN d.set ELSE NoFunc, d.on \ {"W"})
  ELSE Slot(k, "normal", IF "value" \in d.has THEN d.v ELSE Undefined, NoFunc, NoFunc, d.on)

AddNew(ob, k, d) == IF ob.ext THEN Done(Add(ob, NewSlot(k, d)), TRUE) ELSE Refused(ob)

\* the length of a slow array grows before the property is added
CreateIndex(ob, k, d) ==
  IF k + 1 > LengthOf(ob)
  THEN IF ~Writable(ob.slots[1]) THEN Refused(ob) ELSE AddNew(WithLength(ob, k + 1), k, d)
  ELSE AddNew(ob, k, d)

CreateProperty(ob, k, d) ==
  IF ob.class # "array" \/ k \notin Indices THEN AddNew(ob, k, d)
  ELSE IF ~ob.fast THEN CreateIndex(ob, k, d)
  ELSE IF k # Len(ob.values) THEN CreateIndex(Slow(ob), k, d)
  ELSE IF ~ob.ext THEN Refused(ob)
  ELSE IF IsAccessor(d) \/ PropFlags(d, {}) # AllOn THEN CreateIndex(Slow(ob), k, d)
  ELSE AddFastArrayElement(ob, IF "value" \in d.has THEN d.v ELSE Undefined)

CheckDefinePropFlags(s, d) ==
  "C" \notin s.on =>
    /\ "C" \notin d.on
    /\ "E" \in d.has => ("E" \in d.on) = ("E" \in s.on)
    /\ (IsAccessor(d) \/ IsData(d)) => IsAccessor(d) = (s.kind = "getset")
    /\ (IsData(d) /\ ~IsAccessor(d) /\ s.kind # "getset" /\ ~Writable(s)) => "W" \notin d.on

\* js_update_property_flags at the end
Attributes(ob, i, d) ==
  Done([ob EXCEPT !.slots[i].on = (@ \ (d.has \cap {"C", "E"})) \cup (d.on \cap {"C", "E"})], TRUE)

\* a property becomes an accessor, or an accessor gets other functions
DefineAccessor(ob, i, d) ==
  LET s == ob.slots[i]
      s1 == IF s.kind = "getset" THEN s ELSE Slot(s.key, "getset", Undefined, NoFunc, NoFunc, s.on \ {"W"})
      s2 == [s1 EXCEPT !.get = IF "get" \in d.has THEN d.get ELSE @, !.set = IF "set" \in d.has THEN d.set ELSE @]
  IN  IF s.kind = "getset" /\ "C" \notin s.on /\ (("get" \in d.has /\ d.get # s.get) \/ ("set" \in d.has /\ d.set # s.set))
      THEN Refused(ob) ELSE Attributes([ob EXCEPT !.slots[i] = s2], i, d)

LosesWritable(d) == "W" \in d.has /\ "W" \notin d.on

\* a reference to a variable: of a mapped argument, or of a module namespace
DefineReference(ob, i, d) ==
  LET o == IF "value" \in d.has THEN [ob EXCEPT !.var = d.v] ELSE ob
      s == o.slots[i]
  IN  IF ob.class = "namespace"
      THEN IF ("value" \in d.has /\ d.v # ob.var) \/ LosesWritable(d) THEN Refused(ob) ELSE Attributes(ob, i, d)
      ELSE Attributes(IF LosesWritable(d) THEN [o EXCEPT !.slots[i] = Slot(s.key, "normal", o.var, NoFunc, NoFunc, s.on \ {"W"})] ELSE o, i, d)

DefineLength(ob, d) ==
  [(IF "value" \in d.has THEN SetArrayLength(ob, d.v) ELSE Done(ob, TRUE))
     EXCEPT !.ob.slots[1].on = IF LosesWritable(d) THEN @ \ {"W"} ELSE @]

DefineData(ob, i, d) ==
  LET s == ob.slots[i]
      s0 == IF s.kind = "getset" THEN Slot(s.key, "normal", Undefined, NoFunc, NoFunc, s.on \ {"W"}) ELSE s
      s1 == [s0 EXCEPT !.v = IF "value" \in d.has THEN d.v ELSE @,
                       !.on = IF "W" \in d.has THEN (@ \ {"W"}) \cup (d.on \cap {"W"}) ELSE @]
  IN  IF s.kind \in {"normal", "length"} /\ s.on \cap {"C", "W"} = {} /\ "value" \in d.has THEN Done(ob, d.v = s.v)
      ELSE IF s.kind = "reference" THEN DefineReference(ob, i, d)
      ELSE IF s.kind = "length" THEN DefineLength(ob, d)
      ELSE Attributes([ob EXCEPT !.slots[i] = s1], i, d)

\* JS_AutoInitProperty
AutoInit(ob, i) == IF i # 0 /\ ob.slots[i].kind = "autoinit" THEN [ob EXCEPT !.slots[i].kind = "normal"] ELSE ob

DefineSlot(ob, i, d) ==
  IF ~CheckDefinePropFlags(ob.slots[i], d) THEN Refused(ob)
  ELSE LET o == AutoInit(ob, i)
       IN  IF IsAccessor(d) THEN DefineAccessor(o, i, d)
           ELSE IF IsData(d) THEN DefineData(o, i, d)
           ELSE Attributes(o, i, d)

DefineProperty(ob, k, d) ==
  LET element == Find(ob, k) = 0 /\ ob.fast /\ Element(ob, k)
      o == IF element THEN Slow(ob) ELSE ob
  IN  IF element /\ ~IsAccessor(d) /\ PropFlags(d, AllOn) = AllOn
      THEN Done(IF "value" \in d.has THEN [ob EXCEPT !.values[k + 1] = d.v] ELSE ob, TRUE)
      ELSE IF Find(o, k) # 0 THEN DefineSlot(o, Find(o, k), d)
      ELSE CreateProperty(ob, k, d)

-----------------------------------------------------------------------------
(* JS_SetPropertyInternal, JS_SetPropertyValue, JS_GetPropertyInternal.    *)

After(h, o, a) == [heap |-> [h EXCEPT ![o] = a.ob], r |-> a.r, setter |-> NoFunc]
Stops(h, r, setter) == [heap |-> h, r |-> r, setter |-> setter]

WholeDescriptor(v) == Descriptor(AllOn \cup {"value"}, v, NoFunc, NoFunc, AllOn)
ValueDescriptor(v) == Descriptor({"value"}, v, NoFunc, NoFunc, {})

\* the property is not found in the chain, or may be shadowed: it is made in the
\* receiver, or changed there
SetInReceiver(h, o, k, v, receiver) ==
  LET p == h[receiver]
      i == Find(p, k)
      p1 == AutoInit(p, i)
      s == p1.slots[i]
  IN  IF ~p.ext THEN Stops(h, FALSE, NoFunc)
      ELSE IF receiver = o
      THEN After(h, o, IF p.class = "array" /\ p.fast /\ k = Len(p.values) /\ k \in Indices THEN AddFastArrayElement(p, v)
                       ELSE CreateProperty(p, k, WholeDescriptor(v)))
      ELSE IF i # 0 /\ (s.kind = "getset" \/ ~Writable(s) \/ p.class = "namespace") THEN Stops([h EXCEPT ![receiver] = p1], FALSE, NoFunc)
      ELSE After(h, receiver, IF i # 0 \/ (Element(p, k) /\ p.fast) THEN DefineProperty(p1, k, ValueDescriptor(v))
                              ELSE CreateProperty(p, k, WholeDescriptor(v)))

\* the objects of the chain whose property, or element, decides the set
Decides(h, p, k, own) ==
  LET i == Find(h[p], k)
      s == h[p].slots[i]
  IN  IF i # 0 THEN own \/ s.kind = "getset" \/ (s.kind # "autoinit" /\ ~Writable(s))
      ELSE h[p].fast /\ Element(h[p], k)

SetOwn(h, o, k, v) ==
  LET p == AutoInit(h[o], Find(h[o], k))
      i == Find(p, k)
      s == p.slots[i]
      h1 == [h EXCEPT ![o] = p]
  IN  IF i = 0 THEN Stops([h EXCEPT ![o].values[k + 1] = v], TRUE, NoFunc)
      ELSE IF s.kind = "normal" /\ Writable(s) THEN Stops([h1 EXCEPT ![o].slots[i].v = v], TRUE, NoFunc)
      ELSE IF s.kind = "length" THEN After(h, o, SetArrayLength(p, v))
      ELSE IF s.kind = "getset" THEN Stops(h1, s.set # NoFunc, s.set)
      ELSE IF s.kind = "reference" /\ p.class # "namespace" THEN Stops([h1 EXCEPT ![o].var = v], TRUE, NoFunc)
      ELSE Stops(h1, FALSE, NoFunc)

SetProperty(h, o, k, v, receiver) ==
  LET chain == Chain[o]
      deciding == {j \in DOMAIN chain : Decides(h, chain[j], k, chain[j] = receiver /\ j = 1)}
      j == CHOOSE x \in deciding : \A y \in deciding : x <= y
      p == chain[j]
      i == Find(h[p], k)
      own == j = 1 /\ receiver = o
  IN  IF deciding = {} \/ (i = 0 /\ ~own) THEN SetInReceiver(h, o, k, v, receiver)
      ELSE IF own THEN SetOwn(h, o, k, v)
      ELSE IF h[p].slots[i].kind = "getset" THEN Stops(h, h[p].slots[i].set # NoFunc, h[p].slots[i].set)
      ELSE Stops(h, FALSE, NoFunc)

\* no prototype can have an index of its own
PlainChain(h, o) ==
  \A j \in 2..Len(Chain[o]) :
    LET p == h[Chain[o][j]] IN (p.class = "array" /\ p.fast) \/ (p.class = "plain" /\ ~p.small)

\* an element of an array, by its number
SetElement(h, o, k, v) ==
  LET fast == h[o].class = "array" /\ h[o].fast
  IN  IF fast /\ Element(h[o], k) THEN Stops([h EXCEPT ![o].values[k + 1] = v], TRUE, NoFunc)
      ELSE IF fast /\ k = Len(h[o].values) /\ h[o].ext /\ PlainChain(h, o) THEN After(h, o, AddFastArrayElement(h[o], v))
      ELSE SetProperty(h, o, k, v, o)

\* the first property of the chain, after it is made when it is made on first use
GetProperty(h, o, k) ==
  LET chain == Chain[o]
      have == {j \in DOMAIN chain : Find(h[chain[j]], k) # 0 \/ Element(h[chain[j]], k)}
      p == chain[CHOOSE x \in have : \A y \in have : x <= y]
      i == Find(h[p], k)
      s == h[p].slots[i]
  IN  IF have = {} THEN [heap |-> h, got |-> Got(Undefined, NoFunc)]
      ELSE IF i = 0 THEN [heap |-> h, got |-> Got(h[p].values[k + 1], NoFunc)]
      ELSE [heap |-> [h EXCEPT ![p] = AutoInit(@, i)],
            got |-> CASE s.kind = "getset" -> Got(Undefined, s.get)
                      [] s.kind = "reference" -> Got(h[p].var, NoFunc)
                      [] OTHER -> Got(s.v, NoFunc)]

\* JS_GetOwnPropertyNamesInternal: elements and indices sorted, then the names
OwnPropertyNames(ob) ==
  LET indices == {ob.slots[i].key : i \in {j \in Live(ob) : ob.slots[j].key \in Indices}} \cup {i \in Indices : Element(ob, i)}
      names == SelectSeq(ob.slots, LAMBDA s : s.kind # "deleted" /\ s.key \notin Indices)
  IN  SetToSortSeq(indices, <) \o [i \in DOMAIN names |-> names[i].key]

\* JS_GetOwnPropertyInternal
GetOwnProperty(ob, k) ==
  LET i == Find(ob, k)
      s == ob.slots[i]
  IN  IF i # 0
      THEN CASE s.kind = "getset" -> Accessor(s.get, s.set, s.on)
             [] s.kind = "reference" -> Data(ob.var, s.on)
             [] OTHER -> Data(s.v, s.on)
      ELSE IF Element(ob, k) THEN Data(ob.values[k + 1], AllOn)
      ELSE Missing

\* js_object_seal: key by key, up to one that is refused
Seal(ob, freeze) ==
  LET closed == [ob EXCEPT !.ext = FALSE]
      has(o, k) == IF freeze /\ Writable(GetOwnProperty(o, k)) THEN {"C", "W"} ELSE {"C"}
      step(a, k) ==
        LET o == IF freeze THEN AutoInit(a.ob, Find(a.ob, k)) ELSE a.ob
        IN  IF ~a.r THEN a ELSE DefineProperty(o, k, Descriptor(has(o, k), Undefined, NoFunc, NoFunc, {}))
  IN  FoldLeft(step, Done(closed, TRUE), OwnPropertyNames(ob))

\* js_object_isSealed
IsSealed(ob, frozen) ==
  /\ ~ob.ext
  /\ \A i \in 1..Len(OwnPropertyNames(ob)) :
       LET on == GetOwnProperty(ob, OwnPropertyNames(ob)[i]).on IN "C" \notin on /\ (frozen => "W" \notin on)

-----------------------------------------------------------------------------

\* what the language sees of an object
Seen(ob) ==
  [class |-> ob.class, ext |-> ob.ext, var |-> ob.var,
   props |-> [k \in PropertyKeys |-> GetOwnProperty(ob, k)],
   mapped |-> {ob.slots[i].key : i \in {j \in Live(ob) : ob.slots[j].kind = "reference"}} \ (IF ob.class = "namespace" THEN PropertyKeys ELSE {})]

Init ==
  /\ heap = Initial
  /\ objs = [o \in Objects |-> Seen(Initial[o]) @@ [order |-> OwnPropertyNames(Initial[o])]]
  /\ agree = TRUE

Bounded(h) == \A o \in Objects : Len(h[o].slots) <= MaxSlots

Changes(a, b) ==
  /\ heap' = a.heap /\ objs' = b.objs
  /\ Bounded(a.heap)
  /\ agree' = (a.r = b.r /\ a.setter = b.setter)

One(o, a) == Changed([objs EXCEPT ![o] = a.o], a.r)

Define(o, k, d) == Changes(After(heap, o, DefineProperty(heap[o], k, d)), One(o, DefineOwnProperty(objs[o], k, d)))
SetsProperty(o, k, v, r) == Changes(SetProperty(heap, o, k, v, r), Set(objs, Chain[o], k, v, r))
SetsElement(o, k, v) == Changes(SetElement(heap, o, k, v), Set(objs, Chain[o], k, v, o))
Deletes(o, k) == Changes(After(heap, o, DeleteProperty(heap[o], k)), One(o, Delete(objs[o], k)))
Closes(o) == Changes(After(heap, o, Done([heap[o] EXCEPT !.ext = FALSE], TRUE)), One(o, Answer(PreventExtensions(objs[o]), TRUE)))
Seals(o, freeze) == Changes(After(heap, o, Seal(heap[o], freeze)), One(o, Integrity(objs[o], freeze)))

Gets(o, k) ==
  LET g == GetProperty(heap, o, k)
  IN  /\ heap' = g.heap /\ agree' = (g.got = Get(objs, Chain[o], k))
      /\ UNCHANGED objs

ValuesOf(o, k) == IF k = Length /\ heap[o].class = "array" THEN 0..(Cardinality(Indices)) ELSE Values

Next ==
  \/ \E o \in Defined, k \in PropertyKeys : \E d \in Descriptors : d.v \in ValuesOf(o, k) \cup {Undefined} /\ Define(o, k, d)
  \/ \E r \in Receivers, k \in PropertyKeys : \E v \in ValuesOf(r[2], k) : SetsProperty(r[1], k, v, r[2])
  \/ \E o \in Objects, k \in Indices, v \in Values : SetsElement(o, k, v)
  \/ \E o \in Objects, k \in PropertyKeys : Deletes(o, k) \/ Gets(o, k)
  \/ \E o \in Closable : Closes(o) \/ \E freeze \in BOOLEAN : Seals(o, freeze)

Spec == Init /\ [][Next]_vars

-----------------------------------------------------------------------------
(* Properties.                                                             *)

\* After any operations an object has the properties, attributes and values the
\* language gives it, whether it is a fast or a slow array, and a mapped
\* argument is the variable (JS_DefineProperty, JS_SetPropertyInternal,
\* delete_property, set_array_length, js_object_seal).
SameObjects == \A o \in Objects : Seen(heap[o]) = [f \in {"class", "ext", "var", "props", "mapped"} |-> 
                 IF f = "props" THEN [k \in PropertyKeys |-> Current(objs[o], k)] ELSE objs[o][f]]

\* Every operation succeeds, is refused, reads a value, or calls a getter or
\* setter, when the language says so.
SameResults == agree

\* The keys are listed in the order of the language: indices by number, names in
\* the order they were made in, whatever was deleted and compacted between.
SameOrder == \A o \in Objects : OwnPropertyNames(heap[o]) = OwnKeys(objs[o])

\* An object is reported sealed or frozen exactly when the language says so, for
\* fast arrays and whatever kind its properties have (js_object_isSealed).
SameIntegrity == \A o \in Objects, frozen \in BOOLEAN : IsSealed(heap[o], frozen) = TestIntegrity(objs[o], frozen)

\* No element lies at or after the length of an array, whose slots are a whole
\* array of the language.
ArraysWhole ==
  \A o \in Objects :
    heap[o].class = "array" =>
      /\ heap[o].slots[1].kind = "length" /\ Len(heap[o].values) <= LengthOf(heap[o])
      /\ \A i \in Live(heap[o]) : heap[o].slots[i].key \in Indices => heap[o].slots[i].key < LengthOf(heap[o])
      /\ heap[o].values # <<>> => heap[o].fast
=============================================================================
