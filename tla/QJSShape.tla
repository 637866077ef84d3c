------------------------------ MODULE QJSShape ------------------------------
(***************************************************************************)
(* The shapes of objects in the QuickJS engine. A shape lists the          *)
(* properties of an object, with a hash table over them; objects with the  *)
(* same prototype and the same properties added in the same order share    *)
(* one, found by its hash in the table of the runtime. A shape is unshared *)
(* and taken out of the table before it is changed in any other way. The   *)
(* list of keys an object ought to have is kept beside it.                 *)
(***************************************************************************)
EXTENDS Integers, Sequences, SequencesExt, FiniteSets, Folds

CONSTANTS
  Objects,    \* 1..n
  Atoms,      \* positive numbers
  SmallAtoms, \* those that are array indices
  Width,      \* bits of the hash of a shape
  Mult,       \* the multiplier of shape_hash
  TableBits,  \* shape_hash_bits at the start
  CompactAt,  \* deleted properties that let a shape be compacted
  InitialHashSize, \* JS_PROP_INITIAL_HASH_SIZE
  MaxProps,   \* bound of the model: the places of a shape
  Free        \* an unused identifier, an object that does not exist

ShapeAssumption ==
  /\ Objects = 1..Cardinality(Objects) /\ Atoms \subseteq Nat \ {0} /\ SmallAtoms \subseteq Atoms
  /\ Width \in Nat /\ TableBits \in 1..Width /\ Mult % 2 = 1 /\ CompactAt \in Nat \ {0}
  /\ InitialHashSize \in Nat \ {0} /\ MaxProps \in Nat

InitialSize == 2
Ids == 1..Cardinality(Objects) + 1
Null == 0                    \* no atom, no property, no prototype
Flags == {0, 1}              \* JS_PROP_CONFIGURABLE

VARIABLES
  shapes,  \* shapes[s]: a shape, or Free
  table,   \* shape_hash: table[h]: the shapes in a bucket
  of,      \* of[o]: the shape of an object, or Free
  slots,   \* slots[o]: the values: each is the atom it belongs to, or Null
  room,    \* room[o]: the size of the array that holds them
  keys,    \* history: keys[o]: <<atom, flags>> as a program sees them
  broken   \* history: an assert of the code has failed

vars == <<shapes, table, of, slots, room, keys, broken>>

Live == {o \in Objects : of[o] # Free}
Asserted(cond) == broken' = (broken \/ ~cond)
Bigger(a, b) == IF a > b THEN a ELSE b

-----------------------------------------------------------------------------
(* The table of the runtime.                                               *)

ShapeHash(h, v) == ((h + v) * Mult) % 2^Width
InitialHash(proto) == ShapeHash(ShapeHash(1, proto), 0)
HashWith(h, a, f) == ShapeHash(ShapeHash(h, a), f)
BucketIn(h, t) == h \div (2^Width \div Cardinality(DOMAIN t))

HashLink(t, s, h) == [t EXCEPT ![BucketIn(h, t)] = <<s>> \o @]
HashUnlink(t, s, h) == [t EXCEPT ![BucketIn(h, t)] = SelectSeq(@, LAMBDA x : x # s)]

\* js_new_shape2 doubles the table when it is half full
ResizeTable(t) ==
  LET n == Cardinality(DOMAIN t)
      all == FlattenSeq([i \in 1..n |-> t[i - 1]])
      empty == [h \in 0..(2 * n - 1) |-> <<>>]
  IN  IF 2 * (Len(all) + 1) <= n \/ 2 * n > 2^Width THEN t
      ELSE FoldLeft(LAMBDA acc, s : HashLink(acc, s, shapes[s].hash), empty, all)

FindShape(h, fitting) ==
  LET hits == SelectSeq(table[BucketIn(h, table)], LAMBDA s : shapes[s].hash = h /\ s \in fitting)
  IN  IF hits = <<>> THEN Free ELSE Head(hits)

-----------------------------------------------------------------------------
(* A shape and its hash table: heads holds the first index of each chain.  *)

Size(sh) == Cardinality(DOMAIN sh.heads)
Buckets(n) == [h \in 0..n - 1 |-> 0]

\* a property is put in front of its chain; a deleted one is in none
AddSlot(sh, a, f) ==
  LET h == a % Size(sh)
      i == Len(sh.props) + 1
  IN  IF a = Null THEN [sh EXCEPT !.props = Append(@, [atom |-> a, flags |-> f, next |-> 0])]
      ELSE [sh EXCEPT !.props = Append(@, [atom |-> a, flags |-> f, next |-> sh.heads[h]]),
                      !.heads[h] = i]

Rehash(sh, n, props) ==
  FoldLeft(LAMBDA acc, p : AddSlot(acc, p.atom, p.flags),
           [sh EXCEPT !.props = <<>>, !.heads = Buckets(n)], props)

RECURSIVE Grown(_, _)
Grown(n, size) == IF n < size THEN Grown(2 * n, size) ELSE n
RECURSIVE Halved(_, _)
Halved(n, size) == IF n \div 2 >= size THEN Halved(n \div 2, size) ELSE n

\* resize_properties
Resize(sh, count) ==
  LET new == Bigger(count, (sh.size * 3) \div 2)
      n == Grown(Size(sh), new)
      big == [sh EXCEPT !.size = new]
  IN  IF n # Size(sh) THEN Rehash(big, n, sh.props) ELSE big

\* the index of a property, by its chain, or 0: find_own_property
Find(sh, a) ==
  LET f[i \in 0..Len(sh.props)] ==
        IF i = 0 THEN 0 ELSE IF sh.props[i].atom = a THEN i ELSE f[sh.props[i].next]
  IN  f[sh.heads[a % Size(sh)]]

New == CHOOSE s \in Ids : shapes[s] = Free

\* js_free_shape
Release(ss, t, s) ==
  IF ss[s].rc > 1 THEN <<[ss EXCEPT ![s].rc = @ - 1], t>>
  ELSE <<[ss EXCEPT ![s] = Free], IF ss[s].hashed THEN HashUnlink(t, s, ss[s].hash) ELSE t>>

\* Fault: the shape that is copied keeps its count
PrepareCounted(o) ==
  LET s == of[o] IN
  IF ~shapes[s].hashed THEN <<shapes, table, s>>
  ELSE IF shapes[s].rc # 1
       THEN <<[shapes EXCEPT ![New] = [shapes[s] EXCEPT !.rc = 1, !.hashed = FALSE, !.hash = 0]], table, New>>
  ELSE <<[shapes EXCEPT ![s].hashed = FALSE, ![s].hash = 0], HashUnlink(table, s, shapes[s].hash), s>>

\* js_shape_prepare_update: the shapes, the table, and the shape to change; the
\* hash of a shape that is not in the table is not read again
Prepare(o) ==
  LET s == of[o]
      sh == shapes[s]
  IN  IF ~sh.hashed THEN <<shapes, table, s>>
      ELSE IF sh.rc # 1
           THEN LET r == Release([shapes EXCEPT ![New] = [sh EXCEPT !.rc = 1, !.hashed = FALSE, !.hash = 0]], table, s)
                IN  <<r[1], r[2], New>>
      ELSE <<[shapes EXCEPT ![s].hashed = FALSE, ![s].hash = 0], HashUnlink(table, s, sh.hash), s>>

-----------------------------------------------------------------------------
(* Objects.                                                                *)

EmptyShape(proto) ==
  [proto |-> proto, props |-> <<>>, heads |-> Buckets(InitialHashSize), size |-> InitialSize,
   deleted |-> 0, hashed |-> TRUE, hash |-> InitialHash(proto), small |-> FALSE, rc |-> 1]

\* JS_NewObjectProtoClass
NewObject(o, proto) ==
  /\ of[o] = Free /\ proto \in Live \cup {Null}
  /\ LET hit == FindShape(InitialHash(proto), {s \in DOMAIN shapes : shapes[s] # Free /\ shapes[s].proto = proto /\ shapes[s].props = <<>>})
         s == IF hit = Free THEN New ELSE hit
     IN  /\ of' = [of EXCEPT ![o] = s]
         /\ IF hit = Free
            THEN /\ shapes' = [shapes EXCEPT ![s] = EmptyShape(proto)]
                 /\ table' = HashLink(ResizeTable(table), s, InitialHash(proto))
            ELSE shapes' = [shapes EXCEPT ![s].rc = @ + 1] /\ UNCHANGED table
         /\ room' = [room EXCEPT ![o] = shapes'[s].size]
  /\ slots' = [slots EXCEPT ![o] = <<>>] /\ keys' = [keys EXCEPT ![o] = <<>>]
  /\ UNCHANGED broken

\* free_object, when nothing has o as its prototype
FreeObject(o) ==
  /\ o \in Live /\ \A x \in Live : shapes[of[x]].proto # o
  /\ LET r == Release(shapes, table, of[o])
     IN  shapes' = r[1] /\ table' = r[2]
  /\ of' = [of EXCEPT ![o] = Free] /\ slots' = [slots EXCEPT ![o] = <<>>]
  /\ keys' = [keys EXCEPT ![o] = <<>>] /\ room' = [room EXCEPT ![o] = 0]
  /\ UNCHANGED broken

Same(p, q) == Len(p) = Len(q) /\ \A i \in DOMAIN p : p[i].atom = q[i].atom /\ p[i].flags = q[i].flags

\* find_hashed_shape_prop
FindProp(sh, a, f) ==
  FindShape(HashWith(sh.hash, a, f),
            {s \in DOMAIN shapes : /\ shapes[s] # Free /\ shapes[s].proto = sh.proto
                                   /\ Same(shapes[s].props, Append(sh.props, [atom |-> a, flags |-> f]))})

\* add_shape_property
WithProp(sh, a, f) ==
  LET big == IF Len(sh.props) >= sh.size THEN Resize(sh, Len(sh.props) + 1) ELSE sh
  IN  [AddSlot(big, a, f) EXCEPT !.small = @ \/ a \in SmallAtoms,
                                 !.hash = IF sh.hashed THEN HashWith(sh.hash, a, f) ELSE @]

\* add_property
Add(o, a, f) ==
  /\ o \in Live /\ Find(shapes[of[o]], a) = 0 /\ Len(shapes[of[o]].props) < MaxProps
  /\ LET s == of[o]
         sh == shapes[s]
         hit == IF sh.hashed THEN FindProp(sh, a, f) ELSE Free
         r == Release([shapes EXCEPT ![hit].rc = @ + 1], table, s)
         shared == sh.hashed /\ sh.rc # 1
         to == IF hit # Free THEN hit ELSE IF shared THEN New ELSE s
         new == [WithProp(sh, a, f) EXCEPT !.rc = 1]
         rest == IF shared THEN [shapes EXCEPT ![s].rc = @ - 1] ELSE shapes
     IN  /\ of' = [of EXCEPT ![o] = to]
         /\ IF hit # Free
            THEN shapes' = r[1] /\ table' = r[2] /\ UNCHANGED broken
            ELSE /\ shapes' = [rest EXCEPT ![to] = new]
                 /\ table' = IF sh.hashed
                             THEN HashLink(IF shared THEN table ELSE HashUnlink(table, s, sh.hash), to, new.hash)
                             ELSE table
                 /\ Asserted(sh.hashed \/ sh.rc = 1)
         /\ room' = [room EXCEPT ![o] = shapes'[to].size]
         /\ slots' = [slots EXCEPT ![o] = Append(@, a)]
         /\ keys' = [keys EXCEPT ![o] = Append(@, <<a, f>>)]

IsLive(p) == p.atom # Null

\* compact_properties: the shape and the values
Compact(sh, vs) ==
  LET kept == SelectSeq(sh.props, IsLive)
      size == Bigger(InitialSize, Len(sh.props) - sh.deleted)
  IN  [sh |-> [Rehash(sh, Halved(Size(sh), size), kept) EXCEPT !.size = size, !.deleted = 0],
       vs |-> SelectSeq(vs, LAMBDA v : v # Null),
       ok |-> ~sh.hashed /\ size <= sh.size /\ Len(kept) = Len(sh.props) - sh.deleted]

\* the chain of a goes on past the property i
Unchain(sh, a, i) ==
  IF sh.heads[a % Size(sh)] = i
  THEN [sh EXCEPT !.heads[a % Size(sh)] = sh.props[i].next]
  ELSE LET j == CHOOSE j \in DOMAIN sh.props : sh.props[j].next = i /\ sh.props[j].atom # Null
       IN  [sh EXCEPT !.props[j].next = sh.props[i].next]

\* delete_property
Delete(o, a) ==
  /\ o \in Live /\ Find(shapes[of[o]], a) # 0
  /\ LET i == Find(shapes[of[o]], a)
         u == Prepare(o)
         cut == Unchain(u[1][u[3]], a, i)
         sh == [cut EXCEPT !.deleted = @ + 1, !.props[i] = [atom |-> Null, flags |-> 0, next |-> 0]]
         vs == [slots[o] EXCEPT ![i] = Null]
         c == Compact(sh, vs)
         compacts == sh.deleted >= CompactAt /\ sh.deleted >= Len(sh.props) \div 2
     IN  /\ shapes[of[o]].props[i].flags = 1
         /\ of' = [of EXCEPT ![o] = u[3]] /\ table' = u[2]
         /\ shapes' = [u[1] EXCEPT ![u[3]] = IF compacts THEN c.sh ELSE sh]
         /\ slots' = [slots EXCEPT ![o] = IF compacts THEN c.vs ELSE vs]
         /\ room' = [room EXCEPT ![o] = shapes'[u[3]].size]
         /\ Asserted(compacts => c.ok)
  /\ keys' = [keys EXCEPT ![o] = SelectSeq(@, LAMBDA x : x[1] # a)]

\* js_update_property_flags
SetFlags(o, a, f) ==
  /\ o \in Live
  /\ LET i == Find(shapes[of[o]], a)
         u == Prepare(o)
     IN  /\ i # 0 /\ shapes[of[o]].props[i].flags # f
         /\ of' = [of EXCEPT ![o] = u[3]] /\ table' = u[2]
         /\ shapes' = [u[1] EXCEPT ![u[3]].props[i].flags = f]
  /\ keys' = [keys EXCEPT ![o] = [i \in DOMAIN @ |-> IF @[i][1] = a THEN <<a, f>> ELSE @[i]]]
  /\ UNCHANGED <<slots, room, broken>>

\* the prototypes of o, o included
Chain(o) ==
  LET f[n \in 0..Cardinality(Objects)] ==
        IF n = 0 THEN {o} ELSE f[n - 1] \cup {shapes[of[x]].proto : x \in f[n - 1] \ {Null}}
  IN  f[Cardinality(Objects)]

AllowsProto(o, proto) == proto = Null \/ o \notin Chain(proto)

\* JS_SetPrototypeInternal
SetProto(o, proto) ==
  /\ o \in Live /\ proto \in Live \cup {Null} /\ shapes[of[o]].proto # proto
  /\ AllowsProto(o, proto)
  /\ LET u == Prepare(o)
     IN  /\ of' = [of EXCEPT ![o] = u[3]] /\ table' = u[2]
         /\ shapes' = [u[1] EXCEPT ![u[3]].proto = proto]
  /\ UNCHANGED <<slots, room, keys, broken>>

-----------------------------------------------------------------------------

Init ==
  /\ shapes = [s \in Ids |-> Free] /\ table = [h \in 0..2^TableBits - 1 |-> <<>>]
  /\ of = [o \in Objects |-> Free] /\ slots = [o \in Objects |-> <<>>]
  /\ room = [o \in Objects |-> 0] /\ keys = [o \in Objects |-> <<>>] /\ broken = FALSE

Next == \E o \in Objects :
  \/ \E p \in Objects \cup {Null} : NewObject(o, p) \/ SetProto(o, p)
  \/ FreeObject(o)
  \/ \E a \in Atoms : Delete(o, a) \/ \E f \in Flags : Add(o, a, f) \/ SetFlags(o, a, f)

Spec == Init /\ [][Next]_vars

-----------------------------------------------------------------------------
(* Properties.                                                             *)

Listed(sh) == LET l == SelectSeq(sh.props, IsLive) IN [i \in DOMAIN l |-> <<l[i].atom, l[i].flags>>]

\* The properties of an object are those it was given, in their order,
\* whatever happened to the objects it shared a shape with.
KeysAsGiven == \A o \in Live : Listed(shapes[of[o]]) = keys[o]

\* A key is found by its chain when the object has it, and its value is at the
\* same place.
FoundInPlace ==
  \A o \in Live : LET sh == shapes[of[o]] IN
    /\ Len(slots[o]) = Len(sh.props)
    /\ \A a \in Atoms : LET i == Find(sh, a) IN
         IF \E j \in DOMAIN keys[o] : keys[o][j][1] = a THEN i # 0 /\ slots[o][i] = a ELSE i = 0

\* The values fit in their array, which is as long as the shape says.
RoomEnough == \A o \in Live : room[o] = shapes[of[o]].size /\ Len(slots[o]) <= room[o]

\* A shape counts its objects, and only a shape in the table is shared.
SharedIsHashed ==
  \A s \in Ids : shapes[s] # Free =>
    /\ shapes[s].rc = Cardinality({o \in Objects : of[o] = s})
    /\ (shapes[s].rc > 1 => shapes[s].hashed)

\* A shape is in the table, once and in the bucket of its hash, when it is
\* marked so, and its hash is that of its prototype and its properties.
TableExact ==
  \A s \in Ids : LET at == {h \in DOMAIN table : s \in ToSet(table[h])} IN
    IF shapes[s] = Free THEN at = {}
    ELSE IF ~shapes[s].hashed THEN at = {}
    ELSE /\ at = {BucketIn(shapes[s].hash, table)}
         /\ shapes[s].deleted = 0
         /\ shapes[s].hash = FoldLeft(LAMBDA h, p : HashWith(h, p.atom, p.flags),
                                      InitialHash(shapes[s].proto), shapes[s].props)

\* The asserts of the code hold; a shape that is not marked so has no array
\* index among its properties; prototypes form no cycle.
SmallMarked == \A s \in Ids : shapes[s] # Free =>
  ((\E i \in DOMAIN shapes[s].props : shapes[s].props[i].atom \in SmallAtoms) => shapes[s].small)
AssertsHold == ~broken
ProtosEnd == \A o \in Live : Null \in Chain(o)
=============================================================================
