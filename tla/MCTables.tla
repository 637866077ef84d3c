------------------------------ MODULE MCTables ------------------------------
(* The tables of the engine: the records of a Map or Set and the shapes of  *)
(* objects, each by itself: `on` says which. The constants of QJSMap are    *)
(* those of the configuration: "traverse" has three keys and two            *)
(* traversals, "grow" enough keys for the table to grow and one traversal.  *)
EXTENDS QJSMap, Bitwise

CONSTANTS it, fr

VARIABLES on, shapes, shapeTable, of, slots, room, keys, broken

shapeVars == <<shapes, shapeTable, of, slots, room, keys, broken>>

\* keys 1 and 3 share a bucket of a table of four, and 2 and 3 one of a table
\* of five
HashOf == [k \in 1..4 |-> CASE k = 1 -> 1 [] k = 2 -> 4 [] k = 3 -> 5 [] k = 4 -> 2]
Masked == [k \in 1..4, size \in 1..16 |-> HashOf[k] & (size - 1)]
MCBucketOf(k, size) == Masked[k, size]

Shape == INSTANCE QJSShape WITH
  Objects <- {1, 2}, Atoms <- {1, 3}, SmallAtoms <- {3}, Width <- 4, Mult <- 9, TableBits <- 1,
  CompactAt <- 2, InitialHashSize <- 2, MaxProps <- 3, Free <- None, table <- shapeTable

ASSUME MCTablesAssumption == Shape!ShapeAssumption

-----------------------------------------------------------------------------

MCInit == on \in {"traverse", "grow", "shape"} /\ Init /\ Shape!Init

MCNext ==
  \/ /\ on = "traverse" /\ Next /\ UNCHANGED <<on, shapeVars>>
     /\ \A r \in ToSet(records') : rec'[r].key # 4
  \/ on = "grow" /\ Next /\ cur'[fr] = None /\ UNCHANGED <<on, shapeVars>>
  \/ on = "shape" /\ Shape!Next /\ UNCHANGED <<on, vars>>

MCSpec == MCInit /\ [][MCNext]_<<on, vars, shapeVars>>

-----------------------------------------------------------------------------
(* What is checked of the shapes.                                          *)

\* The properties of an object are those it was given, in their order,
\* whatever happened to the objects it shared a shape with.
KeysAsGiven == Shape!KeysAsGiven

\* A key is found by its chain when the object has it, and its value is at the
\* same place.
FoundInPlace == Shape!FoundInPlace

\* The values fit in their array, which is as long as the shape says.
RoomEnough == Shape!RoomEnough

\* A shape counts its objects, and only a shape in the table is shared.
SharedIsHashed == Shape!SharedIsHashed

\* A shape is in the table, once and in the bucket of its hash, when it is
\* marked so, and its hash is that of its prototype and its properties.
TableExact == Shape!TableExact

\* Prototypes form no cycle.
ProtosEnd == Shape!ProtosEnd

\* Objects share shapes without knowing of each other.
ShapesSound ==
  /\ KeysAsGiven /\ FoundInPlace /\ RoomEnough /\ SharedIsHashed /\ TableExact /\ ProtosEnd
  /\ Shape!AssertsHold /\ Shape!SmallMarked
=============================================================================
