------------------------------- MODULE QJSGC --------------------------------
(***************************************************************************)
(* The memory of the QuickJS runtime: reference counts, the deferred       *)
(* freeing of objects whose count reaches zero, the cycle collector        *)
(* (JS_RunGC) and the weak references of WeakMap and WeakSet.              *)
(*                                                                         *)
(* Three kinds of nodes: objects (JSObject; function bytecode and async    *)
(* function states are freed the same way), weak maps (a JSObject whose    *)
(* finalizer also drops its records), and cells: var_refs and shapes,      *)
(* which are freed at once and never wait in a list of their own.          *)
(* The heap is its counted references: what holds one, and what it names.  *)
(*                                                                         *)
(* The program only acts between collections and between two frees; inside *)
(* the collector one action visits one element of one list.                *)
(***************************************************************************)
EXTENDS Integers, Sequences, SequencesExt, FiniteSets

CONSTANTS
  Objects,   \* identities of JSObject nodes other than weak maps
  WeakMaps,  \* identities of WeakMap objects
  Cells,     \* identities of var_refs and shapes
  MaxRefs    \* bound: references that nodes hold at one time

ASSUME NodesAssumption ==
  /\ IsFiniteSet(Objects \cup WeakMaps \cup Cells)
  /\ Objects \cup WeakMaps \cup Cells \subseteq Nat \ {0}
  /\ Objects \cap WeakMaps = {} /\ Objects \cap Cells = {} /\ WeakMaps \cap Cells = {}

Values == Objects \cup WeakMaps     \* what a JSValue can point to
Nodes  == Values \cup Cells
End    == 0                         \* the list head
Stack  == 0                         \* the program's stack, which holds references too
Strong == 0                         \* the key of a reference that is not a weak record

VARIABLES
  st,      \* "none"; "live"; "zombie": free_mark, finalized and its memory kept
  held,    \* the counted references that exist
  rc,      \* header.ref_count
  mark,    \* header.mark
  gc,      \* rt->gc_obj_list
  tmp,     \* rt->tmp_obj_list
  zero,    \* rt->gc_zero_ref_count_list
  phase,   \* rt->gc_phase
  pc,      \* "run", or the pass of JS_RunGC: "decref" "scan" "restore" "remove"
  cursor   \* the next list element of the pass

heap == <<st, held, rc, mark, gc, tmp, zero, phase>>
vars == <<heap, pc, cursor>>

\* a counted reference: a slot of the stack, a field, or the value of the weak
\* record that `from` has for `key`; a node holds at most one field of each other
Refs == [from : Nodes \cup {Stack}, key : Values \cup {Strong}, to : Nodes]

Field(a, b)     == [from |-> a, key |-> Strong, to |-> b]
Record(m, k, v) == [from |-> m, key |-> k, to |-> v]

-----------------------------------------------------------------------------
(* Lists and references.                                                   *)

\* a list without the elements of D, each of which list_del takes out
Without(list, D) ==
  LET kept   == {i \in DOMAIN list : list[i] \notin D}
      Nth(n) == CHOOSE i \in kept : Cardinality({j \in kept : j <= i}) = n
  IN  [n \in 1 .. Cardinality(kept) |-> list[Nth(n)]]

\* The elements of S in the order of their identities, which stands for the order
\* in which the code moves them: any node may have any identity.
Ordered(S) == [i \in 1 .. Cardinality(S) |-> CHOOSE n \in S : Cardinality({m \in S : m <= n}) = i]

FirstOf(list) == IF list = <<>> THEN End ELSE Head(list)

Following(list, n) ==
  LET i == CHOOSE i \in DOMAIN list : list[i] = n IN IF i = Len(list) THEN End ELSE list[i + 1]

\* el->next, in the list the element is linked in
NextOf(gcs, tmps, n) ==
  IF n \in ToSet(gcs) THEN Following(gcs, n)
  ELSE IF n \in ToSet(tmps) THEN Following(tmps, n) ELSE End

To(E, n) == {e \in E : e.to = n}

\* mark_children: the references a node reports, js_map_mark included; a value
\* that several records hold is reported once for each of them
Held(n) == {e \in held : e.from = n}

\* the counts after a decrement, an increment, for each reference
Less(E) == [n \in Nodes |-> rc[n] - Cardinality(To(E, n))]
More(E) == [n \in Nodes |-> rc[n] + Cardinality(To(E, n))]

-----------------------------------------------------------------------------
(* Freeing.                                                                *)

\* free_var_ref, js_free_shape: the cells that lose their last reference with E
FreedCells(E) == {c \in Cells : To(E, c) # {} /\ rc[c] <= Cardinality(To(E, c))}

\* reset_weak_ref: the records, of any map, whose key p was
KeyedBy(p) == {e \in held : e.key = p}

\* Fault: only the outermost release queues the object
QueuesOutermost == phase = "none"

\* while cycles are removed __JS_FreeValueRT does not queue
Queues == phase # "remove"

\* The references E are given up, P is freed with them (free_object) and the
\* references A are stored.
\* JS_FreeValueRT: an object that reaches zero waits in gc_zero_ref_count_list;
\* a cell is freed on the spot, with what it holds;
\* free_object: an object that others still count when cycles are removed keeps
\* its memory
Free(E, P, A) ==
  LET cells   == FreedCells(E)
      lost    == E \cup {e \in held : e.from \in cells}
      dead    == {n \in Values : Queues /\ To(lost, n) # {} /\ rc'[n] <= 0}
      zombies == {p \in P : phase = "remove" /\ rc'[p] # 0}
      gone    == (cells \cup P) \ zombies
      moved   == cells \cup P \cup dead
  IN  /\ rc' = [n \in Nodes |-> Less(lost)[n] + Cardinality(To(A, n))]
      /\ held' = (held \ lost) \cup A
      /\ st' = [n \in Nodes |-> IF n \in gone THEN "none"
                                ELSE IF n \in zombies THEN "zombie" ELSE st[n]]
      /\ mark' = [n \in Nodes |-> IF n \in gone THEN 0 ELSE mark[n]]
      /\ gc' = Without(gc, moved) /\ tmp' = Without(tmp, moved)
      /\ zero' = Ordered(dead) \o Without(zero, moved) \o Ordered(zombies)

\* free_object: what p holds, fields, shape and, js_map_finalizer, its own
\* records, and the records whose key it was
FreeObject(p) == Free(Held(p) \cup KeyedBy(p), {p}, {})

\* __JS_FreeValueRT at the outermost level starts free_zero_refcount
StartFreeing == phase' = IF zero' = <<>> THEN "none" ELSE "decref"

-----------------------------------------------------------------------------
(* The program.                                                            *)

\* what the program can still name: every set that has what the stack holds and
\* what its own members hold has it
Reach ==
  LET Closed(S) == \A e \in held : e.from \in S \cup {Stack} => e.to \in S
      Existing  == {n \in Nodes : st[n] # "none"}
      Kept      == {S \in SUBSET Existing : Closed(S)}
  IN  {n \in Nodes : \A S \in Kept : n \in S}

\* the references between nodes
RefCount == Cardinality({e \in held : e.from # Stack})

Running == pc = "run" /\ phase = "none"

\* the operands of an instruction, the arguments of a call
OnStack(S) == \A n \in S : Field(Stack, n) \in held

\* JS_DupValue of what A names, and the references stored
Store(A) == rc' = More(A) /\ held' = held \cup A

\* add_gc_object: n begins with the references A to it
Make(n, A) ==
  /\ st' = [st EXCEPT ![n] = "live"] /\ mark' = [mark EXCEPT ![n] = 0] /\ gc' = Append(gc, n)
  /\ rc' = [More(A) EXCEPT ![n] = 1] /\ held' = held \cup A
  /\ UNCHANGED <<tmp, zero, phase, pc, cursor>>

\* JS_NewObjectFromShape
NewObject(n) ==
  /\ Running /\ st[n] = "none"
  /\ Make(n, {Field(Stack, n)})

\* a closure o captures a variable that holds v (get_var_ref, detached later)
NewCell(c, o, v) ==
  /\ Running /\ st[c] = "none" /\ OnStack({o, v}) /\ RefCount + 2 <= MaxRefs
  /\ Make(c, {Field(c, v), Field(o, c)})

\* a property, an element or a captured variable of a comes to hold b
Link(a, b) ==
  /\ Running /\ OnStack({a, b} \cap Values) /\ Field(a, b) \notin held
  /\ RefCount < MaxRefs /\ b \in Reach
  /\ Store({Field(a, b)})
  /\ UNCHANGED <<st, mark, gc, tmp, zero, phase, pc, cursor>>

\* it is deleted or overwritten
Unlink(a, b) ==
  /\ Running /\ OnStack({a}) /\ Field(a, b) \in held
  /\ Free({Field(a, b)}, {}, {}) /\ StartFreeing
  /\ UNCHANGED <<pc, cursor>>

\* JS_DupValue into, and JS_FreeValue of, a stack slot
Hold(n) ==
  /\ Running /\ ~OnStack({n}) /\ n \in Reach
  /\ Store({Field(Stack, n)})
  /\ UNCHANGED <<st, mark, gc, tmp, zero, phase, pc, cursor>>

Drop(n) ==
  /\ Running /\ OnStack({n})
  /\ Free({Field(Stack, n)}, {}, {}) /\ StartFreeing
  /\ UNCHANGED <<pc, cursor>>

\* map m's record for key k, if it has one
RecordsOf(m, k) == {e \in held : e.from = m /\ e.key = k}

\* js_map_set on a weak map: the old value is freed; the new one is counted,
\* the key is not
WeakSet(m, k, v) ==
  /\ Running /\ OnStack({m, k, v}) /\ RefCount < MaxRefs
  /\ Free(RecordsOf(m, k), {}, {Record(m, k, v)}) /\ StartFreeing
  /\ UNCHANGED <<pc, cursor>>

\* js_map_delete on a weak map: map_delete_record
WeakDelete(m, k) ==
  /\ Running /\ OnStack({m, k}) /\ RecordsOf(m, k) # {}
  /\ Free(RecordsOf(m, k), {}, {}) /\ StartFreeing
  /\ UNCHANGED <<pc, cursor>>

\* one turn of free_zero_refcount
FreeZero ==
  /\ pc = "run" /\ phase = "decref"
  /\ IF zero = <<>>
     THEN phase' = "none" /\ UNCHANGED <<st, held, rc, mark, gc, tmp, zero>>
     ELSE FreeObject(Head(zero)) /\ UNCHANGED phase
  /\ UNCHANGED <<pc, cursor>>

-----------------------------------------------------------------------------
(* JS_RunGC.                                                               *)

StartGC ==
  /\ Running
  /\ pc' = "decref" /\ cursor' = FirstOf(gc) /\ UNCHANGED heap

\* Fault: a child at zero moves whether it was visited or not
ParkedAny(E) == {n \in Nodes : rc'[n] = 0 /\ (n = cursor \/ To(E, n) # {})}

\* gc_decref_child and the end of gc_decref's turn: of the children E and the
\* element itself, those at zero that were visited move to tmp_obj_list
Parked(E) == {n \in Nodes : rc'[n] = 0 /\ mark'[n] = 1 /\ (n = cursor \/ To(E, n) # {})}

\* gc_decref, one element; list_for_each_safe has read the next one before
GCDecref ==
  /\ pc = "decref"
  /\ IF cursor = End
     THEN pc' = "scan" /\ cursor' = FirstOf(gc) /\ UNCHANGED heap
     ELSE LET moved == Parked(Held(cursor))
          IN  /\ rc' = Less(Held(cursor)) /\ mark' = [mark EXCEPT ![cursor] = 1]
              /\ gc' = Without(gc, moved) /\ tmp' = Without(tmp, moved) \o Ordered(moved)
              /\ cursor' = NextOf(gc, tmp, cursor)
              /\ UNCHANGED <<st, held, zero, phase, pc>>

\* Fault: a rescued node is counted but left among the garbage
RescuedNone(E) == {}

\* gc_scan_incref_child: the nodes that E counts again
Rescued(E) == {n \in Nodes : rc[n] = 0 /\ To(E, n) # {}}

\* gc_scan, one element of the first loop, which resets the marks of S
Scan(S) ==
  LET back == Rescued(Held(cursor))
  IN  /\ rc' = More(Held(cursor))
      /\ mark' = [n \in Nodes |-> IF n \in S THEN 0 ELSE mark[n]]
      /\ gc' = gc \o Ordered(back) /\ tmp' = Without(tmp, back)
      /\ cursor' = NextOf(gc', tmp', cursor)
      /\ UNCHANGED <<st, held, zero, phase, pc>>

EndScan == pc' = "restore" /\ cursor' = FirstOf(tmp) /\ UNCHANGED heap

\* Fault: the mark of the element is not reset
GCScanMarked ==
  /\ pc = "scan"
  /\ IF cursor = End THEN EndScan ELSE Scan(Rescued(Held(cursor)))

\* what is reached from a node that is kept returns to gc_obj_list, which
\* grows while it is walked
GCScan ==
  /\ pc = "scan"
  /\ IF cursor = End THEN EndScan ELSE Scan(Rescued(Held(cursor)) \cup {cursor})

\* Fault: the counts taken from the garbage are not put back
RestoredForgotten(E) == rc

\* gc_scan_incref_child2
Restored(E) == More(E)

\* gc_scan, second loop: the counts of what is about to be freed are restored
GCRestore ==
  /\ pc = "restore"
  /\ IF cursor = End
     THEN /\ pc' = "remove" /\ phase' = "remove"
          /\ UNCHANGED <<st, held, rc, mark, gc, tmp, zero, cursor>>
     ELSE /\ rc' = Restored(Held(cursor)) /\ cursor' = NextOf(gc, tmp, cursor)
          /\ UNCHANGED <<st, held, mark, gc, tmp, zero, phase, pc>>

\* Fault: the loop passes over cells without moving them
SetAsideNot(p) == UNCHANGED <<st, held, rc, mark, gc, tmp, zero>>

\* a cell waits for the object that holds it
SetAside(p) ==
  /\ tmp' = Without(tmp, {p}) /\ zero' = Append(zero, p)
  /\ UNCHANGED <<st, held, rc, mark, gc>>

\* gc_free_cycles, one element
GCRemove ==
  /\ pc = "remove" /\ tmp # <<>>
  /\ LET p == Head(tmp) IN IF p \in Values THEN FreeObject(p) ELSE SetAside(p)
  /\ UNCHANGED <<phase, pc, cursor>>

\* the end of gc_free_cycles: the memory of the zombies is released
GCSweep ==
  /\ pc = "remove" /\ tmp = <<>>
  /\ pc' = "run" /\ phase' = "none" /\ zero' = <<>>
  /\ st'   = [n \in Nodes |-> IF n \in ToSet(zero) THEN "none" ELSE st[n]]
  /\ rc'   = [n \in Nodes |-> IF n \in ToSet(zero) THEN 0 ELSE rc[n]]
  /\ mark' = [n \in Nodes |-> IF n \in ToSet(zero) THEN 0 ELSE mark[n]]
  /\ UNCHANGED <<held, gc, tmp, cursor>>

-----------------------------------------------------------------------------

Init ==
  /\ st = [n \in Nodes |-> "none"] /\ held = {}
  /\ rc = [n \in Nodes |-> 0] /\ mark = [n \in Nodes |-> 0]
  /\ gc = <<>> /\ tmp = <<>> /\ zero = <<>>
  /\ phase = "none" /\ pc = "run" /\ cursor = End

Program ==
  \/ \E n \in Values : NewObject(n) \/ Hold(n) \/ Drop(n)
  \/ \E c \in Cells, o \in Values, v \in Objects : NewCell(c, o, v)
  \/ \E a \in Values, b \in Nodes : Link(a, b) \/ Unlink(a, b)
  \/ \E m \in WeakMaps, k, v \in Values : WeakSet(m, k, v)
  \/ \E m \in WeakMaps, k \in Values : WeakDelete(m, k)

Collector == StartGC \/ GCDecref \/ GCScan \/ GCRestore \/ GCRemove \/ GCSweep

Next == Program \/ FreeZero \/ Collector

\* The runtime finishes what it began: neither the freeing loop nor the
\* collector waits for anything.
Spec == Init /\ [][Next]_vars /\ WF_vars(FreeZero) /\ WF_vars(Collector)

-----------------------------------------------------------------------------
(* Properties.                                                             *)

TypeOK ==
  /\ st \in [Nodes -> {"none", "live", "zombie"}] /\ held \in SUBSET Refs
  /\ rc \in [Nodes -> Nat] /\ mark \in [Nodes -> 0..1]
  /\ gc \in Seq(Nodes) /\ tmp \in Seq(Nodes) /\ zero \in Seq(Nodes)
  /\ phase \in {"none", "decref", "remove"}
  /\ pc \in {"run", "decref", "scan", "restore", "remove"}
  /\ cursor \in Nodes \cup {End}

\* Outside the passes that play with the counts, every ref_count is the
\* number of references that exist, those of the program's stack and of every
\* node not finalized yet: JS_RunGC puts back exactly what gc_decref took
\* (gc_scan, both loops).
CountsExact ==
  pc \in {"run", "remove"} =>
    \A n \in Nodes : st[n] = "live" => rc[n] = Cardinality(To(held, n))

\* No field, weak record or stack slot names memory that was released:
\* free_object keeps an object of a cycle as a zombie until nobody points to
\* it, and reset_weak_ref empties the maps of a dying key.
NoDangling ==
  \A e \in held :
    /\ e.from # Stack => st[e.from] = "live"
    /\ st[e.to] # "none"
    /\ e.from = Stack => st[e.to] = "live"
    /\ e.key # Strong => st[e.key] = "live"

\* What the program can reach is never finalized, whatever list the collector
\* has parked it in.
ReachableAlive == \A n \in Reach : st[n] = "live"

\* The assertions of gc_decref, gc_scan, free_zero_refcount and gc_free_cycles;
\* that of gc_decref_child, no count below zero, is part of TypeOK.
Assertions ==
  /\ pc = "decref" /\ cursor # End => mark[cursor] = 0 /\ st[cursor] # "none"
  /\ pc = "scan" => \A n \in ToSet(gc) : rc[n] > 0
  /\ phase = "decref" => \A n \in ToSet(zero) : rc[n] = 0 /\ st[n] = "live"
  /\ pc = "remove" /\ tmp = <<>> => ToSet(zero) \cap Cells = {}

\* Between collections every live node is in gc_obj_list, unmarked, once: the
\* next collection starts from the state gc_decref asserts.
ReadyForNextGC ==
  Running => /\ tmp = <<>> /\ zero = <<>>
             /\ ToSet(gc) = {n \in Nodes : st[n] = "live"}
             /\ Len(gc) = Cardinality(ToSet(gc))
             /\ \A n \in ToSet(gc) : mark[n] = 0

\* What the two passes of the collector park in tmp_obj_list is exactly what the
\* program cannot reach: cycles through cells and weak maps included, and
\* nothing else.
CollectedExactly ==
  pc = "restore" =>
    ToSet(tmp) = {n \in Nodes : st[n] = "live"} \ Reach

\* nothing in gc_obj_list is without a counted reference
Survivors == Running => \A n \in ToSet(gc) : rc[n] > 0

\* Both loops come to an end, though gc_scan's list grows under it.
GCTerminates == (pc # "run" \/ phase # "none") ~> (pc = "run" /\ phase = "none")

\* What is used was not freed, and the program keeps what it can reach.
HeapSound == TypeOK /\ NoDangling /\ ReachableAlive

\* The lists and marks of the collector are as its code asserts, while it runs
\* and when it starts.
ListsSound == Assertions /\ ReadyForNextGC
=============================================================================
