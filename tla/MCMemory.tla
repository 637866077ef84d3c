------------------------------ MODULE MCMemory ------------------------------
(* Heaps of three nodes: three objects, or two of them with a cell or with  *)
(* a weak map. `on` says which, by the node they are named for.             *)
EXTENDS QJSGC

VARIABLE on

\* the nodes there are, and the references between them
Kinds ==
  [objects |-> [nodes |-> {1, 2, 3}, most |-> 3], cell |-> [nodes |-> {1, 2, 5}, most |-> 4],
   weak |-> [nodes |-> {1, 2, 4}, most |-> 3]]

\* the first two have no weak map
ASSUME KindsAssumption ==
  \A m \in WeakMaps : m \notin Kinds["objects"].nodes /\ m \notin Kinds["cell"].nodes

Within(A) ==
  /\ A /\ on' = on
  /\ \A n \in Nodes \ Kinds[on].nodes : st'[n] = "none"
  /\ RefCount' <= Kinds[on].most

MCInit == on \in DOMAIN Kinds /\ Init

MCSpec ==
  /\ MCInit /\ [][Within(Next)]_<<vars, on>>
  /\ WF_<<vars, on>>(Within(FreeZero)) /\ WF_<<vars, on>>(Within(Collector))

-----------------------------------------------------------------------------
(* A property that holds without weak maps.                                 *)

\* Dropping a reference frees by itself whatever is not part of, or held by,
\* a cycle, and a collection "keep[s] the objects with a refcount > 0 and their
\* children" (gc_scan): when the loop of free_zero_refcount or a collection
\* ends, no node is left without a counted reference. With weak maps one can be:
\* a value that only the record of a dying key holds is released by
\* reset_weak_ref while cycles are removed, when __JS_FreeValueRT frees nothing,
\* and stays at zero until the next collection.
PromptRelease == [][on # "weak" => Survivors']_<<vars, on>>
=============================================================================
