----------------------------- MODULE QJSExports -----------------------------
(***************************************************************************)
(* What an import of a name finds in the QuickJS engine: the search of     *)
(* js_resolve_export1 through local, indirect, namespace and star exports, *)
(* and the namespace object that js_build_module_ns makes of a module. One *)
(* name is looked up; a graph is chosen, then a module is asked for it.    *)
(***************************************************************************)
EXTENDS Integers, Sequences, SequencesExt, FiniteSets

CONSTANTS
  Modules,   \* the modules; the first is looked up
  First,
  Targets,   \* the modules a namespace export may name
  MaxStars,  \* the star exports of a module at most
  None       \* no entry, no target

ExportsAssumption == First \in Modules /\ Targets \subseteq Modules /\ MaxStars \in Nat

VARIABLES
  isDefault, \* the name is "default", which a star does not export
  entry,     \* entry[m]: the export entry of m with the name, or None
  stars,     \* stars[m]: the modules of the star exports, in order
  answer,    \* what js_resolve_export says of First: <<result, target>>
  space      \* the namespace of First: "throws", or whether it has the name

vars == <<isDefault, entry, stars, answer, space>>

Local == [type |-> "local"]
Indirect(m) == [type |-> "indirect", from |-> m]
Namespace(m) == [type |-> "ns", from |-> m]
Entries == {None, Local} \cup {Indirect(m) : m \in Modules} \cup {Namespace(m) : m \in Targets}

-----------------------------------------------------------------------------
(* js_resolve_export1: seen is the list of the state s, one per search.    *)

RECURSIVE Resolve(_, _), Star(_, _, _)

Result(r, target, seen) == [r |-> r, target |-> target, seen |-> seen]

\* Fault: the first star export that has the name wins
StarFirst(m, i, acc) ==
  IF i > Len(stars[m]) THEN Result("not_found", None, acc.seen)
  ELSE LET a == Resolve(stars[m][i], acc.seen)
       IN  IF a.r \in {"ambiguous", "found"} THEN a ELSE Star(m, i + 1, Result("", None, a.seen))

\* the star exports of m from the i-th on
Star(m, i, acc) ==
  IF i > Len(stars[m])
  THEN IF acc.target # None THEN Result("found", acc.target, acc.seen) ELSE Result("not_found", None, acc.seen)
  ELSE LET a == Resolve(stars[m][i], acc.seen)
       IN  IF a.r = "ambiguous" THEN a
           ELSE IF a.r # "found" THEN Star(m, i + 1, Result("", acc.target, a.seen))
           ELSE IF acc.target \notin {None, a.target} THEN Result("ambiguous", None, a.seen)
           ELSE Star(m, i + 1, Result("", a.target, a.seen))

Resolve(m, seen) ==
  LET on == seen \cup {m}
  IN  IF m \in seen THEN Result("circular", None, seen)
      ELSE IF entry[m] = None
           THEN IF isDefault THEN Result("not_found", None, on) ELSE Star(m, 1, Result("", None, on))
      ELSE IF entry[m].type = "indirect" THEN Resolve(entry[m].from, on)
      ELSE Result("found", <<m, entry[m].type>>, on)

-----------------------------------------------------------------------------
(* get_exported_names and js_build_module_ns.                              *)

RECURSIVE Reached(_, _)

\* the modules whose entries get_exported_names visits
Reached(todo, done) ==
  IF todo \subseteq done THEN done
  ELSE Reached(UNION {ToSet(stars[m]) : m \in todo \ done}, done \cup todo)

ExportsName(m) ==
  \/ entry[m] # None
  \/ ~isDefault /\ \E x \in Reached({m}, {}) : entry[x] # None

BuildNamespace(m) ==
  IF ~ExportsName(m) THEN "without"
  ELSE LET res == IF entry[m] = Local THEN "found" ELSE Resolve(m, {}).r
       IN  IF res = "found" THEN "with" ELSE IF res = "ambiguous" THEN "without" ELSE "throws"

-----------------------------------------------------------------------------

Orders == UNION {SetToSeqs(s) : s \in {t \in SUBSET Modules : Cardinality(t) <= MaxStars}}

Init ==
  /\ isDefault \in BOOLEAN /\ entry \in [Modules -> Entries] /\ stars \in [Modules -> Orders]
  /\ answer = None /\ space = "none"

Lookup ==
  /\ answer = None
  /\ answer' = LET a == Resolve(First, {}) IN <<a.r, a.target>>
  /\ space' = BuildNamespace(First)
  /\ UNCHANGED <<isDefault, entry, stars>>

Next == Lookup
Spec == Init /\ [][Next]_vars

-----------------------------------------------------------------------------
(* Properties.                                                             *)

\* where an entry or the stars of a module lead
Leads(m) == IF entry[m] = None THEN (IF isDefault THEN {} ELSE ToSet(stars[m]))
            ELSE IF entry[m].type = "indirect" THEN {entry[m].from} ELSE {}

RECURSIVE Closure(_)
Closure(s) == LET t == s \cup UNION {Leads(m) : m \in s} IN IF t = s THEN s ELSE Closure(t)

\* The exports the name can mean: those reached by any path.
Meanings == {<<m, entry[m].type>> : m \in {x \in Closure({First}) :
               entry[x] # None /\ entry[x].type # "indirect"}}

\* A name is found when exactly one export can be meant, however many paths
\* and cycles lead to it, and in whatever order the stars are listed; it is
\* ambiguous when there are several.
FoundIsUnique ==
  answer # None =>
    CASE answer[1] = "found" -> Meanings = {answer[2]}
      [] answer[1] = "ambiguous" -> Cardinality(Meanings) > 1
      [] OTHER -> Meanings = {}

\* the check of js_inner_module_linking: every indirect export resolves
Linked == \A m \in Modules : entry[m] \in {Indirect(x) : x \in Modules} => Resolve(entry[m].from, {}).r = "found"

\* Once modules are linked, making a namespace does not throw, and it has the
\* name when an import of the name would succeed.
NamespaceAgrees ==
  answer # None /\ Linked => space = IF answer[1] = "found" THEN "with" ELSE "without"
=============================================================================
