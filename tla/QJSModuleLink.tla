--------------------------- MODULE QJSModuleLink ---------------------------
(***************************************************************************)
(* Linking of ES modules in the QuickJS engine: js_inner_module_linking    *)
(* walks the requests, binds the imports of a module to the variables of   *)
(* others when it leaves it, and a failure puts the modules on the stack   *)
(* back to unlinked, to be linked again. One name is exported and          *)
(* imported. A module that exports what it imports counts as its owner.    *)
(***************************************************************************)
EXTENDS Integers, Sequences, SequencesExt, FiniteSets

CONSTANTS
  Modules,
  Kinds,     \* the kinds of exports in use: "own", "imported", "indirect"
  Cycles,    \* whether the requests may form cycles
  MaxLinks,  \* the calls of js_link_module at most
  None       \* no module, an empty slot

ASSUME LinkAssumption ==
  Kinds \subseteq {"own", "imported", "indirect"} /\ Cycles \in BOOLEAN /\ MaxLinks \in Nat

VARIABLES
  imp,      \* imp[m]: the module m imports the name from, or None
  exp,      \* exp[m]: the export of the name: <<"none">>, <<"own">>, <<"imported">>, <<"indirect", from>>
  req,      \* req[m]: the requested modules, in order
  status,   \* "unlinked", "linking" or "linked"
  index,    \* index[m]: <<dfs_index, dfs_ancestor_index>>
  slot,     \* slot[m]: the variable the import is bound to, or None
  ref,      \* ref[m]: u.local.var_ref of the export entry, or None
  count,    \* count[m]: the references to the variable of m
  frames,   \* the calls of js_inner_module_linking: <<module, next request>>
  scc,      \* the modules on the stack of the walk
  links,    \* history: the calls made
  missing   \* history: an import was bound to a variable that is not there

graph == <<imp, exp, req>>
bound == <<slot, ref, count>>
vars == <<graph, status, index, bound, frames, scc, links, missing>>

Opt == Modules \cup {None}
Exports == {<<"none">>} \cup {<<k>> : k \in Kinds \ {"indirect"}}
             \cup (IF "indirect" \in Kinds THEN {<<"indirect", m>> : m \in Modules} ELSE {})
Names(m) == ({imp[m]} \ {None}) \cup (IF exp[m][1] = "indirect" THEN {exp[m][2]} ELSE {})

Closure(s) ==
  LET f[n \in 0..Cardinality(Modules)] ==
        IF n = 0 THEN s ELSE f[n - 1] \cup UNION {ToSet(req[x]) : x \in f[n - 1]}
  IN  f[Cardinality(Modules)]

Acyclic == \A m \in Modules : m \notin Closure(ToSet(req[m]))

\* js_resolve_export of the name: the module it is a local export of, or None
Resolve(m) ==
  LET f[n \in 0..Cardinality(Modules), x \in Modules] ==
        IF exp[x][1] = "none" \/ n = 0 THEN None
        ELSE IF exp[x][1] = "indirect" THEN f[n - 1, exp[x][2]] ELSE x
  IN  f[Cardinality(Modules), m]

\* the variable of the local export of x: kept in the entry, or in the function
Variable(x) == IF ref[x] # None THEN ref[x] ELSE IF exp[x][1] = "own" THEN x ELSE slot[x]

-----------------------------------------------------------------------------

Here == Last(frames)[1]
At == Last(frames)[2]
Calls == frames # <<>> /\ ~missing

Enter(m, fs, st) ==
  /\ status' = [status EXCEPT ![m] = "linking"]
  /\ index' = [index EXCEPT ![m] = <<Len(st), Len(st)>>]
  /\ scc' = Append(st, m) /\ frames' = Append(fs, <<m, 1>>)

Link(m) ==
  /\ frames = <<>> /\ ~missing /\ links < MaxLinks /\ status[m] = "unlinked"
  /\ links' = links + 1 /\ Enter(m, <<>>, <<>>)
  /\ UNCHANGED <<graph, bound, missing>>

Descend ==
  /\ Calls /\ At <= Len(req[Here]) /\ status[req[Here][At]] = "unlinked"
  /\ Enter(req[Here][At], frames, scc)
  /\ UNCHANGED <<graph, bound, links, missing>>

Return ==
  /\ Calls /\ At <= Len(req[Here]) /\ status[req[Here][At]] # "unlinked"
  /\ LET m1 == req[Here][At]
     IN  index' = IF status[m1] = "linking" /\ index[m1][2] < index[Here][2]
                  THEN [index EXCEPT ![Here][2] = index[m1][2]] ELSE index
  /\ frames' = [frames EXCEPT ![Len(frames)][2] = @ + 1]
  /\ UNCHANGED <<graph, status, bound, scc, links, missing>>

Resolves(m) ==
  /\ exp[m][1] = "indirect" => Resolve(exp[m][2]) # None
  /\ imp[m] # None => Resolve(imp[m]) # None
Ready == Calls /\ At > Len(req[Here])

\* Fault: the modules already bound are left linked
FailTop ==
  /\ Ready /\ ~Resolves(Here)
  /\ status' = [m \in Modules |-> IF status[m] # "linking" THEN status[m]
                                  ELSE IF m \in {f[1] : f \in ToSet(frames)} THEN "unlinked" ELSE "linked"]
  /\ scc' = <<>> /\ frames' = <<>>
  /\ UNCHANGED <<graph, index, bound, links, missing>>

\* an export or an import is not found: the stack is unlinked again
Fail ==
  /\ Ready /\ ~Resolves(Here)
  /\ status' = [m \in Modules |-> IF m \in ToSet(scc) THEN "unlinked" ELSE status[m]]
  /\ scc' = <<>> /\ frames' = <<>>
  /\ UNCHANGED <<graph, index, bound, links, missing>>

Counted(v, n) == [count EXCEPT ![v] = @ + n]

\* the import is bound, then the export entry keeps its variable
Bind(m, v) ==
  /\ slot' = [slot EXCEPT ![m] = v]
  /\ LET r == IF exp[m][1] = "own" THEN m ELSE IF exp[m][1] = "imported" THEN v ELSE None
         c == IF v = None THEN count ELSE Counted(v, 1)
     IN  /\ ref' = [ref EXCEPT ![m] = r]
         /\ count' = IF r = None THEN c ELSE [c EXCEPT ![r] = @ + 1]

\* what is popped when m is the root of its cycle
Pop(m) == IF index[m][1] # index[m][2] THEN status
          ELSE [x \in Modules |-> IF \E i \in DOMAIN scc : scc[i] = x /\ i > index[m][1]
                                  THEN "linked" ELSE status[x]]

Leave ==
  /\ Ready /\ Resolves(Here)
  /\ LET x == IF imp[Here] = None THEN None ELSE Resolve(imp[Here])
         v == IF x = None THEN None ELSE Variable(x)
     IN  IF x # None /\ v = None
         THEN missing' = TRUE /\ UNCHANGED <<status, bound, scc, frames>>
         ELSE /\ Bind(Here, v)
              /\ status' = Pop(Here)
              /\ scc' = SelectSeq(scc, LAMBDA y : status'[y] = "linking")
              /\ frames' = Front(frames)
              /\ UNCHANGED missing
  /\ UNCHANGED <<graph, index, links>>

-----------------------------------------------------------------------------

Init ==
  /\ imp \in [Modules -> Opt] /\ exp \in [Modules -> Exports]
  /\ \A m \in Modules : exp[m][1] = "imported" => imp[m] # None
  /\ \E turned \in [Modules -> BOOLEAN] :
       req = [m \in Modules |-> LET s == SetToSeq(Names(m)) IN IF turned[m] THEN Reverse(s) ELSE s]
  /\ ~Cycles => Acyclic
  /\ status = [m \in Modules |-> "unlinked"] /\ index = [m \in Modules |-> <<0, 0>>]
  /\ slot = [m \in Modules |-> None] /\ ref = [m \in Modules |-> None]
  /\ count = [m \in Modules |-> 1]
  /\ frames = <<>> /\ scc = <<>> /\ links = 0 /\ missing = FALSE

Next == (\E m \in Modules : Link(m)) \/ Descend \/ Return \/ Fail \/ Leave
Spec == Init /\ [][Next]_vars

-----------------------------------------------------------------------------
(* Properties.                                                             *)

\* the variable an import of m stands for, by the declarations alone
Meaning(m) ==
  LET f[n \in 0..Cardinality(Modules), x \in Opt] ==
        IF n = 0 \/ x = None THEN None
        ELSE LET y == Resolve(x)
             IN  IF y = None THEN None ELSE IF exp[y][1] = "own" THEN y ELSE f[n - 1, imp[y]]
  IN  f[Cardinality(Modules), imp[m]]

\* A linked module has its import bound to the variable it stands for.
LinkedIsBound == \A m \in Modules : status[m] = "linked" => slot[m] = Meaning(m)

\* What a linked module requests is linked, also after links that failed.
LinkedIsClosed ==
  frames = <<>> => \A m \in Modules : status[m] = "linked" => \A d \in ToSet(req[m]) : status[d] = "linked"

\* what holds the variable of module v: its own function, the imports bound to
\* it and the export entries that keep it
Holders(v) == 1 + Cardinality({m \in Modules : slot[m] = v}) + Cardinality({m \in Modules : ref[m] = v})

\* The count of a variable covers everything that holds it, and is exact unless
\* the modules of a cycle were linked again after a failure.
RefsExact ==
  \A v \in Modules : count[v] >= Holders(v) /\ (links <= 1 \/ Acyclic => count[v] = Holders(v))

\* js_inner_module_linking: "Prepare a module to be executed by resolving all
\* the imported variables": an import that stands for a variable is bound.
AllResolved == missing => Meaning(Here) = None

\* What is linked is bound, to the right variables, each counted, with all it
\* requests, whatever failed meanwhile.
LinksSound == LinkedIsBound /\ LinkedIsClosed /\ AllResolved /\ RefsExact
=============================================================================
