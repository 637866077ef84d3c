----------------------------- MODULE MCModules -----------------------------
(* ES modules: the linking, the evaluation and the search for an export,    *)
(* each by itself and one of them in a behaviour: `on` says which. The      *)
(* others keep a state they may start in. The constants of QJSModuleLink    *)
(* are those of the configuration, for graphs without cycles.               *)
EXTENDS QJSModuleLink

VARIABLES
  on,                                                           \* what runs
  evReq, tla, evStatus, evIndex, pending, async, stamp, parents, root, exc, promise, \* QJSModuleEval
  evFrames, evScc, awaits, scan, execs, roots, started, finished, broken,
  isDefault, entry, stars, answer, space                        \* QJSExports

evalVars == <<evReq, tla, evStatus, evIndex, pending, async, stamp, parents, root, exc, promise,
              evFrames, evScc, awaits, scan, execs, roots, started, finished, broken>>
exportVars == <<isDefault, entry, stars, answer, space>>

\* graphs with cycles, without exports of imports
Cyclic == INSTANCE QJSModuleLink WITH Kinds <- {"own", "indirect"}, Cycles <- TRUE

\* every set of requests, in ascending order; without requests of a module itself
AllGraphs == {[m \in Modules |-> SetToSortSeq(g[m], <)] : g \in [Modules -> SUBSET Modules]}
SomeGraphs == {g \in AllGraphs : \A m \in Modules : m \notin ToSet(g[m])}

Eval(graphs, maxRoots) == INSTANCE QJSModuleEval WITH
  Graphs <- graphs, AwaitSets <- SUBSET Modules, MaxRoots <- maxRoots,
  req <- evReq, status <- evStatus, index <- evIndex, frames <- evFrames, scc <- evScc

Exports3 == INSTANCE QJSExports WITH First <- 1, Targets <- {1}, MaxStars <- 2

ASSUME MCModulesAssumption ==
  /\ Cyclic!LinkAssumption /\ Exports3!ExportsAssumption
  /\ Eval(AllGraphs, 1)!EvalAssumption /\ Eval(SomeGraphs, 2)!EvalAssumption

-----------------------------------------------------------------------------

InitLink ==
  \/ on = "link" /\ Init
  \/ on = "cyclic" /\ Cyclic!Init
  \/ /\ on \notin {"link", "cyclic"}
     /\ imp = [m \in Modules |-> None] /\ exp = [m \in Modules |-> <<"none">>] /\ Init

InitEval ==
  \/ on = "once" /\ Eval(AllGraphs, 1)!Init
  \/ on = "twice" /\ Eval(SomeGraphs, 2)!Init
  \/ /\ on \notin {"once", "twice"}
     /\ evReq = [m \in Modules |-> <<>>] /\ tla = {} /\ Eval(AllGraphs, 1)!Init

InitExports ==
  \/ on = "export" /\ Exports3!Init
  \/ /\ on # "export"
     /\ isDefault = FALSE /\ entry = [m \in Modules |-> None] /\ stars = [m \in Modules |-> <<>>]
     /\ Exports3!Init

MCInit ==
  /\ on \in {"link", "cyclic", "once", "twice", "export"}
  /\ InitLink /\ InitEval /\ InitExports

MCNext ==
  \/ on = "link" /\ Next /\ UNCHANGED <<on, evalVars, exportVars>>
  \/ on = "cyclic" /\ Cyclic!Next /\ UNCHANGED <<on, evalVars, exportVars>>
  \/ on = "once" /\ Eval(AllGraphs, 1)!Next /\ UNCHANGED <<on, vars, exportVars>>
  \/ on = "twice" /\ Eval(SomeGraphs, 2)!Next /\ UNCHANGED <<on, vars, exportVars>>
  \/ on = "export" /\ Exports3!Next /\ UNCHANGED <<on, vars, evalVars>>

MCSpec == MCInit /\ [][MCNext]_<<on, vars, evalVars, exportVars>>

-----------------------------------------------------------------------------
(* Evaluation: of one module of any graph, or of two.                      *)

Evaluated(once, twice) == (on = "once" => once) /\ (on = "twice" => twice)

\* The asserts of the code hold, whatever the graph, whatever throws.
AssertsHold == Evaluated(Eval(AllGraphs, 1)!AssertsHold, Eval(SomeGraphs, 2)!AssertsHold)

\* The body of a module is entered when each request outside its own cycle is
\* over with all that the request needs.
RequestsFirst == Evaluated(Eval(AllGraphs, 1)!RequestsFirst, Eval(SomeGraphs, 2)!RequestsFirst)

\* and once
BodyOnce == Evaluated(Eval(AllGraphs, 1)!BodyOnce, Eval(SomeGraphs, 2)!BodyOnce)

\* The promise of an evaluation is fulfilled when every module it needs has
\* been evaluated, and rejected only for a module that failed.
PromiseTrue == Evaluated(Eval(AllGraphs, 1)!PromiseTrue, Eval(SomeGraphs, 2)!PromiseTrue)

\* js_evaluate_module: "Run the <eval> function of the module and of all its
\* requested modules": when no body awaits and nothing runs, no promise of the
\* only evaluation is pending. (With two, one may be: the README says when.)
NoneForgotten == Evaluated(Eval(AllGraphs, 1)!NoneForgotten, TRUE)

-----------------------------------------------------------------------------
(* The search for an export.                                               *)

\* A name is found when exactly one export can be meant, however many paths
\* and cycles lead to it, and in whatever order the stars are listed; it is
\* ambiguous when there are several.
FoundIsUnique == on = "export" => Exports3!FoundIsUnique

\* Once modules are linked, making a namespace does not throw, and it has the
\* name when an import of the name would succeed.
NamespaceAgrees == on = "export" => Exports3!NamespaceAgrees

-----------------------------------------------------------------------------
(* What the run checks, of each part.                                      *)

\* Modules run once, after what they need, and their promise says how it went.
EvaluationSound == AssertsHold /\ RequestsFirst /\ BodyOnce /\ PromiseTrue /\ NoneForgotten

\* A name means one export or none, wherever it is asked for.
ExportsSound == FoundIsUnique /\ NamespaceAgrees
=============================================================================
