--------------------------- MODULE QJSModuleEval ---------------------------
(***************************************************************************)
(* Evaluation of ES modules in the QuickJS engine: the depth-first walk of *)
(* js_inner_module_evaluation, with its stack of strongly connected        *)
(* components, and what happens to the importers of a module with          *)
(* top-level await when its body is over. A graph of modules and the set   *)
(* of those that await are chosen in the initial state; bodies fulfil or   *)
(* throw; any module may be the root of an evaluation when nothing runs.   *)
(***************************************************************************)
EXTENDS Integers, Sequences, SequencesExt, FiniteSets

CONSTANTS
  Modules,     \* 1..n
  Graphs,      \* the graphs to check: functions from Modules to Seq(Modules)
  AwaitSets,   \* the sets of modules with top-level await to check
  MaxRoots     \* the evaluations started at most

EvalAssumption ==
  /\ Modules = 1..Cardinality(Modules) /\ MaxRoots \in Nat
  /\ \A g \in Graphs : \A m \in Modules : ToSet(g[m]) \subseteq Modules
  /\ \A t \in AwaitSets : t \subseteq Modules

VARIABLES
  req,      \* req[m]: the modules m requests, in order
  tla,      \* has_tla
  status,   \* "linked", "evaluating", "evaluating_async" or "evaluated"
  index,    \* index[m]: <<dfs_index, dfs_ancestor_index>>
  pending,  \* pending_async_dependencies
  async,    \* async_evaluation
  stamp,    \* async_evaluation_timestamp, or 0
  parents,  \* async_parent_modules
  root,     \* cycle_root, or 0
  exc,      \* eval_has_exception
  promise,  \* promise[m]: "none", "pending", "fulfilled" or "rejected"
  frames,   \* the calls of js_inner_module_evaluation: <<module, next request>>
  scc,      \* the modules that are evaluating, the last pushed last
  awaits,   \* the modules whose body awaits
  scan,     \* the calls of gather_available_ancestors: <<module, next parent>>
  execs,    \* exec_list: gathered, then executed in the order of the stamps
  roots,    \* history: the evaluations started
  started,  \* history: started[m]: how often the body was entered
  finished, \* history: the modules whose body came to its end
  broken    \* history: an assert of the code has failed

graph == <<req, tla>>
marks == <<status, index, pending, async, stamp, parents, root, exc, promise>>
walk == <<frames, scc>>
history == <<roots, started, finished>>
vars == <<graph, marks, walk, awaits, scan, execs, history, broken>>

Idle == frames = <<>> /\ scan = <<>> /\ execs = <<>>
Asserted(cond) == broken' = (broken \/ ~cond)
Smaller(a, b) == IF a < b THEN a ELSE b
Clock == 1 + Cardinality({m \in Modules : stamp[m] # 0})

-----------------------------------------------------------------------------
(* js_evaluate_module and js_inner_module_evaluation.                      *)

\* what js_inner_module_evaluation sets when it enters a module
Enter(m, fs, st) ==
  /\ status' = [status EXCEPT ![m] = "evaluating"]
  /\ index' = [index EXCEPT ![m] = <<Len(st), Len(st)>>]
  /\ pending' = [pending EXCEPT ![m] = 0]
  /\ scc' = Append(st, m)
  /\ frames' = Append(fs, <<m, 1>>)

Begin(m) ==
  /\ Idle /\ roots < MaxRoots /\ status[m] = "linked"
  /\ roots' = roots + 1
  /\ promise' = [promise EXCEPT ![m] = "pending"]
  /\ Enter(m, <<>>, <<>>)
  /\ UNCHANGED <<graph, async, stamp, parents, root, exc, awaits, scan, execs, started, finished, broken>>

\* a module evaluated before: the promise is that of the root of its cycle
BeginAgain(m) ==
  /\ Idle /\ roots < MaxRoots /\ status[m] # "linked"
  /\ roots' = roots + 1
  /\ LET r == root[m]
     IN  promise' = IF promise[r] # "none" THEN promise
                    ELSE [promise EXCEPT ![r] = IF exc[r] THEN "rejected"
                                               ELSE IF async[r] THEN "pending" ELSE "fulfilled"]
  /\ UNCHANGED <<graph, status, index, pending, async, stamp, parents, root, exc>>
  /\ UNCHANGED <<walk, awaits, scan, execs, started, finished, broken>>

Here == Last(frames)[1]
Next_i == Last(frames)[2]
Requests == frames # <<>> /\ Next_i <= Len(req[Here])
Child == req[Here][Next_i]
\* the module a request is judged by once it was visited
Judge(m) == IF status[m] = "evaluating" THEN m ELSE root[m]

Descend ==
  /\ Requests /\ status[Child] = "linked"
  /\ Enter(Child, frames, scc)
  /\ UNCHANGED <<graph, async, stamp, parents, root, exc, promise, awaits, scan, execs, history, broken>>

\* the request is part of the cycle, or done, or it is waited for
Meet ==
  /\ Requests /\ status[Child] # "linked" /\ ~exc[Child] /\ ~exc[Judge(Child)]
  /\ LET m1 == Judge(Child)
     IN  /\ index' = IF status[Child] = "evaluating"
                     THEN [index EXCEPT ![Here][2] = Smaller(@, index[m1][2])] ELSE index
         /\ IF async[m1]
            THEN /\ pending' = [pending EXCEPT ![Here] = @ + 1]
                 /\ parents' = [parents EXCEPT ![m1] = Append(@, Here)]
            ELSE UNCHANGED <<pending, parents>>
  /\ frames' = [frames EXCEPT ![Len(frames)][2] = @ + 1]
  /\ UNCHANGED <<graph, status, async, stamp, root, exc, promise, scc, awaits, scan, execs, history, broken>>

\* every call returns -1: the modules on the stack are marked
Unwind(on) ==
  LET r == Head(frames)[1]
  IN  /\ status' = [m \in Modules |-> IF m \in on THEN "evaluated" ELSE status[m]]
      /\ exc' = [m \in Modules |-> exc[m] \/ m \in on]
      /\ root' = [m \in Modules |-> IF m \in on THEN r ELSE root[m]]
      /\ promise' = [promise EXCEPT ![r] = "rejected"]
      /\ scc' = <<>> /\ frames' = <<>>
      /\ Asserted(r \in on)

\* a request that failed in an earlier evaluation, or in this one
MeetFailed ==
  /\ Requests /\ status[Child] # "linked" /\ (exc[Child] \/ exc[Judge(Child)])
  /\ Unwind(ToSet(scc))
  /\ UNCHANGED <<graph, index, pending, async, stamp, parents, awaits, scan, execs, history>>

\* The modules popped when the walk leaves m, which is the root of its cycle if
\* no request leads further up.
Popped(m) == IF index[m][1] = index[m][2]
             THEN {scc[i] : i \in {j \in DOMAIN scc : j > index[m][1]}} ELSE {}

Leave(m, asyncs) ==
  LET out == Popped(m)
  IN  /\ status' = [x \in Modules |-> IF x \notin out THEN status[x]
                                      ELSE IF x \in asyncs THEN "evaluating_async" ELSE "evaluated"]
      /\ root' = [x \in Modules |-> IF x \in out THEN m ELSE root[x]]
      /\ scc' = SelectSeq(scc, LAMBDA x : x \notin out)
      /\ frames' = Front(frames)
      /\ promise' = IF Len(frames) = 1 /\ m \notin asyncs
                    THEN [promise EXCEPT ![m] = "fulfilled"] ELSE promise

Asyncs == {m \in Modules : async[m]}
Ready == frames # <<>> /\ Next_i > Len(req[Here])

\* m waits for others, or its body awaits: its turn comes by a job
LeaveAsync ==
  /\ Ready /\ (pending[Here] > 0 \/ Here \in tla)
  /\ async' = [async EXCEPT ![Here] = TRUE] /\ stamp' = [stamp EXCEPT ![Here] = Clock]
  /\ IF pending[Here] > 0 THEN UNCHANGED <<awaits, started>>
     ELSE /\ awaits' = awaits \cup {Here}
          /\ started' = [started EXCEPT ![Here] = @ + 1]
  /\ Leave(Here, Asyncs \cup {Here})
  /\ Asserted(~async[Here] /\ index[Here][2] <= index[Here][1])
  /\ UNCHANGED <<graph, index, pending, parents, exc, scan, execs, roots, finished>>

\* js_execute_sync_module: the body runs to its end
LeaveSync ==
  /\ Ready /\ pending[Here] = 0 /\ Here \notin tla
  /\ started' = [started EXCEPT ![Here] = @ + 1] /\ finished' = finished \cup {Here}
  /\ Leave(Here, Asyncs)
  /\ Asserted(index[Here][2] <= index[Here][1])
  /\ UNCHANGED <<graph, index, pending, async, stamp, parents, exc, awaits, scan, execs, roots>>

\* or throws
SyncThrows ==
  /\ Ready /\ pending[Here] = 0 /\ Here \notin tla
  /\ started' = [started EXCEPT ![Here] = @ + 1]
  /\ Unwind(ToSet(scc))
  /\ UNCHANGED <<graph, index, pending, async, stamp, parents, awaits, scan, execs, roots, finished>>

-----------------------------------------------------------------------------
(* The jobs run when the body of a module with top-level await is over.    *)

\* js_set_module_evaluated
Evaluated(m) ==
  /\ status' = [status EXCEPT ![m] = "evaluated"]
  /\ promise' = IF promise[m] = "none" THEN promise ELSE [promise EXCEPT ![m] = "fulfilled"]

\* js_async_module_execution_fulfilled, up to the walk of the importers
Fulfilled(m) ==
  /\ Idle /\ m \in awaits
  /\ awaits' = awaits \ {m} /\ finished' = finished \cup {m}
  /\ IF status[m] = "evaluated"
     THEN /\ UNCHANGED <<async, status, promise, scan>>
          /\ Asserted(exc[m])
     ELSE /\ async' = [async EXCEPT ![m] = FALSE]
          /\ Evaluated(m)
          /\ scan' = <<<<m, 1>>>>
          /\ Asserted(/\ status[m] = "evaluating_async" /\ ~exc[m] /\ async[m]
                    /\ promise[m] # "none" => root[m] = m)
  /\ UNCHANGED <<graph, index, pending, stamp, parents, root, exc, walk, execs, roots, started>>

\* Fault: an importer is executed when the first of its requests is done
GatherFirst ==
  /\ scan # <<>>
  /\ LET m == Last(scan)[1]
         i == Last(scan)[2]
         up == [scan EXCEPT ![Len(scan)][2] = @ + 1]
     IN  IF i > Len(parents[m])
         THEN scan' = Front(scan) /\ UNCHANGED <<pending, execs, broken>>
         ELSE LET p == parents[m][i]
              IN  IF p \in ToSet(execs) \/ exc[root[p]]
                  THEN scan' = up /\ UNCHANGED <<pending, execs, broken>>
                  ELSE /\ pending' = [pending EXCEPT ![p] = 0]
                       /\ execs' = Append(execs, p)
                       /\ scan' = IF p \notin tla THEN Append(up, <<p, 1>>) ELSE up
                       /\ UNCHANGED broken
  /\ UNCHANGED <<graph, status, index, async, stamp, parents, root, exc, promise, walk, awaits, history>>

\* one round of gather_available_ancestors
Gather ==
  /\ scan # <<>>
  /\ LET m == Last(scan)[1]
         i == Last(scan)[2]
         up == [scan EXCEPT ![Len(scan)][2] = @ + 1]
     IN  IF i > Len(parents[m])
         THEN scan' = Front(scan) /\ UNCHANGED <<pending, execs, broken>>
         ELSE LET p == parents[m][i]
              IN  IF p \in ToSet(execs) \/ exc[root[p]]
                  THEN scan' = up /\ UNCHANGED <<pending, execs, broken>>
                  ELSE /\ pending' = [pending EXCEPT ![p] = @ - 1]
                       /\ execs' = IF pending[p] = 1 THEN Append(execs, p) ELSE execs
                       /\ scan' = IF pending[p] = 1 /\ p \notin tla
                                  THEN Append(up, <<p, 1>>) ELSE up
                       /\ Asserted(/\ status[p] = "evaluating_async" /\ ~exc[p]
                                 /\ async[p] /\ pending[p] > 0)
  /\ UNCHANGED <<graph, status, index, async, stamp, parents, root, exc, promise, walk, awaits, history>>

\* the next one of exec_list, by its timestamp
First == CHOOSE m \in ToSet(execs) : \A x \in ToSet(execs) : stamp[m] <= stamp[x]
Executes == scan = <<>> /\ execs # <<>>
Taken == execs' = Remove(execs, First)

\* an importer that awaits, or has failed meanwhile
ExecAsync ==
  /\ Executes /\ (status[First] = "evaluated" \/ First \in tla)
  /\ IF status[First] = "evaluated" THEN UNCHANGED <<awaits, started>> /\ Asserted(exc[First])
     ELSE /\ awaits' = awaits \cup {First}
          /\ started' = [started EXCEPT ![First] = @ + 1]
          /\ UNCHANGED broken
  /\ Taken
  /\ UNCHANGED <<graph, marks, walk, scan, roots, finished>>

ExecSync ==
  /\ Executes /\ status[First] # "evaluated" /\ First \notin tla
  /\ started' = [started EXCEPT ![First] = @ + 1] /\ finished' = finished \cup {First}
  /\ Evaluated(First)
  /\ Asserted(promise[First] # "none" => root[First] = First)
  /\ Taken
  /\ UNCHANGED <<graph, index, pending, async, stamp, parents, root, exc, walk, awaits, scan, roots>>

\* js_async_module_execution_rejected goes up the importers that are not over:
\* those reached in n steps
Up(m) ==
  LET f[n \in 0..Cardinality(Modules)] ==
        IF n = 0 THEN {m}
        ELSE f[n - 1] \cup {p \in Modules : status[p] # "evaluated"
                              /\ \E x \in f[n - 1] : p \in ToSet(parents[x])}
  IN  f[Cardinality(Modules)]

\* js_async_module_execution_rejected
Rejected(m) ==
  LET up == Up(m)
  IN  /\ status' = [x \in Modules |-> IF x \in up THEN "evaluated" ELSE status[x]]
      /\ exc' = [x \in Modules |-> exc[x] \/ x \in up]
      /\ promise' = [x \in Modules |-> IF x \in up /\ promise[x] # "none" THEN "rejected" ELSE promise[x]]
      /\ Asserted(\A x \in up : /\ status[x] = "evaluating_async" /\ ~exc[x] /\ async[x]
                              /\ promise[x] # "none" => root[x] = x
                              /\ \A p \in ToSet(parents[x]) : status[p] = "evaluated" => exc[p])

ExecThrows ==
  /\ Executes /\ status[First] # "evaluated" /\ First \notin tla
  /\ started' = [started EXCEPT ![First] = @ + 1]
  /\ Rejected(First)
  /\ Taken
  /\ UNCHANGED <<graph, index, pending, async, stamp, parents, root, walk, awaits, scan, roots, finished>>

AwaitThrows(m) ==
  /\ Idle /\ m \in awaits
  /\ awaits' = awaits \ {m}
  /\ IF status[m] = "evaluated" THEN UNCHANGED <<status, exc, promise>> /\ Asserted(exc[m])
     ELSE Rejected(m)
  /\ UNCHANGED <<graph, index, pending, async, stamp, parents, root, walk, scan, execs, history>>

-----------------------------------------------------------------------------

Init ==
  /\ req \in Graphs /\ tla \in AwaitSets
  /\ status = [m \in Modules |-> "linked"] /\ index = [m \in Modules |-> <<0, 0>>]
  /\ pending = [m \in Modules |-> 0] /\ async = [m \in Modules |-> FALSE]
  /\ stamp = [m \in Modules |-> 0] /\ parents = [m \in Modules |-> <<>>]
  /\ root = [m \in Modules |-> 0] /\ exc = [m \in Modules |-> FALSE]
  /\ promise = [m \in Modules |-> "none"]
  /\ frames = <<>> /\ scc = <<>> /\ awaits = {} /\ scan = <<>> /\ execs = <<>>
  /\ roots = 0 /\ started = [m \in Modules |-> 0] /\ finished = {} /\ broken = FALSE

Walk == Descend \/ Meet \/ MeetFailed \/ LeaveAsync \/ LeaveSync \/ SyncThrows
Exec == Gather \/ ExecAsync \/ ExecSync \/ ExecThrows

Next ==
  \/ \E m \in Modules : Begin(m) \/ BeginAgain(m) \/ Fulfilled(m) \/ AwaitThrows(m)
  \/ Walk \/ Exec

Spec == Init /\ [][Next]_vars

-----------------------------------------------------------------------------
(* Properties.                                                             *)

TypeOK ==
  /\ \A m \in Modules : status[m] \in {"linked", "evaluating", "evaluating_async", "evaluated"}
  /\ \A m \in Modules : pending[m] \in Nat /\ promise[m] \in {"none", "pending", "fulfilled", "rejected"}
  /\ awaits \subseteq tla /\ ToSet(execs) \subseteq Modules

\* The asserts of the code hold, whatever the graph, whatever throws.
AssertsHold == ~broken

Closure(m) ==
  LET f[n \in 0..Cardinality(Modules)] ==
        IF n = 0 THEN {m} ELSE f[n - 1] \cup UNION {ToSet(req[x]) : x \in f[n - 1]}
  IN  f[Cardinality(Modules)]

\* The body of a module is entered when each request outside its own cycle is
\* over with all that the request needs.
RequestsFirst ==
  \A m \in Modules : started[m] > 0 =>
    \A d \in ToSet(req[m]) : m \in Closure(d) \/ Closure(d) \subseteq finished

\* and once
BodyOnce == \A m \in Modules : started[m] <= 1

\* The promise of an evaluation is fulfilled when every module it needs has
\* been evaluated, and rejected only for a module that failed.
PromiseTrue ==
  Idle => \A m \in Modules :
    /\ promise[m] = "fulfilled" => Closure(m) \subseteq finished
    /\ promise[m] = "rejected" => exc[m] /\ Closure(m) \ finished # {}

\* js_evaluate_module: "Run the <eval> function of the module and of all its
\* requested modules": when no body awaits and nothing runs, no promise of an
\* evaluation is pending.
NoneForgotten == Idle /\ awaits = {} => \A m \in Modules : promise[m] # "pending"
=============================================================================
