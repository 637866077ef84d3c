----------------------------- MODULE QJSPromise -----------------------------
(***************************************************************************)
(* Promises and the job queue of the QuickJS engine: resolving functions,  *)
(* reactions, thenables, and JS_ExecutePendingJob, by which a host runs    *)
(* what was queued. Script runs at the top level and inside the handler of *)
(* a reaction job, one action per call it makes; a job runs to its end     *)
(* before the next one is taken.                                           *)
(*                                                                         *)
(* A pair stands for the two resolving functions that share one            *)
(* already_resolved flag. Script may keep those it was given, by an         *)
(* executor or a then method of its own, and call them whenever it runs.   *)
(***************************************************************************)
EXTENDS Integers, Sequences, SequencesExt, FiniteSets

CONSTANTS
  Promises,  \* the promise objects that may be created
  Pairs,     \* the pairs of resolving functions that may be created
  Vals,      \* values that are not objects
  Error,     \* an exception the engine throws
  Foreigns,  \* objects with a then method of their own
  Callback,  \* a handler of the script
  Script,    \* what runs: the top level, or
  Idle,      \* nothing, so that the host may execute a job
  None

ASSUME PromiseAssumption ==
  /\ Promises \subseteq Nat /\ Pairs \subseteq Nat /\ (Vals \cup Foreigns) \cap Promises = {}
  /\ None \notin Promises \cup Pairs /\ Callback \notin Pairs \cup {None}
  /\ None \notin [of : Promises, resolved : BOOLEAN, held : BOOLEAN]

VARIABLES
  state,     \* state[p]: promise_state, or "none"
  result,    \* result[p]: promise_result
  reacts,    \* reacts[p]: the reactions waiting on p, in order
  pair,      \* pair[q]: [of, resolved, held by script], or None
  jobs,      \* rt->job_list
  running,   \* Script, Idle or the job in which script is running
  follows,   \* history: the promise or object p was resolved to
  asked,     \* history: the calls of then, in order: <<promise, derived>>
  ran        \* history: the reactions whose job was taken, in order

history == <<follows, asked, ran>>
vars == <<state, result, reacts, pair, jobs, running, history>>

Settled(p) == state[p] \in {"fulfilled", "rejected"}
NewPromise(p) == state[p] = "none" /\ \A x \in Promises : state[x] = "none" => p <= x
NewPair(q) == pair[q] = None /\ \A x \in Pairs : pair[x] = None => q <= x
Made == {p \in Promises : state[p] # "none"}

\* a reaction: the promise then returned (its pair resolves it), and the two
\* handlers: None, Callback, or the resolving functions of a pair
Reaction(d, onFul, onRej) == [derived |-> d, fulfilled |-> onFul, rejected |-> onRej]

\* the job fulfill_or_reject_promise and perform_promise_then queue
ReactionJob(p, r, st, v) ==
  [kind |-> "reaction", on |-> p, derived |-> r.derived, handler |-> r[st], was |-> st, arg |-> v]

-----------------------------------------------------------------------------
(* Settling.                                                               *)

\* The engine's state as a record, so that a call inside a call can be folded.
Now == [state |-> state, result |-> result, reacts |-> reacts, pair |-> pair,
        jobs |-> jobs, follows |-> follows]
Becomes(s) ==
  /\ state' = s.state /\ result' = s.result /\ reacts' = s.reacts
  /\ pair' = s.pair /\ jobs' = s.jobs /\ follows' = s.follows

\* Fault: the reactions stay on the promise
SettledForgotten(s, p, st, v) ==
  [s EXCEPT !.state[p] = st, !.result[p] = v]

\* fulfill_or_reject_promise: a promise that is settled stays as it is
SettledAs(s, p, st, v) ==
  IF s.state[p] # "pending" THEN s
  ELSE [s EXCEPT !.state[p] = st, !.result[p] = v, !.reacts[p] = <<>>,
                 !.jobs = @ \o [i \in DOMAIN s.reacts[p] |->
                                  ReactionJob(p, s.reacts[p][i], st, v)]]

\* js_promise_resolve_function_call: what calling a function of pair q with v
\* may lead to; the then property of a foreign object may be a getter that
\* throws, or not be callable
Resolved(s, q, how, v) ==
  LET p == s.pair[q].of
      t == [s EXCEPT !.pair[q].resolved = TRUE]
      queued == [t EXCEPT !.jobs = Append(@, [kind |-> "thenable", of |-> p, to |-> v]),
                          !.follows[p] = v]
  IN  IF s.pair[q].resolved THEN {s}
      ELSE IF how = "rejected" \/ v \notin Promises \cup Foreigns
      THEN {SettledAs(t, p, how, v)}
      ELSE IF v = p THEN {SettledAs(t, p, "rejected", Error)}
      ELSE IF v \in Foreigns
      THEN {queued, SettledAs(t, p, "fulfilled", v), SettledAs(t, p, "rejected", Error)}
      ELSE {queued}

-----------------------------------------------------------------------------
(* Script.                                                                 *)

ScriptRuns == running # Idle

\* js_promise_constructor: a pending promise and its resolving functions, which
\* the executor keeps
Construct(p, q) ==
  /\ ScriptRuns /\ NewPromise(p) /\ NewPair(q)
  /\ state' = [state EXCEPT ![p] = "pending"]
  /\ pair' = [pair EXCEPT ![q] = [of |-> p, resolved |-> FALSE, held |-> TRUE]]
  /\ UNCHANGED <<result, reacts, jobs, running, history>>

\* perform_promise_then
Registered(s, p, r) ==
  IF s.state[p] = "pending" THEN [s EXCEPT !.reacts[p] = Append(@, r)]
  ELSE [s EXCEPT !.jobs = Append(@, ReactionJob(p, r, s.state[p], s.result[p]))]

\* js_promise_then with any choice of handlers
Then(p, d, q, onFul, onRej) ==
  /\ ScriptRuns /\ p \in Made /\ NewPromise(d) /\ NewPair(q)
  /\ Becomes(Registered([Now EXCEPT !.state[d] = "pending",
                                    !.pair[q] = [of |-> d, resolved |-> FALSE, held |-> FALSE]],
                        p, Reaction(q, onFul, onRej)))
  /\ asked' = Append(asked, <<p, q>>)
  /\ UNCHANGED <<running, ran>>

\* script calls a resolving function, perhaps not for the first time
Call(q, how, v) ==
  /\ ScriptRuns /\ pair[q] # None /\ pair[q].held
  /\ \E s \in Resolved(Now, q, how, v) : Becomes(s)
  /\ UNCHANGED <<running, asked, ran>>

\* the top level returns to the host
ScriptEnds ==
  /\ running = Script
  /\ running' = Idle
  /\ UNCHANGED <<state, result, reacts, pair, jobs, history>>

-----------------------------------------------------------------------------
(* JS_ExecutePendingJob.                                                   *)

\* what a function handed to then, or to a thenable, is given to: the derived
\* promise's pair; then, called by a thenable job, drops the promise it makes
Give(s, q, how, v) == IF q = None THEN {s} ELSE Resolved(s, q, how, v)

Taken == [Now EXCEPT !.jobs = Tail(@)]
Ran(j) == ran' = IF j.derived = None THEN ran ELSE Append(ran, <<j.on, j.derived>>)

\* promise_reaction_job without a handler, or with a resolving function for one
PassOn ==
  /\ running = Idle /\ jobs # <<>> /\ Head(jobs).kind = "reaction"
  /\ LET j == Head(jobs)
     IN  /\ j.handler # Callback
         /\ IF j.handler = None
            THEN \E s \in Give(Taken, j.derived, j.was, j.arg) : Becomes(s)
            ELSE \E s \in Resolved(Taken, j.handler, j.was, j.arg) : Becomes(s)
         /\ Ran(j)
  /\ UNCHANGED <<running, asked>>

\* promise_reaction_job calls a handler of the script
StartHandler ==
  /\ running = Idle /\ jobs # <<>> /\ Head(jobs).kind = "reaction"
  /\ Head(jobs).handler = Callback
  /\ running' = Head(jobs)
  /\ Becomes(Taken) /\ Ran(Head(jobs))
  /\ UNCHANGED asked

\* the handler, or a then method, returns v or throws it; the promise does not
\* depend on what a then method returns
FinishHandler(how, v) ==
  /\ running \notin {Idle, Script}
  /\ IF running.kind = "thenable" /\ how = "fulfilled" THEN Becomes(Now)
     ELSE \E s \in Give(Now, running.derived, how, v) : Becomes(s)
  /\ running' = Idle
  /\ UNCHANGED <<asked, ran>>

\* Fault: the job gives its promise no functions
RunThenableForgotten(q) ==
  /\ running = Idle /\ jobs # <<>> /\ Head(jobs).kind = "thenable" /\ NewPair(q)
  /\ Becomes(Taken)
  /\ UNCHANGED <<running, asked, ran>>

\* js_promise_resolve_thenable_job: fresh functions for the promise are passed
\* to the object's then; one of its own is script, and may keep them
RunThenable(q) ==
  /\ running = Idle /\ jobs # <<>> /\ Head(jobs).kind = "thenable" /\ NewPair(q)
  /\ LET j == Head(jobs)
         own == j.to \in Foreigns
         s == [Taken EXCEPT !.pair[q] = [of |-> j.of, resolved |-> FALSE, held |-> own]]
     IN  IF own
         THEN Becomes(s) /\ running' = [kind |-> "thenable", derived |-> q]
         ELSE /\ Becomes(Registered(s, j.to, Reaction(None, q, q)))
              /\ UNCHANGED running
  /\ UNCHANGED <<asked, ran>>

-----------------------------------------------------------------------------

Init ==
  /\ state = [p \in Promises |-> "none"] /\ result = [p \in Promises |-> None]
  /\ reacts = [p \in Promises |-> <<>>] /\ pair = [q \in Pairs |-> None]
  /\ jobs = <<>> /\ running = Script
  /\ follows = [p \in Promises |-> None] /\ asked = <<>> /\ ran = <<>>

Handlers == {None, Callback}

ScriptStep ==
  \/ \E p \in Promises, q \in Pairs : Construct(p, q)
  \/ \E p, d \in Promises, q \in Pairs, f, r \in Handlers : Then(p, d, q, f, r)
  \/ \E q \in Pairs, v \in Vals \cup Made \cup Foreigns :
       Call(q, "fulfilled", v) \/ (v \in Vals /\ Call(q, "rejected", v))
  \/ ScriptEnds

ExecutePendingJob ==
  \/ PassOn
  \/ StartHandler
  \/ \E q \in Pairs : RunThenable(q)

Return ==
  \E v \in Vals \cup Made \cup Foreigns :
    FinishHandler("fulfilled", v) \/ (v \in Vals /\ FinishHandler("rejected", v))

Next == ScriptStep \/ ExecutePendingJob \/ Return

\* A host that keeps calling JS_ExecutePendingJob, and script that returns.
Spec ==
  /\ Init /\ [][Next]_vars
  /\ WF_vars(ExecutePendingJob) /\ WF_vars(ScriptEnds) /\ WF_vars(Return)

-----------------------------------------------------------------------------
(* Properties.                                                             *)

TypeOK ==
  /\ state \in [Promises -> {"none", "pending", "fulfilled", "rejected"}]
  /\ \A p \in Promises : state[p] # "pending" => reacts[p] = <<>>
  /\ \A q \in Pairs : pair[q] # None => pair[q].of \in Made
  /\ \A i \in DOMAIN jobs : jobs[i].kind \in {"reaction", "thenable"}

\* A promise resolved with another promise ends as that one did, whatever was
\* called in between: already_resolved is shared by a pair and the job that
\* adopts the other promise's state uses a fresh one. (An object with a then of
\* its own may answer differently each time it is asked.)
LockedIn ==
  \A p \in Promises : follows[p] \in Promises /\ Settled(p) =>
    /\ Settled(follows[p])
    /\ result[follows[p]] \notin Foreigns =>
         state[p] = state[follows[p]] /\ result[p] = result[follows[p]]

\* No promise waits for itself.
NoSelfResolution == \A p \in Promises : follows[p] # p

\* The reactions of a promise run in the order in which then was called, those
\* registered before it was settled first, each at most once and none before
\* the one ahead of it.
ReactionsInOrder ==
  /\ \A i, k \in DOMAIN ran : ran[i] = ran[k] => i = k
  /\ \A i \in DOMAIN ran : \E k \in DOMAIN asked : asked[k] = ran[i]
  /\ \A k, m \in DOMAIN asked : \A j \in DOMAIN ran :
       k < m /\ asked[k][1] = asked[m][1] /\ ran[j] = asked[m] =>
         \E i \in DOMAIN ran : i < j /\ ran[i] = asked[k]

\* A promise that follows another is never forgotten: until it is settled, a
\* job that will hand its functions to the other one is queued, or the other
\* one has a reaction for it, or the job of that reaction is queued.
FollowerNotLost ==
  \A p \in Promises :
    follows[p] \in Promises /\ state[p] = "pending" =>
      \/ \E i \in DOMAIN jobs : jobs[i].kind = "thenable" /\ jobs[i].of = p
      \/ \E q \in Pairs : /\ pair[q] # None /\ pair[q].of = p
                          /\ \/ \E i \in DOMAIN jobs : jobs[i].kind = "reaction" /\ jobs[i].handler = q
                             \/ \E i \in DOMAIN reacts[follows[p]] :
                                  reacts[follows[p]][i].fulfilled = q

\* the bound: no pair is left for the job that is next
OutOfPairs == jobs # <<>> /\ Head(jobs).kind = "thenable" /\ None \notin {pair[q] : q \in Pairs}

\* A reaction of a settled promise runs, by a host that keeps executing jobs.
ReactionsRun ==
  \A p \in Promises : \A q \in Pairs :
    Settled(p) /\ <<p, q>> \in ToSet(asked) ~> <<p, q>> \in ToSet(ran) \/ OutOfPairs

\* What a promise was resolved with decides what it ends as, and its reactions
\* learn it in order.
PromisesKept == TypeOK /\ LockedIn /\ NoSelfResolution /\ FollowerNotLost /\ ReactionsInOrder
=============================================================================
