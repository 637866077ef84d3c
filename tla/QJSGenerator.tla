---------------------------- MODULE QJSGenerator ----------------------------
(***************************************************************************)
(* Generators of the QuickJS engine: js_generator_next resumes a body that *)
(* was left at a yield, and the body may call next of any generator, its   *)
(* own included.                                                           *)
(***************************************************************************)
EXTENDS Integers, Sequences, SequencesExt

CONSTANTS Gens  \* the generators

Magic == {"next", "return", "throw"}

VARIABLES
  state,   \* state[g]: s->state, or "none"
  func,    \* func[g]: s->func_state: "live", "completed" or "null"
  stack,   \* the bodies that run, the innermost last
  raised,  \* raised[g]: throw_flag: the body is resumed with an exception
  sent,    \* history: sent[g]: what the last call that resumed g was
  left,    \* history: left[g]: how the body was left: "start", "yield", "yield_star"
  result   \* what the last call of next gave: value, done, or a TypeError

vars == <<state, func, stack, raised, sent, left, result>>

Suspended == {"start", "yield", "yield_star"}
Running(g) == stack # <<>> /\ Last(stack) = g

-----------------------------------------------------------------------------

\* js_generator_function_call: the body runs up to its initial yield
Create(g) ==
  /\ state[g] = "none"
  /\ state' = [state EXCEPT ![g] = "start"] /\ func' = [func EXCEPT ![g] = "live"]
  /\ left' = [left EXCEPT ![g] = "start"]
  /\ UNCHANGED <<stack, raised, sent, result>>

\* free_generator_stack_rt
Free(g) ==
  IF state[g] = "completed" THEN UNCHANGED <<state, func>>
  ELSE state' = [state EXCEPT ![g] = "completed"] /\ func' = [func EXCEPT ![g] = "null"]

\* return or throw before the first next
EndBeforeStart(g, m) ==
  /\ state[g] = "start" /\ m # "next"
  /\ Free(g)
  /\ result' = IF m = "return" THEN "done" ELSE "thrown"
  /\ UNCHANGED <<stack, raised, sent, left>>

\* Fault: the state is not set while the body runs
ResumeUnmarked(g, m) ==
  /\ state[g] \in Suspended /\ (state[g] = "start" => m = "next")
  /\ raised' = [raised EXCEPT ![g] = m = "throw" /\ state[g] = "yield"]
  /\ stack' = Append(stack, g)
  /\ sent' = [sent EXCEPT ![g] = m]
  /\ Len(stack) < 4
  /\ UNCHANGED <<state, func, left, result>>

\* js_generator_next: a throw reaches a body left at yield as an exception, one
\* left at yield* as a value, for the inner iterator
Resume(g, m) ==
  /\ state[g] \in Suspended /\ (state[g] = "start" => m = "next")
  /\ raised' = [raised EXCEPT ![g] = m = "throw" /\ state[g] = "yield"]
  /\ state' = [state EXCEPT ![g] = "executing"]
  /\ stack' = Append(stack, g)
  /\ sent' = [sent EXCEPT ![g] = m]
  /\ UNCHANGED <<func, left, result>>

\* the generator is running, or is completed
Refused(g, m) ==
  /\ state[g] \in {"executing", "completed"}
  /\ result' = IF state[g] = "executing" THEN "TypeError"
               ELSE IF m = "throw" THEN "thrown" ELSE "done"
  /\ UNCHANGED <<state, func, stack, raised, sent, left>>

\* the body yields
Yield(g, kind) ==
  /\ Running(g) /\ kind \in {"yield", "yield_star"}
  /\ state' = [state EXCEPT ![g] = kind] /\ left' = [left EXCEPT ![g] = kind]
  /\ stack' = Front(stack) /\ result' = "value"
  /\ UNCHANGED <<func, raised, sent>>

\* the body returns or throws
Finish(g) ==
  /\ Running(g)
  /\ state' = [state EXCEPT ![g] = "completed"] /\ func' = [func EXCEPT ![g] = "null"]
  /\ stack' = Front(stack) /\ \E r \in {"done", "thrown"} : result' = r
  /\ UNCHANGED <<raised, sent, left>>

Init ==
  /\ state = [g \in Gens |-> "none"] /\ func = [g \in Gens |-> "null"]
  /\ stack = <<>> /\ raised = [g \in Gens |-> FALSE] /\ sent = [g \in Gens |-> "next"]
  /\ left = [g \in Gens |-> "start"] /\ result = "done"

Next == \E g \in Gens :
  \/ Create(g) \/ Finish(g)
  \/ \E m \in Magic : EndBeforeStart(g, m) \/ Resume(g, m) \/ Refused(g, m)
  \/ \E k \in {"yield", "yield_star"} : Yield(g, k)

Spec == Init /\ [][Next]_vars

-----------------------------------------------------------------------------
(* Properties.                                                             *)

\* A generator executes exactly while its body is on the stack, and once: its
\* own body cannot resume it.
ExecutingOnStack ==
  /\ \A g \in Gens : state[g] = "executing" <=> \E i \in DOMAIN stack : stack[i] = g
  /\ \A i, j \in DOMAIN stack : stack[i] = stack[j] => i = j

\* What js_generator_next resumes has not been completed, as async_func_resume
\* asserts, nor freed.
ResumableLive == \A g \in Gens : state[g] \in Suspended \cup {"executing"} => func[g] = "live"

\* A body finds an exception exactly if throw was called on a plain yield.
ThrowReachesYield ==
  \A g \in Gens : state[g] = "executing" => (raised[g] <=> sent[g] = "throw" /\ left[g] = "yield")

\* A body is resumed only when it can be.
GeneratorsResumable == ExecutingOnStack /\ ResumableLive /\ ThrowReachesYield
=============================================================================
