---------------------------- MODULE QJSAsyncFunc ----------------------------
(***************************************************************************)
(* Async functions of the QuickJS engine: JSAsyncFunctionState keeps the   *)
(* frame of a call between two awaits. It is counted: the call that starts *)
(* it and the functions passed to the awaited promise hold it, and the     *)
(* last to let go frees it, completed or not.                              *)
(***************************************************************************)
EXTENDS Integers, Sequences, SequencesExt

CONSTANTS Acts  \* the calls of async functions

VARIABLES
  ref,      \* ref[a]: header.ref_count, 0 before the call and after the end
  frame,    \* frame[a]: "none", "live" or "freed": arg_buf and the values on it
  at,       \* at[a]: what a's body does: "none", "runs", "awaits" or "completed"
  stack,    \* the bodies that run, the innermost last: <<act, "call" or "job">>
  funcs,    \* funcs[a]: resolve functions held by the awaited promise or a job
  queued,   \* the activations whose reaction is a job
  outcome   \* outcome[a]: how often the promise of the call was settled

vars == <<ref, frame, at, stack, funcs, queued, outcome>>

Top == Last(stack)
Running(a) == stack # <<>> /\ Top[1] = a

\* __async_func_free, when the count has dropped to zero
FreedIf(n, a) == IF n = 0 /\ at[a] # "completed" THEN "freed" ELSE frame[a]

-----------------------------------------------------------------------------

\* js_async_function_call: async_func_init, then the body runs
Call(a) ==
  /\ at[a] = "none"
  /\ ref' = [ref EXCEPT ![a] = 1] /\ frame' = [frame EXCEPT ![a] = "live"]
  /\ at' = [at EXCEPT ![a] = "runs"]
  /\ stack' = Append(stack, <<a, "call">>)
  /\ UNCHANGED <<funcs, queued, outcome>>

\* What the one that resumed the body lets go of when it stops: the call its
\* own reference, the job its function.
LetGo(a, r, f) ==
  /\ ref' = [ref EXCEPT ![a] = r - 1]
  /\ funcs' = [funcs EXCEPT ![a] = IF Top[2] = "job" THEN f - 1 ELSE f]
  /\ stack' = Front(stack)

\* js_async_function_resume at an await of a promise that is not settled: the
\* promise has a function for each of its ends
Await(a) ==
  /\ Running(a)
  /\ at' = [at EXCEPT ![a] = "awaits"]
  /\ LetGo(a, ref[a] + 2, funcs[a] + 2)
  /\ frame' = [frame EXCEPT ![a] = FreedIf(ref[a] + 1, a)]
  /\ UNCHANGED <<queued, outcome>>

\* the same for a promise that is settled: only the job holds a function
AwaitSettled(a) ==
  /\ Running(a)
  /\ at' = [at EXCEPT ![a] = "awaits"]
  /\ LetGo(a, ref[a] + 1, funcs[a] + 1)
  /\ queued' = queued \cup {a}
  /\ UNCHANGED <<frame, outcome>>

\* the value cannot be made a promise: the promise of the call is rejected, and
\* the body is never resumed
AwaitFails(a) ==
  /\ Running(a)
  /\ at' = [at EXCEPT ![a] = "awaits"]
  /\ outcome' = [outcome EXCEPT ![a] = @ + 1]
  /\ LetGo(a, ref[a], funcs[a])
  /\ frame' = [frame EXCEPT ![a] = FreedIf(ref[a] - 1, a)]
  /\ UNCHANGED queued

\* the body returns or throws: async_func_resume frees the frame
Finish(a) ==
  /\ Running(a)
  /\ at' = [at EXCEPT ![a] = "completed"]
  /\ frame' = [frame EXCEPT ![a] = "freed"]
  /\ outcome' = [outcome EXCEPT ![a] = @ + 1]
  /\ LetGo(a, ref[a], funcs[a])
  /\ UNCHANGED queued

\* Fault: both reactions become jobs
SettleBoth(a) ==
  /\ at[a] = "awaits" /\ funcs[a] = 2
  /\ queued' = queued \cup {a}
  /\ UNCHANGED <<ref, frame, at, stack, funcs, outcome>>

\* the awaited promise is settled: one of the two functions goes to a job
Settle(a) ==
  /\ at[a] = "awaits" /\ funcs[a] = 2
  /\ queued' = queued \cup {a}
  /\ funcs' = [funcs EXCEPT ![a] = 1] /\ ref' = [ref EXCEPT ![a] = @ - 1]
  /\ UNCHANGED <<frame, at, stack, outcome>>

\* the awaited promise becomes unreachable
Forget(a) ==
  /\ at[a] = "awaits" /\ funcs[a] = 2
  /\ funcs' = [funcs EXCEPT ![a] = 0] /\ ref' = [ref EXCEPT ![a] = @ - 2]
  /\ frame' = [frame EXCEPT ![a] = FreedIf(ref[a] - 2, a)]
  /\ UNCHANGED <<at, stack, queued, outcome>>

\* js_async_function_resolve_call, by the job
Resume(a) ==
  /\ stack = <<>> /\ a \in queued
  /\ queued' = queued \ {a}
  /\ at' = [at EXCEPT ![a] = "runs"]
  /\ stack' = Append(stack, <<a, "job">>)
  /\ UNCHANGED <<ref, frame, funcs, outcome>>

Init ==
  /\ ref = [a \in Acts |-> 0] /\ frame = [a \in Acts |-> "none"]
  /\ at = [a \in Acts |-> "none"] /\ stack = <<>>
  /\ funcs = [a \in Acts |-> 0] /\ queued = {} /\ outcome = [a \in Acts |-> 0]

Next == \E a \in Acts :
  Call(a) \/ Await(a) \/ AwaitSettled(a) \/ AwaitFails(a) \/ Finish(a)
    \/ Settle(a) \/ Forget(a) \/ Resume(a)

Spec == Init /\ [][Next]_vars

-----------------------------------------------------------------------------
(* Properties.                                                             *)

TypeOK ==
  /\ ref \in [Acts -> Int] /\ funcs \in [Acts -> Nat] /\ queued \subseteq Acts
  /\ \A a \in Acts : frame[a] \in {"none", "live", "freed"}
  /\ \A a \in Acts : ref[a] >= 0

\* whether the call that started the body runs it, which it does once
OfCall(a) == IF \E i \in DOMAIN stack : stack[i] = <<a, "call">> THEN 1 ELSE 0

\* The count is the number of those that hold the state: the call that runs
\* the body first, and the functions the promise or a job has.
CountExact == \A a \in Acts : ref[a] = OfCall(a) + funcs[a]

\* A body runs on a frame that was not freed, in one place only.
RunsOnLiveFrame ==
  /\ \A i \in DOMAIN stack : frame[stack[i][1]] = "live" /\ at[stack[i][1]] = "runs"
  /\ \A i, j \in DOMAIN stack : stack[i][1] = stack[j][1] => i = j

\* A frame nobody holds is freed, whether its body came to an end or not.
NoFrameLeft == \A a \in Acts : frame[a] = "live" => ref[a] > 0

\* The promise of the call is settled at most once, and when the body is over.
SettledOnce == \A a \in Acts : outcome[a] <= 1 /\ (at[a] = "completed" => outcome[a] = 1)

\* The frame of an async call lives as long as somebody can resume it.
CallsCounted == CountExact /\ RunsOnLiveFrame /\ NoFrameLeft /\ SettledOnce
=============================================================================
