---------------------------- MODULE QJSAsyncGen ----------------------------
(***************************************************************************)
(* An async generator of the QuickJS engine: the queue of requests that    *)
(* next, return and throw fill, and js_async_generator_resume_next, which  *)
(* empties it. Script runs in the body, at the top level, and wherever the *)
(* engine looks up a property of a value it resolves with; it may call     *)
(* next, return and throw from all of these, so that resume_next nests.    *)
(***************************************************************************)
EXTENDS Integers, Sequences, SequencesExt

CONSTANTS MaxRequests,  \* the requests made at most
          MaxDepth,     \* how deep resume_next nests at most
          ThenGetter    \* Object.prototype has a getter for then, so that
                        \* resolving a promise with { value, done } runs script

AsyncGenAssumption ==
  MaxRequests \in Nat /\ MaxDepth \in Nat \ {0} /\ ThenGetter \in BOOLEAN

Types == {"next", "return", "throw"}
Suspended == {"start", "yield", "yield_star"}

VARIABLES
  state,    \* s->state
  live,     \* s->func_state is not NULL
  queue,    \* s->queue: the requests, in order
  stack,    \* where the active calls of resume_next are, the innermost last
  waiting,  \* what a reaction will do: "restart", "resume_return" or "nothing"
  asked,    \* history: the number of requests made
  returned, \* history: the request whose value is awaited, or 0
  answers   \* history: the requests answered, in order

vars == <<state, live, queue, stack, waiting, asked, returned, answers>>

\* Points of resume_next: the loop, entered anew or to restart the body; the
\* body runs; a promise is being resolved and the loop goes on, or is left,
\* afterwards; the constructor of the value of a return is looked up.
Points == {"loop", "restart", "body", "then_loop", "then_done", "constructor"}

Here == stack # <<>>
Top == Last(stack)
At(point) == Here /\ Top = point
Goto(point) == stack' = Append(Front(stack), point)
Done == stack' = Front(stack)

\* js_async_generator_resolve_or_reject
AnswerHead ==
  /\ queue' = Tail(queue)
  /\ answers' = Append(answers, Head(queue))

-----------------------------------------------------------------------------
(* js_async_generator_next.                                                *)

ScriptRuns ==
  IF Here THEN Top \in {"body", "constructor"} \cup IF ThenGetter THEN {"then_loop", "then_done"} ELSE {}
  ELSE TRUE

\* Fault: the queue is worked off whatever the state is
RequestAlways(type) ==
  /\ ScriptRuns /\ asked < MaxRequests /\ Len(stack) < MaxDepth
  /\ asked' = asked + 1
  /\ queue' = Append(queue, [id |-> asked + 1, type |-> type])
  /\ stack' = Append(stack, "loop")
  /\ UNCHANGED <<state, live, waiting, returned, answers>>

\* js_async_generator_next
Request(type) ==
  /\ ScriptRuns /\ asked < MaxRequests /\ Len(stack) < MaxDepth
  /\ asked' = asked + 1
  /\ queue' = Append(queue, [id |-> asked + 1, type |-> type])
  /\ stack' = IF state # "executing" THEN Append(stack, "loop") ELSE stack
  /\ UNCHANGED <<state, live, waiting, returned, answers>>

-----------------------------------------------------------------------------
(* One round of js_async_generator_resume_next.                            *)

Leave ==
  /\ At("loop") /\ (queue = <<>> \/ state = "awaiting_return")
  /\ Done
  /\ UNCHANGED <<state, live, queue, waiting, asked, returned, answers>>

\* the generator was not started: return and throw complete it
Complete ==
  /\ At("loop") /\ queue # <<>> /\ state = "start" /\ Head(queue).type # "next"
  /\ state' = "completed" /\ live' = FALSE
  /\ UNCHANGED <<queue, stack, waiting, asked, returned, answers>>

\* the body is entered, or goes on
Resume ==
  /\ (At("loop") \/ At("restart")) /\ queue # <<>>
  /\ \/ state = "start" /\ Head(queue).type = "next"
     \/ state \in {"yield", "yield_star", "executing"}
  /\ state' = "executing"
  /\ Goto("body")
  /\ UNCHANGED <<live, queue, waiting, asked, returned, answers>>

AnswerCompleted ==
  /\ At("loop") /\ queue # <<>> /\ state = "completed" /\ Head(queue).type # "return"
  /\ AnswerHead
  /\ Goto("then_done")
  /\ UNCHANGED <<state, live, waiting, asked, returned>>

\* js_async_generator_completed_return
AwaitReturn ==
  /\ At("loop") /\ queue # <<>> /\ state = "completed" /\ Head(queue).type = "return"
  /\ state' = "awaiting_return"
  /\ waiting' = "resume_return" /\ returned' = Head(queue).id
  /\ Goto("constructor")
  /\ UNCHANGED <<live, queue, asked, answers>>

\* the body yields
Yield(kind) ==
  /\ At("body") /\ kind \in {"yield", "yield_star"}
  /\ state' = kind
  /\ AnswerHead
  /\ Goto("then_loop")
  /\ UNCHANGED <<live, waiting, asked, returned>>

\* js_async_generator_await; the body runs on when it throws
Await ==
  /\ At("body")
  /\ waiting' = "restart"
  /\ Done
  /\ UNCHANGED <<state, live, queue, asked, returned, answers>>

\* the body returns or throws
Finish ==
  /\ At("body")
  /\ state' = "completed" /\ live' = FALSE
  /\ AnswerHead
  /\ Goto("then_loop")
  /\ UNCHANGED <<waiting, asked, returned>>

\* the call of the resolving function is over
CallReturns ==
  \/ At("then_loop") /\ Goto("loop")
     /\ UNCHANGED <<state, live, queue, waiting, asked, returned, answers>>
  \/ (At("then_done") \/ At("constructor")) /\ Done
     /\ UNCHANGED <<state, live, queue, waiting, asked, returned, answers>>

-----------------------------------------------------------------------------
(* js_async_generator_resolve_function, run by a reaction job.             *)

Restart ==
  /\ ~Here /\ waiting = "restart"
  /\ waiting' = "nothing"
  /\ stack' = <<"restart">>
  /\ UNCHANGED <<state, live, queue, asked, returned, answers>>

ResumeReturn ==
  /\ ~Here /\ waiting = "resume_return"
  /\ waiting' = "nothing" /\ returned' = 0
  /\ state' = "completed"
  /\ AnswerHead
  /\ stack' = <<"then_done">>
  /\ UNCHANGED <<live, asked>>

Init ==
  /\ state = "start" /\ live = TRUE
  /\ queue = <<>> /\ stack = <<>> /\ waiting = "nothing"
  /\ asked = 0 /\ returned = 0 /\ answers = <<>>

ResumeNext ==
  \/ Leave \/ Complete \/ Resume \/ AnswerCompleted \/ AwaitReturn
  \/ Yield("yield") \/ Yield("yield_star") \/ Await \/ Finish \/ CallReturns

Next ==
  \/ \E t \in Types : Request(t)
  \/ ResumeNext \/ Restart \/ ResumeReturn

Spec == Init /\ [][Next]_vars

-----------------------------------------------------------------------------
(* Properties.                                                             *)

TypeOK ==
  /\ state \in Suspended \cup {"executing", "awaiting_return", "completed"}
  /\ live \in BOOLEAN /\ waiting \in {"nothing", "restart", "resume_return"}
  /\ stack \in Seq(Points) /\ asked \in 0..MaxRequests /\ returned \in 0..MaxRequests
  /\ Len(queue) + Len(answers) = asked

\* The body is not entered a second time while it runs or awaits: nested calls
\* of next find the state executing and leave their request in the queue.
OneBody ==
  /\ \A i, j \in DOMAIN stack : stack[i] = "body" /\ stack[j] = "body" => i = j
  /\ (\E i \in DOMAIN stack : stack[i] = "body") => state = "executing"

\* Nor is it resumed while it waits for an await.
AwaitNotSkipped ==
  waiting = "restart" => state = "executing" /\ \A i \in DOMAIN stack : stack[i] # "body"

\* The answer given when the value of return is settled goes to that request.
ReturnAnswersItself == waiting = "resume_return" => Head(queue).id = returned

\* func_state is there exactly until the generator is completed, so that what
\* is resumed has not been freed.
FuncStateLive ==
  /\ live <=> state \notin {"awaiting_return", "completed"}
  /\ At("body") => live

\* No request waits for a generator that is suspended: the queue is worked off
\* before control goes back to where no call of resume_next is active.
SuspendedIdle == ~Here /\ state \in Suspended => queue = <<>>

\* The requests are answered in the order in which they were made.
AnsweredInOrder == \A i \in DOMAIN answers : answers[i].id = i

\* The queue of an async generator is worked off in order, by one body.
RequestsAnswered ==
  OneBody /\ AwaitNotSkipped /\ ReturnAnswersItself /\ FuncStateLive /\ SuspendedIdle /\ AnsweredInOrder
=============================================================================
