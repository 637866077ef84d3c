------------------------------ MODULE QJSCalls ------------------------------
(***************************************************************************)
(* Concurrent use of the QuickJS backend: application threads calling the  *)
(* operations of several Jibs, each Jib with its NSLock, its JSRuntime and *)
(* its exception property. Swift bodies that script calls back run with    *)
(* the lock held and may use another Jib.                                  *)
(*                                                                         *)
(* Kinds of operations: "call" stands for every call(...) and for eval(_:) *)
(* (whose value is dropped), which run script and record its exception;    *)
(* "get" for the subscripts, which run resolve(_:); "set" is               *)
(* set(global:value:); "brief" stands for new(function:body:) and          *)
(* garbageCollect(), which run no script. The script is the one AtomicJib  *)
(* describes.                                                              *)
(***************************************************************************)
EXTENDS Naturals, Sequences, SequencesExt

CONSTANTS
  Threads,
  Jibs,
  NestsIn,    \* <<j, k>>: a body called from the script of j may use Jib k
  MaxCalls,   \* bound: operations called, those that bodies call included
  NoThread

ASSUME ThreadsAssumption == NoThread \notin Threads
ASSUME NestsInAssumption == NestsIn \subseteq Jibs \X Jibs
ASSUME MaxCallsAssumption == MaxCalls \in Nat

Ids == 1 .. MaxCalls

VARIABLES
  lock,       \* lock[j]: the thread that holds Jib.lock, or NoThread
  stack,      \* stack[t]: the operations thread t is in, innermost last
  calls,      \* how many operations were called
  heap,       \* heap[j]: the global state script sees
  pending,    \* pending[j]: the operation whose exception is current_exception
  exception,  \* exception[j]: the operation whose exception Jib.exception shows
  outcome     \* outcome[c]: the value operation c has ready for its caller

vars == <<lock, stack, calls, heap, pending, exception, outcome>>

NoId == 0
Unset == <<"unset">>
Value(n) == <<"value", n>>
Done == <<"done">>
Nil == <<"nil">>
Failed(j) == <<"failed", j>>

\* An operation in progress. pc: "locking" before lock.lock() returns; "start"
\* before, "script" inside and "returned" or "threw" after the engine runs its
\* script; "done" when only lock.unlock() is left. before is the state at
\* lock.lock(), read what the script read, run the number of the JS_Eval.
Frame(c, j, k) ==
  [id |-> c, jib |-> j, kind |-> k, pc |-> "locking", run |-> 1, before |-> 0, read |-> 0]

Busy(t) == stack[t] # <<>>
Top(t) == Last(stack[t])
At(t, pc) == Busy(t) /\ Top(t).pc = pc

\* the innermost operation of t moves on
Moves(t, frame) == stack' = [stack EXCEPT ![t] = Append(Front(@), frame)]
Goes(t, pc) == Moves(t, [Top(t) EXCEPT !.pc = pc])
Yields(t, v) == outcome' = [outcome EXCEPT ![Top(t).id] = v]

-----------------------------------------------------------------------------
Init ==
  /\ lock = [j \in Jibs |-> NoThread]
  /\ stack = [t \in Threads |-> <<>>]
  /\ calls = 0
  /\ heap = [j \in Jibs |-> 0]
  /\ pending = [j \in Jibs |-> NoId]
  /\ exception = [j \in Jibs |-> NoId]
  /\ outcome = [c \in Ids |-> Unset]

\* the application, or a Swift body that the script of Top(t) has called, calls
\* an operation of kind k on Jib j
Call(t, j, k) ==
  /\ calls < MaxCalls
  /\ Busy(t) => Top(t).pc = "script" /\ <<Top(t).jib, j>> \in NestsIn
  /\ calls' = calls + 1
  /\ stack' = [stack EXCEPT ![t] = Append(@, Frame(calls + 1, j, k))]
  /\ UNCHANGED <<lock, heap, pending, exception, outcome>>

\* Fault: garbageCollect() and new(function:body:) do not take the lock.
AcquiresOrCollects(t) ==
  /\ At(t, "locking")
  /\ lock[Top(t).jib] = NoThread \/ Top(t).kind = "brief"
  /\ lock' = [lock EXCEPT ![Top(t).jib] = IF Top(t).kind = "brief" THEN @ ELSE t]
  /\ Moves(t, [Top(t) EXCEPT !.pc = "start", !.before = heap[Top(t).jib]])
  /\ UNCHANGED <<calls, heap, pending, exception, outcome>>

\* lock.lock() returns
Acquire(t) ==
  /\ At(t, "locking")
  /\ lock[Top(t).jib] = NoThread
  /\ lock' = [lock EXCEPT ![Top(t).jib] = t]
  /\ Moves(t, [Top(t) EXCEPT !.pc = "start", !.before = heap[Top(t).jib]])
  /\ UNCHANGED <<calls, heap, pending, exception, outcome>>

\* JS_Eval or JS_Call: script reads the state, and may then call Swift bodies ...
ScriptReads(t) ==
  /\ At(t, "start")
  /\ Top(t).kind \in {"call", "get"}
  /\ Moves(t, [Top(t) EXCEPT !.pc = "script", !.read = heap[Top(t).jib]])
  /\ UNCHANGED <<lock, calls, heap, pending, exception, outcome>>

\* Fault: the lock is released before the value is converted.
ScriptReturnsUnlocked(t) ==
  /\ At(t, "script")
  /\ heap' = [heap EXCEPT ![Top(t).jib] = Top(t).read + 1]
  /\ lock' = [lock EXCEPT ![Top(t).jib] = NoThread]
  /\ Goes(t, "returned")
  /\ UNCHANGED <<calls, pending, exception, outcome>>

\* ... before it writes the state back and returns ...
ScriptReturns(t) ==
  /\ At(t, "script")
  /\ heap' = [heap EXCEPT ![Top(t).jib] = Top(t).read + 1]
  /\ Goes(t, "returned")
  /\ UNCHANGED <<lock, calls, pending, exception, outcome>>

\* ... or throws, before or after it has
ScriptThrows(t) ==
  /\ At(t, "script")
  /\ heap' \in {heap, [heap EXCEPT ![Top(t).jib] = Top(t).read + 1]}
  /\ pending' = [pending EXCEPT ![Top(t).jib] = Top(t).id]
  /\ Goes(t, "threw")
  /\ UNCHANGED <<lock, calls, exception, outcome>>

\* Fault: resolve(_:) goes on evaluating a text that throws.
ResolveAgainForEver(t) ==
  /\ At(t, "threw")
  /\ Top(t).kind = "get"
  /\ Moves(t, [Top(t) EXCEPT !.pc = "start", !.run = @ + 1])
  /\ UNCHANGED <<lock, calls, heap, pending, exception, outcome>>

\* resolve(_:) evaluates its text as it is when "(text)" threw
ResolveAgain(t) ==
  /\ At(t, "threw")
  /\ Top(t).kind = "get"
  /\ Top(t).run = 1
  /\ Moves(t, [Top(t) EXCEPT !.pc = "start", !.run = 2])
  /\ UNCHANGED <<lock, calls, heap, pending, exception, outcome>>

\* ... and when that throws too, the subscript is nil and the exception pending
ResolveFails(t) ==
  /\ At(t, "threw")
  /\ Top(t).kind = "get"
  /\ Top(t).run = 2
  /\ Yields(t, Nil)
  /\ Goes(t, "done")
  /\ UNCHANGED <<lock, calls, heap, pending, exception>>

\* recordIf and recordException: the pending exception goes to Jib.exception
Record(t) ==
  /\ At(t, "threw")
  /\ Top(t).kind # "get"
  /\ exception' = [exception EXCEPT ![Top(t).jib] = pending[Top(t).jib]]
  /\ pending' = [pending EXCEPT ![Top(t).jib] = NoId]
  /\ Yields(t, Failed(Top(t).jib))
  /\ Goes(t, "done")
  /\ UNCHANGED <<lock, calls, heap>>

\* JSValueTo...: the conversion reads the state the value shows
Convert(t) ==
  /\ At(t, "returned")
  /\ Yields(t, Value(heap[Top(t).jib]))
  /\ Goes(t, "done")
  /\ UNCHANGED <<lock, calls, heap, pending, exception>>

\* set(global:value:): JS_SetProperty succeeds ...
SetGlobal(t) ==
  /\ At(t, "start")
  /\ Top(t).kind = "set"
  /\ heap' = [heap EXCEPT ![Top(t).jib] = 0]
  /\ Yields(t, Done)
  /\ Goes(t, "done")
  /\ UNCHANGED <<lock, calls, pending, exception>>

\* ... or throws
SetGlobalThrows(t) ==
  /\ At(t, "start")
  /\ Top(t).kind = "set"
  /\ pending' = [pending EXCEPT ![Top(t).jib] = Top(t).id]
  /\ Goes(t, "threw")
  /\ UNCHANGED <<lock, calls, heap, exception, outcome>>

\* new(function:body:) and garbageCollect()
Brief(t) ==
  /\ At(t, "start")
  /\ Top(t).kind = "brief"
  /\ Yields(t, Done)
  /\ Goes(t, "done")
  /\ UNCHANGED <<lock, calls, heap, pending, exception>>

\* Fault: a failed operation returns without lock.unlock().
ReturnStaysLocked(t) ==
  /\ At(t, "done")
  /\ lock' = [lock EXCEPT ![Top(t).jib] = IF outcome[Top(t).id] = Failed(Top(t).jib) THEN @ ELSE NoThread]
  /\ stack' = [stack EXCEPT ![t] = Front(@)]
  /\ UNCHANGED <<calls, heap, pending, exception, outcome>>

\* defer { lock.unlock() }, and back to the caller
Return(t) ==
  /\ At(t, "done")
  /\ lock' = [lock EXCEPT ![Top(t).jib] = NoThread]
  /\ stack' = [stack EXCEPT ![t] = Front(@)]
  /\ UNCHANGED <<calls, heap, pending, exception, outcome>>

-----------------------------------------------------------------------------
Kinds == {"call", "get", "set", "brief"}

\* what a thread does once it has called an operation
Proceed(t) ==
  \/ Acquire(t)
  \/ ScriptReads(t) \/ ScriptReturns(t) \/ ScriptThrows(t)
  \/ ResolveAgain(t) \/ ResolveFails(t)
  \/ Record(t) \/ Convert(t)
  \/ SetGlobal(t) \/ SetGlobalThrows(t) \/ Brief(t)
  \/ Return(t)

Next == \E t \in Threads : Proceed(t) \/ \E j \in Jibs, k \in Kinds : Call(t, j, k)

Spec == Init /\ [][Next]_vars

-----------------------------------------------------------------------------
Frames(t) == {stack[t][i] : i \in 1 .. Len(stack[t])}

TypeOK ==
  /\ lock \in [Jibs -> Threads \cup {NoThread}]
  /\ calls \in 0 .. MaxCalls
  /\ heap \in [Jibs -> Nat]
  /\ pending \in [Jibs -> Ids \cup {NoId}]
  /\ exception \in [Jibs -> Ids \cup {NoId}]
  /\ \A t \in Threads : \A f \in Frames(t) :
       /\ f.id \in Ids /\ f.jib \in Jibs /\ f.kind \in Kinds /\ f.run \in {1, 2}
       /\ f.pc \in {"locking", "start", "script", "returned", "threw", "done"}

\* the threads with an operation past lock.lock() on Jib j
Inside(j) == {t \in Threads : \E f \in Frames(t) : f.jib = j /\ f.pc # "locking"}

\* A JSRuntime is not thread safe: no two threads are ever inside one, from the
\* start of an operation to the end of its conversions, callbacks included, and
\* the lock is held by the one that is.
EngineExclusive ==
  \A j \in Jibs : Inside(j) = IF lock[j] = NoThread THEN {} ELSE {lock[j]}

\* Everything called returns, when the bodies' use of other Jibs has no cycle.
EverythingReturns == \A t \in Threads : Busy(t) ~> ~ Busy(t)

\* The operation that is past lock.lock() on Jib j and has no outcome yet: until
\* then AtomicJib sees the state as it was.
Open(j) == {f \in UNION {Frames(t) : t \in Threads} : f.jib = j /\ f.pc \notin {"locking", "done"}}
Settled(j) == IF Open(j) = {} THEN heap[j] ELSE (CHOOSE f \in Open(j) : TRUE).before

Atomic == INSTANCE AtomicJib WITH
  val <- [j \in Jibs |-> Settled(j)],
  exc <- exception,
  todo <- UNION {{<<f.id, f.jib, f.kind>> : f \in {g \in Frames(t) : g.pc # "done"}} : t \in Threads}

\* Operations are atomic: what threads see is what one thread at a time would.
ActsAtomically == Atomic!Spec
=============================================================================
