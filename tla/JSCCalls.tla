------------------------------ MODULE JSCCalls ------------------------------
(***************************************************************************)
(* Concurrent use of one Jib of the JavaScriptCore backend. Unlike the     *)
(* QuickJS backend it can be released early: every operation first looks   *)
(* at the released flag, without the lock, and then takes the lock;        *)
(* release() frees the context under the lock. The results of call(...)    *)
(* are converted, and JibFunctions unprotected, after or without the lock. *)
(*                                                                         *)
(* JavaScriptCore itself is external: a script is something a thread is    *)
(* in, and leaves with a value, with undefined or with an exception.       *)
(***************************************************************************)
EXTENDS Naturals, TLAPS

CONSTANTS
  Threads,
  NoThread,
  ReleasePolicy,  \* "quiescent": release() overlaps no other operation; or "any"
  MaxCalls        \* bound: operations called in all

JSCAssumption ==
  /\ NoThread \notin Threads
  /\ ReleasePolicy \in {"quiescent", "any"}
  /\ MaxCalls \in Nat

\* "call" is a call(...), "get" a subscript, "eval" eval(_:), call(none:) and
\* set(global:), which record an exception but convert nothing, "brief"
\* new(function:body:) and garbageCollect(), "drop" the deinit of a JibFunction
Kinds == {"call", "eval", "get", "brief", "drop", "release"}

VARIABLES
  pc,         \* pc[t]: where thread t is
  kind,       \* kind[t]: the operation it is in, or was in last
  run,        \* run[t]: the number of the evaluation in resolve(_:)
  failed,     \* failed[t]: that operation recorded an exception
  late,       \* late[t]: it was called after a release() had freed the context
  lock,       \* Jib.lock: the thread that holds it, or NoThread
  released,   \* Jib.released
  releases,   \* how often the context and its group were released
  exception,  \* Jib.exception is not nil
  calls,      \* how many operations were called
  gone        \* deinit has run

thread == <<pc, kind, run, failed, late>>
vars == <<thread, lock, released, releases, exception, calls, gone>>

Init ==
  /\ pc = [t \in Threads |-> "idle"]
  /\ kind = [t \in Threads |-> "brief"]
  /\ run = [t \in Threads |-> 1]
  /\ failed = [t \in Threads |-> FALSE]
  /\ late = [t \in Threads |-> FALSE]
  /\ lock = NoThread
  /\ released = FALSE
  /\ releases = 0
  /\ exception = FALSE
  /\ calls = 0
  /\ gone = FALSE

Goes(t, where) == pc' = [pc EXCEPT ![t] = where]
At(t, where, kinds) == pc[t] = where /\ kind[t] \in kinds

Quiescent(t, k) ==
  \A u \in Threads \ {t} : pc[u] # "idle" => k # "release" /\ kind[u] # "release"

\* the application calls an operation; release() does not look at released
Call(t, k) ==
  /\ ~ gone
  /\ pc[t] = "idle"
  /\ calls < MaxCalls
  /\ ReleasePolicy = "quiescent" => Quiescent(t, k)
  /\ calls' = calls + 1
  /\ kind' = [kind EXCEPT ![t] = k]
  /\ run' = [run EXCEPT ![t] = 1]
  /\ failed' = [failed EXCEPT ![t] = FALSE]
  /\ late' = [late EXCEPT ![t] = releases > 0]
  /\ Goes(t, IF k = "release" THEN "locking" ELSE "check")
  /\ UNCHANGED <<lock, released, releases, exception, gone>>

\* Fault: operations do not look at released.
ChecksNothing(t) ==
  /\ pc[t] = "check"
  /\ Goes(t, IF kind[t] = "drop" THEN "unlocked" ELSE "locking")
  /\ UNCHANGED <<kind, run, failed, late, lock, released, releases, exception, calls, gone>>

\* Fault: garbageCollect() and new(function:body:) do not take the lock.
ChecksAndCollectsUnlocked(t) ==
  /\ pc[t] = "check"
  /\ Goes(t, IF released THEN "idle"
             ELSE IF kind[t] = "drop" THEN "unlocked"
             ELSE IF kind[t] = "brief" THEN "start" ELSE "locking")
  /\ UNCHANGED <<kind, run, failed, late, lock, released, releases, exception, calls, gone>>

\* guard released == false else { return nil }; then JibFunction.deinit calls
\* JSValueUnprotect, any other operation lock.lock()
Check(t) ==
  /\ pc[t] = "check"
  /\ Goes(t, IF released THEN "idle" ELSE IF kind[t] = "drop" THEN "unlocked" ELSE "locking")
  /\ UNCHANGED <<kind, run, failed, late, lock, released, releases, exception, calls, gone>>

\* lock.lock() returns
Acquire(t) ==
  /\ pc[t] = "locking"
  /\ lock = NoThread
  /\ lock' = t
  /\ Goes(t, "start")
  /\ UNCHANGED <<kind, run, failed, late, released, releases, exception, calls, gone>>

\* call(jsvalue:) and eval(_:) run script
ScriptBegins(t) ==
  /\ At(t, "start", {"call", "eval"})
  /\ Goes(t, "script")
  /\ UNCHANGED <<kind, run, failed, late, lock, released, releases, exception, calls, gone>>

\* resolve(_:) forgets the exception, then finds a global property or runs "(text)"
ResolveBegins(t) ==
  /\ At(t, "start", {"get"})
  /\ exception' = FALSE
  /\ Goes(t, "returned") \/ Goes(t, "script")
  /\ UNCHANGED <<kind, run, failed, late, lock, released, releases, calls, gone>>

\* the script returns a value, or throws; in resolve(_:), the undefined of its
\* first evaluation counts as a throw
ScriptEnds(t) ==
  /\ pc[t] = "script"
  /\ Goes(t, "returned") \/ Goes(t, "threw")
  /\ UNCHANGED <<kind, run, failed, late, lock, released, releases, exception, calls, gone>>

\* after that, resolve(_:) runs its text as it is
ResolveAgain(t) ==
  /\ At(t, "threw", {"get"})
  /\ run[t] = 1
  /\ run' = [run EXCEPT ![t] = 2]
  /\ Goes(t, "script")
  /\ UNCHANGED <<kind, failed, late, lock, released, releases, exception, calls, gone>>

\* record(exception:); a subscript then goes on with undefined as its value
Record(t) ==
  /\ \/ At(t, "threw", {"call", "eval"}) /\ Goes(t, "done")
     \/ At(t, "threw", {"get"}) /\ run[t] = 2 /\ Goes(t, "returned")
  /\ exception' = TRUE
  /\ failed' = [failed EXCEPT ![t] = TRUE]
  /\ UNCHANGED <<kind, run, late, lock, released, releases, calls, gone>>

\* eval(_:) returns true, call(jsvalue:) its value, and a subscript converts it;
\* new(function:body:) and garbageCollect() do their work
Completes(t) ==
  /\ At(t, "returned", {"call", "eval", "get"}) \/ At(t, "start", {"brief"})
  /\ Goes(t, "done")
  /\ UNCHANGED <<kind, run, failed, late, lock, released, releases, exception, calls, gone>>

\* Fault: release() does not look at released.
ReleasesAgain(t) ==
  /\ At(t, "start", {"release"})
  /\ releases' = releases + 1
  /\ released' = TRUE
  /\ Goes(t, "done")
  /\ UNCHANGED <<kind, run, failed, late, lock, exception, calls, gone>>

\* release(): customFunctions and printFn go; the context and the group are freed once
Release(t) ==
  /\ At(t, "start", {"release"})
  /\ releases' = IF released THEN releases ELSE releases + 1
  /\ released' = TRUE
  /\ Goes(t, "done")
  /\ UNCHANGED <<kind, run, failed, late, lock, exception, calls, gone>>

\* defer { lock.unlock() }; call(...) goes on to convert the value it got
Unlock(t) ==
  /\ pc[t] = "done"
  /\ lock' = NoThread
  /\ Goes(t, IF kind[t] = "call" /\ ~ failed[t] THEN "unlocked" ELSE "idle")
  /\ UNCHANGED <<kind, run, failed, late, released, releases, exception, calls, gone>>

\* the conversion, or JSValueUnprotect, has ended
LeavesUnlocked(t) ==
  /\ pc[t] = "unlocked"
  /\ Goes(t, "idle")
  /\ UNCHANGED <<kind, run, failed, late, lock, released, releases, exception, calls, gone>>

\* the application has dropped the Jib
Deinit ==
  /\ ~ gone
  /\ \A t \in Threads : pc[t] = "idle"
  /\ gone' = TRUE
  /\ releases' = IF released THEN releases ELSE releases + 1
  /\ released' = TRUE
  /\ UNCHANGED <<thread, lock, exception, calls>>

Step(t) ==
  \/ Check(t) \/ Acquire(t) \/ ScriptBegins(t) \/ ResolveBegins(t) \/ ScriptEnds(t)
  \/ ResolveAgain(t) \/ Record(t) \/ Completes(t) \/ Release(t) \/ Unlock(t)
  \/ LeavesUnlocked(t)
  \/ \E k \in Kinds : Call(t, k)

Next == Deinit \/ \E t \in Threads : Step(t)

Spec == Init /\ [][Next]_vars

-----------------------------------------------------------------------------
TypeOK ==
  /\ pc \in [Threads -> {"idle", "check", "locking", "start", "script", "returned", "threw",
                         "done", "unlocked"}]
  /\ kind \in [Threads -> Kinds]
  /\ run \in [Threads -> {1, 2}]
  /\ failed \in [Threads -> BOOLEAN] /\ late \in [Threads -> BOOLEAN]
  /\ lock \in Threads \cup {NoThread}
  /\ {released, exception, gone} \subseteq BOOLEAN
  /\ releases \in Nat /\ calls \in 0 .. MaxCalls

\* thread t is inside JavaScriptCore, with the context of this Jib
Locked(t) == pc[t] \in {"start", "script", "returned", "threw"} /\ kind[t] # "release"
Using(t) == Locked(t) \/ pc[t] = "unlocked"

\* The flag is enough when release() overlaps nothing: the freed context is
\* never used, by no operation called before, after or from another thread.
NoUseAfterRelease == \A t \in Threads : Using(t) => ~ released

\* Even when it overlaps, an operation called after release() freed the context
\* does not get past the flag.
LateCallsRefused == \A t \in Threads : late[t] => ~ Using(t)

\* release(), on any number of threads, and deinit free the context once.
ReleasedOnce == releases <= 1 /\ (released => releases = 1)

\* What the lock covers is covered: scripts and the conversions of subscripts
\* run one at a time.
LockedUseExclusive ==
  \A t \in Threads : Locked(t) => lock = t /\ \A u \in Threads \ {t} : ~ Locked(u)

-----------------------------------------------------------------------------
(* Proofs, for every set of threads, every bound on the calls and either    *)
(* policy of calling release().                                             *)

\* The threads between lock.lock() and the end of lock.unlock().
Holds(t) == pc[t] \in {"start", "script", "returned", "threw", "done"}

\* Whoever is past lock.lock() holds the lock, and release() converts nothing.
LockInv ==
  \A t \in Threads :
    /\ Holds(t) => lock = t
    /\ kind[t] = "release" => pc[t] \in {"idle", "locking", "start", "done"}

\* released counts the releases, and who was called late got no further than
\* the flag, unless it is release() itself.
FlagInv ==
  /\ releases = IF released THEN 1 ELSE 0
  /\ \A t \in Threads : late[t] => /\ released
                                   /\ kind[t] = "release" \/ pc[t] \in {"idle", "check"}

\* A release() that overlaps nothing is alone, and whoever is called after it
\* has only the flag to look at.
QuietInv ==
  ReleasePolicy = "quiescent" =>
    /\ \A t, u \in Threads : t # u /\ pc[t] # "idle" /\ kind[t] = "release" => pc[u] = "idle"
    /\ released => \A t \in Threads : kind[t] = "release" \/ pc[t] \in {"idle", "check"}

JInv == TypeOK /\ LockInv /\ FlagInv /\ QuietInv

-----------------------------------------------------------------------------
\* The invariant holds at first.
LEMMA InitJInv ==
  ASSUME JSCAssumption
  PROVE  Init => JInv
<1> SUFFICES ASSUME Init
             PROVE  JInv
  OBVIOUS
<1>1. TypeOK
  <2>1. released = FALSE /\ exception = FALSE /\ gone = FALSE
    BY DEF Init
  <2>2. {released, exception, gone} \subseteq BOOLEAN
    BY <2>1, Zenon
  <2> QED
    BY <2>2 DEF JSCAssumption, Init, TypeOK, Kinds
<1>2. LockInv /\ FlagInv /\ QuietInv
  BY DEF Init, LockInv, Holds, FlagInv, QuietInv
<1> QED
  BY <1>1, <1>2 DEF JInv

\* What the steps of a thread that is in an operation have in common: the
\* thread stays in it or leaves it, and nobody else moves.
LEMMA TypeStep ==
  ASSUME JSCAssumption, TypeOK, [Next]_vars
  PROVE  TypeOK'
<1>1. ASSUME NEW t \in Threads, NEW k \in Kinds, Call(t, k) PROVE TypeOK'
  BY <1>1 DEF JSCAssumption, TypeOK, Kinds, Call, Goes
<1>2. ASSUME NEW t \in Threads, Check(t) \/ Acquire(t) \/ ScriptBegins(t) PROVE TypeOK'
  BY <1>2 DEF TypeOK, Check, Acquire, ScriptBegins, Goes
<1>3. ASSUME NEW t \in Threads, ResolveBegins(t) \/ ScriptEnds(t) \/ ResolveAgain(t) PROVE TypeOK'
  BY <1>3 DEF TypeOK, ResolveBegins, ScriptEnds, ResolveAgain, Goes
<1>4. ASSUME NEW t \in Threads, Record(t) \/ Completes(t) PROVE TypeOK'
  BY <1>4 DEF TypeOK, Record, Completes, Goes
<1>5. ASSUME NEW t \in Threads, Release(t) PROVE TypeOK'
  BY <1>5 DEF TypeOK, Release, Goes
<1>6. ASSUME NEW t \in Threads, Unlock(t) \/ LeavesUnlocked(t) PROVE TypeOK'
  BY <1>6 DEF JSCAssumption, TypeOK, Unlock, LeavesUnlocked, Goes
<1>7. CASE Deinit
  BY <1>7 DEF TypeOK, Deinit, thread
<1>8. CASE UNCHANGED vars
  BY <1>8 DEF TypeOK, vars, thread
<1> QED
  BY <1>1, <1>2, <1>3, <1>4, <1>5, <1>6, <1>7, <1>8 DEF Next, Step

\* The lock stays with the thread that has it until it gives it back.
LEMMA LockStep ==
  ASSUME JSCAssumption, TypeOK, LockInv, [Next]_vars
  PROVE  LockInv'
<1> USE DEF LockInv, Holds, Goes, At
<1>1. ASSUME NEW t \in Threads, NEW k \in Kinds, Call(t, k) PROVE LockInv'
  BY <1>1 DEF TypeOK, Kinds, Call
<1>2. ASSUME NEW t \in Threads, Check(t) PROVE LockInv'
  BY <1>2 DEF TypeOK, Check
<1>3. ASSUME NEW t \in Threads, Acquire(t) PROVE LockInv'
  BY <1>3 DEF JSCAssumption, TypeOK, Acquire
<1>4. ASSUME NEW t \in Threads, ScriptBegins(t) \/ ResolveBegins(t) PROVE LockInv'
  BY <1>4 DEF TypeOK, ScriptBegins, ResolveBegins
<1>5. ASSUME NEW t \in Threads, ScriptEnds(t) \/ ResolveAgain(t) PROVE LockInv'
  BY <1>5 DEF TypeOK, ScriptEnds, ResolveAgain
<1>6. ASSUME NEW t \in Threads, Record(t) \/ Completes(t) PROVE LockInv'
  BY <1>6 DEF TypeOK, Record, Completes
<1>7. ASSUME NEW t \in Threads, Release(t) PROVE LockInv'
  BY <1>7 DEF TypeOK, Release
<1>8. ASSUME NEW t \in Threads, Unlock(t) PROVE LockInv'
  BY <1>8 DEF TypeOK, Unlock
<1>9. ASSUME NEW t \in Threads, LeavesUnlocked(t) PROVE LockInv'
  BY <1>9 DEF TypeOK, LeavesUnlocked
<1>10. CASE Deinit \/ UNCHANGED vars
  BY <1>10 DEF Deinit, vars, thread
<1> QED
  BY <1>1, <1>2, <1>3, <1>4, <1>5, <1>6, <1>7, <1>8, <1>9, <1>10 DEF Next, Step

\* The flag is set with the first release, and refuses who comes late.
LEMMA FlagStep ==
  ASSUME JSCAssumption, TypeOK, LockInv, FlagInv, [Next]_vars
  PROVE  FlagInv'
<1> USE DEF FlagInv, Goes, At
<1>1. ASSUME NEW t \in Threads, NEW k \in Kinds, Call(t, k) PROVE FlagInv'
  BY <1>1 DEF TypeOK, Kinds, Call
<1>2. ASSUME NEW t \in Threads, Check(t) PROVE FlagInv'
  BY <1>2 DEF TypeOK, Check
<1>3. ASSUME NEW t \in Threads, Acquire(t) \/ ScriptBegins(t) \/ ResolveBegins(t) PROVE FlagInv'
  BY <1>3 DEF TypeOK, Acquire, ScriptBegins, ResolveBegins
<1>4. ASSUME NEW t \in Threads, ScriptEnds(t) \/ ResolveAgain(t) PROVE FlagInv'
  BY <1>4 DEF TypeOK, ScriptEnds, ResolveAgain
<1>5. ASSUME NEW t \in Threads, Record(t) \/ Completes(t) PROVE FlagInv'
  BY <1>5 DEF TypeOK, Record, Completes
<1>6. ASSUME NEW t \in Threads, Release(t) PROVE FlagInv'
  BY <1>6 DEF TypeOK, Release
<1>7. ASSUME NEW t \in Threads, Unlock(t) \/ LeavesUnlocked(t) PROVE FlagInv'
  BY <1>7 DEF TypeOK, Unlock, LeavesUnlocked
<1>8. CASE Deinit
  BY <1>8 DEF TypeOK, Deinit, thread
<1>9. CASE UNCHANGED vars
  BY <1>9 DEF vars, thread
<1> QED
  BY <1>1, <1>2, <1>3, <1>4, <1>5, <1>6, <1>7, <1>8, <1>9 DEF Next, Step

\* Nothing overlaps a release() that is called when nothing else is in progress.
LEMMA QuietStep ==
  ASSUME JSCAssumption, TypeOK, LockInv, QuietInv, [Next]_vars
  PROVE  QuietInv'
<1> SUFFICES ASSUME ReleasePolicy = "quiescent"
             PROVE  QuietInv'
  BY DEF QuietInv
<1> USE DEF QuietInv, Goes, At
<1>1. ASSUME NEW t \in Threads, NEW k \in Kinds, Call(t, k) PROVE QuietInv'
  BY <1>1 DEF TypeOK, Kinds, Call, Quiescent
<1>2. ASSUME NEW t \in Threads, Check(t) PROVE QuietInv'
  BY <1>2 DEF TypeOK, Check
<1>3. ASSUME NEW t \in Threads, Acquire(t) \/ ScriptBegins(t) \/ ResolveBegins(t) PROVE QuietInv'
  BY <1>3 DEF TypeOK, Acquire, ScriptBegins, ResolveBegins
<1>4. ASSUME NEW t \in Threads, ScriptEnds(t) \/ ResolveAgain(t) PROVE QuietInv'
  BY <1>4 DEF TypeOK, ScriptEnds, ResolveAgain
<1>5. ASSUME NEW t \in Threads, Record(t) \/ Completes(t) PROVE QuietInv'
  BY <1>5 DEF TypeOK, Record, Completes
<1>6. ASSUME NEW t \in Threads, Release(t) PROVE QuietInv'
  BY <1>6 DEF TypeOK, Release
<1>7. ASSUME NEW t \in Threads, Unlock(t) \/ LeavesUnlocked(t) PROVE QuietInv'
  BY <1>7 DEF TypeOK, Unlock, LeavesUnlocked
<1>8. CASE Deinit
  BY <1>8 DEF TypeOK, Deinit, thread
<1>9. CASE UNCHANGED vars
  BY <1>9 DEF vars, thread
<1> QED
  BY <1>1, <1>2, <1>3, <1>4, <1>5, <1>6, <1>7, <1>8, <1>9 DEF Next, Step

\* Every step keeps the invariant.
LEMMA NextJInv ==
  ASSUME JSCAssumption
  PROVE  JInv /\ [Next]_vars => JInv'
BY TypeStep, LockStep, FlagStep, QuietStep DEF JInv

\* The invariant holds in every reachable state.
LEMMA Invariant ==
  ASSUME JSCAssumption
  PROVE  Spec => []JInv
BY InitJInv, NextJInv, PTL DEF Spec

-----------------------------------------------------------------------------
(* What follows for the threads.                                           *)

\* What the lock covers is covered: scripts and the conversions of subscripts
\* run one at a time, whenever release() is called.
THEOREM LockedUseExclusiveCorrect ==
  ASSUME JSCAssumption
  PROVE  Spec => []LockedUseExclusive
<1>1. JInv => LockedUseExclusive
  BY DEF JInv, LockInv, Holds, LockedUseExclusive, Locked
<1> QED
  BY <1>1, Invariant, PTL

\* release(), on any number of threads and however often, and deinit free the
\* context once.
THEOREM ReleasedOnceCorrect ==
  ASSUME JSCAssumption
  PROVE  Spec => []ReleasedOnce
<1>1. JInv => ReleasedOnce
  BY DEF JInv, FlagInv, ReleasedOnce
<1> QED
  BY <1>1, Invariant, PTL

\* An operation called after release() freed the context does not get past the
\* flag, even if release() overlaps other operations.
THEOREM LateCallsRefusedCorrect ==
  ASSUME JSCAssumption
  PROVE  Spec => []LateCallsRefused
<1>1. JInv => LateCallsRefused
  BY DEF JInv, LockInv, FlagInv, LateCallsRefused, Using, Locked
<1> QED
  BY <1>1, Invariant, PTL

\* A release() that overlaps nothing is safe: the freed context is never used.
THEOREM NoUseAfterReleaseCorrect ==
  ASSUME JSCAssumption, ReleasePolicy = "quiescent"
  PROVE  Spec => []NoUseAfterRelease
<1>1. JInv => NoUseAfterRelease
  BY DEF JInv, LockInv, QuietInv, NoUseAfterRelease, Using, Locked
<1> QED
  BY <1>1, Invariant, PTL
=============================================================================
