------------------------------ MODULE MCCalls ------------------------------
(* Threads that call the operations of Jibs of either backend: `on` says    *)
(* which, and for JavaScriptCore when release() is called. The one that     *)
(* does not run keeps its initial state.                                    *)
EXTENDS QJSCalls

CONSTANTS
  jibA, jibB,    \* of the configuration, which needs them by name
  CoreThreads,   \* those that call the operations of a Jib of JavaScriptCore
  MaxLateCalls   \* bound: operations called on the Jib that is released

VARIABLES
  on,
  place, kind, run, failed, late, held, released, releases, shows, called, gone \* JSCCalls

coreVars == <<place, kind, run, failed, late, held, released, releases, shows, called, gone>>

MCNestsIn == {<<jibA, jibB>>}

Quiet == INSTANCE JSCCalls WITH
  Threads <- CoreThreads, ReleasePolicy <- "quiescent", MaxCalls <- MaxLateCalls,
  pc <- place, lock <- held, exception <- shows, calls <- called

Overlap == INSTANCE JSCCalls WITH
  Threads <- CoreThreads, ReleasePolicy <- "any", MaxCalls <- MaxLateCalls,
  pc <- place, lock <- held, exception <- shows, calls <- called

ASSUME MCCallsAssumption == Quiet!JSCAssumption /\ Overlap!JSCAssumption

-----------------------------------------------------------------------------

MCInit == on \in {"quickjs", "quiescent", "any"} /\ Init /\ Overlap!Init

QuickJS(A) == on = "quickjs" /\ A /\ UNCHANGED <<on, coreVars>>

MCNext ==
  \/ QuickJS(Next)
  \/ on = "quiescent" /\ Quiet!Next /\ UNCHANGED <<on, vars>>
  \/ on = "any" /\ Overlap!Next /\ UNCHANGED <<on, vars>>

MCVars == <<on, vars, coreVars>>

\* The system schedules every thread that can run, and scripts and bodies end.
Fairness == \A t \in Threads : WF_MCVars(QuickJS(Proceed(t)))

MCSpec == MCInit /\ [][MCNext]_MCVars /\ Fairness

-----------------------------------------------------------------------------
(* What is checked of the JavaScriptCore backend.                          *)

\* The flag is enough when release() overlaps nothing: the freed context is
\* never used, by no operation called before, after or from another thread.
NoUseAfterRelease == on = "quiescent" => Quiet!NoUseAfterRelease

\* Even when it overlaps, an operation called after release() freed the context
\* does not get past the flag.
LateCallsRefused == on = "any" => Overlap!LateCallsRefused

\* release(), on any number of threads, and deinit free the context once.
ReleasedOnce == (on = "quiescent" => Quiet!ReleasedOnce) /\ (on = "any" => Overlap!ReleasedOnce)

\* What the lock covers is covered: scripts and the conversions of subscripts
\* run one at a time.
LockedUseExclusive ==
  (on = "quiescent" => Quiet!LockedUseExclusive) /\ (on = "any" => Overlap!LockedUseExclusive)

\* A released context stays released: it is freed once, and whoever asks later
\* is turned away.
ReleaseIsFinal == ReleasedOnce /\ LateCallsRefused
=============================================================================
