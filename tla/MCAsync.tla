------------------------------ MODULE MCAsync ------------------------------
(* The parts of the engine that suspend code and resume it, each by itself  *)
(* and one of them in a behaviour: `on` says which. The others keep the     *)
(* state they start in.                                                     *)
EXTENDS QJSPromise

CONSTANTS
  MaxElements,   \* QJSPromiseAll
  Mixes,
  Gens,          \* QJSGenerator
  Acts,          \* QJSAsyncFunc
  MaxRequests,   \* bounds of QJSAsyncGen
  MaxDepth

VARIABLES
  on,                                                      \* the part that runs
  method, foreign, loop, given, count, called, values, outcome, answers,    \* QJSPromiseAll
  genState, func, genStack, raised, sent, left, genResult,       \* QJSGenerator
  ref, frame, at, callStack, funcs, queued, settled,             \* QJSAsyncFunc
  agState, live, queue, agStack, waiting, agAsked, returned, agAnswers \* QJSAsyncGen

allVars == <<method, foreign, loop, given, count, called, values, outcome, answers>>
genVars == <<genState, func, genStack, raised, sent, left, genResult>>
afVars == <<ref, frame, at, callStack, funcs, queued, settled>>
agVars == <<agState, live, queue, agStack, waiting, agAsked, returned, agAnswers>>

All == INSTANCE QJSPromiseAll WITH kind <- method, Collected <- Callback

Gen == INSTANCE QJSGenerator WITH state <- genState, stack <- genStack, result <- genResult

Func == INSTANCE QJSAsyncFunc WITH stack <- callStack, outcome <- settled

AGen == INSTANCE QJSAsyncGen WITH
  ThenGetter <- FALSE,
  state <- agState, stack <- agStack, asked <- agAsked, answers <- agAnswers

ASSUME MCAsyncAssumption == All!AllAssumption /\ AGen!AsyncGenAssumption

-----------------------------------------------------------------------------

MCInit ==
  /\ on \in {"promise", "all", "generator", "function", "asyncgen"}
  /\ Init /\ All!Init /\ Gen!Init /\ Func!Init /\ AGen!Init
  /\ on # "all" => method = "all" /\ foreign = {}

Promise(A) == on = "promise" /\ A /\ UNCHANGED <<on, allVars, genVars, afVars, agVars>>

MCNext ==
  \/ Promise(Next)
  \/ on = "all" /\ All!Next /\ UNCHANGED <<on, vars, genVars, afVars, agVars>>
  \/ on = "generator" /\ Gen!Next /\ UNCHANGED <<on, vars, allVars, afVars, agVars>>
  \/ on = "function" /\ Func!Next /\ UNCHANGED <<on, vars, allVars, genVars, agVars>>
  \/ on = "asyncgen" /\ AGen!Next /\ UNCHANGED <<on, vars, allVars, genVars, afVars>>

MCVars == <<on, vars, allVars, genVars, afVars, agVars>>

\* the fairness of QJSPromise
MCSpec ==
  /\ MCInit /\ [][MCNext]_MCVars
  /\ WF_MCVars(Promise(ExecutePendingJob)) /\ WF_MCVars(Promise(ScriptEnds)) /\ WF_MCVars(Promise(Return))

-----------------------------------------------------------------------------
(* What is checked of each part besides the properties of QJSPromise.       *)

\* The collected values are handed over only when the loop is over and every
\* element has answered, each in its place, and no result is lost; if one element
\* decides, it is the first that called a resolving function.
CombinedOnce == All!CombinedOnce

\* Bodies of generators are resumed only when they can be: not while they are on
\* the stack, not after their end, and with an exception exactly if throw was
\* called on a plain yield.
GeneratorsResumable == Gen!GeneratorsResumable

\* The frame of an async call lives as long as somebody can resume it: its count
\* is exact, the body runs on a frame that was not freed, in one place, a frame
\* nobody holds is freed, and the promise of the call is settled at most once.
CallsCounted == Func!CallsCounted

\* The requests made of an async generator are answered in their order, by one
\* body: it is not entered while it runs or awaits, nothing is resumed after its
\* frame was freed, and none waits while the generator is suspended.
RequestsAnswered == AGen!RequestsAnswered
=============================================================================
