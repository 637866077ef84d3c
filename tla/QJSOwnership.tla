---------------------------- MODULE QJSOwnership ----------------------------
(***************************************************************************)
(* Reference ownership of JavaScript function objects in the QuickJS       *)
(* backend: who holds a counted reference (JS_DupValue / JS_FreeValue) to  *)
(* a function across Jib, its JibFunction objects, the global properties   *)
(* and the call or evaluation in progress, from Jib.init to Jib.deinit.    *)
(*                                                                         *)
(* A JibFunction never gives its reference back: the one its init takes is *)
(* either moved into a global property by set(global:value:) or leaked.    *)
(* given[f] counts the references taken that way and sets[f] the calls of  *)
(* set(global:value:) that moved one away.                                 *)
(*                                                                         *)
(* Granularity: Jib.lock is held from the first to the last step of an     *)
(* operation, so at most one is in progress ("phase"); the JavaScript it   *)
(* runs, Swift bodies called back included, takes one action per effect.   *)
(* ARC may drop a JibFunction at any moment, without the lock.             *)
(***************************************************************************)
EXTENDS Integers, FiniteSets

CONSTANTS
  Fns,        \* the function objects that may ever be created
  Slots,      \* the places that script can store a function in
  PrintFn,    \* the function Jib.init creates for "print"
  PrintSlot,  \* global.print
  LogSlot,    \* console.log, a property that is not one of the global object
  NoFn,       \* a value that is not a function object
  SetPolicy,  \* how the application uses set(global:value:), see MaySet
  MaxGiven,   \* bound: JibFunctions handed out for one function
  MaxSets,    \* bound: calls of set(global:value:) for one function
  MaxArgs     \* bound: function arguments of one call

ASSUME FnsAssumption == IsFiniteSet(Fns) /\ PrintFn \in Fns /\ NoFn \notin Fns
ASSUME SlotsAssumption ==
  IsFiniteSet(Slots) /\ PrintSlot \in Slots /\ LogSlot \in Slots /\ PrintSlot # LogSlot
ASSUME PolicyAssumption == SetPolicy \in {"once", "budget", "any"}
ASSUME BoundsAssumption == MaxGiven \in Nat \ {0} /\ MaxSets \in Nat \ {0} /\ MaxArgs \in Nat

VARIABLES
  jib,       \* "alive", "freeing" (inside deinit, before JS_FreeRuntime) or "gone"
  rc,        \* rc[f]: JSGCObjectHeader.ref_count of f, 0 when f does not exist
  born,      \* the functions created so far
  native,    \* those JibFunction.init?(jib:name:body:) created
  custom,    \* Jib.customFunctions
  heldNew,   \* native functions whose original JibFunction the application holds
  heldWrap,  \* functions the application holds another JibFunction for
  given,     \* given[f]: JibFunctions made for f so far
  sets,      \* sets[f]: references to f passed to JS_SetProperty so far
  prop,      \* prop[s]: the function in slot s, or NoFn
  readonly,  \* the slots script has made read-only
  phase,     \* "idle", "run" (JS_Eval, JS_Call) or "convert" (of their result)
  kind,      \* the operation in progress
  callee,    \* the function being called
  args,      \* the functions among the arguments of JS_Call
  result,    \* the value JS_Eval, JS_Call or JS_GetException returned
  pending    \* JSRuntime.current_exception

hostVars  == <<jib, native, custom, given, sets>>
handles   == <<heldNew, heldWrap>>
frameVars == <<phase, kind, callee, args, result>>
vars == <<hostVars, handles, frameVars, rc, born, prop, readonly, pending>>

-----------------------------------------------------------------------------
(* Counting references.                                                    *)

One(b) == IF b THEN 1 ELSE 0

\* the slots that hold f, each with a counted reference
PropRefs(f) == Cardinality({s \in Slots : prop[s] = f})

\* the references to f that the operation in progress and the runtime own
FrameRefs(f) == One(f \in args) + One(result = f) + One(pending = f)

\* the references to f that belong to Swift: those of its JibFunctions and of
\* customFunctions, less those that set(global:value:) gave away
HostRefs(f) == given[f] + One(f \in custom) - sets[f]

\* JS_SetPropertyInternal on a slot: the new value is moved or duplicated in,
\* the old one is released. g = 1 when the new value's reference is a new one.
Store(s, v, g) ==
  /\ prop' = [prop EXCEPT ![s] = v]
  /\ rc' = [f \in Fns |-> rc[f] + (IF f = v THEN g ELSE 0) - One(prop[s] = f)]

Held == heldNew \cup heldWrap

\* what the JavaScript in progress can reach without calling a Swift body
Reach == ({prop[s] : s \in Slots} \cup args \cup {callee, result}) \ {NoFn}

\* a Swift body may return any JibFunction the application holds (print's
\* returns nil); createJibValue duplicates it into the caller's hands
InHand == Reach \cup (IF (Reach \cap native) \ {PrintFn} # {} THEN Held ELSE {})

\* "once":   only functions from new(function:), each passed at most once
\* "budget": a function is passed at most once per JibFunction made for it
\* "any":    no rule, which is what the API allows
MaySet(f) ==
  /\ sets[f] < MaxSets
  /\ \/ SetPolicy = "any"
     \/ SetPolicy = "budget" /\ sets[f] < given[f]
     \/ SetPolicy = "once" /\ f \in native /\ sets[f] = 0

-----------------------------------------------------------------------------
\* Jib.init has run: print is in its slot, in console.log and in customFunctions
Init ==
  /\ jib = "alive"
  /\ rc = [f \in Fns |-> IF f = PrintFn THEN 3 ELSE 0]
  /\ born = {PrintFn}
  /\ native = {PrintFn}
  /\ custom = {PrintFn}
  /\ heldNew = {}
  /\ heldWrap = {}
  /\ given = [f \in Fns |-> One(f = PrintFn)]
  /\ sets = [f \in Fns |-> One(f = PrintFn)]
  /\ prop = [s \in Slots |-> IF s \in {PrintSlot, LogSlot} THEN PrintFn ELSE NoFn]
  /\ readonly = {}
  /\ phase = "idle"
  /\ kind = "none"
  /\ callee = NoFn
  /\ args = {}
  /\ result = NoFn
  /\ pending = NoFn

Idle == jib = "alive" /\ phase = "idle"

(* Operations of Jib that take effect at once.                             *)

\* Fault: the new JibFunction is not appended to customFunctions.
NewNotKept(f) ==
  /\ Idle
  /\ f \notin born
  /\ rc' = [rc EXCEPT ![f] = 2]
  /\ born' = born \cup {f}
  /\ native' = native \cup {f}
  /\ given' = [given EXCEPT ![f] = 1]
  /\ heldNew' = heldNew \cup {f}
  /\ UNCHANGED <<jib, custom, heldWrap, sets, prop, readonly, frameVars, pending>>

\* new(function:body:): one reference from JS_NewCFunctionMagic, one from
\* JS_DupValue; the JibFunction is appended to customFunctions and returned
New(f) ==
  /\ Idle
  /\ f \notin born
  /\ rc' = [rc EXCEPT ![f] = 2]
  /\ born' = born \cup {f}
  /\ native' = native \cup {f}
  /\ custom' = custom \cup {f}
  /\ given' = [given EXCEPT ![f] = 1]
  /\ heldNew' = heldNew \cup {f}
  /\ UNCHANGED <<jib, heldWrap, sets, prop, readonly, frameVars, pending>>

\* Fault: the value is freed after JS_SetProperty, which has consumed it.
SetGlobalThenFree(s, f) ==
  /\ Idle
  /\ f \in Held
  /\ MaySet(f)
  /\ s \in Slots \ (readonly \cup {LogSlot})
  /\ prop' = [prop EXCEPT ![s] = f]
  /\ rc' = [g \in Fns |-> rc[g] - One(prop[s] = g) - One(g = f)]
  /\ sets' = [sets EXCEPT ![f] = @ + 1]
  /\ UNCHANGED <<jib, born, native, custom, given, handles, readonly, frameVars, pending>>

\* set(global:value:) on a writable property: JS_SetProperty moves the
\* reference of the JibFunction into the property
SetGlobal(s, f) ==
  /\ Idle
  /\ f \in Held
  /\ MaySet(f)
  /\ s \in Slots \ (readonly \cup {LogSlot})
  /\ Store(s, f, 0)
  /\ sets' = [sets EXCEPT ![f] = @ + 1]
  /\ UNCHANGED <<jib, born, native, custom, given, handles, readonly, frameVars, pending>>

\* ... on a read-only property: the value is freed all the same, a TypeError
\* replaces the pending exception, and recordException turns it into a string
SetGlobalFails(s, f) ==
  /\ Idle
  /\ f \in Held
  /\ MaySet(f)
  /\ s \in readonly \ {LogSlot}
  /\ rc' = [g \in Fns |-> rc[g] - One(g = f) - One(g = pending)]
  /\ sets' = [sets EXCEPT ![f] = @ + 1]
  /\ pending' = NoFn
  /\ phase' = "convert"
  /\ kind' = "record"
  /\ UNCHANGED <<jib, born, native, custom, given, handles, prop, readonly, callee, args, result>>

(* Operations that run JavaScript: their first step.                       *)

\* eval(_:), or the first JS_Eval of resolve(_:) under a subscript
EvalBegins(k) ==
  /\ Idle
  /\ phase' = "run"
  /\ kind' = k
  /\ UNCHANGED <<hostVars, handles, rc, born, prop, readonly, callee, args, result, pending>>

\* Fault: createJibValue(JibFunction) hands out functionValueRef itself.
CallBorrowsArgs(f, argv) ==
  /\ Idle
  /\ f \in Held
  /\ argv \subseteq Held
  /\ Cardinality(argv) <= MaxArgs
  /\ phase' = "run"
  /\ kind' = "call"
  /\ callee' = f
  /\ args' = argv
  /\ UNCHANGED <<hostVars, handles, rc, born, prop, readonly, result, pending>>

\* call(..., args): createJibValue duplicates each argument; the callee is only borrowed
CallBegins(f, argv) ==
  /\ Idle
  /\ f \in Held
  /\ argv \subseteq Held
  /\ Cardinality(argv) <= MaxArgs
  /\ phase' = "run"
  /\ kind' = "call"
  /\ callee' = f
  /\ args' = argv
  /\ rc' = [g \in Fns |-> rc[g] + One(g \in argv)]
  /\ UNCHANGED <<hostVars, handles, born, prop, readonly, result, pending>>

-----------------------------------------------------------------------------
(* Effects of the JavaScript in progress.                                  *)

Script == jib = "alive" /\ phase # "idle"

\* a function expression, stored at once
JSDefine(s, f) ==
  /\ Script
  /\ s \notin readonly
  /\ f \notin born
  /\ born' = born \cup {f}
  /\ Store(s, f, 1)
  /\ UNCHANGED <<hostVars, handles, readonly, frameVars, pending>>

\* an assignment of a function at hand; of anything else, or delete, for NoFn
JSAssign(s, v) ==
  /\ Script
  /\ s \notin readonly
  /\ v \in InHand \cup {NoFn}
  /\ Store(s, v, 1)
  /\ UNCHANGED <<hostVars, handles, born, readonly, frameVars, pending>>

\* Object.defineProperty(..., {writable: false, configurable: false})
JSFreeze(s) ==
  /\ Script
  /\ s \notin readonly
  /\ readonly' = readonly \cup {s}
  /\ UNCHANGED <<hostVars, handles, rc, born, prop, frameVars, pending>>

\* an exception that the script itself catches: JS_Throw releases whatever an
\* earlier subscript or conversion left pending
JSThrowsAndCatches ==
  /\ Script
  /\ pending # NoFn
  /\ rc' = [f \in Fns |-> rc[f] - One(pending = f)]
  /\ pending' = NoFn
  /\ UNCHANGED <<hostVars, handles, born, prop, readonly, frameVars>>

-----------------------------------------------------------------------------
(* Operations that run JavaScript: their last steps.                       *)

\* eval(_:) succeeds; its value is released at once
EvalReturns ==
  /\ Script
  /\ phase = "run"
  /\ kind = "eval"
  /\ phase' = "idle"
  /\ kind' = "none"
  /\ UNCHANGED <<hostVars, handles, rc, born, prop, readonly, callee, args, result, pending>>

\* Fault: call(jsvalue:) does not release the arguments.
ReturnsKeepingArgs(v) ==
  /\ Script
  /\ phase = "run"
  /\ kind # "eval"
  /\ v \in InHand \cup {NoFn} \cup (Fns \ born)
  /\ born' = born \cup ({v} \ {NoFn})
  /\ rc' = [f \in Fns |-> rc[f] + One(f = v)]
  /\ result' = v
  /\ callee' = NoFn
  /\ args' = {}
  /\ phase' = "convert"
  /\ UNCHANGED <<hostVars, handles, prop, readonly, kind, pending>>

\* JS_Call or the JS_Eval of resolve(_:) returns v, which may be a function
\* made just now; call(jsvalue:) then releases the arguments
Returns(v) ==
  /\ Script
  /\ phase = "run"
  /\ kind # "eval"
  /\ v \in InHand \cup {NoFn} \cup (Fns \ born)
  /\ born' = born \cup ({v} \ {NoFn})
  /\ rc' = [f \in Fns |-> rc[f] + One(f = v) - One(f \in args)]
  /\ result' = v
  /\ callee' = NoFn
  /\ args' = {}
  /\ phase' = "convert"
  /\ UNCHANGED <<hostVars, handles, prop, readonly, kind, pending>>

\* eval(_:) or a call throws v: the arguments are released, recordIf takes the
\* exception out of the runtime and converts it to a string
Throws(v) ==
  /\ Script
  /\ phase = "run"
  /\ kind \in {"eval", "call"}
  /\ v \in InHand \cup {NoFn}
  /\ rc' = [f \in Fns |-> rc[f] + One(f = v) - One(f \in args) - One(f = pending)]
  /\ pending' = NoFn
  /\ result' = v
  /\ callee' = NoFn
  /\ args' = {}
  /\ phase' = "convert"
  /\ kind' = "record"
  /\ UNCHANGED <<hostVars, handles, born, prop, readonly>>

\* the script of a subscript throws v, which stays pending: resolve(_:) tries
\* again with the text as it is, then gives up
ResolveThrows(v) ==
  /\ Script
  /\ phase = "run"
  /\ kind \in {"resolve", "resolve again"}
  /\ v \in InHand \cup {NoFn}
  /\ rc' = [f \in Fns |-> rc[f] + One(f = v) - One(f = pending)]
  /\ pending' = v
  /\ \/ kind = "resolve" /\ kind' = "resolve again" /\ phase' = "run"
     \/ kind = "resolve again" /\ kind' = "none" /\ phase' = "idle"
  /\ UNCHANGED <<hostVars, handles, born, prop, readonly, callee, args, result>>

\* the toString or toJSON a conversion calls throws v, which stays pending
ConvertThrows(v) ==
  /\ Script
  /\ phase = "convert"
  /\ v \in InHand \cup {NoFn}
  /\ rc' = [f \in Fns |-> rc[f] + One(f = v) - One(f = pending)]
  /\ pending' = v
  /\ UNCHANGED <<hostVars, handles, born, prop, readonly, frameVars>>

\* the operation returns a string, number, ... or nil; the value is released
ConvertEnds ==
  /\ Script
  /\ phase = "convert"
  /\ rc' = [f \in Fns |-> rc[f] - One(f = result)]
  /\ result' = NoFn
  /\ phase' = "idle"
  /\ kind' = "none"
  /\ UNCHANGED <<hostVars, handles, born, prop, readonly, callee, args, pending>>

\* call(function:) and subscript[function:] return a function as a new
\* JibFunction, whose init duplicates the value before it is released
ConvertEndsAsFunction ==
  /\ Script
  /\ phase = "convert"
  /\ kind # "record"
  /\ result # NoFn
  /\ given[result] < MaxGiven
  /\ given' = [given EXCEPT ![result] = @ + 1]
  /\ heldWrap' = heldWrap \cup {result}
  /\ result' = NoFn
  /\ phase' = "idle"
  /\ kind' = "none"
  /\ UNCHANGED <<jib, native, custom, sets, heldNew, rc, born, prop, readonly, callee, args, pending>>

-----------------------------------------------------------------------------
(* ARC and deinit.                                                         *)

\* Fault: JibFunction.deinit releases functionValueRef, even one given away.
DropNewReleases(f) ==
  /\ f \in heldNew
  /\ f \notin args \cup {callee}
  /\ heldNew' = heldNew \ {f}
  /\ rc' = [rc EXCEPT ![f] = @ - 1]
  /\ UNCHANGED <<hostVars, frameVars, heldWrap, born, prop, readonly, pending>>

\* the application's last reference to a JibFunction goes: its deinit releases
\* the Swift body only, never functionValueRef
DropNew(f) ==
  /\ f \in heldNew
  /\ f \notin args \cup {callee}
  /\ heldNew' = heldNew \ {f}
  /\ UNCHANGED <<hostVars, frameVars, heldWrap, rc, born, prop, readonly, pending>>

DropWrap(f) ==
  /\ f \in heldWrap
  /\ f \notin args \cup {callee}
  /\ heldWrap' = heldWrap \ {f}
  /\ UNCHANGED <<hostVars, frameVars, heldNew, rc, born, prop, readonly, pending>>

\* deinit releases one reference of each function in customFunctions ...
DeinitFrees ==
  /\ Idle
  /\ jib' = "freeing"
  /\ rc' = [f \in Fns |-> rc[f] - One(f \in custom)]
  /\ custom' = {}
  /\ UNCHANGED <<native, given, sets, handles, frameVars, born, prop, readonly, pending>>

\* ... then JS_FreeContext and JS_FreeRuntime: the pending exception goes, and
\* JS_RunGC frees everything unless some function has a reference from outside
\* the heap; such a function keeps its realm, hence the whole global object
DeinitRuns ==
  /\ jib = "freeing"
  /\ jib' = "gone"
  /\ pending' = NoFn
  /\ LET left == [f \in Fns |-> rc[f] - One(pending = f)]
         kept == \E f \in Fns : left[f] > PropRefs(f)
     IN  /\ rc' = IF kept THEN left ELSE [f \in Fns |-> 0]
         /\ prop' = IF kept THEN prop ELSE [s \in Slots |-> NoFn]
  /\ UNCHANGED <<native, custom, given, sets, handles, frameVars, born, readonly>>

-----------------------------------------------------------------------------
ApiStep ==
  \/ \E f \in Fns : New(f) \/ DropNew(f) \/ DropWrap(f)
  \/ \E f \in Fns, s \in Slots : SetGlobal(s, f) \/ SetGlobalFails(s, f)
  \/ \E k \in {"eval", "resolve"} : EvalBegins(k)
  \/ \E f \in Fns, argv \in SUBSET Fns : CallBegins(f, argv)

ScriptStep ==
  \/ \E s \in Slots, f \in Fns : JSDefine(s, f)
  \/ \E s \in Slots, v \in Fns \cup {NoFn} : JSAssign(s, v)
  \/ \E s \in Slots : JSFreeze(s)
  \/ JSThrowsAndCatches

ReturnStep ==
  \/ EvalReturns
  \/ \E v \in Fns \cup {NoFn} : Returns(v) \/ Throws(v) \/ ResolveThrows(v) \/ ConvertThrows(v)
  \/ ConvertEnds
  \/ ConvertEndsAsFunction

DeinitStep == DeinitFrees \/ DeinitRuns

Next == ApiStep \/ ScriptStep \/ ReturnStep \/ DeinitStep

Spec == Init /\ [][Next]_vars

-----------------------------------------------------------------------------
\* The type of every variable but rc.
ShapeOK ==
  /\ jib \in {"alive", "freeing", "gone"}
  /\ native \subseteq born /\ born \subseteq Fns
  /\ custom \subseteq native
  /\ heldNew \subseteq native /\ heldWrap \subseteq born
  /\ given \in [Fns -> Nat] /\ sets \in [Fns -> Nat]
  /\ prop \in [Slots -> born \cup {NoFn}]
  /\ readonly \subseteq Slots
  /\ phase \in {"idle", "run", "convert"}
  /\ kind \in {"none", "eval", "call", "resolve", "resolve again", "record"}
  /\ {callee, result, pending} \subseteq born \cup {NoFn}
  /\ args \subseteq born

\* Every variable has its type.
TypeOK == ShapeOK /\ rc \in [Fns -> Int]

\* The books balance: while the application respects its budget of calls to
\* set(global:value:), a function's ref_count is exactly the slots that hold
\* it, the operation in progress, and what Swift still owns, which is never a
\* debt. This is what each JS_DupValue and JS_FreeValue of Jib, Jib+Function
\* and Jib+Unknown has to add up to.
Ledger ==
  \A f \in Fns : /\ rc[f] = PropRefs(f) + FrameRefs(f) + HostRefs(f)
                 /\ sets[f] <= given[f]

\* the functions that a counted reference leads to, and those that a
\* JibFunction of the application or the call in progress refers to
Counted  == ({prop[s] : s \in Slots} \cup args \cup custom \cup {result, pending}) \ {NoFn}
Borrowed == (Held \cup {callee}) \ {NoFn}

\* No reference outlives its function: what script, the operation in progress
\* or the runtime can reach is allocated, and when the application passes only
\* functions from new(function:) to set(global:value:), each once, so is what
\* its JibFunctions refer to as long as the Jib exists.
NoDangling ==
  /\ \A f \in Counted : rc[f] > 0
  /\ SetPolicy = "once" /\ jib = "alive" => \A f \in Borrowed : rc[f] > 0

\* A Swift body outlives its callers: while JavaScript runs, every function
\* from new(function:) that it can reach still has the JibFunction that owns
\* the body its magic points to.
BodyAlive ==
  phase # "idle" => \A f \in Reach \cap native : f \in custom \cup heldNew

\* deinit leaves nothing allocated exactly when each JibFunction ever made was
\* passed to set(global:value:) (in number): a JibFunction that was not leaks
\* the function, its realm and the whole global object.
FreedIffAllSet ==
  jib = "gone" =>
    ((\A f \in Fns : rc[f] = 0) <=> (\A f \in Fns : given[f] = sets[f]))

\* gc_decref_child asserts ref_count > 0 for each child it visits: at any
\* point where the collector may run, a function has at least as many
\* references as the slots that hold it.
GcDecrefAssertion == \A f \in Fns : rc[f] >= PropRefs(f)
=============================================================================
