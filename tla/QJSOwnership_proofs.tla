------------------------- MODULE QJSOwnership_proofs -------------------------
(***************************************************************************)
(* Proofs about QJSOwnership, for every set of functions and slots and     *)
(* every bound.                                                            *)
(***************************************************************************)
EXTENDS QJSOwnership, FiniteSetTheorems, TLAPS

-----------------------------------------------------------------------------
(* Counting the slots that hold a function.                                *)

\* The number of slots that hold a function is a natural number.
LEMMA PropRefsNat ==
  ASSUME NEW f
  PROVE  /\ IsFiniteSet({s \in Slots : prop[s] = f})
         /\ PropRefs(f) \in Nat
<1>1. IsFiniteSet({s \in Slots : prop[s] = f})
  BY FS_Subset, SlotsAssumption
<1> QED
  BY <1>1, FS_CardinalityType DEF PropRefs

\* No slot holds a function that no slot holds.
LEMMA PropRefsZero ==
  ASSUME NEW f, \A s \in Slots : prop[s] # f
  PROVE  PropRefs(f) = 0
<1>1. {s \in Slots : prop[s] = f} = {}
  OBVIOUS
<1> QED
  BY <1>1, FS_EmptySet DEF PropRefs

\* A function that a slot holds is held at least once.
LEMMA PropRefsPositive ==
  ASSUME NEW f, NEW s \in Slots, prop[s] = f
  PROVE  PropRefs(f) > 0
<1> DEFINE holders == {t \in Slots : prop[t] = f}
<1>1. holders # {} /\ IsFiniteSet(holders) /\ Cardinality(holders) \in Nat
  BY PropRefsNat DEF PropRefs
<1>2. Cardinality(holders) # 0
  <2> HIDE DEF holders
  <2> QED
    BY <1>1, FS_EmptySet
<1> QED
  BY <1>1, <1>2 DEF PropRefs

\* Storing v in slot s takes one reference from the old value and gives one to v.
LEMMA PropRefsStore ==
  ASSUME ShapeOK, NEW s \in Slots, NEW v, prop' = [prop EXCEPT ![s] = v], NEW f
  PROVE  PropRefs(f)' = PropRefs(f) + One(f = v) - One(prop[s] = f)
<1>0. prop \in [Slots -> born \cup {NoFn}]
  BY DEF ShapeOK
<1> DEFINE others == {t \in Slots \ {s} : prop[t] = f}
<1>1. IsFiniteSet(others) /\ Cardinality(others) \in Nat
  <2>1. others \subseteq Slots
    OBVIOUS
  <2> QED
    BY <2>1, FS_Subset, FS_CardinalityType, SlotsAssumption
<1>2. Cardinality(others \cup {s}) = Cardinality(others) + 1
  <2>1. s \notin others
    OBVIOUS
  <2> HIDE DEF others
  <2> QED
    BY <1>1, <2>1, FS_AddElement
<1> DEFINE before == {t \in Slots : prop[t] = f}
           after  == {t \in Slots : prop'[t] = f}
<1>3. before = IF prop[s] = f THEN others \cup {s} ELSE others
  BY <1>0
<1>4. after = IF f = v THEN others \cup {s} ELSE others
  BY <1>0
<1>5. Cardinality(before) = Cardinality(others) + One(prop[s] = f)
  <2> HIDE DEF others, before, after
  <2>1. CASE prop[s] = f
    BY <1>1, <1>2, <1>3, <2>1 DEF One
  <2>2. CASE prop[s] # f
    BY <1>1, <1>3, <2>2 DEF One
  <2> QED
    BY <2>1, <2>2
<1>6. Cardinality(after) = Cardinality(others) + One(f = v)
  <2> HIDE DEF others, before, after
  <2>1. CASE f = v
    BY <1>1, <1>2, <1>4, <2>1 DEF One
  <2>2. CASE f # v
    BY <1>1, <1>4, <2>2 DEF One
  <2> QED
    BY <2>1, <2>2
<1>7. Cardinality(after) = Cardinality(before) + One(f = v) - One(prop[s] = f)
  <2> HIDE DEF others, before, after
  <2> QED
    BY <1>1, <1>5, <1>6 DEF One
<1> QED
  BY <1>7 DEF PropRefs
-----------------------------------------------------------------------------
(* Type correctness.                                                       *)

\* The count of a fact is an integer.
LEMMA OneInt == ASSUME NEW b PROVE One(b) \in Int
  BY DEF One

\* What script has at hand are functions that exist.
LEMMA InHandBorn ==
  ASSUME ShapeOK
  PROVE  InHand \subseteq born
  BY DEF InHand, Reach, Held, ShapeOK

\* Every step keeps ref_counts integers.
LEMMA RcStep ==
  ASSUME rc \in [Fns -> Int], Next
  PROVE  rc' \in [Fns -> Int]
<1>1. ASSUME NEW f \in Fns, New(f) PROVE rc' \in [Fns -> Int]
  BY <1>1, OneInt DEF New
<1>2. ASSUME NEW s \in Slots, NEW f \in Fns, SetGlobal(s, f) PROVE rc' \in [Fns -> Int]
  BY <1>2, OneInt DEF SetGlobal, Store
<1>3. ASSUME NEW s \in Slots, NEW f \in Fns, SetGlobalFails(s, f) PROVE rc' \in [Fns -> Int]
  BY <1>3, OneInt DEF SetGlobalFails
<1>4. ASSUME NEW f \in Fns, NEW argv \in SUBSET Fns, CallBegins(f, argv) PROVE rc' \in [Fns -> Int]
  <2>1. rc' = [g \in Fns |-> rc[g] + One(g \in argv)]
    BY <1>4 DEF CallBegins
  <2>2. \A g \in Fns : rc[g] + One(g \in argv) \in Int
    BY <1>4 DEF One
  <2> QED
    BY <2>1, <2>2
<1>5. ASSUME NEW s \in Slots, NEW f \in Fns, JSDefine(s, f) PROVE rc' \in [Fns -> Int]
  BY <1>5, OneInt DEF JSDefine, Store
<1>6. ASSUME NEW s \in Slots, NEW v \in Fns \cup {NoFn}, JSAssign(s, v) PROVE rc' \in [Fns -> Int]
  BY <1>6, OneInt DEF JSAssign, Store
<1>7. ASSUME JSThrowsAndCatches PROVE rc' \in [Fns -> Int]
  BY <1>7, OneInt DEF JSThrowsAndCatches
<1>8. ASSUME NEW v \in Fns \cup {NoFn}, Returns(v) PROVE rc' \in [Fns -> Int]
  BY <1>8, OneInt DEF Returns
<1>9. ASSUME NEW v \in Fns \cup {NoFn}, Throws(v) PROVE rc' \in [Fns -> Int]
  BY <1>9, OneInt DEF Throws
<1>10. ASSUME NEW v \in Fns \cup {NoFn}, ResolveThrows(v) PROVE rc' \in [Fns -> Int]
  <2>1. rc' = [f \in Fns |-> rc[f] + One(f = v) - One(f = pending)]
    BY <1>10 DEF ResolveThrows
  <2> QED
    BY <2>1, OneInt
<1>11. ASSUME NEW v \in Fns \cup {NoFn}, ConvertThrows(v) PROVE rc' \in [Fns -> Int]
  BY <1>11, OneInt DEF ConvertThrows
<1>12. ASSUME ConvertEnds PROVE rc' \in [Fns -> Int]
  BY <1>12, OneInt DEF ConvertEnds
<1>13. ASSUME DeinitFrees PROVE rc' \in [Fns -> Int]
  BY <1>13, OneInt DEF DeinitFrees
<1>14. ASSUME DeinitRuns PROVE rc' \in [Fns -> Int]
  BY <1>14, OneInt DEF DeinitRuns
<1>15. ASSUME UNCHANGED rc PROVE rc' \in [Fns -> Int]
  BY <1>15
<1> QED
  BY <1>1, <1>2, <1>3, <1>4, <1>5, <1>6, <1>7, <1>8, <1>9, <1>10, <1>11, <1>12, <1>13, <1>14, <1>15
     DEF Next, ApiStep, ScriptStep, ReturnStep, DeinitStep, EvalBegins, JSFreeze, EvalReturns,
         ConvertEndsAsFunction, DropNew, DropWrap

\* Every step keeps the types of the other variables.
LEMMA ShapeStep ==
  ASSUME ShapeOK, [Next]_vars
  PROVE  ShapeOK'
<1>0. InHand \subseteq born
  BY InHandBorn
<1>1. ASSUME NEW f \in Fns, New(f) PROVE ShapeOK'
  BY <1>1, <1>0 DEF New, Idle, hostVars, handles, frameVars, ShapeOK
<1>2. ASSUME NEW s \in Slots, NEW f \in Fns, SetGlobal(s, f) PROVE ShapeOK'
  <2>1. sets' \in [Fns -> Nat]
    <3>1. sets' = [sets EXCEPT ![f] = @ + 1]
      BY <1>2 DEF SetGlobal
    <3>3. sets \in [Fns -> Nat]
      BY DEF ShapeOK
    <3> QED
      BY <3>1, <3>3, <1>2
  <2> QED
    BY <2>1, <1>2, <1>0 DEF SetGlobal, Store, Held, handles, frameVars, ShapeOK
<1>3. ASSUME NEW s \in Slots, NEW f \in Fns, SetGlobalFails(s, f) PROVE ShapeOK'
  <2>1. sets' \in [Fns -> Nat]
    <3>1. sets' = [sets EXCEPT ![f] = @ + 1]
      BY <1>3 DEF SetGlobalFails
    <3>3. sets \in [Fns -> Nat]
      BY DEF ShapeOK
    <3> QED
      BY <3>1, <3>3, <1>3
  <2> QED
    BY <2>1, <1>3, <1>0 DEF SetGlobalFails, handles, ShapeOK
<1>4. ASSUME NEW k \in {"eval", "resolve"}, EvalBegins(k) PROVE ShapeOK'
  BY <1>4, <1>0 DEF EvalBegins, hostVars, handles, ShapeOK
<1>5. ASSUME NEW f \in Fns, NEW argv \in SUBSET Fns, CallBegins(f, argv) PROVE ShapeOK'
  BY <1>5, <1>0 DEF CallBegins, Held, hostVars, handles, ShapeOK
<1>6. ASSUME NEW s \in Slots, NEW f \in Fns, JSDefine(s, f) PROVE ShapeOK'
  BY <1>6, <1>0 DEF JSDefine, Store, hostVars, handles, frameVars, ShapeOK
<1>7. ASSUME NEW s \in Slots, NEW v \in Fns \cup {NoFn}, JSAssign(s, v) PROVE ShapeOK'
  BY <1>7, <1>0 DEF JSAssign, Store, hostVars, handles, frameVars, ShapeOK
<1>8. ASSUME NEW s \in Slots, JSFreeze(s) PROVE ShapeOK'
  BY <1>8, <1>0 DEF JSFreeze, hostVars, handles, frameVars, ShapeOK
<1>9. ASSUME JSThrowsAndCatches PROVE ShapeOK'
  BY <1>9, <1>0 DEF JSThrowsAndCatches, hostVars, handles, frameVars, ShapeOK
<1>10. ASSUME EvalReturns PROVE ShapeOK'
  BY <1>10, <1>0 DEF EvalReturns, hostVars, handles, ShapeOK
<1>11. ASSUME NEW v \in Fns \cup {NoFn}, Returns(v) PROVE ShapeOK'
  BY <1>11, <1>0 DEF Returns, hostVars, handles, ShapeOK
<1>12. ASSUME NEW v \in Fns \cup {NoFn}, Throws(v) PROVE ShapeOK'
  BY <1>12, <1>0 DEF Throws, hostVars, handles, ShapeOK
<1>13. ASSUME NEW v \in Fns \cup {NoFn}, ResolveThrows(v) PROVE ShapeOK'
  BY <1>13, <1>0 DEF ResolveThrows, hostVars, handles, ShapeOK
<1>14. ASSUME NEW v \in Fns \cup {NoFn}, ConvertThrows(v) PROVE ShapeOK'
  BY <1>14, <1>0 DEF ConvertThrows, hostVars, handles, frameVars, ShapeOK
<1>15. ASSUME ConvertEnds PROVE ShapeOK'
  BY <1>15, <1>0 DEF ConvertEnds, hostVars, handles, ShapeOK
<1>16. ASSUME ConvertEndsAsFunction PROVE ShapeOK'
  <2>1. given' \in [Fns -> Nat]
    <3>1. given' = [given EXCEPT ![result] = @ + 1]
      BY <1>16 DEF ConvertEndsAsFunction
    <3>2. result \in Fns
      BY <1>16 DEF ConvertEndsAsFunction, ShapeOK
    <3>3. given \in [Fns -> Nat]
      BY DEF ShapeOK
    <3> QED
      BY <3>1, <3>3, <3>2
  <2> QED
    BY <2>1, <1>16, <1>0 DEF ConvertEndsAsFunction, ShapeOK
<1>17. ASSUME NEW f \in Fns, DropNew(f) PROVE ShapeOK'
  BY <1>17, <1>0 DEF DropNew, hostVars, frameVars, ShapeOK
<1>18. ASSUME NEW f \in Fns, DropWrap(f) PROVE ShapeOK'
  BY <1>18, <1>0 DEF DropWrap, hostVars, frameVars, ShapeOK
<1>19. ASSUME DeinitFrees PROVE ShapeOK'
  BY <1>19, <1>0 DEF DeinitFrees, Idle, handles, frameVars, ShapeOK
<1>20. ASSUME DeinitRuns PROVE ShapeOK'
  BY <1>20, <1>0 DEF DeinitRuns, handles, frameVars, ShapeOK
<1>21. CASE UNCHANGED vars
  BY <1>21 DEF vars, hostVars, handles, frameVars, ShapeOK
<1> QED
  BY <1>1, <1>2, <1>3, <1>4, <1>5, <1>6, <1>7, <1>8, <1>9, <1>10, <1>11, <1>12, <1>13, <1>14, <1>15, <1>16, <1>17, <1>18, <1>19, <1>20, <1>21
     DEF Next, ApiStep, ScriptStep, ReturnStep, DeinitStep

\* Each variable keeps its type in every reachable state, for every policy.
THEOREM TypeCorrect == Spec => []TypeOK
<1>1. Init => TypeOK
  BY FnsAssumption DEF Init, One, TypeOK, ShapeOK
<1>2. TypeOK /\ [Next]_vars => TypeOK'
  BY RcStep, ShapeStep DEF TypeOK, vars
<1> QED
  BY <1>1, <1>2, PTL DEF Spec
-----------------------------------------------------------------------------
(* The inductive invariant.                                                *)

\* What the operation in progress may hold in each phase; customFunctions is
\* complete until deinit.
Quiet ==
  /\ phase # "run" \/ kind # "call" => callee = NoFn /\ args = {}
  /\ phase # "convert" => result = NoFn
  /\ jib = "alive" => custom = native
  /\ jib # "alive" => custom = {} /\ phase = "idle"
  /\ jib = "gone" => pending = NoFn

\* Only functions that exist were handed out, and no more references to a
\* function were given away than Swift received.
InBudget(f) ==
  /\ f \notin born => given[f] = 0 /\ sets[f] = 0
  /\ f \in native => given[f] >= 1
  /\ sets[f] <= given[f]

\* The reference count of f is what its holders add up to.
Balanced(f) == rc[f] = PropRefs(f) + FrameRefs(f) + HostRefs(f)

IInv == TypeOK /\ Quiet /\ \A f \in Fns : InBudget(f) /\ Balanced(f)

\* Every step keeps Quiet.
LEMMA QuietStep ==
  ASSUME TypeOK, Quiet, [Next]_vars
  PROVE  Quiet'
<1>1. ASSUME NEW f \in Fns, New(f) PROVE Quiet'
  BY <1>1, FnsAssumption DEF New, Idle, frameVars, Quiet, TypeOK, ShapeOK
<1>2. ASSUME NEW s \in Slots, NEW f \in Fns, SetGlobal(s, f) PROVE Quiet'
  BY <1>2, FnsAssumption DEF SetGlobal, MaySet, Idle, frameVars, Quiet, TypeOK, ShapeOK
<1>3. ASSUME NEW s \in Slots, NEW f \in Fns, SetGlobalFails(s, f) PROVE Quiet'
  BY <1>3, FnsAssumption DEF SetGlobalFails, MaySet, Idle, Quiet, TypeOK, ShapeOK
<1>4. ASSUME NEW k \in {"eval", "resolve"}, EvalBegins(k) PROVE Quiet'
  BY <1>4, FnsAssumption DEF EvalBegins, Idle, hostVars, Quiet, TypeOK, ShapeOK
<1>5. ASSUME NEW f \in Fns, NEW argv \in SUBSET Fns, CallBegins(f, argv) PROVE Quiet'
  BY <1>5, FnsAssumption DEF CallBegins, Idle, hostVars, Quiet, TypeOK, ShapeOK
<1>6. ASSUME NEW s \in Slots, NEW f \in Fns, JSDefine(s, f) PROVE Quiet'
  BY <1>6, FnsAssumption DEF JSDefine, hostVars, frameVars, Quiet, TypeOK, ShapeOK
<1>7. ASSUME NEW s \in Slots, NEW v \in Fns \cup {NoFn}, JSAssign(s, v) PROVE Quiet'
  BY <1>7, FnsAssumption DEF JSAssign, hostVars, frameVars, Quiet, TypeOK, ShapeOK
<1>8. ASSUME NEW s \in Slots, JSFreeze(s) PROVE Quiet'
  BY <1>8, FnsAssumption DEF JSFreeze, hostVars, frameVars, Quiet, TypeOK, ShapeOK
<1>9. ASSUME JSThrowsAndCatches PROVE Quiet'
  BY <1>9, FnsAssumption DEF JSThrowsAndCatches, hostVars, frameVars, Quiet, TypeOK, ShapeOK
<1>10. ASSUME EvalReturns PROVE Quiet'
  BY <1>10, FnsAssumption DEF EvalReturns, Script, hostVars, Quiet, TypeOK, ShapeOK
<1>11. ASSUME NEW v \in Fns \cup {NoFn}, Returns(v) PROVE Quiet'
  BY <1>11, FnsAssumption DEF Returns, Script, hostVars, Quiet, TypeOK, ShapeOK
<1>12. ASSUME NEW v \in Fns \cup {NoFn}, Throws(v) PROVE Quiet'
  BY <1>12, FnsAssumption DEF Throws, Script, hostVars, Quiet, TypeOK, ShapeOK
<1>13. ASSUME NEW v \in Fns \cup {NoFn}, ResolveThrows(v) PROVE Quiet'
  BY <1>13, FnsAssumption DEF ResolveThrows, Script, hostVars, Quiet, TypeOK, ShapeOK
<1>14. ASSUME NEW v \in Fns \cup {NoFn}, ConvertThrows(v) PROVE Quiet'
  BY <1>14, FnsAssumption DEF ConvertThrows, Script, hostVars, frameVars, Quiet, TypeOK, ShapeOK
<1>15. ASSUME ConvertEnds PROVE Quiet'
  BY <1>15, FnsAssumption DEF ConvertEnds, Script, hostVars, Quiet, TypeOK, ShapeOK
<1>16. ASSUME ConvertEndsAsFunction PROVE Quiet'
  BY <1>16, FnsAssumption DEF ConvertEndsAsFunction, Script, Quiet, TypeOK, ShapeOK
<1>17. ASSUME NEW f \in Fns, DropNew(f) PROVE Quiet'
  BY <1>17, FnsAssumption DEF DropNew, hostVars, frameVars, Quiet, TypeOK, ShapeOK
<1>18. ASSUME NEW f \in Fns, DropWrap(f) PROVE Quiet'
  BY <1>18, FnsAssumption DEF DropWrap, hostVars, frameVars, Quiet, TypeOK, ShapeOK
<1>19. ASSUME DeinitFrees PROVE Quiet'
  BY <1>19, FnsAssumption DEF DeinitFrees, Idle, frameVars, Quiet, TypeOK, ShapeOK
<1>20. ASSUME DeinitRuns PROVE Quiet'
  BY <1>20, FnsAssumption DEF DeinitRuns, frameVars, Quiet, TypeOK, ShapeOK
<1>21. CASE UNCHANGED vars
  BY <1>21 DEF vars, hostVars, frameVars, Quiet
<1> QED
  BY <1>1, <1>2, <1>3, <1>4, <1>5, <1>6, <1>7, <1>8, <1>9, <1>10, <1>11, <1>12, <1>13, <1>14, <1>15, <1>16, <1>17, <1>18, <1>19, <1>20, <1>21
     DEF Next, ApiStep, ScriptStep, ReturnStep, DeinitStep

\* Every step keeps within the budget, for a policy that has one.
LEMMA BudgetStep ==
  ASSUME SetPolicy # "any", TypeOK, NEW g \in Fns, InBudget(g), [Next]_vars
  PROVE  InBudget(g)'
<1>1. ASSUME NEW f \in Fns, New(f) PROVE InBudget(g)'
  <2>1. /\ given'[g] = IF g = f THEN 1 ELSE given[g]
        /\ sets' = sets
        /\ born' = born \cup {f}
        /\ native' = native \cup {f}
        /\ f \notin born
    BY <1>1 DEF New, TypeOK, ShapeOK
  <2>2. given[g] \in Nat /\ sets[g] \in Nat
    BY DEF TypeOK, ShapeOK
  <2> QED
    BY <2>1, <2>2 DEF InBudget
<1>2. ASSUME NEW s \in Slots, NEW f \in Fns, SetGlobal(s, f) PROVE InBudget(g)'
  <2>1. /\ sets'[g] = IF g = f THEN sets[g] + 1 ELSE sets[g]
        /\ UNCHANGED <<given, born, native>>
    BY <1>2 DEF SetGlobal, TypeOK, ShapeOK
  <2>2. given[g] \in Nat /\ sets[g] \in Nat
    BY DEF TypeOK, ShapeOK
  <2>3. f \in born /\ (sets[f] < given[f] \/ (f \in native /\ sets[f] = 0))
    <3>1. f \in Held /\ MaySet(f)
      BY <1>2 DEF SetGlobal
    <3>2. f \in born
      BY <3>1 DEF Held, TypeOK, ShapeOK
    <3>3. sets[f] < given[f] \/ (f \in native /\ sets[f] = 0)
      BY <3>1 DEF MaySet
    <3> QED
      BY <3>2, <3>3
  <2> QED
    BY <2>1, <2>2, <2>3 DEF InBudget
<1>3. ASSUME NEW s \in Slots, NEW f \in Fns, SetGlobalFails(s, f) PROVE InBudget(g)'
  <2>1. /\ sets'[g] = IF g = f THEN sets[g] + 1 ELSE sets[g]
        /\ UNCHANGED <<given, born, native>>
    BY <1>3 DEF SetGlobalFails, TypeOK, ShapeOK
  <2>2. given[g] \in Nat /\ sets[g] \in Nat
    BY DEF TypeOK, ShapeOK
  <2>3. f \in born /\ (sets[f] < given[f] \/ (f \in native /\ sets[f] = 0))
    <3>1. f \in Held /\ MaySet(f)
      BY <1>3 DEF SetGlobalFails
    <3>2. f \in born
      BY <3>1 DEF Held, TypeOK, ShapeOK
    <3>3. sets[f] < given[f] \/ (f \in native /\ sets[f] = 0)
      BY <3>1 DEF MaySet
    <3> QED
      BY <3>2, <3>3
  <2> QED
    BY <2>1, <2>2, <2>3 DEF InBudget
<1>4. ASSUME NEW k \in {"eval", "resolve"}, EvalBegins(k) PROVE InBudget(g)'
  BY <1>4, PolicyAssumption DEF EvalBegins, Idle, hostVars, InBudget, TypeOK, ShapeOK
<1>5. ASSUME NEW f \in Fns, NEW argv \in SUBSET Fns, CallBegins(f, argv) PROVE InBudget(g)'
  BY <1>5, PolicyAssumption DEF CallBegins, Idle, hostVars, InBudget, TypeOK, ShapeOK
<1>6. ASSUME NEW s \in Slots, NEW f \in Fns, JSDefine(s, f) PROVE InBudget(g)'
  BY <1>6, PolicyAssumption DEF JSDefine, hostVars, frameVars, InBudget, TypeOK, ShapeOK
<1>7. ASSUME NEW s \in Slots, NEW v \in Fns \cup {NoFn}, JSAssign(s, v) PROVE InBudget(g)'
  BY <1>7, PolicyAssumption DEF JSAssign, hostVars, frameVars, InBudget, TypeOK, ShapeOK
<1>8. ASSUME NEW s \in Slots, JSFreeze(s) PROVE InBudget(g)'
  BY <1>8, PolicyAssumption DEF JSFreeze, hostVars, frameVars, InBudget, TypeOK, ShapeOK
<1>9. ASSUME JSThrowsAndCatches PROVE InBudget(g)'
  BY <1>9, PolicyAssumption DEF JSThrowsAndCatches, hostVars, frameVars, InBudget, TypeOK, ShapeOK
<1>10. ASSUME EvalReturns PROVE InBudget(g)'
  BY <1>10, PolicyAssumption DEF EvalReturns, Script, hostVars, InBudget, TypeOK, ShapeOK
<1>11. ASSUME NEW v \in Fns \cup {NoFn}, Returns(v) PROVE InBudget(g)'
  BY <1>11, PolicyAssumption DEF Returns, Script, hostVars, InBudget, TypeOK, ShapeOK
<1>12. ASSUME NEW v \in Fns \cup {NoFn}, Throws(v) PROVE InBudget(g)'
  BY <1>12, PolicyAssumption DEF Throws, Script, hostVars, InBudget, TypeOK, ShapeOK
<1>13. ASSUME NEW v \in Fns \cup {NoFn}, ResolveThrows(v) PROVE InBudget(g)'
  BY <1>13, PolicyAssumption DEF ResolveThrows, Script, hostVars, InBudget, TypeOK, ShapeOK
<1>14. ASSUME NEW v \in Fns \cup {NoFn}, ConvertThrows(v) PROVE InBudget(g)'
  BY <1>14, PolicyAssumption DEF ConvertThrows, Script, hostVars, frameVars, InBudget, TypeOK, ShapeOK
<1>15. ASSUME ConvertEnds PROVE InBudget(g)'
  BY <1>15, PolicyAssumption DEF ConvertEnds, Script, hostVars, InBudget, TypeOK, ShapeOK
<1>16. ASSUME ConvertEndsAsFunction PROVE InBudget(g)'
  <2>1. /\ given'[g] = IF g = result THEN given[g] + 1 ELSE given[g]
        /\ UNCHANGED <<sets, born, native>>
        /\ result \in born
    BY <1>16 DEF ConvertEndsAsFunction, TypeOK, ShapeOK
  <2>2. given[g] \in Nat /\ sets[g] \in Nat
    BY DEF TypeOK, ShapeOK
  <2> QED
    BY <2>1, <2>2 DEF InBudget
<1>17. ASSUME NEW f \in Fns, DropNew(f) PROVE InBudget(g)'
  BY <1>17, PolicyAssumption DEF DropNew, hostVars, frameVars, InBudget, TypeOK, ShapeOK
<1>18. ASSUME NEW f \in Fns, DropWrap(f) PROVE InBudget(g)'
  BY <1>18, PolicyAssumption DEF DropWrap, hostVars, frameVars, InBudget, TypeOK, ShapeOK
<1>19. ASSUME DeinitFrees PROVE InBudget(g)'
  BY <1>19, PolicyAssumption DEF DeinitFrees, Idle, frameVars, InBudget, TypeOK, ShapeOK
<1>20. ASSUME DeinitRuns PROVE InBudget(g)'
  BY <1>20, PolicyAssumption DEF DeinitRuns, frameVars, InBudget, TypeOK, ShapeOK
<1>21. CASE UNCHANGED vars
  BY <1>21 DEF vars, hostVars, frameVars, InBudget
<1> QED
  BY <1>1, <1>2, <1>3, <1>4, <1>5, <1>6, <1>7, <1>8, <1>9, <1>10, <1>11, <1>12, <1>13, <1>14, <1>15, <1>16, <1>17, <1>18, <1>19, <1>20, <1>21
     DEF Next, ApiStep, ScriptStep, ReturnStep, DeinitStep

\* Every step keeps the balance of one function: this is where each
\* JS_DupValue and JS_FreeValue is accounted for.
LEMMA BalanceStep ==
  ASSUME TypeOK, Quiet, NEW g \in Fns, InBudget(g), Balanced(g), [Next]_vars
  PROVE  Balanced(g)'
<1>i. /\ rc[g] \in Int /\ given[g] \in Nat /\ sets[g] \in Nat
      /\ PropRefs(g) \in Nat /\ g # NoFn
  BY PropRefsNat, FnsAssumption DEF TypeOK, ShapeOK
<1>b. rc[g] = PropRefs(g) + FrameRefs(g) + HostRefs(g)
  BY DEF Balanced
<1>p. ASSUME prop' = prop
      PROVE  PropRefs(g)' = PropRefs(g)
  BY <1>p DEF PropRefs
<1>s. ASSUME NEW s \in Slots, NEW v, prop' = [prop EXCEPT ![s] = v]
      PROVE  PropRefs(g)' = PropRefs(g) + One(g = v) - One(prop[s] = g)
  BY <1>s, PropRefsStore DEF TypeOK, One
<1>u. ASSUME UNCHANGED <<rc, prop, given, sets, custom, args, result, pending>>
      PROVE  Balanced(g)'
  BY <1>u, <1>b, <1>p DEF Balanced, FrameRefs, HostRefs
<1>1. ASSUME NEW f \in Fns, New(f) PROVE Balanced(g)'
  <2>1. CASE g = f
    <3>1. /\ rc'[g] = 2 /\ given'[g] = 1 /\ sets'[g] = 0 /\ g \in custom'
          /\ UNCHANGED <<prop, args, result, pending>>
      BY <1>1, <2>1 DEF New, frameVars, InBudget, TypeOK, ShapeOK
    <3>2. PropRefs(g) = 0 /\ FrameRefs(g) = 0
      <4>1. \A s \in Slots : prop[s] # g
        BY <1>1, <1>i, <2>1 DEF New, TypeOK, ShapeOK
      <4>2. g \notin args /\ result # g /\ pending # g
        <5>1. g \notin born \cup {NoFn}
          BY <1>1, <1>i, <2>1 DEF New
        <5>2. args \subseteq born /\ {callee, result, pending} \subseteq born \cup {NoFn}
          BY DEF TypeOK, ShapeOK
        <5> QED
          BY <5>1, <5>2
      <4> QED
        BY <4>1, <4>2, PropRefsZero DEF FrameRefs, One
    <3> QED
      BY <3>1, <3>2, <1>p DEF Balanced, FrameRefs, HostRefs, One
  <2>2. CASE g # f
    <3>1. /\ rc'[g] = rc[g] /\ given'[g] = given[g] /\ (g \in custom' <=> g \in custom)
          /\ UNCHANGED <<sets, prop, args, result, pending>>
      BY <1>1, <2>2 DEF New, frameVars, TypeOK, ShapeOK
    <3> QED
      BY <3>1, <1>b, <1>p, <1>i DEF Balanced, FrameRefs, HostRefs, One
  <2> QED
    BY <2>1, <2>2
<1>2. ASSUME NEW s \in Slots, NEW f \in Fns, SetGlobal(s, f) PROVE Balanced(g)'
  <2>1. rc'[g] = rc[g] - One(prop[s] = g)
    BY <1>2, <1>i DEF SetGlobal, Store, handles, frameVars, One
  <2>2. /\ sets'[g] = (IF g = f THEN sets[g] + 1 ELSE sets[g])
        /\ UNCHANGED <<given, custom, args, result, pending>>
    BY <1>2 DEF SetGlobal, Store, handles, frameVars, TypeOK, ShapeOK
  <2>3. PropRefs(g)' = PropRefs(g) + One(g = f) - One(prop[s] = g)
    BY <1>2, <1>s DEF SetGlobal, Store
  <2> QED
    BY <2>1, <2>2, <2>3, <1>b, <1>i DEF Balanced, FrameRefs, HostRefs, One
<1>3. ASSUME NEW s \in Slots, NEW f \in Fns, SetGlobalFails(s, f) PROVE Balanced(g)'
  <2>1. rc'[g] = rc[g] - One(g = f) - One(g = pending)
    BY <1>3, <1>i DEF SetGlobalFails, One
  <2>2. /\ sets'[g] = (IF g = f THEN sets[g] + 1 ELSE sets[g])
        /\ pending' = NoFn
        /\ UNCHANGED <<given, custom, args, result>>
    BY <1>3 DEF SetGlobalFails, TypeOK, ShapeOK
  <2>3. PropRefs(g)' = PropRefs(g)
    BY <1>3, <1>p DEF SetGlobalFails
  <2> QED
    BY <2>1, <2>2, <2>3, <1>b, <1>i DEF Balanced, FrameRefs, HostRefs, One
<1>4. ASSUME NEW f \in Fns, NEW argv \in SUBSET Fns, CallBegins(f, argv) PROVE Balanced(g)'
  <2>1. rc'[g] = rc[g] + One(g \in argv)
    BY <1>4, <1>i DEF CallBegins, Idle, hostVars, One
  <2>2. /\ args = {}
        /\ args' = argv
        /\ UNCHANGED <<given, custom, sets, result, pending>>
    BY <1>4 DEF CallBegins, Idle, hostVars, Quiet
  <2>3. PropRefs(g)' = PropRefs(g)
    BY <1>4, <1>p DEF CallBegins
  <2> QED
    BY <2>1, <2>2, <2>3, <1>b, <1>i DEF Balanced, FrameRefs, HostRefs, One
<1>5. ASSUME NEW s \in Slots, NEW f \in Fns, JSDefine(s, f) PROVE Balanced(g)'
  <2>1. rc'[g] = rc[g] + One(g = f) - One(prop[s] = g)
    BY <1>5, <1>i DEF JSDefine, Store, hostVars, frameVars, One
  <2>2. /\ UNCHANGED <<given, custom, sets, args, result, pending>>
    BY <1>5 DEF JSDefine, Store, hostVars, frameVars
  <2>3. PropRefs(g)' = PropRefs(g) + One(g = f) - One(prop[s] = g)
    BY <1>5, <1>s DEF JSDefine, Store
  <2> QED
    BY <2>1, <2>2, <2>3, <1>b, <1>i DEF Balanced, FrameRefs, HostRefs, One
<1>6. ASSUME NEW s \in Slots, NEW v \in Fns \cup {NoFn}, JSAssign(s, v) PROVE Balanced(g)'
  <2>1. rc'[g] = rc[g] + One(g = v) - One(prop[s] = g)
    BY <1>6, <1>i DEF JSAssign, Store, hostVars, frameVars, One
  <2>2. /\ UNCHANGED <<given, custom, sets, args, result, pending>>
    BY <1>6 DEF JSAssign, Store, hostVars, frameVars
  <2>3. PropRefs(g)' = PropRefs(g) + One(g = v) - One(prop[s] = g)
    BY <1>6, <1>s DEF JSAssign, Store
  <2> QED
    BY <2>1, <2>2, <2>3, <1>b, <1>i DEF Balanced, FrameRefs, HostRefs, One
<1>7. ASSUME JSThrowsAndCatches PROVE Balanced(g)'
  <2>1. rc'[g] = rc[g] - One(pending = g)
    BY <1>7, <1>i DEF JSThrowsAndCatches, hostVars, frameVars, One
  <2>2. /\ pending' = NoFn
        /\ UNCHANGED <<given, custom, sets, args, result>>
    BY <1>7 DEF JSThrowsAndCatches, hostVars, frameVars
  <2>3. PropRefs(g)' = PropRefs(g)
    BY <1>7, <1>p DEF JSThrowsAndCatches, frameVars
  <2> QED
    BY <2>1, <2>2, <2>3, <1>b, <1>i DEF Balanced, FrameRefs, HostRefs, One
<1>8. ASSUME NEW v \in Fns \cup {NoFn}, Returns(v) PROVE Balanced(g)'
  <2>1. rc'[g] = rc[g] + One(g = v) - One(g \in args)
    BY <1>8, <1>i DEF Returns, hostVars, One
  <2>2. /\ args' = {}
        /\ result = NoFn
        /\ result' = v
        /\ UNCHANGED <<given, custom, sets, pending>>
    BY <1>8 DEF Returns, hostVars, Quiet
  <2>3. PropRefs(g)' = PropRefs(g)
    BY <1>8, <1>p DEF Returns
  <2> QED
    BY <2>1, <2>2, <2>3, <1>b, <1>i DEF Balanced, FrameRefs, HostRefs, One
<1>9. ASSUME NEW v \in Fns \cup {NoFn}, Throws(v) PROVE Balanced(g)'
  <2>1. rc'[g] = rc[g] + One(g = v) - One(g \in args) - One(g = pending)
    BY <1>9, <1>i DEF Throws, hostVars, One
  <2>2. /\ args' = {}
        /\ result = NoFn
        /\ result' = v
        /\ pending' = NoFn
        /\ UNCHANGED <<given, custom, sets>>
    BY <1>9 DEF Throws, hostVars, Quiet
  <2>3. PropRefs(g)' = PropRefs(g)
    BY <1>9, <1>p DEF Throws
  <2> QED
    BY <2>1, <2>2, <2>3, <1>b, <1>i DEF Balanced, FrameRefs, HostRefs, One
<1>10. ASSUME NEW v \in Fns \cup {NoFn}, ResolveThrows(v) PROVE Balanced(g)'
  <2>1. rc'[g] = rc[g] + One(g = v) - One(g = pending)
    BY <1>10, <1>i DEF ResolveThrows, hostVars, One
  <2>2. /\ pending' = v
        /\ UNCHANGED <<given, custom, sets, args, result>>
    BY <1>10 DEF ResolveThrows, hostVars
  <2>3. PropRefs(g)' = PropRefs(g)
    BY <1>10, <1>p DEF ResolveThrows
  <2> QED
    BY <2>1, <2>2, <2>3, <1>b, <1>i DEF Balanced, FrameRefs, HostRefs, One
<1>11. ASSUME NEW v \in Fns \cup {NoFn}, ConvertThrows(v) PROVE Balanced(g)'
  <2>1. rc'[g] = rc[g] + One(g = v) - One(g = pending)
    BY <1>11, <1>i DEF ConvertThrows, hostVars, frameVars, One
  <2>2. /\ pending' = v
        /\ UNCHANGED <<given, custom, sets, args, result>>
    BY <1>11 DEF ConvertThrows, hostVars, frameVars
  <2>3. PropRefs(g)' = PropRefs(g)
    BY <1>11, <1>p DEF ConvertThrows, frameVars
  <2> QED
    BY <2>1, <2>2, <2>3, <1>b, <1>i DEF Balanced, FrameRefs, HostRefs, One
<1>12. ASSUME ConvertEnds PROVE Balanced(g)'
  <2>1. rc'[g] = rc[g] - One(g = result)
    BY <1>12, <1>i DEF ConvertEnds, hostVars, One
  <2>2. /\ result' = NoFn
        /\ UNCHANGED <<given, custom, sets, args, pending>>
    BY <1>12 DEF ConvertEnds, hostVars
  <2>3. PropRefs(g)' = PropRefs(g)
    BY <1>12, <1>p DEF ConvertEnds
  <2> QED
    BY <2>1, <2>2, <2>3, <1>b, <1>i DEF Balanced, FrameRefs, HostRefs, One
<1>13. ASSUME ConvertEndsAsFunction PROVE Balanced(g)'
  <2>1. rc'[g] = rc[g]
    BY <1>13, <1>i DEF ConvertEndsAsFunction, One
  <2>2. /\ given'[g] = (IF g = result THEN given[g] + 1 ELSE given[g])
        /\ result' = NoFn
        /\ UNCHANGED <<custom, sets, args, pending>>
    BY <1>13 DEF ConvertEndsAsFunction, TypeOK, ShapeOK
  <2>3. PropRefs(g)' = PropRefs(g)
    BY <1>13, <1>p DEF ConvertEndsAsFunction
  <2> QED
    BY <2>1, <2>2, <2>3, <1>b, <1>i DEF Balanced, FrameRefs, HostRefs, One
<1>14. ASSUME DeinitFrees PROVE Balanced(g)'
  <2>1. rc'[g] = rc[g] - One(g \in custom)
    BY <1>14, <1>i DEF DeinitFrees, frameVars, One
  <2>2. /\ custom' = {}
        /\ UNCHANGED <<given, sets, args, result, pending>>
    BY <1>14 DEF DeinitFrees, frameVars
  <2>3. PropRefs(g)' = PropRefs(g)
    BY <1>14, <1>p DEF DeinitFrees, frameVars
  <2> QED
    BY <2>1, <2>2, <2>3, <1>b, <1>i DEF Balanced, FrameRefs, HostRefs, One
<1>15. ASSUME DeinitRuns PROVE Balanced(g)'
  <2>1. /\ args = {} /\ result = NoFn /\ custom = {}
        /\ pending' = NoFn
        /\ UNCHANGED <<given, sets, custom, args, result>>
    BY <1>15 DEF DeinitRuns, frameVars, Quiet
  <2>2. rc[g] - One(pending = g) = PropRefs(g) + given[g] - sets[g]
    BY <2>1, <1>b, <1>i DEF FrameRefs, HostRefs, One
  <2>3. CASE \E f \in Fns : rc[f] - One(pending = f) > PropRefs(f)
    <3>1. prop' = prop /\ rc'[g] = rc[g] - One(pending = g)
      BY <1>15, <2>3 DEF DeinitRuns
    <3> QED
      BY <3>1, <2>1, <2>2, <1>p, <1>i DEF Balanced, FrameRefs, HostRefs, One
  <2>4. CASE ~ \E f \in Fns : rc[f] - One(pending = f) > PropRefs(f)
    <3>1. prop' = [s \in Slots |-> NoFn] /\ rc'[g] = 0
      BY <1>15, <2>4 DEF DeinitRuns
    <3>2. PropRefs(g)' = 0
      <4>1. {s \in Slots : prop'[s] = g} = {}
        BY <3>1, <1>i
      <4> QED
        BY <4>1, FS_EmptySet DEF PropRefs
    <3>3. given[g] = sets[g]
      <4>1. rc[g] - One(pending = g) <= PropRefs(g)
        BY <2>4, <1>i, OneInt
      <4> QED
        BY <4>1, <2>2, <1>i DEF InBudget
    <3> QED
      BY <3>1, <3>2, <3>3, <2>1, <1>i DEF Balanced, FrameRefs, HostRefs, One
  <2> QED
    BY <2>3, <2>4
<1>16. ASSUME NEW k \in {"eval", "resolve"}, EvalBegins(k) PROVE Balanced(g)'
  BY <1>16, <1>u DEF EvalBegins, hostVars
<1>17. ASSUME NEW s \in Slots, JSFreeze(s) PROVE Balanced(g)'
  BY <1>17, <1>u DEF JSFreeze, hostVars, frameVars
<1>18. ASSUME EvalReturns PROVE Balanced(g)'
  BY <1>18, <1>u DEF EvalReturns, hostVars
<1>19. ASSUME NEW f \in Fns, DropNew(f) PROVE Balanced(g)'
  BY <1>19, <1>u DEF DropNew, hostVars, frameVars
<1>20. ASSUME NEW f \in Fns, DropWrap(f) PROVE Balanced(g)'
  BY <1>20, <1>u DEF DropWrap, hostVars, frameVars
<1>21. CASE UNCHANGED vars
  BY <1>21, <1>u DEF vars, hostVars, frameVars
<1> QED
  BY <1>1, <1>2, <1>3, <1>4, <1>5, <1>6, <1>7, <1>8, <1>9, <1>10, <1>11, <1>12, <1>13, <1>14, <1>15, <1>16, <1>17, <1>18, <1>19, <1>20, <1>21
     DEF Next, ApiStep, ScriptStep, ReturnStep, DeinitStep

-----------------------------------------------------------------------------
(* The theorems.                                                           *)

\* The invariant holds initially: Jib.init leaves print with three references.
LEMMA InitBalanced == Init => IInv
<1> SUFFICES ASSUME Init
             PROVE  IInv
  OBVIOUS
<1>1. TypeOK /\ Quiet
  BY FnsAssumption DEF Init, One, TypeOK, ShapeOK, Quiet
<1>2. ASSUME NEW f \in Fns PROVE InBudget(f) /\ Balanced(f)
  <2>1. InBudget(f)
    BY <1>2 DEF Init, One, InBudget
  <2>2. CASE f = PrintFn
    <3>1. PropRefs(f) = 2
      <4>1. {s \in Slots : prop[s] = f} = {PrintSlot} \cup {LogSlot}
        BY <2>2, FnsAssumption, SlotsAssumption DEF Init
      <4>2. Cardinality({PrintSlot}) = 1 /\ IsFiniteSet({PrintSlot})
        BY FS_Singleton
      <4>3. Cardinality({PrintSlot} \cup {LogSlot}) = 2
        <5>1. LogSlot \notin {PrintSlot}
          BY SlotsAssumption
        <5> QED
          BY <4>2, <5>1, FS_AddElement
      <4> QED
        BY <4>1, <4>3 DEF PropRefs
    <3> QED
      BY <2>1, <2>2, <3>1, FnsAssumption DEF Init, Balanced, FrameRefs, HostRefs, One
  <2>3. CASE f # PrintFn
    <3>1. \A s \in Slots : prop[s] # f
      BY <1>2, <2>3, FnsAssumption DEF Init
    <3>2. PropRefs(f) = 0
      BY <3>1, PropRefsZero
    <3> QED
      BY <1>2, <2>1, <2>3, <3>2, FnsAssumption DEF Init, Balanced, FrameRefs, HostRefs, One
  <2> QED
    BY <2>2, <2>3
<1> QED
  BY <1>1, <1>2 DEF IInv

\* The invariant is inductive, whatever the bounds, for a policy with a budget.
LEMMA Inductive ==
  ASSUME SetPolicy # "any"
  PROVE  IInv /\ [Next]_vars => IInv'
<1> SUFFICES ASSUME IInv, [Next]_vars
             PROVE  IInv'
  OBVIOUS
<1>1. TypeOK'
  BY RcStep, ShapeStep DEF IInv, TypeOK, vars
<1>2. Quiet'
  BY QuietStep DEF IInv
<1>3. ASSUME NEW f \in Fns PROVE InBudget(f)' /\ Balanced(f)'
  BY <1>3, BudgetStep, BalanceStep DEF IInv
<1> QED
  BY <1>1, <1>2, <1>3 DEF IInv

\* The invariant holds in every reachable state.
LEMMA Invariant ==
  ASSUME SetPolicy # "any"
  PROVE  Spec => []IInv
  BY InitBalanced, Inductive, PTL DEF Spec

\* The books balance: for an application that gives back no more references
\* than it was handed, every ref_count is exactly what its holders add up to.
THEOREM LedgerCorrect ==
  ASSUME SetPolicy # "any"
  PROVE  Spec => []Ledger
<1>1. IInv => Ledger
  BY DEF IInv, InBudget, Balanced, Ledger
<1> QED
  BY <1>1, Invariant, PTL

\* The assertion of gc_decref_child holds for such an application.
THEOREM GcDecrefCorrect ==
  ASSUME SetPolicy # "any"
  PROVE  Spec => []GcDecrefAssertion
<1>1. ASSUME IInv, NEW f \in Fns PROVE rc[f] >= PropRefs(f)
  <2>1. given[f] \in Nat /\ sets[f] \in Nat /\ PropRefs(f) \in Nat /\ sets[f] <= given[f]
    BY <1>1, PropRefsNat DEF IInv, TypeOK, ShapeOK, InBudget
  <2>2. rc[f] = PropRefs(f) + FrameRefs(f) + HostRefs(f)
    BY <1>1 DEF IInv, Balanced
  <2> QED
    BY <2>1, <2>2 DEF FrameRefs, HostRefs, One
<1>2. IInv => GcDecrefAssertion
  BY <1>1 DEF GcDecrefAssertion
<1> QED
  BY <1>2, Invariant, PTL

\* A Swift body outlives its callers: customFunctions keeps it.
THEOREM BodyAliveCorrect ==
  ASSUME SetPolicy # "any"
  PROVE  Spec => []BodyAlive
<1>1. IInv => BodyAlive
  BY DEF IInv, Quiet, TypeOK, ShapeOK, BodyAlive
<1> QED
  BY <1>1, Invariant, PTL

-----------------------------------------------------------------------------
(* No dangling reference.                                                  *)

\* What the discipline "once" adds: a reference is given away for a function
\* from new(function:) only, once, and every other JibFunction keeps its own;
\* the function being called is one the application holds.
InOnce(f) ==
  /\ sets[f] <= One(f \in native)
  /\ f \in heldWrap => given[f] >= 1 + One(f \in native)

CalleeHeld == callee \in Held \cup {NoFn}

\* Every step keeps InOnce.
LEMMA OnceStep ==
  ASSUME SetPolicy = "once", TypeOK, NEW g \in Fns, InBudget(g), InOnce(g), [Next]_vars
  PROVE  InOnce(g)'
<1>i. given[g] \in Nat /\ sets[g] \in Nat
  BY DEF TypeOK, ShapeOK
<1>u. ASSUME UNCHANGED <<sets, native, given>>, heldWrap' \subseteq heldWrap
      PROVE  InOnce(g)'
  BY <1>u DEF InOnce
<1>1. ASSUME NEW f \in Fns, New(f) PROVE InOnce(g)'
  <2>1. /\ given'[g] = IF g = f THEN 1 ELSE given[g]
        /\ native' = native \cup {f}
        /\ f \notin born
        /\ UNCHANGED <<sets, heldWrap>>
    BY <1>1 DEF New, TypeOK, ShapeOK
  <2>2. f \notin heldWrap /\ f \notin native
    BY <2>1 DEF TypeOK, ShapeOK
  <2> QED
    BY <2>1, <2>2, <1>i DEF InBudget, InOnce, One
<1>2. ASSUME NEW s \in Slots, NEW f \in Fns, SetGlobal(s, f) \/ SetGlobalFails(s, f)
      PROVE  InOnce(g)'
  <2>1. /\ sets' = [sets EXCEPT ![f] = @ + 1]
        /\ UNCHANGED <<given, native, heldWrap>>
    BY <1>2 DEF SetGlobal, SetGlobalFails, handles
  <2>3. sets'[g] = IF g = f THEN sets[g] + 1 ELSE sets[g]
    BY <2>1 DEF TypeOK, ShapeOK
  <2>2. f \in native /\ sets[f] = 0
    <3>1. MaySet(f)
      BY <1>2 DEF SetGlobal, SetGlobalFails
    <3> QED
      BY <3>1 DEF MaySet
  <2> QED
    BY <2>1, <2>2, <2>3, <1>i DEF InOnce, One
<1>3. ASSUME ConvertEndsAsFunction PROVE InOnce(g)'
  <2>1. /\ given'[g] = IF g = result THEN given[g] + 1 ELSE given[g]
        /\ heldWrap' = heldWrap \cup {result}
        /\ UNCHANGED <<sets, native>>
    BY <1>3 DEF ConvertEndsAsFunction, TypeOK, ShapeOK
  <2> QED
    BY <2>1, <1>i DEF InBudget, InOnce, One
<1>4. ASSUME NEW f \in Fns, DropNew(f) \/ DropWrap(f) PROVE InOnce(g)'
  BY <1>4, <1>u DEF DropNew, DropWrap, hostVars
<1>5. ASSUME DeinitStep PROVE InOnce(g)'
  BY <1>5, <1>u DEF DeinitStep, DeinitFrees, DeinitRuns, handles
<1>6. ASSUME UNCHANGED <<hostVars, handles>> PROVE InOnce(g)'
  BY <1>6, <1>u DEF hostVars, handles
<1> QED
  BY <1>1, <1>2, <1>3, <1>4, <1>5, <1>6
     DEF Next, ApiStep, ScriptStep, ReturnStep, vars, EvalBegins, CallBegins, JSDefine, JSAssign,
         JSFreeze, JSThrowsAndCatches, EvalReturns, Returns, Throws, ResolveThrows,
         ConvertThrows, ConvertEnds

\* Every step keeps the callee among the functions the application holds.
LEMMA CalleeStep ==
  ASSUME Quiet, CalleeHeld, [Next]_vars
  PROVE  CalleeHeld'
<1>1. ASSUME UNCHANGED callee, Held \subseteq Held' PROVE CalleeHeld'
  BY <1>1 DEF CalleeHeld
<1>2. ASSUME callee' = NoFn PROVE CalleeHeld'
  BY <1>2 DEF CalleeHeld
<1>3. ASSUME NEW f \in Fns, NEW argv \in SUBSET Fns, CallBegins(f, argv) PROVE CalleeHeld'
  BY <1>3 DEF CallBegins, handles, Held, CalleeHeld
<1>4. ASSUME NEW f \in Fns, DropNew(f) \/ DropWrap(f) PROVE CalleeHeld'
  BY <1>4 DEF DropNew, DropWrap, frameVars, Held, CalleeHeld
<1> QED
  BY <1>1, <1>2, <1>3, <1>4
     DEF Next, ApiStep, ScriptStep, ReturnStep, DeinitStep, vars, handles, frameVars, Held,
         New, SetGlobal, SetGlobalFails, EvalBegins, JSDefine, JSAssign,
         JSFreeze, JSThrowsAndCatches, EvalReturns, Returns, Throws, ResolveThrows,
         ConvertThrows, ConvertEnds, ConvertEndsAsFunction, DeinitFrees, DeinitRuns

\* A function with a counted reference is allocated.
LEMMA CountedAlive ==
  ASSUME IInv, NEW f \in Counted
  PROVE  rc[f] > 0
<1>1. f \in Fns /\ f # NoFn
  <2>1. f # NoFn /\ \/ \E s \in Slots : f = prop[s]
                    \/ f \in args \cup custom \cup {result, pending}
    BY DEF Counted
  <2>2. born \subseteq Fns /\ prop \in [Slots -> born \cup {NoFn}]
        /\ args \subseteq born /\ custom \subseteq born /\ {result, pending} \subseteq born \cup {NoFn}
    BY DEF IInv, TypeOK, ShapeOK
  <2> QED
    BY <2>1, <2>2
<1>2. /\ given[f] \in Nat /\ sets[f] \in Nat /\ sets[f] <= given[f] /\ PropRefs(f) \in Nat
      /\ rc[f] = PropRefs(f) + FrameRefs(f) + HostRefs(f)
  BY <1>1, PropRefsNat DEF IInv, TypeOK, ShapeOK, InBudget, Balanced
<1>3. CASE \E s \in Slots : prop[s] = f
  <2>1. PropRefs(f) > 0
    BY <1>3, PropRefsPositive
  <2> QED
    BY <1>2, <2>1 DEF FrameRefs, HostRefs, One
<1>4. CASE f \in args \/ f \in custom \/ result = f \/ pending = f
  BY <1>2, <1>4 DEF FrameRefs, HostRefs, One
<1> QED
  BY <1>1, <1>3, <1>4 DEF Counted

\* No reference outlives its function; under "once", no JibFunction does.
THEOREM NoDanglingCorrect ==
  ASSUME SetPolicy # "any"
  PROVE  Spec => []NoDangling
<1>1. CASE SetPolicy = "once"
  <2> DEFINE OInv == CalleeHeld /\ \A f \in Fns : InOnce(f)
  <2>1. Init => OInv
    BY DEF Init, CalleeHeld, InOnce, One
  <2>2. IInv /\ OInv /\ [Next]_vars => OInv'
    BY <1>1, OnceStep, CalleeStep DEF IInv
  <2>3. IInv /\ OInv => NoDangling
    <3> SUFFICES ASSUME IInv, OInv, jib = "alive", NEW f \in Borrowed
                 PROVE  rc[f] > 0
      BY CountedAlive DEF NoDangling
    <3>1. f \in Fns /\ f \in heldNew \cup heldWrap
      BY FnsAssumption DEF Borrowed, Held, CalleeHeld, IInv, TypeOK, ShapeOK
    <3>2. /\ given[f] \in Nat /\ sets[f] \in Nat /\ PropRefs(f) \in Nat
          /\ rc[f] = PropRefs(f) + FrameRefs(f) + HostRefs(f)
          /\ f \in native => f \in custom /\ given[f] >= 1
      BY <3>1, PropRefsNat DEF IInv, TypeOK, ShapeOK, Quiet, InBudget, Balanced
    <3>3. given[f] + One(f \in custom) - sets[f] > 0
      <4>1. sets[f] <= One(f \in native) /\ (f \in heldWrap => given[f] >= 1 + One(f \in native))
        BY <3>1 DEF InOnce
      <4>2. f \in heldNew => f \in native
        BY DEF IInv, TypeOK, ShapeOK
      <4> QED
        BY <3>1, <3>2, <4>1, <4>2 DEF One
    <3> QED
      BY <3>2, <3>3 DEF FrameRefs, HostRefs, One
  <2> HIDE DEF OInv
  <2> QED
    BY <2>1, <2>2, <2>3, Invariant, PTL DEF Spec
<1>2. CASE SetPolicy # "once"
  <2>1. IInv => NoDangling
    BY <1>2, CountedAlive DEF NoDangling
  <2> QED
    BY <2>1, Invariant, PTL
<1> QED
  BY <1>1, <1>2

-----------------------------------------------------------------------------
(* Leaks.                                                                  *)

\* Once the Jib is gone, either everything was freed or Swift still owed a reference.
Settled == jib = "gone" => (\A f \in Fns : rc[f] = 0) \/ (\E f \in Fns : given[f] > sets[f])

\* Every step keeps Settled.
LEMMA SettledStep ==
  ASSUME IInv, Settled, [Next]_vars
  PROVE  Settled'
<1>1. ASSUME DeinitRuns PROVE Settled'
  <2>1. CASE ~ \E f \in Fns : rc[f] - One(pending = f) > PropRefs(f)
    BY <1>1, <2>1 DEF DeinitRuns, Settled
  <2>2. ASSUME NEW f \in Fns, rc[f] - One(pending = f) > PropRefs(f) PROVE Settled'
    <3>1. given[f] > sets[f]
      <4>1. given[f] \in Nat /\ sets[f] \in Nat /\ PropRefs(f) \in Nat
        BY PropRefsNat, <2>2 DEF IInv, TypeOK, ShapeOK
      <4>2. args = {} /\ result = NoFn /\ custom = {} /\ f # NoFn
        BY <1>1, <2>2, FnsAssumption DEF DeinitRuns, IInv, Quiet
      <4>3. rc[f] = PropRefs(f) + FrameRefs(f) + HostRefs(f)
        BY <2>2 DEF IInv, Balanced
      <4> QED
        BY <2>2, <4>1, <4>2, <4>3 DEF FrameRefs, HostRefs, One
    <3> QED
      BY <1>1, <2>2, <3>1 DEF DeinitRuns, Settled
  <2> QED
    BY <2>1, <2>2
<1>2. ASSUME UNCHANGED <<jib, rc, given, sets>> PROVE Settled'
  BY <1>2 DEF Settled
<1>3. ASSUME jib' # "gone" PROVE Settled'
  BY <1>3 DEF Settled
<1> QED
  BY <1>1, <1>2, <1>3
     DEF Next, ApiStep, ScriptStep, ReturnStep, DeinitStep, vars, hostVars, Idle, Script,
         New, SetGlobal, SetGlobalFails, EvalBegins, CallBegins, JSDefine, JSAssign,
         JSFreeze, JSThrowsAndCatches, EvalReturns, Returns, Throws, ResolveThrows,
         ConvertThrows, ConvertEnds, ConvertEndsAsFunction, DropNew, DropWrap, DeinitFrees

\* deinit frees everything exactly when every JibFunction was given away.
THEOREM FreedIffAllSetCorrect ==
  ASSUME SetPolicy # "any"
  PROVE  Spec => []FreedIffAllSet
<1>1. Init => Settled
  BY DEF Init, Settled
<1>2. ASSUME IInv, Settled PROVE FreedIffAllSet
  <2>1. ASSUME jib = "gone", NEW f \in Fns, rc[f] = 0 PROVE given[f] = sets[f]
    <3>1. /\ given[f] \in Nat /\ sets[f] \in Nat /\ PropRefs(f) \in Nat /\ sets[f] <= given[f]
      BY PropRefsNat, <2>1, <1>2 DEF IInv, TypeOK, ShapeOK, InBudget
    <3>2. rc[f] = PropRefs(f) + FrameRefs(f) + HostRefs(f)
      BY <2>1, <1>2 DEF IInv, Balanced
    <3>3. custom = {}
      BY <2>1, <1>2 DEF IInv, Quiet
    <3>4. FrameRefs(f) \in Nat
      BY DEF FrameRefs, One
    <3>5. HostRefs(f) = given[f] - sets[f]
      BY <3>1, <3>3 DEF HostRefs, One
    <3> QED
      BY <2>1, <3>1, <3>2, <3>4, <3>5
  <2>2. ASSUME jib = "gone", \A f \in Fns : given[f] = sets[f]
        PROVE  \A f \in Fns : rc[f] = 0
    <3>1. \A f \in Fns : given[f] \in Nat /\ sets[f] \in Nat
      BY <1>2 DEF IInv, TypeOK, ShapeOK
    <3> QED
      BY <2>2, <3>1, <1>2 DEF Settled
  <2> QED
    BY <2>1, <2>2 DEF FreedIffAllSet
<1> QED
  BY <1>1, <1>2, SettledStep, Invariant, PTL DEF Spec
=============================================================================
