------------------------------ MODULE AtomicJib ------------------------------
(***************************************************************************)
(* What the locking in Jib promises its callers: every operation of every  *)
(* thread takes effect at one instant between its call and its return, on  *)
(* the global state of its Jib and on Jib.exception together, and its      *)
(* result is the one of that instant.                                      *)
(*                                                                         *)
(* The global state is abstracted to a counter: a script adds one to it by *)
(* reading it, perhaps calling Swift, and writing it back, and its value   *)
(* is the counter as it leaves it. set(global:value:) resets it.           *)
(***************************************************************************)
EXTENDS Naturals

CONSTANTS Ids, Jibs

VARIABLES
  val,       \* val[j]: the global state of Jib j
  exc,       \* exc[j]: the operation whose exception Jib.exception shows, or NoId
  todo,      \* <<c, j, k>>: operation c, of kind k on Jib j, was called
  outcome    \* outcome[c]: Unset, or what operation c returns

vars == <<val, exc, todo, outcome>>

NoId == 0
Unset == <<"unset">>
Value(n) == <<"value", n>>
Done == <<"done">>
Nil == <<"nil">>            \* a subscript that found no value
Failed(j) == <<"failed", j>>  \* nil or false, after an exception was recorded

Kinds == {"call", "get", "set", "brief"}

Init ==
  /\ val = [j \in Jibs |-> 0]
  /\ exc = [j \in Jibs |-> NoId]
  /\ todo = {}
  /\ outcome = [c \in Ids |-> Unset]

Called(c, j, k) ==
  /\ outcome[c] = Unset
  /\ \A r \in todo : r[1] # c
  /\ todo' = todo \cup {<<c, j, k>>}
  /\ UNCHANGED <<val, exc, outcome>>

\* operation c takes effect: the state becomes v, the exception e, and it returns r
Effect(c, j, v, e, r) ==
  /\ val' = [val EXCEPT ![j] = v]
  /\ exc' = [exc EXCEPT ![j] = e]
  /\ outcome' = [outcome EXCEPT ![c] = r]

\* a script runs once, to its end or until it throws
Scripted(c, j) ==
  \/ Effect(c, j, val[j] + 1, exc[j], Value(val[j] + 1))
  \/ \E n \in {0, 1} : Effect(c, j, val[j] + n, c, Failed(j))

\* a subscript runs its text once or, after an exception, again, and records none
Got(c, j) ==
  \/ \E n \in {1, 2} : Effect(c, j, val[j] + n, exc[j], Value(val[j] + n))
  \/ \E n \in {0, 1, 2} : Effect(c, j, val[j] + n, exc[j], Nil)

WasSet(c, j) ==
  \/ Effect(c, j, 0, exc[j], Done)
  \/ Effect(c, j, val[j], c, Failed(j))

Takes(c, j, k) ==
  /\ <<c, j, k>> \in todo
  /\ todo' = todo \ {<<c, j, k>>}
  /\ \/ k = "call" /\ Scripted(c, j)
     \/ k = "get" /\ Got(c, j)
     \/ k = "set" /\ WasSet(c, j)
     \/ k = "brief" /\ Effect(c, j, val[j], exc[j], Done)

Next == \E c \in Ids, j \in Jibs, k \in Kinds : Called(c, j, k) \/ Takes(c, j, k)

Spec == Init /\ [][Next]_vars
=============================================================================
