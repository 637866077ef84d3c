----------------------------- MODULE OrderedMap -----------------------------
(***************************************************************************)
(* What Map and Set promise a script: entries keep the order in which      *)
(* their keys were inserted, and a traversal (an iterator, or forEach)     *)
(* visits every entry that is present when its turn comes, those added     *)
(* while it runs included, each once.                                      *)
(*                                                                         *)
(* todo[t] is what traversal t still has to visit if nobody changes the    *)
(* map any more.                                                           *)
(***************************************************************************)
EXTENDS Sequences, SequencesExt

CONSTANTS Keys, Vals, Travs, Idle

VARIABLES
  order,  \* the keys present, in insertion order
  value,  \* value[k]: the value of each key present
  todo    \* todo[t]: the keys ahead of traversal t, or Idle

vars == <<order, value, todo>>

Present(k) == k \in DOMAIN value

\* a list without a key
Drop(s, k) ==
  IF k \in ToSet(s) THEN RemoveAt(s, CHOOSE i \in DOMAIN s : s[i] = k) ELSE s

\* a value replaces the old one in place; a new key goes to the end
Set(k, v) ==
  /\ value' = [x \in DOMAIN value \cup {k} |-> IF x = k THEN v ELSE value[x]]
  /\ IF Present(k) THEN UNCHANGED <<order, todo>>
     ELSE /\ order' = Append(order, k)
          /\ todo' = [t \in Travs |-> IF todo[t] = Idle THEN Idle ELSE Append(todo[t], k)]

Delete(k) ==
  /\ Present(k)
  /\ value' = [x \in DOMAIN value \ {k} |-> value[x]]
  /\ order' = Drop(order, k)
  /\ todo' = [t \in Travs |-> IF todo[t] = Idle THEN Idle ELSE Drop(todo[t], k)]

Clear ==
  /\ value' = <<>> /\ order' = <<>>
  /\ todo' = [t \in Travs |-> IF todo[t] = Idle THEN Idle ELSE <<>>]

Begin(t) == todo[t] = Idle /\ todo' = [todo EXCEPT ![t] = order] /\ UNCHANGED <<order, value>>

\* forEach visits the first entry as it begins
BeginVisit(t) ==
  /\ todo[t] = Idle /\ order # <<>>
  /\ todo' = [todo EXCEPT ![t] = Tail(order)] /\ UNCHANGED <<order, value>>

Visit(t) ==
  /\ todo[t] # Idle /\ todo[t] # <<>>
  /\ todo' = [todo EXCEPT ![t] = Tail(@)] /\ UNCHANGED <<order, value>>

\* it ran to its end, or was abandoned
End(t) == todo[t] # Idle /\ todo' = [todo EXCEPT ![t] = Idle] /\ UNCHANGED <<order, value>>

Init == order = <<>> /\ value = <<>> /\ todo = [t \in Travs |-> Idle]

Next ==
  \/ \E k \in Keys, v \in Vals : Set(k, v)
  \/ \E k \in Keys : Delete(k)
  \/ Clear
  \/ \E t \in Travs : Begin(t) \/ BeginVisit(t) \/ Visit(t) \/ End(t)

Spec == Init /\ [][Next]_vars
=============================================================================
