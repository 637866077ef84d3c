--------------------------- MODULE QJSPromiseAll ---------------------------
(***************************************************************************)
(* Promise.all, allSettled, any and race in the QuickJS engine: a loop     *)
(* over an iterable that calls then of every element, and the element      *)
(* functions that count the answers. An element is a promise of the        *)
(* engine, which answers once and in a job of its own, or an object of the *)
(* script, whose then may call what it is given at once, often or never.   *)
(***************************************************************************)
EXTENDS Integers, Sequences, SequencesExt, FiniteSets

CONSTANTS
  MaxElements, \* the number of elements the iterable has at most
  Mixes,       \* the sets of elements that may be objects of the script
  Error,       \* what the loop rejects with
  Collected,   \* the array of the answers, or the error made of it
  None

Elements == 1 .. MaxElements
Kinds == {"all", "allSettled", "any", "race"}
Answers == {"fulfilled", "rejected"}
Outcomes == [how : Answers, what : Elements \cup {Error, Collected}]

AllAssumption ==
  /\ MaxElements \in Nat /\ \A mix \in Mixes : mix \subseteq Elements
  /\ Error # Collected /\ {Error, Collected} \cap Elements = {}
  /\ None \notin Answers \cup Outcomes

VARIABLES
  kind,     \* which of the four was called
  foreign,  \* the elements that are objects of the script
  loop,     \* "runs", "ended" or "failed"
  given,    \* the number of elements whose then was called
  count,    \* remainingElementsCount
  called,   \* the element functions with alreadyCalled set: <<element, answer>>
  values,   \* values[i]: the answer stored for element i, or None
  outcome,  \* what the returned promise was settled with, or None
  answers   \* history: the calls made of what was given to then, the first of a kind

vars == <<kind, foreign, loop, given, count, called, values, outcome, answers>>

\* The resolving functions of the capability: the first call counts.
Settle(o, how, what) == IF o = None THEN [how |-> how, what |-> what] ELSE o

\* js_promise_all: which of the two functions passed to then counts; the other
\* is a resolving function of the returned promise
Counting(how) ==
  \/ kind = "allSettled"
  \/ kind = "all" /\ how = "fulfilled"
  \/ kind = "any" /\ how = "rejected"

\* the call made when the count drops to zero
Finished(o) ==
  IF kind = "any" THEN Settle(o, "rejected", Collected) ELSE Settle(o, "fulfilled", Collected)

-----------------------------------------------------------------------------

\* the count starts at one, which the end of the loop takes off
Init ==
  /\ kind \in Kinds /\ foreign \in Mixes
  /\ loop = "runs" /\ given = 0 /\ count = 1
  /\ called = {} /\ values = [i \in Elements |-> None] /\ outcome = None /\ answers = <<>>

\* one round of the loop: then of the next element is called
Hand ==
  /\ loop = "runs" /\ given < MaxElements
  /\ given' = given + 1
  /\ count' = IF kind = "race" THEN count ELSE count + 1
  /\ UNCHANGED <<kind, foreign, loop, called, values, outcome, answers>>

\* the iterator is done
End ==
  /\ loop = "runs"
  /\ loop' = "ended"
  /\ IF kind = "race" THEN UNCHANGED <<count, outcome>>
     ELSE /\ count' = count - 1
          /\ outcome' = IF count = 1 THEN Finished(outcome) ELSE outcome
  /\ UNCHANGED <<kind, foreign, given, called, values, answers>>

\* the iterator, resolve of the constructor or a then throws: fail_reject
Fail ==
  /\ loop = "runs"
  /\ loop' = "failed" /\ outcome' = Settle(outcome, "rejected", Error)
  /\ UNCHANGED <<kind, foreign, given, count, called, values, answers>>

\* Fault: the index is that of the next element
CountedNext(i, how) ==
  IF <<i, how>> \in called THEN UNCHANGED <<called, values, count, outcome>>
  ELSE /\ called' = called \cup {<<i, how>>}
       /\ values' = [values EXCEPT ![i + 1] = how]
       /\ count' = count - 1
       /\ outcome' = IF count = 1 THEN Finished(outcome) ELSE outcome

\* js_promise_all_resolve_element
Counted(i, how) ==
  IF <<i, how>> \in called THEN UNCHANGED <<called, values, count, outcome>>
  ELSE /\ called' = called \cup {<<i, how>>}
       /\ values' = [values EXCEPT ![i] = how]
       /\ count' = count - 1
       /\ outcome' = IF count = 1 THEN Finished(outcome) ELSE outcome

MayAnswer(i) ==
  /\ i <= given
  /\ i \in foreign \/ (loop # "runs" /\ \A a \in ToSet(answers) : a[1] # i)

\* an element calls one of the functions its then was given
Answer(i, how) ==
  /\ MayAnswer(i)
  /\ IF Counting(how) THEN Counted(i, how)
     ELSE /\ outcome' = Settle(outcome, how, i)
          /\ UNCHANGED <<called, values, count>>
  /\ answers' = IF <<i, how>> \in ToSet(answers) THEN answers ELSE Append(answers, <<i, how>>)
  /\ UNCHANGED <<kind, foreign, loop, given>>

Next == Hand \/ End \/ Fail \/ \E i \in Elements, how \in Answers : Answer(i, how)

Spec == Init /\ [][Next]_vars

-----------------------------------------------------------------------------
(* Properties.                                                             *)

TypeOK ==
  /\ kind \in Kinds /\ foreign \in Mixes
  /\ loop \in {"runs", "ended", "failed"} /\ given \in 0..MaxElements
  /\ count \in Int /\ called \subseteq Elements \X Answers
  /\ \A i \in Elements : values[i] # None => i <= given
  /\ outcome # None => outcome.how \in Answers

\* The elements called back with the answer that counts.
Answered(i) == \E h \in Answers : Counting(h) /\ <<i, h>> \in ToSet(answers)

\* allSettled gives the two functions of an element a flag each, so that an
\* element that calls both counts twice.
TwiceCounted == kind = "allSettled" /\ foreign # {}

\* The collected values are handed over only when the loop is over and every
\* element has answered, each in its place, even if elements answer while the
\* loop still runs.
HandedOverComplete ==
  outcome # None /\ outcome.what = Collected /\ ~TwiceCounted =>
    /\ loop # "runs"
    /\ \A i \in 1..given : Answered(i) /\ values[i] # None

\* No result is lost: once the loop is over and every element has answered in
\* the way that counts, the returned promise is settled.
SettledInTheEnd ==
  loop = "ended" /\ kind # "race" /\ (\A i \in 1..given : Answered(i)) => outcome # None

\* If one element decides, it is the first that called a resolving function of
\* the returned promise.
FirstDecides ==
  outcome # None /\ outcome.what \in Elements =>
    \E i \in DOMAIN answers :
      /\ answers[i] = <<outcome.what, outcome.how>> /\ ~Counting(outcome.how)
      /\ \A j \in 1 .. i - 1 : Counting(answers[j][2])

\* Promise.all and its like answer once every element has, and once.
CombinedOnce == HandedOverComplete /\ SettledInTheEnd /\ FirstDecides
=============================================================================
