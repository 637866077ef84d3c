------------------------- MODULE QJSPromise_proofs -------------------------
(***************************************************************************)
(* Proofs about QJSPromise: however many promises and resolving functions  *)
(* there are, and whatever handlers and then methods do, what a promise    *)
(* was resolved with decides what it ends as, the link to the promise it   *)
(* follows is never lost, and its reactions run in order.                  *)
(*                                                                         *)
(* The invariant is about who may still settle a promise: one pair of      *)
(* resolving functions, or one thenable job, and of a promise that follows *)
(* another only a pair that nobody but a reaction of the other one holds.  *)
(* It is stated of a record, as Now is, since an action is a sequence of   *)
(* the engine's calls: a job is taken, functions are made, a reaction is   *)
(* registered, a function is called.                                       *)
(***************************************************************************)
EXTENDS QJSPromise, SequenceTheorems, TLAPS

Settling == {"fulfilled", "rejected"}
States == {"none", "pending"} \cup Settling
Values == Vals \cup {Error, None} \cup Foreigns \cup Promises
PairType == [of : Promises, resolved : BOOLEAN, held : BOOLEAN]
HandlerType == Pairs \cup {None, Callback}
ReactionType == [derived : Pairs \cup {None}, fulfilled : HandlerType, rejected : HandlerType]
ReactionJobType ==
  [kind : {"reaction"}, on : Promises, derived : Pairs \cup {None}, handler : HandlerType,
   was : Settling, arg : Values]
ThenableJobType == [kind : {"thenable"}, of : Promises, to : Promises \cup Foreigns]
JobType == ReactionJobType \cup ThenableJobType

StateType ==
  [state : [Promises -> States], result : [Promises -> Values],
   reacts : [Promises -> Seq(ReactionType)], pair : [Pairs -> PairType \cup {None}],
   jobs : Seq(JobType), follows : [Promises -> Values]]

\* A pair whose functions have not been called.
Open(s, q) == s.pair[q] # None /\ ~s.pair[q].resolved

Reacts(s, p) == 1 .. Len(s.reacts[p])
Jobs(s, kind) == {i \in 1 .. Len(s.jobs) : s.jobs[i].kind = kind}

-----------------------------------------------------------------------------
(* The invariant.                                                          *)

\* What a promise that is not pending, or not there, has not.
PromisesOK(s) ==
  \A p \in Promises :
    /\ s.state[p] # "pending" => s.reacts[p] = <<>>
    /\ s.state[p] = "none" => s.follows[p] = None
    /\ s.state[p] = "fulfilled" => s.result[p] \notin Promises
    /\ s.follows[p] \in Promises => s.state[s.follows[p]] # "none" /\ s.follows[p] # p

\* At most one pair can settle a promise, and none once it is settled.
PairsOK(s) ==
  /\ \A q \in Pairs : s.pair[q] # None => s.state[s.pair[q].of] # "none"
  /\ \A q \in Pairs : Open(s, q) => s.state[s.pair[q].of] = "pending"
  /\ \A q, r \in Pairs : Open(s, q) /\ Open(s, r) /\ s.pair[q].of = s.pair[r].of => q = r

\* A reaction of the promise p, or its job: then returned a promise, or a pair
\* of another promise waits for p.
Waits(s, p, derived, handler) ==
  /\ derived # None => s.pair[derived] # None /\ handler \notin Pairs
  /\ derived = None => handler \in Pairs /\ s.pair[handler] # None
  /\ handler \in Pairs /\ Open(s, handler) => s.follows[s.pair[handler].of] = p

ReactsOK(s) ==
  \A p \in Promises : \A i \in Reacts(s, p) :
    /\ Waits(s, p, s.reacts[p][i].derived, s.reacts[p][i].fulfilled)
    /\ Waits(s, p, s.reacts[p][i].derived, s.reacts[p][i].rejected)
    /\ s.reacts[p][i].derived = None => s.reacts[p][i].fulfilled = s.reacts[p][i].rejected

ReactionJobsOK(s) ==
  \A i \in Jobs(s, "reaction") :
    /\ s.jobs[i].was = s.state[s.jobs[i].on] /\ s.jobs[i].arg = s.result[s.jobs[i].on]
    /\ Waits(s, s.jobs[i].on, s.jobs[i].derived, s.jobs[i].handler)

\* A thenable job is the only one that can settle its promise.
ThenableJobsOK(s) ==
  \A i \in Jobs(s, "thenable") :
    /\ s.state[s.jobs[i].of] = "pending" /\ s.follows[s.jobs[i].of] = s.jobs[i].to
    /\ \A q \in Pairs : Open(s, q) => s.pair[q].of # s.jobs[i].of
    /\ \A k \in Jobs(s, "thenable") : s.jobs[k].of = s.jobs[i].of => k = i

\* The pair by which a promise follows another is not in the hands of script,
\* nor of a reaction, or the call of one, that would call it with its outcome.
Public(s, q) == Open(s, q) => s.follows[s.pair[q].of] \notin Promises
Private(s) ==
  /\ \A q \in Pairs : s.pair[q] # None /\ s.pair[q].held => Public(s, q)
  /\ \A p \in Promises : \A i \in Reacts(s, p) :
       s.reacts[p][i].derived # None => Public(s, s.reacts[p][i].derived)
  /\ \A i \in Jobs(s, "reaction") : s.jobs[i].derived # None => Public(s, s.jobs[i].derived)

\* LockedIn of a record
Locked(s) ==
  \A p \in Promises : s.follows[p] \in Promises /\ s.state[p] \in Settling =>
    /\ s.state[s.follows[p]] \in Settling
    /\ s.result[s.follows[p]] \notin Foreigns =>
         s.state[p] = s.state[s.follows[p]] /\ s.result[p] = s.result[s.follows[p]]

Sound(s) ==
  /\ s \in StateType
  /\ PromisesOK(s) /\ PairsOK(s) /\ ReactsOK(s) /\ ReactionJobsOK(s) /\ ThenableJobsOK(s)
  /\ Private(s) /\ Locked(s)

\* What is left to hand the promise p what the one it follows ends as.
Followed(s, p) ==
  s.follows[p] \in Promises /\ s.state[p] = "pending" =>
    \/ \E i \in Jobs(s, "thenable") : s.jobs[i].of = p
    \/ \E q \in Pairs : /\ Open(s, q) /\ s.pair[q].of = p
                        /\ \/ \E i \in Jobs(s, "reaction") : s.jobs[i].handler = q
                           \/ \E i \in Reacts(s, s.follows[p]) : s.reacts[s.follows[p]][i].fulfilled = q

\* What runs will resolve the promise of a pair, or that of none.
Runs(s, r) ==
  r \in {Idle, Script} \/ /\ r.derived \in Pairs \cup {None}
                          /\ r.derived # None => s.pair[r.derived] # None /\ Public(s, r.derived)

-----------------------------------------------------------------------------
(* The order of the reactions: they are asked for, then wait on the promise *)
(* until it is settled, then in a job, and then run.                       *)

Stage(s, ra, n, i, e) ==
  \/ n = 0 /\ i \in 1 .. Len(ra) /\ ra[i] = e
  \/ n = 1 /\ i \in Jobs(s, "reaction") /\ s.jobs[i].derived # None /\ e = <<s.jobs[i].on, s.jobs[i].derived>>
  \/ n = 2 /\ \E p \in Promises : i \in Reacts(s, p) /\ s.reacts[p][i].derived # None /\ e = <<p, s.reacts[p][i].derived>>

Before(n, i, o, j) == n < o \/ (n = o /\ i < j)

Ordered(s, as, ra) ==
  /\ as \in Seq(Promises \X Pairs) /\ ra \in Seq(Promises \X Pairs)
  /\ \A k, m \in 1 .. Len(as) : as[k] = as[m] => k = m
  /\ \A k \in 1 .. Len(as) : s.pair[as[k][2]] # None
  /\ \A k \in 1 .. Len(as) : \E n \in 0 .. 2 : \E i \in Nat : Stage(s, ra, n, i, as[k])
  /\ \A n \in 0 .. 2, i \in Nat, e \in Promises \X Pairs : Stage(s, ra, n, i, e) => \E k \in 1 .. Len(as) : as[k] = e
  /\ \A n, o \in 0 .. 2, i, j \in Nat, e \in Promises \X Pairs : Stage(s, ra, n, i, e) /\ Stage(s, ra, o, j, e) => n = o /\ i = j
  /\ \A k, m \in 1 .. Len(as) : k < m /\ as[k][1] = as[m][1] =>
       \A n, o \in 0 .. 2, i, j \in Nat :
         Stage(s, ra, n, i, as[k]) /\ Stage(s, ra, o, j, as[m]) => Before(n, i, o, j)

Good(s, r, as, ra) ==
  Sound(s) /\ (\A p \in Promises : Followed(s, p)) /\ Runs(s, r) /\ Ordered(s, as, ra)

Inv == Good(Now, running, asked, ran)

-----------------------------------------------------------------------------
(* What the engine's calls do to the record.                               *)

\* A job is a reaction's or a thenable's.
LEMMA JobsTyped ==
  ASSUME NEW s \in StateType
  PROVE  /\ \A i \in Jobs(s, "reaction") : s.jobs[i] \in ReactionJobType
         /\ \A i \in Jobs(s, "thenable") : s.jobs[i] \in ThenableJobType
         /\ \A i \in 1 .. Len(s.jobs) : i \in Jobs(s, "reaction") \/ i \in Jobs(s, "thenable")
<1>1. ASSUME NEW i \in 1 .. Len(s.jobs) PROVE s.jobs[i] \in JobType
  BY <1>1 DEF StateType
<1> QED
  BY <1>1 DEF Jobs, JobType, ReactionJobType, ThenableJobType

\* What waits on a promise is a reaction.
LEMMA ReactsTyped ==
  ASSUME NEW s \in StateType, NEW p \in Promises, NEW i \in Reacts(s, p)
  PROVE  s.reacts[p][i] \in ReactionType /\ s.reacts[p][i].derived \in Pairs \cup {None}
<1>1. s.reacts[p] \in Seq(ReactionType)
  BY DEF StateType
<1>2. s.reacts[p][i] \in ReactionType
  BY <1>1 DEF Reacts
<1> QED
  BY <1>2 DEF ReactionType

\* A pair that was created resolves a promise.
LEMMA PairsTyped ==
  ASSUME NEW s \in StateType, NEW q \in Pairs, s.pair[q] # None
  PROVE  s.pair[q] \in PairType /\ s.pair[q].of \in Promises
BY DEF StateType, PairType

\* A pending promise is settled: its reactions become jobs.
SettledTo(s, p, st, v, t) ==
  /\ t \in StateType /\ t.pair = s.pair /\ t.follows = s.follows
  /\ t.state[p] = st /\ t.result[p] = v /\ t.reacts[p] = <<>>
  /\ \A x \in Promises : x # p => /\ t.state[x] = s.state[x] /\ t.result[x] = s.result[x]
                                  /\ t.reacts[x] = s.reacts[x]
  /\ Len(s.jobs) \in Nat /\ Len(s.reacts[p]) \in Nat
  /\ Len(t.jobs) = Len(s.jobs) + Len(s.reacts[p])
  /\ \A i \in 1 .. Len(s.jobs) : t.jobs[i] = s.jobs[i]
  /\ \A i \in 1 .. Len(s.reacts[p]) : t.jobs[Len(s.jobs) + i] = ReactionJob(p, s.reacts[p][i], st, v)

\* fulfill_or_reject_promise settles a pending promise and queues its reactions.
LEMMA Settles ==
  ASSUME NEW s \in StateType, NEW p \in Promises, s.state[p] = "pending",
         NEW st \in Settling, NEW v \in Values, NEW t, t = SettledAs(s, p, st, v)
  PROVE  SettledTo(s, p, st, v, t)
<1> DEFINE new == [i \in 1 .. Len(s.reacts[p]) |-> ReactionJob(p, s.reacts[p][i], st, v)]
<1>1. /\ s.reacts[p] \in Seq(ReactionType) /\ s.jobs \in Seq(JobType)
      /\ DOMAIN s.reacts[p] = 1 .. Len(s.reacts[p])
  BY DEF StateType
<1>2. t = [s EXCEPT !.state[p] = st, !.result[p] = v, !.reacts[p] = <<>>, !.jobs = @ \o new]
  BY <1>1 DEF SettledAs
<1>3. ASSUME NEW i \in 1 .. Len(s.reacts[p])
      PROVE  ReactionJob(p, s.reacts[p][i], st, v) \in JobType
  <2>1. s.reacts[p][i] \in ReactionType
    BY <1>1, <1>3
  <2>2. s.reacts[p][i][st] \in HandlerType
    BY <2>1 DEF ReactionType, Settling
  <2> QED
    BY <2>1, <2>2 DEF ReactionJob, JobType, ReactionJobType, ReactionType
<1>4. new \in Seq(JobType) /\ Len(new) = Len(s.reacts[p])
  BY <1>1, <1>3
<1> HIDE DEF new
<1>5. /\ t.pair = s.pair /\ t.follows = s.follows
      /\ t.state = [s.state EXCEPT ![p] = st] /\ t.result = [s.result EXCEPT ![p] = v]
      /\ t.reacts = [s.reacts EXCEPT ![p] = <<>>] /\ t.jobs = s.jobs \o new
  BY <1>2 DEF StateType
<1>6. t \in StateType
  <2>1. t = [state |-> [s.state EXCEPT ![p] = st], result |-> [s.result EXCEPT ![p] = v],
             reacts |-> [s.reacts EXCEPT ![p] = <<>>], pair |-> s.pair, jobs |-> s.jobs \o new,
             follows |-> s.follows]
    BY <1>2 DEF StateType
  <2>2. s.jobs \o new \in Seq(JobType)
    BY <1>1, <1>4, ConcatProperties
  <2>3. [s.state EXCEPT ![p] = st] \in [Promises -> States] /\ [s.result EXCEPT ![p] = v] \in [Promises -> Values]
    BY DEF StateType, States, Settling
  <2>4. [s.reacts EXCEPT ![p] = <<>>] \in [Promises -> Seq(ReactionType)]
    BY DEF StateType
  <2> QED
    BY <2>1, <2>2, <2>3, <2>4 DEF StateType
<1>7. /\ Len(s.jobs) \in Nat /\ Len(s.reacts[p]) \in Nat /\ Len(t.jobs) = Len(s.jobs) + Len(s.reacts[p])
      /\ \A i \in 1 .. Len(s.jobs) : t.jobs[i] = s.jobs[i]
      /\ \A i \in 1 .. Len(s.reacts[p]) : t.jobs[Len(s.jobs) + i] = new[i]
  <2>1. Len(s.jobs) \in Nat /\ Len(s.reacts[p]) \in Nat /\ t.jobs = s.jobs \o new
    BY <1>1, <1>5
  <2>2. /\ Len(s.jobs \o new) = Len(s.jobs) + Len(new)
        /\ \A i \in 1 .. Len(s.jobs) + Len(new) :
             (s.jobs \o new)[i] = IF i <= Len(s.jobs) THEN s.jobs[i] ELSE new[i - Len(s.jobs)]
    BY <1>1, <1>4, ConcatProperties, ZenonT(60)
  <2> QED
    BY <1>4, <2>1, <2>2
<1>8. /\ t.state[p] = st /\ t.result[p] = v /\ t.reacts[p] = <<>>
      /\ \A x \in Promises : x # p => /\ t.state[x] = s.state[x] /\ t.result[x] = s.result[x]
                                      /\ t.reacts[x] = s.reacts[x]
  BY <1>5 DEF StateType
<1> QED
  BY <1>5, <1>6, <1>7, <1>8 DEF new, SettledTo

\* Nobody can settle the pending promise p: whoever could is doing so.
Free(s, p) ==
  /\ s.state[p] = "pending"
  /\ \A q \in Pairs : Open(s, q) => s.pair[q].of # p
  /\ \A i \in Jobs(s, "thenable") : s.jobs[i].of # p

\* What p may be settled as, if it follows another promise.
Faithful(s, p, st, v) ==
  /\ st = "fulfilled" => v \notin Promises
  /\ s.follows[p] \in Promises =>
       /\ s.state[s.follows[p]] \in Settling
       /\ s.result[s.follows[p]] \notin Foreigns =>
            st = s.state[s.follows[p]] /\ v = s.result[s.follows[p]]

\* Settling keeps the record sound if nobody else can settle the promise.
LEMMA SettlesSound ==
  ASSUME NEW s, Sound(s), NEW p \in Promises, Free(s, p),
         NEW st \in Settling, NEW v \in Values, Faithful(s, p, st, v), NEW t, t = SettledAs(s, p, st, v)
  PROVE  /\ Sound(t) /\ SettledTo(s, p, st, v, t)
         /\ \A x \in Promises : x = p \/ Followed(s, x) => Followed(t, x)
<1>0. s \in StateType /\ s.state[p] = "pending"
  BY DEF Sound, Free
<1>b. SettledTo(s, p, st, v, t)
  BY <1>0, Settles
<1>a. /\ t \in StateType /\ t.pair = s.pair /\ t.follows = s.follows
      /\ t.state[p] = st /\ t.result[p] = v /\ t.reacts[p] = <<>>
      /\ \A x \in Promises : x # p => /\ t.state[x] = s.state[x] /\ t.result[x] = s.result[x]
                                      /\ t.reacts[x] = s.reacts[x]
      /\ Len(s.jobs) \in Nat /\ Len(s.reacts[p]) \in Nat
      /\ Len(t.jobs) = Len(s.jobs) + Len(s.reacts[p])
      /\ \A i \in 1 .. Len(s.jobs) : t.jobs[i] = s.jobs[i]
      /\ \A i \in 1 .. Len(s.reacts[p]) : t.jobs[Len(s.jobs) + i] = ReactionJob(p, s.reacts[p][i], st, v)
  BY <1>b DEF SettledTo
<1> DEFINE a == Len(s.jobs)
           b == Len(s.reacts[p])
<1>1. /\ s \in StateType
      /\ t \in StateType /\ t.pair = s.pair /\ t.follows = s.follows
      /\ t.state[p] = st /\ t.result[p] = v /\ t.reacts[p] = <<>>
      /\ \A x \in Promises : x # p => /\ t.state[x] = s.state[x] /\ t.result[x] = s.result[x]
                                      /\ t.reacts[x] = s.reacts[x]
      /\ a \in Nat /\ b \in Nat
      /\ Len(t.jobs) = a + b
      /\ \A i \in 1 .. a : t.jobs[i] = s.jobs[i]
      /\ \A i \in 1 .. b : t.jobs[a + i] = ReactionJob(p, s.reacts[p][i], st, v)
  BY <1>0, <1>a
<1>2. /\ s.state[p] = "pending"
      /\ t.state[p] = st /\ t.result[p] = v /\ t.reacts[p] = <<>>
      /\ \A x \in Promises : x # p => /\ t.state[x] = s.state[x] /\ t.result[x] = s.result[x]
                                      /\ t.reacts[x] = s.reacts[x]
      /\ \A x \in Promises : s.state[x] \in Settling => x # p
      /\ st # "pending" /\ st # "none"
  BY <1>1 DEF StateType, Free, Settling
<1> HIDE DEF a, b
<1>3. \A q : Open(t, q) <=> Open(s, q)
  BY <1>1 DEF Open
<1>4. ASSUME NEW i \in 1 .. Len(t.jobs)
      PROVE  \/ i \in 1 .. Len(s.jobs) /\ t.jobs[i] = s.jobs[i]
             \/ \E k \in Reacts(s, p) : t.jobs[i] = ReactionJob(p, s.reacts[p][k], st, v)
  <2>1. CASE i <= a
    BY <1>1, <1>4, <2>1 DEF a
  <2>2. CASE i > a
    <3>1. i - a \in 1 .. b /\ i = a + (i - a)
      BY <1>1, <1>4, <2>2
    <3>2. t.jobs[i] = ReactionJob(p, s.reacts[p][i - a], st, v)
      BY <1>1, <3>1
    <3> QED
      BY <3>1, <3>2 DEF Reacts, b
  <2> QED
    BY <1>1, <1>4, <2>1, <2>2
<1>5. ASSUME NEW i \in 1 .. Len(s.jobs) PROVE i \in 1 .. Len(t.jobs) /\ t.jobs[i] = s.jobs[i]
  BY <1>1, <1>5 DEF a
<1>6. ASSUME NEW k \in Reacts(s, p)
      PROVE  \E i \in 1 .. Len(t.jobs) : t.jobs[i] = ReactionJob(p, s.reacts[p][k], st, v)
  <2>1. a + k \in 1 .. Len(t.jobs) /\ t.jobs[a + k] = ReactionJob(p, s.reacts[p][k], st, v)
    BY <1>1, <1>6 DEF Reacts, b
  <2> QED
    BY <2>1
<1>7. \A i : i \in Jobs(t, "thenable") <=> i \in Jobs(s, "thenable")
  <2>1. ASSUME NEW i \in Jobs(t, "thenable") PROVE i \in Jobs(s, "thenable")
    <3>1. i \in 1 .. Len(t.jobs) /\ t.jobs[i].kind = "thenable"
      BY <2>1 DEF Jobs
    <3>2. \A k : ReactionJob(p, s.reacts[p][k], st, v).kind # "thenable"
      BY DEF ReactionJob
    <3> QED
      BY <1>4, <3>1, <3>2 DEF Jobs
  <2>2. ASSUME NEW i \in Jobs(s, "thenable") PROVE i \in Jobs(t, "thenable")
    BY <1>5, <2>2 DEF Jobs
  <2> QED
    BY <2>1, <2>2
<1>8. ASSUME NEW x \in Promises PROVE Reacts(t, x) = IF x = p THEN {} ELSE Reacts(s, x)
  BY <1>2, <1>8 DEF Reacts
<1>9. \A x, d, h : Waits(t, x, d, h) <=> Waits(s, x, d, h)
  BY <1>1, <1>3 DEF Waits
<1>10. PromisesOK(t)
  <2>1. PromisesOK(s) /\ (st = "fulfilled" => v \notin Promises)
    BY DEF Sound, Faithful
  <2>2. ASSUME NEW x \in Promises, s.state[x] # "none" PROVE t.state[x] # "none"
    BY <1>2, <2>2
  <2>3. ASSUME NEW x \in Promises
        PROVE  /\ t.state[x] # "pending" => t.reacts[x] = <<>>
               /\ t.state[x] = "none" => t.follows[x] = None
               /\ t.state[x] = "fulfilled" => t.result[x] \notin Promises
               /\ t.follows[x] \in Promises => t.state[t.follows[x]] # "none" /\ t.follows[x] # x
    BY <1>1, <1>2, <2>1, <2>2, <2>3 DEF PromisesOK
  <2> QED
    BY <2>3 DEF PromisesOK
<1>11. PairsOK(t)
  <2>1. ASSUME NEW q \in Pairs, s.pair[q] # None PROVE s.pair[q].of \in Promises
    BY <1>1, <2>1 DEF StateType, PairType
  <2> QED
    BY <1>1, <1>2, <1>3, <2>1 DEF PairsOK, Sound, Free, Open
<1>12. ReactsOK(t)
  BY <1>2, <1>8, <1>9 DEF ReactsOK, Sound
<1>13. ReactionJobsOK(t)
  <2>1. ASSUME NEW i \in Jobs(s, "reaction")
        PROVE  s.jobs[i].on \in Promises /\ s.jobs[i].was \in Settling
    BY <1>1, <2>1 DEF StateType, Jobs, JobType, ReactionJobType, ThenableJobType
  <2>2. ASSUME NEW i \in Jobs(t, "reaction"), i \in 1 .. Len(s.jobs), t.jobs[i] = s.jobs[i]
        PROVE  /\ t.jobs[i].was = t.state[t.jobs[i].on] /\ t.jobs[i].arg = t.result[t.jobs[i].on]
               /\ Waits(t, t.jobs[i].on, t.jobs[i].derived, t.jobs[i].handler)
    <3>1. i \in Jobs(s, "reaction")
      BY <2>2 DEF Jobs
    <3> QED
      BY <1>2, <1>9, <2>1, <2>2, <3>1 DEF ReactionJobsOK, Sound
  <2>3. ASSUME NEW i \in Jobs(t, "reaction"), NEW k \in Reacts(s, p),
               t.jobs[i] = ReactionJob(p, s.reacts[p][k], st, v)
        PROVE  /\ t.jobs[i].was = t.state[t.jobs[i].on] /\ t.jobs[i].arg = t.result[t.jobs[i].on]
               /\ Waits(t, t.jobs[i].on, t.jobs[i].derived, t.jobs[i].handler)
    BY <1>2, <1>9, <2>3 DEF ReactionJob, ReactsOK, Sound, Settling
  <2> QED
    BY <1>4, <2>2, <2>3 DEF ReactionJobsOK, Jobs
<1>14. ThenableJobsOK(t)
  <2>1. ASSUME NEW i \in Jobs(t, "thenable")
        PROVE  i \in Jobs(s, "thenable") /\ t.jobs[i] = s.jobs[i] /\ s.jobs[i].of \in Promises /\ s.jobs[i].of # p
    <3>1. i \in Jobs(s, "thenable") /\ i \in 1 .. Len(s.jobs)
      BY <1>7, <2>1 DEF Jobs
    <3>2. s.jobs[i] \in ThenableJobType
      BY <1>1, <3>1, JobsTyped
    <3> QED
      BY <1>5, <3>1, <3>2 DEF ThenableJobType, Free
  <2>2. ThenableJobsOK(s)
    BY DEF Sound
  <2> QED
    BY <1>1, <1>2, <1>3, <2>1, <2>2, SMTT(30) DEF ThenableJobsOK
<1>15. Private(t)
  <2>1. \A q : Public(t, q) <=> Public(s, q)
    BY <1>1, <1>3 DEF Public
  <2>2. ASSUME NEW i \in Jobs(t, "reaction"), t.jobs[i].derived # None PROVE Public(t, t.jobs[i].derived)
    <3>1. CASE i \in 1 .. Len(s.jobs) /\ t.jobs[i] = s.jobs[i]
      BY <2>1, <2>2, <3>1 DEF Jobs, Private, Sound
    <3>2. ASSUME NEW k \in Reacts(s, p), t.jobs[i] = ReactionJob(p, s.reacts[p][k], st, v)
          PROVE  Public(t, t.jobs[i].derived)
      BY <2>1, <2>2, <3>2 DEF ReactionJob, Private, Sound
    <3> QED
      BY <1>4, <2>2, <3>1, <3>2 DEF Jobs
  <2>3. ASSUME NEW x \in Promises, NEW i \in Reacts(t, x), t.reacts[x][i].derived # None
        PROVE  Public(t, t.reacts[x][i].derived)
    BY <1>2, <1>8, <2>1, <2>3 DEF Private, Sound
  <2> QED
    BY <1>1, <2>1, <2>2, <2>3 DEF Private, Sound
<1>16. Locked(t)
  BY <1>1, <1>2 DEF Locked, Sound, Faithful, PromisesOK
<1>17. ASSUME NEW x \in Promises, Followed(s, x) PROVE Followed(t, x)
  <2> SUFFICES ASSUME t.follows[x] \in Promises, t.state[x] = "pending"
               PROVE  \/ \E i \in Jobs(t, "thenable") : t.jobs[i].of = x
                      \/ \E q \in Pairs : /\ Open(t, q) /\ t.pair[q].of = x
                                          /\ \/ \E i \in Jobs(t, "reaction") : t.jobs[i].handler = q
                                             \/ \E i \in Reacts(t, t.follows[x]) : t.reacts[t.follows[x]][i].fulfilled = q
    BY DEF Followed
  <2>1. x # p /\ s.state[x] = "pending" /\ s.follows[x] \in Promises /\ s.follows[x] = t.follows[x]
    BY <1>1, <1>2
  <2>2. CASE \E i \in Jobs(s, "thenable") : s.jobs[i].of = x
    BY <1>5, <1>7, <2>2 DEF Jobs
  <2>3. ASSUME NEW q \in Pairs, Open(s, q), s.pair[q].of = x, NEW i \in Jobs(s, "reaction"), s.jobs[i].handler = q
        PROVE  \E k \in Jobs(t, "reaction") : t.jobs[k].handler = q
    BY <1>5, <2>3 DEF Jobs
  <2>4. ASSUME NEW q \in Pairs, Open(s, q), s.pair[q].of = x,
               NEW i \in Reacts(s, s.follows[x]), s.reacts[s.follows[x]][i].fulfilled = q
        PROVE  \/ \E k \in Jobs(t, "reaction") : t.jobs[k].handler = q
               \/ \E k \in Reacts(t, t.follows[x]) : t.reacts[t.follows[x]][k].fulfilled = q
    <3>1. CASE s.follows[x] # p
      BY <1>2, <1>8, <2>1, <2>4, <3>1
    <3>2. CASE s.follows[x] = p
      <4>1. s.reacts[p][i].derived = None
        BY <2>4, <3>2 DEF Sound, ReactsOK, Waits
      <4>2. s.reacts[p][i].rejected = q
        BY <2>4, <3>2, <4>1 DEF Sound, ReactsOK
      <4>3. s.reacts[p][i][st] = q
        BY <2>4, <3>2, <4>2 DEF Settling
      <4>4. PICK k \in 1 .. Len(t.jobs) : t.jobs[k] = ReactionJob(p, s.reacts[p][i], st, v)
        BY <1>6, <2>4, <3>2
      <4> QED
        BY <4>3, <4>4 DEF Jobs, ReactionJob
    <3> QED
      BY <3>1, <3>2
  <2>5. \/ \E i \in Jobs(s, "thenable") : s.jobs[i].of = x
        \/ \E q \in Pairs : /\ Open(s, q) /\ s.pair[q].of = x
                            /\ \/ \E i \in Jobs(s, "reaction") : s.jobs[i].handler = q
                               \/ \E i \in Reacts(s, s.follows[x]) : s.reacts[s.follows[x]][i].fulfilled = q
    BY <1>17, <2>1 DEF Followed
  <2>6. \A q : t.pair[q].of = s.pair[q].of
    BY <1>1
  <2> QED
    BY <1>3, <2>2, <2>3, <2>4, <2>5, <2>6
<1>18. Sound(t)
  BY <1>1, <1>10, <1>11, <1>12, <1>13, <1>14, <1>15, <1>16 DEF Sound
<1>19. Followed(t, p)
  BY <1>2 DEF Followed
<1> QED
  BY <1>b, <1>17, <1>18, <1>19

\* Nothing that p waits for is lost by a step that keeps the links to it.
LEMMA StillFollowed ==
  ASSUME NEW s, NEW t, NEW x, Followed(s, x),
         t.follows[x] = s.follows[x], t.state[x] = "pending" => s.state[x] = "pending",
         \A q \in Pairs : Open(s, q) /\ s.pair[q].of = x => Open(t, q) /\ t.pair[q].of = x,
         \A i \in Jobs(s, "thenable") : s.jobs[i].of = x => \E k \in Jobs(t, "thenable") : t.jobs[k].of = x,
         \A q \in Pairs : \A i \in Jobs(s, "reaction") :
           Open(s, q) /\ s.pair[q].of = x /\ s.jobs[i].handler = q =>
             \E k \in Jobs(t, "reaction") : t.jobs[k].handler = q,
         \A i \in Reacts(s, s.follows[x]) :
           /\ i \in Reacts(t, s.follows[x])
           /\ t.reacts[s.follows[x]][i].fulfilled = s.reacts[s.follows[x]][i].fulfilled
  PROVE  Followed(t, x)
<1> SUFFICES ASSUME t.follows[x] \in Promises, t.state[x] = "pending"
             PROVE  \/ \E i \in Jobs(t, "thenable") : t.jobs[i].of = x
                    \/ \E q \in Pairs : /\ Open(t, q) /\ t.pair[q].of = x
                                        /\ \/ \E i \in Jobs(t, "reaction") : t.jobs[i].handler = q
                                           \/ \E i \in Reacts(t, t.follows[x]) : t.reacts[t.follows[x]][i].fulfilled = q
  BY DEF Followed
<1>1. CASE \E i \in Jobs(s, "thenable") : s.jobs[i].of = x
  BY <1>1
<1>2. ASSUME NEW q \in Pairs, Open(s, q), s.pair[q].of = x,
             \/ \E i \in Jobs(s, "reaction") : s.jobs[i].handler = q
             \/ \E i \in Reacts(s, s.follows[x]) : s.reacts[s.follows[x]][i].fulfilled = q
      PROVE  /\ Open(t, q) /\ t.pair[q].of = x
             /\ \/ \E i \in Jobs(t, "reaction") : t.jobs[i].handler = q
                \/ \E i \in Reacts(t, t.follows[x]) : t.reacts[t.follows[x]][i].fulfilled = q
  BY <1>2
<1> QED
  BY <1>1, <1>2 DEF Followed

\* A pair is used.
Marked(s, q) == [s EXCEPT !.pair[q].resolved = TRUE]

MarkedTo(s, q, t) ==
  /\ t \in StateType /\ t.state = s.state /\ t.result = s.result /\ t.reacts = s.reacts
  /\ t.jobs = s.jobs /\ t.follows = s.follows
  /\ t.pair[q] # None /\ t.pair[q].of = s.pair[q].of /\ t.pair[q].held = s.pair[q].held
  /\ t.pair[q].resolved
  /\ \A r \in Pairs : r # q => t.pair[r] = s.pair[r]

\* already_resolved is set.
LEMMA Marks ==
  ASSUME NEW s \in StateType, NEW q \in Pairs, s.pair[q] # None, NEW t, t = Marked(s, q)
  PROVE  MarkedTo(s, q, t)
<1>1. s.pair[q] \in PairType
  BY PairsTyped
<1>2. [s.pair[q] EXCEPT !.resolved = TRUE] \in PairType
  BY <1>1 DEF PairType
<1>3. t = [state |-> s.state, result |-> s.result, reacts |-> s.reacts,
           pair |-> [s.pair EXCEPT ![q] = [s.pair[q] EXCEPT !.resolved = TRUE]],
           jobs |-> s.jobs, follows |-> s.follows]
  BY DEF Marked, StateType
<1>4. [s.pair EXCEPT ![q] = [s.pair[q] EXCEPT !.resolved = TRUE]] \in [Pairs -> PairType \cup {None}]
  BY <1>2 DEF StateType
<1>5. t \in StateType
  BY <1>3, <1>4 DEF StateType
<1>6. t.pair[q] = [s.pair[q] EXCEPT !.resolved = TRUE] /\ \A r \in Pairs : r # q => t.pair[r] = s.pair[r]
  <2>1. s.pair \in [Pairs -> PairType \cup {None}]
    BY DEF StateType
  <2>2. t.pair = [s.pair EXCEPT ![q] = [s.pair[q] EXCEPT !.resolved = TRUE]]
    BY <1>3
  <2> QED
    BY <2>1, <2>2
<1>7. t.pair[q] \in PairType /\ t.pair[q].of = s.pair[q].of /\ t.pair[q].held = s.pair[q].held /\ t.pair[q].resolved
  BY <1>1, <1>2, <1>6 DEF PairType
<1>8. t.pair[q] # None
  BY <1>7, PromiseAssumption DEF PairType
<1> QED
  BY <1>3, <1>5, <1>6, <1>7, <1>8 DEF MarkedTo

\* Once it is set, nobody can settle the promise but who set it.
LEMMA MarksSound ==
  ASSUME NEW s, Sound(s), NEW q \in Pairs, Open(s, q), NEW t, t = Marked(s, q)
  PROVE  /\ Sound(t) /\ MarkedTo(s, q, t) /\ Free(t, s.pair[q].of)
         /\ \A x \in Promises : x # s.pair[q].of /\ Followed(s, x) => Followed(t, x)
<1>1. s \in StateType /\ MarkedTo(s, q, t)
  BY Marks DEF Sound, Open
<1>2. \A r \in Pairs : /\ Open(t, r) <=> Open(s, r) /\ r # q
                       /\ t.pair[r] # None <=> s.pair[r] # None
                       /\ t.pair[r].of = s.pair[r].of /\ t.pair[r].held = s.pair[r].held
  BY <1>1 DEF MarkedTo, Open
<1>3. \A k : Jobs(t, k) = Jobs(s, k)
  BY <1>1 DEF MarkedTo, Jobs
<1>4. \A x : Reacts(t, x) = Reacts(s, x)
  BY <1>1 DEF MarkedTo, Reacts
<1>5. ASSUME NEW x, NEW d \in Pairs \cup {None}, NEW h, Waits(s, x, d, h) PROVE Waits(t, x, d, h)
  BY <1>1, <1>2, <1>5 DEF Waits, MarkedTo
<1>6. \A r \in Pairs : Public(s, r) => Public(t, r)
  BY <1>1, <1>2 DEF Public, MarkedTo
<1>7. PromisesOK(t)
  BY <1>1 DEF MarkedTo, Sound, PromisesOK
<1>8. PairsOK(t)
  BY <1>1, <1>2, SMTT(20) DEF MarkedTo, Sound, PairsOK
<1>9. ReactsOK(t)
  <2>1. ASSUME NEW x \in Promises, NEW i \in Reacts(s, x) PROVE s.reacts[x][i].derived \in Pairs \cup {None}
    BY <1>1, <2>1, ReactsTyped
  <2> QED
    BY <1>1, <1>4, <1>5, <2>1 DEF MarkedTo, Sound, ReactsOK
<1>10. ReactionJobsOK(t)
  <2>1. ASSUME NEW i \in Jobs(s, "reaction") PROVE s.jobs[i].derived \in Pairs \cup {None}
    BY <1>1, <2>1, JobsTyped DEF ReactionJobType
  <2> QED
    BY <1>1, <1>3, <1>5, <2>1 DEF MarkedTo, Sound, ReactionJobsOK
<1>11. ThenableJobsOK(t)
  BY <1>1, <1>2, <1>3 DEF MarkedTo, Sound, ThenableJobsOK
<1>12. Private(t)
  <2>1. ASSUME NEW x \in Promises, NEW i \in Reacts(s, x) PROVE s.reacts[x][i].derived \in Pairs \cup {None}
    BY <1>1, <2>1, ReactsTyped
  <2>2. ASSUME NEW i \in Jobs(s, "reaction") PROVE s.jobs[i].derived \in Pairs \cup {None}
    BY <1>1, <2>2, JobsTyped DEF ReactionJobType
  <2>3. Private(s) /\ t.reacts = s.reacts /\ t.jobs = s.jobs
    BY <1>1 DEF Sound, MarkedTo
  <2> QED
    BY <1>2, <1>3, <1>4, <1>6, <2>1, <2>2, <2>3 DEF Private
<1>13. Locked(t)
  BY <1>1 DEF MarkedTo, Sound, Locked
<1>14. Free(t, s.pair[q].of)
  BY <1>1, <1>2, <1>3 DEF MarkedTo, Sound, Free, PairsOK, ThenableJobsOK
<1>15. ASSUME NEW x \in Promises, x # s.pair[q].of, Followed(s, x) PROVE Followed(t, x)
  <2>1. \A r \in Pairs : Open(s, r) /\ s.pair[r].of = x => Open(t, r) /\ t.pair[r].of = x
    BY <1>2, <1>15
  <2>2. t.follows = s.follows /\ t.state = s.state /\ t.jobs = s.jobs /\ t.reacts = s.reacts
    BY <1>1 DEF MarkedTo
  <2> QED
    BY <1>3, <1>4, <1>15, <2>1, <2>2, StillFollowed
<1>16. t \in StateType
  BY <1>1 DEF MarkedTo
<1>17. Sound(t)
  BY <1>7, <1>8, <1>9, <1>10, <1>11, <1>12, <1>13, <1>16 DEF Sound
<1> QED
  BY <1>1, <1>14, <1>15, <1>17

\* A promise is to follow a promise, or another object with a then.
QueuedFor(s, p, v) ==
  [s EXCEPT !.jobs = Append(@, [kind |-> "thenable", of |-> p, to |-> v]), !.follows[p] = v]

QueuedTo(s, p, v, t) ==
  /\ t \in StateType /\ t.state = s.state /\ t.result = s.result /\ t.reacts = s.reacts /\ t.pair = s.pair
  /\ t.follows[p] = v /\ \A x \in Promises : x # p => t.follows[x] = s.follows[x]
  /\ Len(s.jobs) \in Nat /\ Len(t.jobs) = Len(s.jobs) + 1
  /\ \A i \in 1 .. Len(s.jobs) : t.jobs[i] = s.jobs[i]
  /\ t.jobs[Len(s.jobs) + 1] = [kind |-> "thenable", of |-> p, to |-> v]

\* js_promise_resolve_function_call queues a thenable job.
LEMMA Queues ==
  ASSUME NEW s \in StateType, NEW p \in Promises, NEW v \in Promises \cup Foreigns, NEW t, t = QueuedFor(s, p, v)
  PROVE  QueuedTo(s, p, v, t)
<1> DEFINE j == [kind |-> "thenable", of |-> p, to |-> v]
<1>1. s.jobs \in Seq(JobType) /\ j \in JobType /\ Len(s.jobs) \in Nat
  BY DEF StateType, JobType, ThenableJobType
<1>2. t = [state |-> s.state, result |-> s.result, reacts |-> s.reacts, pair |-> s.pair,
           jobs |-> Append(s.jobs, j), follows |-> [s.follows EXCEPT ![p] = v]]
  BY DEF QueuedFor, StateType
<1> HIDE DEF j
<1>3. /\ Append(s.jobs, j) \in Seq(JobType) /\ Len(Append(s.jobs, j)) = Len(s.jobs) + 1
      /\ \A i \in 1 .. Len(s.jobs) : Append(s.jobs, j)[i] = s.jobs[i]
      /\ Append(s.jobs, j)[Len(s.jobs) + 1] = j
  BY <1>1, AppendProperties
<1>4. [s.follows EXCEPT ![p] = v] \in [Promises -> Values]
  BY DEF StateType, Values
<1>5. t \in StateType
  BY <1>2, <1>3, <1>4 DEF StateType
<1>6. t.follows[p] = v /\ \A x \in Promises : x # p => t.follows[x] = s.follows[x]
  <2>1. s.follows \in [Promises -> Values] /\ t.follows = [s.follows EXCEPT ![p] = v]
    BY <1>2 DEF StateType
  <2> QED
    BY <2>1
<1> QED
  BY <1>1, <1>2, <1>3, <1>5, <1>6 DEF QueuedTo, j

\* The job is then the only one that can settle the promise.
LEMMA QueuesSound ==
  ASSUME NEW s, Sound(s), NEW p \in Promises, Free(s, p),
         NEW v \in Promises \cup Foreigns, v \in Promises => v # p /\ s.state[v] # "none",
         NEW t, t = QueuedFor(s, p, v)
  PROVE  /\ Sound(t) /\ QueuedTo(s, p, v, t) /\ Followed(t, p)
         /\ \A x \in Promises : x # p /\ Followed(s, x) => Followed(t, x)
<1> DEFINE n == Len(s.jobs)
<1>1. s \in StateType /\ QueuedTo(s, p, v, t)
  BY Queues DEF Sound
<1>2. n \in Nat /\ Len(t.jobs) = n + 1
  BY <1>1 DEF QueuedTo
<1>3. \A i \in 1 .. n : t.jobs[i] = s.jobs[i]
  BY <1>1 DEF QueuedTo
<1>4. t.jobs[n + 1].kind = "thenable" /\ t.jobs[n + 1].of = p /\ t.jobs[n + 1].to = v
  BY <1>1 DEF QueuedTo
<1>5. \A i \in Jobs(s, "reaction") : i \in 1 .. n
  BY DEF Jobs
<1>6. \A i \in Jobs(s, "thenable") : i \in 1 .. n
  BY DEF Jobs
<1> HIDE DEF n
<1>7. ASSUME NEW i PROVE i \in Jobs(t, "reaction") <=> i \in Jobs(s, "reaction")
  <2>1. i \in 1 .. Len(t.jobs) <=> i \in 1 .. n \/ i = n + 1
    BY <1>2
  <2> QED
    BY <1>3, <1>4, <2>1 DEF Jobs, n
<1>8. ASSUME NEW i PROVE i \in Jobs(t, "thenable") <=> i \in Jobs(s, "thenable") \/ i = n + 1
  <2>1. i \in 1 .. Len(t.jobs) <=> i \in 1 .. n \/ i = n + 1
    BY <1>2
  <2> QED
    BY <1>3, <1>4, <2>1 DEF Jobs, n
<1>9. /\ t.state = s.state /\ t.result = s.result /\ t.reacts = s.reacts /\ t.pair = s.pair
      /\ t.follows[p] = v /\ \A x \in Promises : x # p => t.follows[x] = s.follows[x]
  BY <1>1 DEF QueuedTo
<1>10. \A q : Open(t, q) <=> Open(s, q)
  BY <1>9 DEF Open
<1>11. ASSUME NEW q \in Pairs, Open(s, q) PROVE t.follows[t.pair[q].of] = s.follows[s.pair[q].of]
  <2>1. s.pair[q].of \in Promises
    BY <1>1, <1>11, PairsTyped DEF Open
  <2> QED
    BY <1>9, <1>11, <2>1 DEF Free
<1>12. \A x, d, h : Waits(s, x, d, h) => Waits(t, x, d, h)
  BY <1>9, <1>10, <1>11 DEF Waits
<1>13. \A q \in Pairs : Public(s, q) => Public(t, q)
  BY <1>10, <1>11 DEF Public
<1>14. \A x : Reacts(t, x) = Reacts(s, x)
  BY <1>9 DEF Reacts
<1>15. PromisesOK(t)
  <2>1. s.state[p] = "pending"
    BY DEF Free
  <2> QED
    BY <1>9, <2>1 DEF Sound, PromisesOK
<1>16. PairsOK(t)
  BY <1>9, <1>10 DEF Sound, PairsOK
<1>17. ReactsOK(t)
  BY <1>9, <1>12, <1>14 DEF Sound, ReactsOK
<1>18. ReactionJobsOK(t)
  BY <1>3, <1>5, <1>7, <1>9, <1>12 DEF Sound, ReactionJobsOK
<1>19. ThenableJobsOK(t)
  <2>1. ASSUME NEW i \in Jobs(s, "thenable")
        PROVE  i \in 1 .. n /\ i # n + 1 /\ t.jobs[i] = s.jobs[i] /\ s.jobs[i].of \in Promises /\ s.jobs[i].of # p
    <3>1. s.jobs[i].of \in Promises
      BY <1>1, <2>1, JobsTyped DEF ThenableJobType
    <3> QED
      BY <1>2, <1>3, <1>6, <2>1, <3>1 DEF Free
  <2>2. s.state[p] = "pending" /\ \A q \in Pairs : Open(s, q) => s.pair[q].of # p
    BY DEF Free
  <2>3. ThenableJobsOK(s)
    BY DEF Sound
  <2>4. ASSUME NEW i \in Jobs(t, "thenable")
        PROVE  /\ t.state[t.jobs[i].of] = "pending" /\ t.follows[t.jobs[i].of] = t.jobs[i].to
               /\ \A q \in Pairs : Open(t, q) => t.pair[q].of # t.jobs[i].of
    <3>1. CASE i = n + 1
      BY <1>4, <1>9, <1>10, <2>2, <3>1
    <3>2. CASE i \in Jobs(s, "thenable")
      BY <1>9, <1>10, <2>1, <2>3, <3>2 DEF ThenableJobsOK
    <3> QED
      BY <1>8, <2>4, <3>1, <3>2
  <2>5. ASSUME NEW i \in Jobs(t, "thenable"), NEW k \in Jobs(t, "thenable"), t.jobs[k].of = t.jobs[i].of
        PROVE  k = i
    BY <1>4, <1>8, <2>1, <2>3, <2>5 DEF ThenableJobsOK
  <2> QED
    BY <2>4, <2>5 DEF ThenableJobsOK
<1>20. Private(t)
  <2>1. ASSUME NEW x \in Promises, NEW i \in Reacts(s, x) PROVE s.reacts[x][i].derived \in Pairs \cup {None}
    BY <1>1, <2>1, ReactsTyped
  <2>2. ASSUME NEW i \in Jobs(s, "reaction") PROVE s.jobs[i].derived \in Pairs \cup {None} /\ t.jobs[i] = s.jobs[i]
    BY <1>1, <1>3, <1>5, <2>2, JobsTyped DEF ReactionJobType
  <2>3. Private(s)
    BY DEF Sound
  <2> QED
    BY <1>7, <1>9, <1>13, <1>14, <2>1, <2>2, <2>3 DEF Private
<1>21. Locked(t)
  <2>1. s.state[p] = "pending" /\ "pending" \notin Settling
    BY DEF Free, Settling
  <2> QED
    BY <1>9, <2>1 DEF Sound, Locked
<1>22. Followed(t, p)
  BY <1>4, <1>8 DEF Followed
<1>23. ASSUME NEW x \in Promises, x # p, Followed(s, x) PROVE Followed(t, x)
  <2>1. \A i \in Jobs(s, "thenable") : i \in Jobs(t, "thenable") /\ t.jobs[i] = s.jobs[i]
    BY <1>3, <1>6, <1>8
  <2>2. \A i \in Jobs(s, "reaction") : i \in Jobs(t, "reaction") /\ t.jobs[i] = s.jobs[i]
    BY <1>3, <1>5, <1>7
  <2> QED
    BY <1>9, <1>10, <1>14, <1>23, <2>1, <2>2, StillFollowed
<1>24. t \in StateType
  BY <1>1 DEF QueuedTo
<1>25. Sound(t)
  BY <1>15, <1>16, <1>17, <1>18, <1>19, <1>20, <1>21, <1>24 DEF Sound
<1> QED
  BY <1>1, <1>22, <1>23, <1>25

\* A promise is made.
WithPromise(s, p) == [s EXCEPT !.state[p] = "pending"]

\* A new promise is pending, and nobody can settle it yet.
LEMMA MakesPromise ==
  ASSUME NEW s, Sound(s), NEW p \in Promises, s.state[p] = "none", NEW t, t = WithPromise(s, p)
  PROVE  /\ Sound(t) /\ Free(t, p)
         /\ t.result = s.result /\ t.reacts = s.reacts /\ t.pair = s.pair
         /\ t.jobs = s.jobs /\ t.follows = s.follows
         /\ t.state[p] = "pending" /\ \A x \in Promises : x # p => t.state[x] = s.state[x]
         /\ t.follows[p] \notin Promises
         /\ \A x \in Promises : Followed(s, x) => Followed(t, x)
<1>1. s \in StateType
  BY DEF Sound
<1>2. t = [state |-> [s.state EXCEPT ![p] = "pending"], result |-> s.result, reacts |-> s.reacts,
           pair |-> s.pair, jobs |-> s.jobs, follows |-> s.follows]
  BY <1>1 DEF WithPromise, StateType
<1>3. s.state \in [Promises -> States] /\ [s.state EXCEPT ![p] = "pending"] \in [Promises -> States]
  BY <1>1 DEF StateType, States
<1>4. t \in StateType
  BY <1>1, <1>2, <1>3 DEF StateType
<1>5. /\ t.state[p] = "pending" /\ \A x \in Promises : x # p => t.state[x] = s.state[x]
      /\ t.result = s.result /\ t.reacts = s.reacts /\ t.pair = s.pair
      /\ t.jobs = s.jobs /\ t.follows = s.follows
  BY <1>2, <1>3
<1>6. \A q : Open(t, q) <=> Open(s, q)
  BY <1>5 DEF Open
<1>7. \A k : Jobs(t, k) = Jobs(s, k)
  BY <1>5 DEF Jobs
<1>8. \A x : Reacts(t, x) = Reacts(s, x)
  BY <1>5 DEF Reacts
<1>9. \A x, d, h : Waits(t, x, d, h) <=> Waits(s, x, d, h)
  BY <1>5, <1>6 DEF Waits
<1>10. \A q : Public(t, q) <=> Public(s, q)
  BY <1>5, <1>6 DEF Public
<1>11. ASSUME NEW q \in Pairs, s.pair[q] # None PROVE s.pair[q].of \in Promises /\ s.pair[q].of # p
  <2>1. s.pair[q].of \in Promises /\ s.state[s.pair[q].of] # "none"
    BY <1>1, <1>11, PairsTyped DEF Sound, PairsOK
  <2> QED
    BY <2>1
<1>12. ASSUME NEW x \in Promises, s.follows[x] \in Promises PROVE s.follows[x] # p /\ x # p
  BY <1>12, PromiseAssumption DEF Sound, PromisesOK
<1>13. PromisesOK(t)
  <2>1. PromisesOK(s)
    BY DEF Sound
  <2>2. s.reacts[p] = <<>> /\ s.follows[p] = None
    BY <2>1 DEF PromisesOK
  <2>3. ASSUME NEW x \in Promises
        PROVE  /\ t.state[x] # "pending" => t.reacts[x] = <<>>
               /\ t.state[x] = "none" => t.follows[x] = None
               /\ t.state[x] = "fulfilled" => t.result[x] \notin Promises
               /\ t.follows[x] \in Promises => t.state[t.follows[x]] # "none" /\ t.follows[x] # x
    BY <1>5, <1>12, <2>1, <2>2, <2>3 DEF PromisesOK
  <2> QED
    BY <2>3 DEF PromisesOK
<1>14. PairsOK(t)
  BY <1>5, <1>6, <1>11 DEF Sound, PairsOK, Open
<1>15. ReactsOK(t)
  BY <1>5, <1>8, <1>9 DEF Sound, ReactsOK
<1>16. ReactionJobsOK(t)
  <2>1. ASSUME NEW i \in Jobs(s, "reaction") PROVE s.jobs[i].on \in Promises /\ s.jobs[i].on # p
    <3>1. s.jobs[i] \in ReactionJobType
      BY <1>1, <2>1, JobsTyped
    <3>2. s.jobs[i].was = s.state[s.jobs[i].on]
      BY <2>1 DEF Sound, ReactionJobsOK
    <3> QED
      BY <3>1, <3>2 DEF ReactionJobType, Settling
  <2> QED
    BY <1>5, <1>7, <1>9, <2>1 DEF Sound, ReactionJobsOK
<1>17. ThenableJobsOK(t)
  <2>1. ASSUME NEW i \in Jobs(s, "thenable") PROVE s.jobs[i].of \in Promises /\ s.jobs[i].of # p
    <3>1. s.jobs[i] \in ThenableJobType
      BY <1>1, <2>1, JobsTyped
    <3>2. s.state[s.jobs[i].of] = "pending"
      BY <2>1 DEF Sound, ThenableJobsOK
    <3> QED
      BY <3>1, <3>2 DEF ThenableJobType
  <2> QED
    BY <1>5, <1>6, <1>7, <2>1 DEF Sound, ThenableJobsOK
<1>18. Private(t)
  BY <1>5, <1>7, <1>8, <1>10 DEF Sound, Private
<1>19. Locked(t)
  <2>1. ASSUME NEW x \in Promises, t.follows[x] \in Promises PROVE x # p /\ t.follows[x] # p
    BY <1>5, <1>12, <2>1
  <2> QED
    BY <1>5, <2>1 DEF Sound, Locked
<1>20. Free(t, p)
  <2>1. ASSUME NEW i \in Jobs(s, "thenable") PROVE s.jobs[i].of # p
    BY <2>1 DEF Sound, ThenableJobsOK
  <2> QED
    BY <1>5, <1>6, <1>7, <1>11, <2>1 DEF Free, Open
<1>21. ASSUME NEW x \in Promises, Followed(s, x) PROVE Followed(t, x)
  <2>1. CASE s.follows[x] \in Promises
    <3>1. t.state[x] = s.state[x]
      BY <1>5, <1>12, <2>1
    <3> QED
      BY <1>5, <1>6, <1>7, <1>8, <1>21, <3>1, StillFollowed
  <2>2. CASE s.follows[x] \notin Promises
    BY <1>5, <2>2 DEF Followed
  <2> QED
    BY <2>1, <2>2
<1>22. t.follows[p] \notin Promises
  BY <1>5, <1>12
<1>23. Sound(t)
  BY <1>4, <1>13, <1>14, <1>15, <1>16, <1>17, <1>18, <1>19 DEF Sound
<1> QED
  BY <1>5, <1>20, <1>21, <1>22, <1>23

\* Two resolving functions are made.
WithPair(s, q, p, held) == [s EXCEPT !.pair[q] = [of |-> p, resolved |-> FALSE, held |-> held]]

\* A pair is given to a promise that nobody else can settle.
LEMMA MakesPair ==
  ASSUME NEW s, Sound(s), NEW q \in Pairs, s.pair[q] = None, NEW p \in Promises, Free(s, p),
         NEW held \in BOOLEAN, held => s.follows[p] \notin Promises, NEW t, t = WithPair(s, q, p, held)
  PROVE  /\ Sound(t)
         /\ t.state = s.state /\ t.result = s.result /\ t.reacts = s.reacts
         /\ t.jobs = s.jobs /\ t.follows = s.follows
         /\ t.pair[q] # None /\ t.pair[q].of = p /\ Open(t, q)
         /\ \A r \in Pairs : r # q => t.pair[r] = s.pair[r]
         /\ \A x \in Promises : Followed(s, x) => Followed(t, x)
<1> DEFINE new == [of |-> p, resolved |-> FALSE, held |-> held]
<1>1. s \in StateType
  BY DEF Sound
<1>2. t = [state |-> s.state, result |-> s.result, reacts |-> s.reacts,
           pair |-> [s.pair EXCEPT ![q] = new], jobs |-> s.jobs, follows |-> s.follows]
  BY <1>1 DEF WithPair, StateType
<1>3. /\ new \in PairType /\ new # None
      /\ new.of = p /\ ~new.resolved /\ new.held = held
  <2>1. new \in PairType
    BY DEF PairType
  <2> QED
    BY <2>1, PromiseAssumption DEF PairType
<1> HIDE DEF new
<1>4. s.pair \in [Pairs -> PairType \cup {None}] /\ [s.pair EXCEPT ![q] = new] \in [Pairs -> PairType \cup {None}]
  BY <1>1, <1>3 DEF StateType
<1>5. t \in StateType
  BY <1>1, <1>2, <1>4 DEF StateType
<1>6. /\ t.pair[q] = new /\ \A r \in Pairs : r # q => t.pair[r] = s.pair[r]
      /\ t.state = s.state /\ t.result = s.result /\ t.reacts = s.reacts
      /\ t.jobs = s.jobs /\ t.follows = s.follows
  BY <1>2, <1>4
<1>7. \A r \in Pairs : Open(t, r) <=> Open(s, r) \/ r = q
  BY <1>3, <1>6 DEF Open
<1>8. \A r \in Pairs : s.pair[r] # None => r # q /\ t.pair[r] = s.pair[r] /\ t.pair[r] # None
  BY <1>6
<1>9. \A k : Jobs(t, k) = Jobs(s, k)
  BY <1>6 DEF Jobs
<1>10. \A x : Reacts(t, x) = Reacts(s, x)
  BY <1>6 DEF Reacts
<1>11. ASSUME NEW x, NEW d \in Pairs \cup {None}, NEW h, Waits(s, x, d, h) PROVE Waits(t, x, d, h)
  <2>1. d # None => t.pair[d] # None /\ h \notin Pairs
    BY <1>8, <1>11 DEF Waits
  <2>2. d = None => h \in Pairs /\ t.pair[h] # None
    BY <1>8, <1>11 DEF Waits
  <2>3. ASSUME h \in Pairs, Open(t, h) PROVE t.follows[t.pair[h].of] = x
    <3>1. d = None
      BY <1>11, <2>3 DEF Waits
    <3>2. s.pair[h] # None
      BY <1>11, <3>1 DEF Waits
    <3> QED
      BY <1>6, <1>7, <1>8, <1>11, <2>3, <3>2 DEF Waits
  <2> QED
    BY <2>1, <2>2, <2>3 DEF Waits
<1>12. ASSUME NEW r \in Pairs, s.pair[r] # None, Public(s, r) PROVE Public(t, r)
  BY <1>6, <1>7, <1>8, <1>12 DEF Public
<1>13. PromisesOK(t)
  BY <1>6 DEF Sound, PromisesOK
<1>14. PairsOK(t)
  <2>1. s.state[p] = "pending" /\ \A r \in Pairs : Open(s, r) => s.pair[r].of # p
    BY DEF Free
  <2>2. PairsOK(s) /\ \A r \in Pairs : Open(s, r) => r # q
    BY DEF Sound, Open
  <2> QED
    BY <1>3, <1>6, <1>7, <2>1, <2>2 DEF PairsOK
<1>15. ReactsOK(t)
  <2>1. ASSUME NEW x \in Promises, NEW i \in Reacts(s, x) PROVE s.reacts[x][i].derived \in Pairs \cup {None}
    BY <1>1, <2>1, ReactsTyped
  <2> QED
    BY <1>6, <1>10, <1>11, <2>1 DEF Sound, ReactsOK
<1>16. ReactionJobsOK(t)
  <2>1. ASSUME NEW i \in Jobs(s, "reaction") PROVE s.jobs[i].derived \in Pairs \cup {None}
    BY <1>1, <2>1, JobsTyped DEF ReactionJobType
  <2> QED
    BY <1>6, <1>9, <1>11, <2>1 DEF Sound, ReactionJobsOK
<1>17. ThenableJobsOK(t)
  <2>1. ThenableJobsOK(s) /\ \A i \in Jobs(s, "thenable") : s.jobs[i].of # p
    BY DEF Sound, Free
  <2> QED
    BY <1>3, <1>6, <1>7, <1>9, <2>1 DEF ThenableJobsOK
<1>18. Private(t)
  <2>1. ASSUME NEW x \in Promises, NEW i \in Reacts(s, x), s.reacts[x][i].derived # None
        PROVE  Public(t, s.reacts[x][i].derived)
    <3>1. s.reacts[x][i].derived \in Pairs
      BY <1>1, <2>1, ReactsTyped
    <3>2. s.pair[s.reacts[x][i].derived] # None
      BY <2>1 DEF Sound, ReactsOK, Waits
    <3>3. Public(s, s.reacts[x][i].derived)
      BY <2>1 DEF Sound, Private
    <3> QED
      BY <1>12, <3>1, <3>2, <3>3
  <2>2. ASSUME NEW i \in Jobs(s, "reaction"), s.jobs[i].derived # None
        PROVE  Public(t, s.jobs[i].derived)
    <3>1. s.jobs[i].derived \in Pairs \cup {None}
      BY <1>1, <2>2, JobsTyped DEF ReactionJobType
    <3>2. s.pair[s.jobs[i].derived] # None
      BY <2>2 DEF Sound, ReactionJobsOK, Waits
    <3>3. Public(s, s.jobs[i].derived)
      BY <2>2 DEF Sound, Private
    <3> QED
      BY <1>12, <2>2, <3>1, <3>2, <3>3
  <2>3. ASSUME NEW r \in Pairs, t.pair[r] # None, t.pair[r].held PROVE Public(t, r)
    <3>1. CASE r = q
      BY <1>3, <1>6, <2>3, <3>1 DEF Public
    <3>2. CASE r # q
      BY <1>6, <1>12, <2>3, <3>2 DEF Sound, Private
    <3> QED
      BY <3>1, <3>2
  <2> QED
    BY <1>6, <1>9, <1>10, <2>1, <2>2, <2>3 DEF Private
<1>19. Locked(t)
  BY <1>6 DEF Sound, Locked
<1>20. ASSUME NEW x \in Promises, Followed(s, x) PROVE Followed(t, x)
  <2>1. \A r \in Pairs : Open(s, r) /\ s.pair[r].of = x => Open(t, r) /\ t.pair[r].of = x
    BY <1>7, <1>8 DEF Open
  <2> QED
    BY <1>6, <1>9, <1>10, <1>20, <2>1, StillFollowed
<1>21. Sound(t)
  BY <1>5, <1>13, <1>14, <1>15, <1>16, <1>17, <1>18, <1>19 DEF Sound
<1> QED
  BY <1>3, <1>6, <1>7, <1>20, <1>21

\* A job is taken.
TakenFrom(s) == [s EXCEPT !.jobs = Tail(@)]

\* The first job is taken: what it promised to do is still to be done.
LEMMA Takes ==
  ASSUME NEW s, Sound(s), s.jobs # <<>>, NEW t, t = TakenFrom(s)
  PROVE  /\ Sound(t)
         /\ t.state = s.state /\ t.result = s.result /\ t.reacts = s.reacts
         /\ t.pair = s.pair /\ t.follows = s.follows
         /\ Len(s.jobs) \in Nat /\ 1 \in 1 .. Len(s.jobs) /\ Head(s.jobs) = s.jobs[1]
         /\ Len(t.jobs) = Len(s.jobs) - 1
         /\ \A i \in 1 .. Len(t.jobs) : i + 1 \in 1 .. Len(s.jobs) /\ t.jobs[i] = s.jobs[i + 1]
         /\ Head(s.jobs).kind = "thenable" => Free(t, Head(s.jobs).of)
         /\ \A x \in Promises :
              /\ Followed(s, x)
              /\ Head(s.jobs).kind = "thenable" => Head(s.jobs).of # x
              /\ Head(s.jobs).kind = "reaction" /\ Head(s.jobs).handler \in Pairs /\ Open(s, Head(s.jobs).handler) =>
                   s.pair[Head(s.jobs).handler].of # x
              => Followed(t, x)
<1>1. s \in StateType /\ s.jobs \in Seq(JobType)
  BY DEF Sound, StateType
<1>2. t = [state |-> s.state, result |-> s.result, reacts |-> s.reacts,
           pair |-> s.pair, jobs |-> Tail(s.jobs), follows |-> s.follows]
  BY <1>1 DEF TakenFrom, StateType
<1>3. /\ Tail(s.jobs) \in Seq(JobType) /\ Len(Tail(s.jobs)) = Len(s.jobs) - 1
      /\ \A i \in 1 .. Len(Tail(s.jobs)) : Tail(s.jobs)[i] = s.jobs[i + 1]
  BY <1>1, HeadTailProperties
<1>4. t \in StateType
  BY <1>1, <1>2, <1>3 DEF StateType
<1>5. Len(s.jobs) \in Nat /\ 1 \in 1 .. Len(s.jobs) /\ Head(s.jobs) = s.jobs[1]
  BY <1>1
<1>6. /\ t.state = s.state /\ t.result = s.result /\ t.reacts = s.reacts
      /\ t.pair = s.pair /\ t.follows = s.follows
      /\ Len(t.jobs) = Len(s.jobs) - 1
      /\ \A i \in 1 .. Len(t.jobs) : i + 1 \in 1 .. Len(s.jobs) /\ t.jobs[i] = s.jobs[i + 1]
  BY <1>2, <1>3, <1>5
<1>7. ASSUME NEW k, NEW i \in Jobs(t, k)
      PROVE  i + 1 \in Jobs(s, k) /\ i + 1 # 1 /\ t.jobs[i] = s.jobs[i + 1] /\ i \in Nat
  BY <1>5, <1>6, <1>7 DEF Jobs
<1>8. ASSUME NEW k, NEW i \in Jobs(s, k), i # 1
      PROVE  \E m \in Jobs(t, k) : t.jobs[m] = s.jobs[i]
  <2>1. i - 1 \in 1 .. Len(t.jobs) /\ (i - 1) + 1 = i
    BY <1>5, <1>6, <1>8 DEF Jobs
  <2>2. t.jobs[i - 1] = s.jobs[i]
    BY <1>6, <2>1
  <2>3. i - 1 \in Jobs(t, k)
    BY <1>8, <2>1, <2>2 DEF Jobs
  <2> QED
    BY <2>2, <2>3
<1>9. \A q : Open(t, q) <=> Open(s, q)
  BY <1>6 DEF Open
<1>10. \A x : Reacts(t, x) = Reacts(s, x)
  BY <1>6 DEF Reacts
<1>11. \A x, d, h : Waits(t, x, d, h) <=> Waits(s, x, d, h)
  BY <1>6, <1>9 DEF Waits
<1>12. \A q : Public(t, q) <=> Public(s, q)
  BY <1>6, <1>9 DEF Public
<1>13. PromisesOK(t) /\ PairsOK(t) /\ ReactsOK(t) /\ Locked(t)
  <2>1. PromisesOK(t)
    BY <1>6 DEF Sound, PromisesOK
  <2>2. PairsOK(t)
    BY <1>6, <1>9 DEF Sound, PairsOK
  <2>3. ReactsOK(t)
    BY <1>6, <1>10, <1>11 DEF Sound, ReactsOK
  <2>4. Locked(t)
    BY <1>6 DEF Sound, Locked
  <2> QED
    BY <2>1, <2>2, <2>3, <2>4
<1>14. ReactionJobsOK(t)
  BY <1>6, <1>7, <1>11, SMTT(60) DEF Sound, ReactionJobsOK
<1>15. ThenableJobsOK(t)
  <2>1. ThenableJobsOK(s)
    BY DEF Sound
  <2>2. ASSUME NEW i \in Jobs(t, "thenable")
        PROVE  /\ t.state[t.jobs[i].of] = "pending" /\ t.follows[t.jobs[i].of] = t.jobs[i].to
               /\ \A q \in Pairs : Open(t, q) => t.pair[q].of # t.jobs[i].of
    BY <1>6, <1>7, <1>9, <2>1, <2>2, SMTT(30) DEF ThenableJobsOK
  <2>3. ASSUME NEW i \in Jobs(t, "thenable"), NEW k \in Jobs(t, "thenable"), t.jobs[k].of = t.jobs[i].of
        PROVE  k = i
    <3>1. k + 1 = i + 1 /\ i \in Nat /\ k \in Nat
      BY <1>7, <2>1, <2>3 DEF ThenableJobsOK
    <3> QED
      BY <3>1
  <2> QED
    BY <2>2, <2>3 DEF ThenableJobsOK
<1>16. Private(t)
  <2>1. Private(s)
    BY DEF Sound
  <2>2. ASSUME NEW i \in Jobs(t, "reaction"), t.jobs[i].derived # None PROVE Public(t, t.jobs[i].derived)
    BY <1>7, <1>12, <2>1, <2>2 DEF Private
  <2> QED
    BY <1>6, <1>10, <1>12, <2>1, <2>2 DEF Private
<1>17. ASSUME Head(s.jobs).kind = "thenable" PROVE Free(t, Head(s.jobs).of)
  <2>1. 1 \in Jobs(s, "thenable") /\ ThenableJobsOK(s)
    BY <1>5, <1>17 DEF Jobs, Sound
  <2>2. ASSUME NEW i \in Jobs(t, "thenable") PROVE t.jobs[i].of # s.jobs[1].of
    BY <1>7, <2>1, <2>2 DEF ThenableJobsOK
  <2> QED
    BY <1>5, <1>6, <1>9, <2>1, <2>2 DEF ThenableJobsOK, Free
<1>18. ASSUME NEW x \in Promises, Followed(s, x),
              Head(s.jobs).kind = "thenable" => Head(s.jobs).of # x,
              Head(s.jobs).kind = "reaction" /\ Head(s.jobs).handler \in Pairs /\ Open(s, Head(s.jobs).handler) =>
                s.pair[Head(s.jobs).handler].of # x
       PROVE  Followed(t, x)
  <2>1. ASSUME NEW i \in Jobs(s, "thenable"), s.jobs[i].of = x
        PROVE  \E k \in Jobs(t, "thenable") : t.jobs[k].of = x
    <3>1. i # 1
      BY <1>5, <1>18, <2>1 DEF Jobs
    <3>2. PICK k \in Jobs(t, "thenable") : t.jobs[k] = s.jobs[i]
      BY <1>8, <2>1, <3>1
    <3> QED
      BY <2>1, <3>2
  <2>2. ASSUME NEW q \in Pairs, NEW i \in Jobs(s, "reaction"), Open(s, q), s.pair[q].of = x, s.jobs[i].handler = q
        PROVE  \E k \in Jobs(t, "reaction") : t.jobs[k].handler = q
    <3>1. i # 1
      BY <1>5, <1>18, <2>2 DEF Jobs
    <3>2. PICK k \in Jobs(t, "reaction") : t.jobs[k] = s.jobs[i]
      BY <1>8, <2>2, <3>1
    <3> QED
      BY <2>2, <3>2
  <2> QED
    <3>1. \A i \in Jobs(s, "thenable") : s.jobs[i].of = x => \E k \in Jobs(t, "thenable") : t.jobs[k].of = x
      BY <2>1
    <3>2. \A q \in Pairs : \A i \in Jobs(s, "reaction") :
            Open(s, q) /\ s.pair[q].of = x /\ s.jobs[i].handler = q =>
              \E k \in Jobs(t, "reaction") : t.jobs[k].handler = q
      BY <2>2
    <3>3. \A q \in Pairs : Open(s, q) /\ s.pair[q].of = x => Open(t, q) /\ t.pair[q].of = x
      BY <1>6, <1>9
    <3>4. Followed(s, x) /\ t.follows[x] = s.follows[x] /\ t.state = s.state /\ t.reacts = s.reacts
      BY <1>6, <1>18
    <3> QED
      BY <1>10, <3>1, <3>2, <3>3, <3>4, StillFollowed
<1>19. Sound(t)
  BY <1>4, <1>13, <1>14, <1>15, <1>16 DEF Sound
<1> QED
  BY <1>5, <1>6, <1>17, <1>18, <1>19

\* A reaction is registered: it waits for the promise, or its job is queued.
Registrable(s, p, r) ==
  /\ s.state[p] # "none" /\ r \in ReactionType
  /\ Waits(s, p, r.derived, r.fulfilled) /\ Waits(s, p, r.derived, r.rejected)
  /\ r.derived = None => r.fulfilled = r.rejected
  /\ r.derived # None => Public(s, r.derived)

\* what Registered leaves alone
Around(s, t) ==
  /\ t \in StateType /\ t.state = s.state /\ t.result = s.result
  /\ t.pair = s.pair /\ t.follows = s.follows

\* A reaction is appended to those of a pending promise.
LEMMA RegistersWaiting ==
  ASSUME NEW s, Sound(s), NEW p \in Promises, NEW r, Registrable(s, p, r), s.state[p] = "pending",
         NEW t, t = Registered(s, p, r)
  PROVE  /\ Around(s, t) /\ t.jobs = s.jobs
         /\ \A x \in Promises : x # p => t.reacts[x] = s.reacts[x]
         /\ Len(s.reacts[p]) \in Nat /\ Len(t.reacts[p]) = Len(s.reacts[p]) + 1
         /\ \A i \in 1 .. Len(s.reacts[p]) : t.reacts[p][i] = s.reacts[p][i]
         /\ t.reacts[p][Len(s.reacts[p]) + 1] = r
<1>1. s \in StateType /\ s.reacts \in [Promises -> Seq(ReactionType)] /\ s.reacts[p] \in Seq(ReactionType)
      /\ r \in ReactionType
  BY DEF Sound, StateType, Registrable
<1>2. t = [state |-> s.state, result |-> s.result, reacts |-> [s.reacts EXCEPT ![p] = Append(s.reacts[p], r)],
           pair |-> s.pair, jobs |-> s.jobs, follows |-> s.follows]
  BY <1>1 DEF Registered, StateType
<1>3. /\ Append(s.reacts[p], r) \in Seq(ReactionType) /\ Len(Append(s.reacts[p], r)) = Len(s.reacts[p]) + 1
      /\ \A i \in 1 .. Len(s.reacts[p]) : Append(s.reacts[p], r)[i] = s.reacts[p][i]
      /\ Append(s.reacts[p], r)[Len(s.reacts[p]) + 1] = r
      /\ Len(s.reacts[p]) \in Nat
  BY <1>1, AppendProperties, LenProperties
<1>4. t.reacts \in [Promises -> Seq(ReactionType)] /\ t.reacts[p] = Append(s.reacts[p], r)
      /\ \A x \in Promises : x # p => t.reacts[x] = s.reacts[x]
  BY <1>1, <1>2, <1>3
<1>5. t \in StateType
  BY <1>1, <1>2, <1>4 DEF StateType
<1> QED
  BY <1>2, <1>3, <1>4, <1>5 DEF Around

\* A reaction of a settled promise is queued at once.
LEMMA RegistersJob ==
  ASSUME NEW s, Sound(s), NEW p \in Promises, NEW r, Registrable(s, p, r), s.state[p] # "pending",
         NEW t, t = Registered(s, p, r)
  PROVE  /\ Around(s, t) /\ t.reacts = s.reacts /\ s.state[p] \in Settling
         /\ Len(s.jobs) \in Nat /\ Len(t.jobs) = Len(s.jobs) + 1
         /\ \A i \in 1 .. Len(s.jobs) : t.jobs[i] = s.jobs[i]
         /\ t.jobs[Len(s.jobs) + 1] = ReactionJob(p, r, s.state[p], s.result[p])
<1> DEFINE j == ReactionJob(p, r, s.state[p], s.result[p])
<1>1. s \in StateType /\ s.jobs \in Seq(JobType) /\ s.state[p] \in Settling /\ s.result[p] \in Values /\ r \in ReactionType
  BY DEF Sound, StateType, States, Registrable
<1>2. r[s.state[p]] \in HandlerType
  BY <1>1 DEF ReactionType, Settling
<1>3. j \in JobType
  BY <1>1, <1>2 DEF ReactionJob, JobType, ReactionJobType, ReactionType
<1> HIDE DEF j
<1>4. t = [state |-> s.state, result |-> s.result, reacts |-> s.reacts,
           pair |-> s.pair, jobs |-> Append(s.jobs, j), follows |-> s.follows]
  BY <1>1 DEF Registered, StateType, j
<1>5. /\ Append(s.jobs, j) \in Seq(JobType) /\ Len(Append(s.jobs, j)) = Len(s.jobs) + 1
      /\ \A i \in 1 .. Len(s.jobs) : Append(s.jobs, j)[i] = s.jobs[i]
      /\ Append(s.jobs, j)[Len(s.jobs) + 1] = j
      /\ Len(s.jobs) \in Nat
  BY <1>1, <1>3, AppendProperties, LenProperties
<1>6. t \in StateType
  BY <1>1, <1>4, <1>5 DEF StateType
<1> QED
  BY <1>1, <1>4, <1>5, <1>6 DEF Around, j

\* Both keep the record sound.
LEMMA RegistersSound ==
  ASSUME NEW s, Sound(s), NEW p \in Promises, NEW r, Registrable(s, p, r), NEW t, t = Registered(s, p, r)
  PROVE  /\ Sound(t) /\ Around(s, t)
         /\ \A x \in Promises : Followed(s, x) => Followed(t, x)
         /\ \A q \in Pairs : r.derived = None /\ r.fulfilled = q /\ Open(s, q) /\ s.follows[s.pair[q].of] = p =>
              Followed(t, s.pair[q].of)
<1>1. s \in StateType /\ Around(s, t)
  BY RegistersWaiting, RegistersJob DEF Sound
<1>2. t \in StateType /\ t.state = s.state /\ t.result = s.result /\ t.pair = s.pair /\ t.follows = s.follows
  BY <1>1 DEF Around
<1>3. \A q : Open(t, q) <=> Open(s, q)
  BY <1>2 DEF Open
<1>4. \A x, d, h : Waits(t, x, d, h) <=> Waits(s, x, d, h)
  BY <1>2, <1>3 DEF Waits
<1>5. \A q : Public(t, q) <=> Public(s, q)
  BY <1>2, <1>3 DEF Public
<1>6. /\ \A x \in Promises : \A i \in Reacts(t, x) :
           \/ i \in Reacts(s, x) /\ t.reacts[x][i] = s.reacts[x][i]
           \/ x = p /\ t.reacts[x][i] = r /\ s.state[p] = "pending"
      /\ \A x \in Promises : \A i \in Reacts(s, x) : i \in Reacts(t, x) /\ t.reacts[x][i] = s.reacts[x][i]
      /\ s.state[p] = "pending" => \E i \in Reacts(t, p) : t.reacts[p][i] = r
  <2>1. CASE s.state[p] = "pending"
    <3>1. /\ \A x \in Promises : x # p => t.reacts[x] = s.reacts[x]
          /\ Len(s.reacts[p]) \in Nat /\ Len(t.reacts[p]) = Len(s.reacts[p]) + 1
          /\ \A i \in 1 .. Len(s.reacts[p]) : t.reacts[p][i] = s.reacts[p][i]
          /\ t.reacts[p][Len(s.reacts[p]) + 1] = r
      BY <2>1, RegistersWaiting
    <3>2. ASSUME NEW i PROVE i \in Reacts(t, p) <=> i \in Reacts(s, p) \/ i = Len(s.reacts[p]) + 1
      BY <3>1 DEF Reacts
    <3> QED
      BY <2>1, <3>1, <3>2 DEF Reacts
  <2>2. CASE s.state[p] # "pending"
    <3>1. t.reacts = s.reacts
      BY <2>2, RegistersJob
    <3> QED
      BY <2>2, <3>1 DEF Reacts
  <2> QED
    BY <2>1, <2>2
<1>7. /\ \A i \in 1 .. Len(t.jobs) :
           \/ i \in 1 .. Len(s.jobs) /\ t.jobs[i] = s.jobs[i]
           \/ /\ t.jobs[i] = ReactionJob(p, r, s.state[p], s.result[p])
              /\ s.state[p] \in Settling
      /\ \A i \in 1 .. Len(s.jobs) : i \in 1 .. Len(t.jobs) /\ t.jobs[i] = s.jobs[i]
      /\ s.state[p] # "pending" =>
           /\ s.state[p] \in Settling
           /\ \E i \in 1 .. Len(t.jobs) : t.jobs[i] = ReactionJob(p, r, s.state[p], s.result[p])
  <2>1. CASE s.state[p] = "pending"
    <3>1. t.jobs = s.jobs
      BY <2>1, RegistersWaiting
    <3> QED
      BY <2>1, <3>1
  <2>2. CASE s.state[p] # "pending"
    <3>1. /\ s.state[p] \in Settling
          /\ Len(s.jobs) \in Nat /\ Len(t.jobs) = Len(s.jobs) + 1
          /\ \A i \in 1 .. Len(s.jobs) : t.jobs[i] = s.jobs[i]
          /\ t.jobs[Len(s.jobs) + 1] = ReactionJob(p, r, s.state[p], s.result[p])
      BY <2>2, RegistersJob
    <3>2. ASSUME NEW i PROVE i \in 1 .. Len(t.jobs) <=> i \in 1 .. Len(s.jobs) \/ i = Len(s.jobs) + 1
      BY <3>1
    <3> QED
      BY <2>2, <3>1, <3>2
  <2> QED
    BY <2>1, <2>2
<1>8. ASSUME NEW i PROVE i \in Jobs(t, "thenable") <=> i \in Jobs(s, "thenable")
  <2>1. ReactionJob(p, r, s.state[p], s.result[p]).kind # "thenable"
    BY DEF ReactionJob
  <2> QED
    BY <1>7, <2>1 DEF Jobs
<1>9. ASSUME NEW i \in Jobs(t, "reaction")
      PROVE  \/ i \in Jobs(s, "reaction") /\ t.jobs[i] = s.jobs[i]
             \/ t.jobs[i] = ReactionJob(p, r, s.state[p], s.result[p]) /\ s.state[p] \in Settling
  BY <1>7, <1>9 DEF Jobs
<1>10. Waits(s, p, r.derived, r.fulfilled) /\ Waits(s, p, r.derived, r.rejected)
       /\ (r.derived = None => r.fulfilled = r.rejected) /\ (r.derived # None => Public(s, r.derived))
  BY DEF Registrable
<1>11. PromisesOK(t)
  <2>1. PromisesOK(s)
    BY DEF Sound
  <2>2. ASSUME NEW x \in Promises, s.state[x] # "pending" PROVE t.reacts[x] = <<>>
    <3>1. s.reacts[x] = <<>> /\ Reacts(s, x) = {}
      BY <2>1, <2>2 DEF PromisesOK, Reacts
    <3>2. Reacts(t, x) = {}
      BY <1>6, <2>2, <3>1
    <3>3. t.reacts[x] \in Seq(ReactionType)
      BY <1>2 DEF StateType
    <3> QED
      BY <3>2, <3>3, EmptySeq DEF Reacts
  <2> QED
    BY <1>2, <2>1, <2>2 DEF PromisesOK
<1>12. PairsOK(t)
  BY <1>2, <1>3 DEF Sound, PairsOK
<1>13. ReactsOK(t)
  BY <1>4, <1>6, <1>10 DEF Sound, ReactsOK
<1>14. ReactionJobsOK(t)
  <2>1. ASSUME NEW i \in Jobs(t, "reaction"), t.jobs[i] = ReactionJob(p, r, s.state[p], s.result[p]),
               s.state[p] \in Settling
        PROVE  /\ t.jobs[i].was = t.state[t.jobs[i].on] /\ t.jobs[i].arg = t.result[t.jobs[i].on]
               /\ Waits(t, t.jobs[i].on, t.jobs[i].derived, t.jobs[i].handler)
    BY <1>2, <1>4, <1>10, <2>1 DEF ReactionJob, Settling
  <2>2. ASSUME NEW i \in Jobs(t, "reaction"), i \in Jobs(s, "reaction"), t.jobs[i] = s.jobs[i]
        PROVE  /\ t.jobs[i].was = t.state[t.jobs[i].on] /\ t.jobs[i].arg = t.result[t.jobs[i].on]
               /\ Waits(t, t.jobs[i].on, t.jobs[i].derived, t.jobs[i].handler)
    BY <1>2, <1>4, <2>2 DEF Sound, ReactionJobsOK
  <2> QED
    BY <1>9, <2>1, <2>2 DEF ReactionJobsOK
<1>15. ThenableJobsOK(t)
  <2>1. ASSUME NEW i \in Jobs(t, "thenable") PROVE i \in Jobs(s, "thenable") /\ t.jobs[i] = s.jobs[i]
    BY <1>7, <1>8, <2>1 DEF Jobs
  <2> QED
    BY <1>2, <1>3, <2>1 DEF Sound, ThenableJobsOK
<1>16. Private(t)
  <2>1. Private(s)
    BY DEF Sound
  <2>2. ASSUME NEW i \in Jobs(t, "reaction"), t.jobs[i].derived # None PROVE Public(t, t.jobs[i].derived)
    <3>1. ReactionJob(p, r, s.state[p], s.result[p]).derived = r.derived
      BY DEF ReactionJob
    <3> QED
      BY <1>5, <1>9, <1>10, <2>1, <2>2, <3>1 DEF Private
  <2>3. ASSUME NEW x \in Promises, NEW i \in Reacts(t, x), t.reacts[x][i].derived # None
        PROVE  Public(t, t.reacts[x][i].derived)
    BY <1>5, <1>6, <1>10, <2>1, <2>3 DEF Private
  <2> QED
    BY <1>2, <1>5, <2>1, <2>2, <2>3 DEF Private
<1>17. Locked(t)
  BY <1>2 DEF Sound, Locked
<1>18. ASSUME NEW x \in Promises, Followed(s, x) PROVE Followed(t, x)
  <2>1. CASE s.follows[x] \in Promises
    <3>1. \A i \in Reacts(s, s.follows[x]) :
            /\ i \in Reacts(t, s.follows[x])
            /\ t.reacts[s.follows[x]][i].fulfilled = s.reacts[s.follows[x]][i].fulfilled
      BY <1>6, <2>1
    <3>2. \A i \in Jobs(s, "thenable") : i \in Jobs(t, "thenable") /\ t.jobs[i] = s.jobs[i]
      BY <1>7 DEF Jobs
    <3>3. \A i \in Jobs(s, "reaction") : i \in Jobs(t, "reaction") /\ t.jobs[i] = s.jobs[i]
      BY <1>7 DEF Jobs
    <3> QED
      BY <1>2, <1>3, <1>18, <3>1, <3>2, <3>3, StillFollowed, SMTT(30)
  <2>2. CASE s.follows[x] \notin Promises
    BY <1>2, <2>2 DEF Followed
  <2> QED
    BY <2>1, <2>2
<1>19. ASSUME NEW q \in Pairs, r.derived = None, r.fulfilled = q, Open(s, q), s.follows[s.pair[q].of] = p
       PROVE  Followed(t, s.pair[q].of)
  <2>1. Open(t, q) /\ t.pair[q].of = s.pair[q].of /\ t.follows[s.pair[q].of] = p
    BY <1>2, <1>3, <1>19
  <2>2. CASE s.state[p] = "pending"
    BY <1>6, <1>19, <2>1, <2>2 DEF Followed
  <2>3. CASE s.state[p] # "pending"
    <3>1. PICK i \in 1 .. Len(t.jobs) : t.jobs[i] = ReactionJob(p, r, s.state[p], s.result[p])
      BY <1>7, <2>3
    <3>2. r[s.state[p]] = q
      BY <1>7, <1>10, <1>19, <2>3 DEF Settling
    <3>3. i \in Jobs(t, "reaction") /\ t.jobs[i].handler = q
      BY <3>1, <3>2 DEF ReactionJob, Jobs
    <3> QED
      BY <2>1, <3>3 DEF Followed
  <2> QED
    BY <2>2, <2>3
<1>20. Sound(t)
  BY <1>2, <1>11, <1>12, <1>13, <1>14, <1>15, <1>16, <1>17 DEF Sound
<1> QED
  BY <1>1, <1>18, <1>19, <1>20

\* A resolving function is called, by whoever may call it.
MayAnswer(s, q, how, v) ==
  /\ how = "fulfilled" /\ v \in Promises => s.state[v] # "none"
  /\ Open(s, q) /\ s.follows[s.pair[q].of] \in Promises =>
       /\ s.state[s.follows[s.pair[q].of]] \in Settling
       /\ how = s.state[s.follows[s.pair[q].of]] /\ v = s.result[s.follows[s.pair[q].of]]

\* Every outcome of js_promise_resolve_function_call keeps the record sound.
LEMMA ResolvesSound ==
  ASSUME NEW s, Sound(s), NEW q \in Pairs, s.pair[q] # None, NEW how \in Settling, NEW v \in Values,
         MayAnswer(s, q, how, v), NEW t \in Resolved(s, q, how, v)
  PROVE  /\ Sound(t)
         /\ \A r \in Pairs : s.pair[r] # None => /\ t.pair[r] # None
                                                 /\ Public(s, r) => Public(t, r)
         /\ \A x \in Promises : Followed(s, x) \/ (Open(s, q) /\ x = s.pair[q].of) => Followed(t, x)
<1>1. CASE ~Open(s, q)
  BY <1>1 DEF Resolved, Open
<1>2. CASE Open(s, q)
  <2> PICK p : p = s.pair[q].of
    OBVIOUS
  <2> PICK m : m = Marked(s, q)
    OBVIOUS
  <2>1. p \in Promises /\ s \in StateType /\ PromisesOK(s)
    BY PairsTyped DEF Sound
  <2>2. /\ Sound(m) /\ MarkedTo(s, q, m) /\ Free(m, p)
        /\ \A x \in Promises : x # p /\ Followed(s, x) => Followed(m, x)
    BY <1>2, MarksSound
  <2>3. m.state = s.state /\ m.result = s.result /\ m.follows = s.follows
    BY <2>2 DEF MarkedTo
  <2>4. /\ how = "fulfilled" /\ v \in Promises => s.state[v] # "none"
        /\ s.follows[p] \in Promises => /\ s.state[s.follows[p]] \in Settling
                                        /\ how = s.state[s.follows[p]] /\ v = s.result[s.follows[p]]
    BY <1>2 DEF MayAnswer
  <2>5. how = "fulfilled" /\ v \in Promises => s.follows[p] \notin Promises
    BY <2>1, <2>4 DEF PromisesOK
  <2>6. ASSUME NEW st \in Settling, NEW w \in Values, t = SettledAs(m, p, st, w), Faithful(m, p, st, w)
        PROVE  /\ Sound(t) /\ t.pair = m.pair /\ t.follows = m.follows
               /\ \A x \in Promises : x = p \/ Followed(m, x) => Followed(t, x)
    <3>1. /\ Sound(t) /\ SettledTo(m, p, st, w, t)
          /\ \A x \in Promises : x = p \/ Followed(m, x) => Followed(t, x)
      BY <2>1, <2>2, <2>6, SettlesSound
    <3> QED
      BY <3>1 DEF SettledTo
  <2>7. ASSUME how = "fulfilled", v \in Promises \cup Foreigns, v \in Promises => v # p, t = QueuedFor(m, p, v)
        PROVE  /\ Sound(t) /\ t.pair = m.pair /\ (\A x \in Promises : x # p => t.follows[x] = m.follows[x])
               /\ \A x \in Promises : x = p \/ Followed(m, x) => Followed(t, x)
    <3>1. /\ Sound(t) /\ QueuedTo(m, p, v, t) /\ Followed(t, p)
          /\ \A x \in Promises : x # p /\ Followed(m, x) => Followed(t, x)
      <4>1. /\ Sound(m) /\ p \in Promises /\ Free(m, p) /\ v \in Promises \cup Foreigns
            /\ t = QueuedFor(m, p, v)
        BY <2>1, <2>2, <2>7
      <4>2. v \in Promises => v # p /\ m.state[v] # "none"
        BY <2>3, <2>4, <2>7
      <4> QED
        BY <4>1, <4>2, QueuesSound, SMTT(30)
    <3> QED
      BY <3>1 DEF QueuedTo
  <2>8. /\ Sound(t) /\ t.pair = m.pair /\ (\A x \in Promises : x # p => t.follows[x] = m.follows[x])
        /\ \A x \in Promises : x = p \/ Followed(m, x) => Followed(t, x)
    <3>1. CASE how = "rejected" \/ v \notin Promises \cup Foreigns
      <4>1. t = SettledAs(m, p, how, v)
        BY <1>2, <3>1 DEF Resolved, Marked, Open
      <4>2. Faithful(m, p, how, v)
        BY <2>3, <2>4, <3>1 DEF Faithful
      <4> QED
        BY <2>6, <4>1, <4>2
    <3>2. CASE ~(how = "rejected" \/ v \notin Promises \cup Foreigns) /\ v = p
      <4>1. t = SettledAs(m, p, "rejected", Error)
        BY <1>2, <3>2 DEF Resolved, Marked, Open
      <4>2. "rejected" \in Settling /\ Error \in Values /\ how = "fulfilled"
        BY <3>2 DEF Settling, Values
      <4>3. Faithful(m, p, "rejected", Error)
        BY <2>1, <2>3, <2>5, <3>2, <4>2 DEF Faithful
      <4> QED
        BY <2>6, <4>1, <4>2, <4>3
    <3>3. CASE ~(how = "rejected" \/ v \notin Promises \cup Foreigns) /\ v # p /\ v \in Foreigns
      <4>1. \/ t = QueuedFor(m, p, v)
            \/ t = SettledAs(m, p, "fulfilled", v)
            \/ t = SettledAs(m, p, "rejected", Error)
        BY <1>2, <3>3 DEF Resolved, Marked, Open, QueuedFor
      <4>2. /\ "rejected" \in Settling /\ "fulfilled" \in Settling /\ Error \in Values /\ how = "fulfilled"
            /\ v \notin Promises
        BY <3>3, PromiseAssumption DEF Settling, Values
      <4>3. Faithful(m, p, "fulfilled", v) /\ Faithful(m, p, "rejected", Error)
        BY <2>3, <2>4, <3>3, <4>2 DEF Faithful
      <4> QED
        BY <2>6, <2>7, <3>3, <4>1, <4>2, <4>3
    <3>4. CASE ~(how = "rejected" \/ v \notin Promises \cup Foreigns) /\ v # p /\ v \notin Foreigns
      <4>1. t = QueuedFor(m, p, v)
        BY <1>2, <3>4 DEF Resolved, Marked, Open, QueuedFor
      <4>2. how = "fulfilled"
        BY <3>4 DEF Settling
      <4> QED
        BY <2>7, <3>4, <4>1, <4>2
    <3> QED
      BY <3>1, <3>2, <3>3, <3>4
  <2>9. ASSUME NEW r \in Pairs, s.pair[r] # None
        PROVE  t.pair[r] # None /\ (Public(s, r) => Public(t, r))
    <3>1. CASE r = q
      BY <2>2, <2>8, <3>1 DEF MarkedTo, Public, Open
    <3>2. CASE r # q
      <4>1. t.pair[r] = s.pair[r] /\ s.pair[r].of \in Promises
        BY <2>1, <2>2, <2>8, <2>9, <3>2, PairsTyped DEF MarkedTo
      <4>2. ASSUME Open(s, r) PROVE s.pair[r].of # p
        BY <1>2, <3>2, <4>2 DEF Sound, PairsOK
      <4> QED
        BY <2>3, <2>8, <2>9, <4>1, <4>2 DEF Public, Open
    <3> QED
      BY <3>1, <3>2
  <2> QED
    BY <2>2, <2>8, <2>9
<1> QED
  BY <1>1, <1>2

-----------------------------------------------------------------------------
(* What the engine's calls do to the order of the reactions.               *)

\* A step that moves every reaction on, or leaves it, and lets none overtake.
Keeps(s, t, ra, rb) ==
  /\ rb \in Seq(Promises \X Pairs)
  /\ \A q \in Pairs : s.pair[q] # None => t.pair[q] # None
  /\ \A e \in Promises \X Pairs, n \in 0 .. 2, i \in Nat :
       Stage(s, ra, n, i, e) => \E o \in 0 .. 2, j \in Nat : Stage(t, rb, o, j, e)
  /\ \A e \in Promises \X Pairs, o \in 0 .. 2, j \in Nat :
       Stage(t, rb, o, j, e) => \E n \in 0 .. 2, i \in Nat : Stage(s, ra, n, i, e)
  /\ \A e \in Promises \X Pairs, o, m \in 0 .. 2, j, i \in Nat :
       Stage(t, rb, o, j, e) /\ Stage(t, rb, m, i, e) => o = m /\ j = i
  /\ \A e, f \in Promises \X Pairs, n, o, m, l \in 0 .. 2, i, j, h, k \in Nat :
       /\ e[1] = f[1] /\ Stage(s, ra, n, i, e) /\ Stage(s, ra, o, j, f) /\ Before(n, i, o, j)
       /\ Stage(t, rb, m, h, e) /\ Stage(t, rb, l, k, f)
       => Before(m, h, l, k)

\* Such a step keeps the reactions in order.
LEMMA OrderKept ==
  ASSUME NEW s, NEW t, NEW as, NEW ra, NEW rb, Ordered(s, as, ra), Keeps(s, t, ra, rb)
  PROVE  Ordered(t, as, rb)
<1>a. /\ rb \in Seq(Promises \X Pairs)
      /\ \A q \in Pairs : s.pair[q] # None => t.pair[q] # None
      /\ \A e \in Promises \X Pairs, n \in 0 .. 2, i \in Nat :
           Stage(s, ra, n, i, e) => \E o \in 0 .. 2, j \in Nat : Stage(t, rb, o, j, e)
      /\ \A e \in Promises \X Pairs, o \in 0 .. 2, j \in Nat :
           Stage(t, rb, o, j, e) => \E n \in 0 .. 2, i \in Nat : Stage(s, ra, n, i, e)
      /\ \A e \in Promises \X Pairs, o, m \in 0 .. 2, j, i \in Nat :
           Stage(t, rb, o, j, e) /\ Stage(t, rb, m, i, e) => o = m /\ j = i
  BY DEF Keeps
<1>b. \A e, f \in Promises \X Pairs, n, o, m, l \in 0 .. 2, i, j, h, k \in Nat :
        /\ e[1] = f[1] /\ Stage(s, ra, n, i, e) /\ Stage(s, ra, o, j, f) /\ Before(n, i, o, j)
        /\ Stage(t, rb, m, h, e) /\ Stage(t, rb, l, k, f)
        => Before(m, h, l, k)
  BY DEF Keeps
<1>1. as \in Seq(Promises \X Pairs) /\ \A k \in 1 .. Len(as) : as[k] \in Promises \X Pairs
  <2>1. as \in Seq(Promises \X Pairs)
    BY DEF Ordered
  <2> QED
    BY <2>1, ElementOfSeq
<1>2. \A k, m \in 1 .. Len(as) : as[k] = as[m] => k = m
  BY DEF Ordered
<1>3. \A k \in 1 .. Len(as) : t.pair[as[k][2]] # None
  BY <1>1, <1>a DEF Ordered
<1>4. \A k \in 1 .. Len(as) : \E n \in 0 .. 2 : \E i \in Nat : Stage(t, rb, n, i, as[k])
  BY <1>1, <1>a DEF Ordered
<1>5. \A n \in 0 .. 2, i \in Nat, e \in Promises \X Pairs : Stage(t, rb, n, i, e) => \E k \in 1 .. Len(as) : as[k] = e
  BY <1>a, ZenonT(60) DEF Ordered
<1>6. ASSUME NEW k \in 1 .. Len(as), NEW m \in 1 .. Len(as), k < m, as[k][1] = as[m][1],
             NEW n \in 0 .. 2, NEW o \in 0 .. 2, NEW i \in Nat, NEW j \in Nat,
             Stage(t, rb, n, i, as[k]), Stage(t, rb, o, j, as[m])
      PROVE  Before(n, i, o, j)
  <2>1. PICK a \in 0 .. 2, b \in Nat : Stage(s, ra, a, b, as[k])
    BY <1>1, <1>6, <1>a
  <2>2. PICK c \in 0 .. 2, d \in Nat : Stage(s, ra, c, d, as[m])
    BY <1>1, <1>6, <1>a
  <2>3. Before(a, b, c, d)
    BY <1>6, <2>1, <2>2 DEF Ordered
  <2> QED
    BY <1>1, <1>6, <1>b, <2>1, <2>2, <2>3
<1>7. \A k, m \in 1 .. Len(as) : k < m /\ as[k][1] = as[m][1] =>
        \A n, o \in 0 .. 2, i, j \in Nat :
          Stage(t, rb, n, i, as[k]) /\ Stage(t, rb, o, j, as[m]) => Before(n, i, o, j)
  BY <1>6
<1>8. \A n, o \in 0 .. 2, i, j \in Nat, e \in Promises \X Pairs :
        Stage(t, rb, n, i, e) /\ Stage(t, rb, o, j, e) => n = o /\ i = j
  BY <1>a
<1> QED
  BY <1>1, <1>2, <1>a, <1>3, <1>4, <1>5, <1>7, <1>8, Zenon DEF Ordered

\* A step that leaves every reaction where it is.
LEMMA OrderSame ==
  ASSUME NEW s, NEW t, NEW as, NEW ra, Ordered(s, as, ra),
         \A q \in Pairs : s.pair[q] # None => t.pair[q] # None,
         \A e \in Promises \X Pairs, n \in 0 .. 2, i \in Nat : Stage(t, ra, n, i, e) <=> Stage(s, ra, n, i, e)
  PROVE  Ordered(t, as, ra)
<1>1. ra \in Seq(Promises \X Pairs)
  BY DEF Ordered
<1>2. \A e \in Promises \X Pairs, o, m \in 0 .. 2, j, i \in Nat :
        Stage(s, ra, o, j, e) /\ Stage(s, ra, m, i, e) => o = m /\ j = i
  BY DEF Ordered
<1>4. \A e \in Promises \X Pairs, o, m \in 0 .. 2, j, i \in Nat :
        Stage(t, ra, o, j, e) /\ Stage(t, ra, m, i, e) => o = m /\ j = i
  BY <1>2
<1>5. \A e \in Promises \X Pairs, n \in 0 .. 2, i \in Nat :
        Stage(s, ra, n, i, e) => \E o \in 0 .. 2, j \in Nat : Stage(t, ra, o, j, e)
  OBVIOUS
<1>6. \A e \in Promises \X Pairs, n \in 0 .. 2, i \in Nat :
        Stage(t, ra, n, i, e) => \E o \in 0 .. 2, j \in Nat : Stage(s, ra, o, j, e)
  OBVIOUS
<1>7. \A e, f \in Promises \X Pairs, n, o, m, l \in 0 .. 2, i, j, h, k \in Nat :
        /\ e[1] = f[1] /\ Stage(s, ra, n, i, e) /\ Stage(s, ra, o, j, f) /\ Before(n, i, o, j)
        /\ Stage(t, ra, m, h, e) /\ Stage(t, ra, l, k, f)
        => Before(m, h, l, k)
  <2> TAKE e, f \in Promises \X Pairs, n, o, m, l \in 0 .. 2, i, j, h, k \in Nat
  <2> HAVE /\ e[1] = f[1] /\ Stage(s, ra, n, i, e) /\ Stage(s, ra, o, j, f) /\ Before(n, i, o, j)
           /\ Stage(t, ra, m, h, e) /\ Stage(t, ra, l, k, f)
  <2>1. m = n /\ h = i /\ l = o /\ k = j
    BY <1>2
  <2> QED
    BY <2>1
<1>8. Keeps(s, t, ra, ra)
  BY <1>1, <1>4, <1>5, <1>6, <1>7, Zenon DEF Keeps
<1> QED
  BY <1>8, OrderKept

\* What is known of one stage.
LEMMA Stages ==
  ASSUME NEW s, NEW ra, NEW i, NEW e
  PROVE  /\ Stage(s, ra, 0, i, e) <=> i \in 1 .. Len(ra) /\ ra[i] = e
         /\ Stage(s, ra, 1, i, e) <=> /\ i \in Jobs(s, "reaction") /\ s.jobs[i].derived # None
                                      /\ e = <<s.jobs[i].on, s.jobs[i].derived>>
         /\ Stage(s, ra, 2, i, e) <=> \E p \in Promises : /\ i \in Reacts(s, p) /\ s.reacts[p][i].derived # None
                                                          /\ e = <<p, s.reacts[p][i].derived>>
BY DEF Stage

\* The indexes of two sequences, of lengths a and b, put one behind the other.
Shifts(a, b, c) ==
  /\ \A i \in 1 .. a : i \in 1 .. c /\ i \in Nat \ {0}
  /\ \A i \in 1 .. b : a + i \in 1 .. c /\ a + i > a /\ a + i \in Nat /\ i \in Nat \ {0}
  /\ \A i \in 1 .. c : i \in 1 .. a \/ \E k \in 1 .. b : i = a + k /\ k = i - a /\ i > a /\ i \in Nat /\ k \in Nat

\* Where an index of the whole is in its parts.
LEMMA Shifted ==
  ASSUME NEW a \in Nat, NEW b \in Nat, NEW c, c = a + b
  PROVE  Shifts(a, b, c)
<1>1. ASSUME NEW i \in 1 .. c, ~(i \in 1 .. a)
      PROVE  \E k \in 1 .. b : i = a + k /\ k = i - a /\ i > a /\ i \in Nat /\ k \in Nat
  <2> WITNESS i - a \in 1 .. b
  <2> QED
    BY <1>1
<1> QED
  BY <1>1 DEF Shifts

\* Settling a promise moves the reactions that wait for it behind all jobs.
LEMMA SettlesOrder ==
  ASSUME NEW s \in StateType, NEW as, NEW ra, Ordered(s, as, ra), NEW p \in Promises,
         NEW st \in Settling, NEW v, NEW t, SettledTo(s, p, st, v, t)
  PROVE  Ordered(t, as, ra)
<1> PICK a : a = Len(s.jobs)
  OBVIOUS
<1>1. a \in Nat /\ Len(s.reacts[p]) \in Nat /\ Len(t.jobs) = a + Len(s.reacts[p]) /\ t.pair = s.pair
  BY DEF SettledTo
<1>2. \A i \in 1 .. a : t.jobs[i] = s.jobs[i]
  BY DEF SettledTo
<1>3. \A i \in 1 .. Len(s.reacts[p]) : t.jobs[a + i] = ReactionJob(p, s.reacts[p][i], st, v)
  BY DEF SettledTo
<1>4. t.reacts[p] = <<>> /\ \A x \in Promises : x # p => t.reacts[x] = s.reacts[x]
  BY DEF SettledTo
<1>a. Shifts(a, Len(s.reacts[p]), Len(t.jobs))
  BY <1>1, Shifted
<1>5. ASSUME NEW i, NEW e
      PROVE  /\ Stage(t, ra, 0, i, e) <=> Stage(s, ra, 0, i, e)
             /\ Stage(s, ra, 1, i, e) => i \in 1 .. a /\ Stage(t, ra, 1, i, e)
             /\ Stage(s, ra, 2, i, e) => /\ i \in Nat \ {0}
                                         /\ e[1] = p => Stage(t, ra, 1, a + i, e)
                                         /\ e[1] # p => Stage(t, ra, 2, i, e)
             /\ Stage(t, ra, 2, i, e) => Stage(s, ra, 2, i, e) /\ e[1] # p
             /\ Stage(t, ra, 1, i, e) => \/ i \in 1 .. a /\ Stage(s, ra, 1, i, e)
                                         \/ /\ i > a /\ i - a \in Nat /\ i \in Nat
                                            /\ Stage(s, ra, 2, i - a, e) /\ e[1] = p
  <2>1. Stage(t, ra, 0, i, e) <=> Stage(s, ra, 0, i, e)
    BY Stages
  <2>2. ASSUME Stage(s, ra, 1, i, e) PROVE i \in 1 .. a /\ Stage(t, ra, 1, i, e)
    <3>0. /\ i \in Jobs(s, "reaction") /\ s.jobs[i].derived # None
          /\ e = <<s.jobs[i].on, s.jobs[i].derived>>
      BY <2>2, Stages
    <3>1. i \in 1 .. a /\ s.jobs[i].kind = "reaction"
      BY <3>0 DEF Jobs
    <3>2. i \in 1 .. Len(t.jobs) /\ t.jobs[i] = s.jobs[i]
      BY <1>2, <1>a, <3>1 DEF Shifts
    <3>3. i \in Jobs(t, "reaction")
      BY <3>1, <3>2 DEF Jobs
    <3> QED
      BY <3>0, <3>1, <3>2, <3>3, Stages
  <2>3. ASSUME Stage(s, ra, 2, i, e)
        PROVE  /\ i \in Nat \ {0}
               /\ e[1] = p => Stage(t, ra, 1, a + i, e)
               /\ e[1] # p => Stage(t, ra, 2, i, e)
    <3>1. PICK x \in Promises : /\ i \in Reacts(s, x) /\ s.reacts[x][i].derived # None
                                /\ e = <<x, s.reacts[x][i].derived>>
      BY <2>3, Stages
    <3>2. CASE x = p
      <4>0. i \in 1 .. Len(s.reacts[p])
        BY <3>1, <3>2 DEF Reacts
      <4>a. a + i \in 1 .. Len(t.jobs) /\ i \in Nat \ {0}
        BY <1>a, <4>0 DEF Shifts
      <4>b. t.jobs[a + i] = ReactionJob(p, s.reacts[p][i], st, v)
        BY <1>3, <4>0
      <4>1. a + i \in 1 .. Len(t.jobs) /\ t.jobs[a + i] = ReactionJob(p, s.reacts[p][i], st, v) /\ i \in Nat \ {0}
        BY <4>a, <4>b
      <4>2. a + i \in Jobs(t, "reaction") /\ t.jobs[a + i].derived = s.reacts[p][i].derived /\ t.jobs[a + i].on = p
        BY <4>1 DEF Jobs, ReactionJob
      <4> QED
        BY <3>1, <3>2, <4>1, <4>2, Stages
    <3>3. CASE x # p
      <4>1. i \in Reacts(t, x) /\ t.reacts[x] = s.reacts[x] /\ i \in Nat \ {0}
        BY <1>4, <3>1, <3>3 DEF Reacts
      <4> QED
        BY <3>1, <3>3, <4>1, Stages
    <3> QED
      BY <3>2, <3>3
  <2>4. ASSUME Stage(t, ra, 2, i, e) PROVE Stage(s, ra, 2, i, e) /\ e[1] # p
    <3>1. PICK x \in Promises : /\ i \in Reacts(t, x) /\ t.reacts[x][i].derived # None
                                /\ e = <<x, t.reacts[x][i].derived>>
      BY <2>4, Stages
    <3>2. x # p
      BY <1>4, <3>1 DEF Reacts
    <3>3. t.reacts[x] = s.reacts[x] /\ i \in Reacts(s, x)
      BY <1>4, <3>1, <3>2 DEF Reacts
    <3> QED
      BY <3>1, <3>2, <3>3, Stages
  <2>5. ASSUME Stage(t, ra, 1, i, e)
        PROVE  \/ i \in 1 .. a /\ Stage(s, ra, 1, i, e)
               \/ /\ i > a /\ i - a \in Nat /\ i \in Nat
                  /\ Stage(s, ra, 2, i - a, e) /\ e[1] = p
    <3>1. i \in Jobs(t, "reaction") /\ t.jobs[i].derived # None /\ e = <<t.jobs[i].on, t.jobs[i].derived>>
          /\ i \in 1 .. Len(t.jobs)
      BY <2>5, Stages DEF Jobs
    <3>2. CASE i \in 1 .. a
      <4>1. t.jobs[i] = s.jobs[i]
        BY <1>2, <3>2
      <4> QED
        BY <3>1, <3>2, <4>1, Stages DEF Jobs
    <3>3. ASSUME NEW k \in 1 .. Len(s.reacts[p]), i = a + k, k = i - a, i > a, i \in Nat, k \in Nat
          PROVE  /\ i > a /\ i - a \in Nat /\ i \in Nat
                 /\ Stage(s, ra, 2, i - a, e) /\ e[1] = p
      <4>2. t.jobs[i] = ReactionJob(p, s.reacts[p][k], st, v)
        BY <1>3, <3>3
      <4>3. t.jobs[i].on = p /\ t.jobs[i].derived = s.reacts[p][k].derived
        BY <4>2 DEF ReactionJob
      <4>4. k \in Reacts(s, p) /\ s.reacts[p][k].derived # None /\ e = <<p, s.reacts[p][k].derived>>
        BY <3>1, <4>3 DEF Reacts
      <4>5. Stage(s, ra, 2, k, e) /\ e[1] = p
        BY <4>4, Stages
      <4> QED
        BY <3>3, <4>5
    <3> QED
      BY <1>a, <3>1, <3>2, <3>3 DEF Shifts
  <2> QED
    BY <2>1, <2>2, <2>3, <2>4, <2>5
<1>6. ra \in Seq(Promises \X Pairs)
  BY DEF Ordered
<1>7. \A e \in Promises \X Pairs, o, m \in 0 .. 2, j, i \in Nat :
        Stage(s, ra, o, j, e) /\ Stage(s, ra, m, i, e) => o = m /\ j = i
  BY DEF Ordered
\* where a reaction was
<1>8. ASSUME NEW e \in Promises \X Pairs, NEW o \in 0 .. 2, NEW j \in Nat, Stage(t, ra, o, j, e)
      PROVE  \E n \in 0 .. 2, i \in Nat : /\ Stage(s, ra, n, i, e)
                                          /\ \/ o = n /\ j = i /\ (n = 2 => e[1] # p) /\ (n = 1 => i <= a)
                                             \/ n = 2 /\ e[1] = p /\ o = 1 /\ j = a + i /\ i > 0
  <2>1. CASE o = 0
    BY <1>5, <1>8, <2>1
  <2>2. CASE o = 2
    BY <1>5, <1>8, <2>2
  <2>3. CASE o = 1 /\ j \in 1 .. a /\ Stage(s, ra, 1, j, e)
    BY <1>1, <2>3
  <2>4. CASE o = 1 /\ j > a /\ j - a \in Nat /\ Stage(s, ra, 2, j - a, e) /\ e[1] = p
    <3>1. j = a + (j - a) /\ j - a > 0
      BY <1>1, <2>4
    <3> QED
      BY <2>4, <3>1
  <2> QED
    BY <1>5, <1>8, <2>1, <2>2, <2>3, <2>4
<1>9. \A e \in Promises \X Pairs, n \in 0 .. 2, i \in Nat :
        Stage(s, ra, n, i, e) => \E o \in 0 .. 2, j \in Nat : Stage(t, ra, o, j, e)
  <2> TAKE e \in Promises \X Pairs, n \in 0 .. 2, i \in Nat
  <2> HAVE Stage(s, ra, n, i, e)
  <2>1. CASE n = 2 /\ e[1] = p
    <3>1. Stage(t, ra, 1, a + i, e) /\ a + i \in Nat
      BY <1>1, <1>5, <2>1
    <3> QED
      BY <3>1
  <2>2. CASE ~(n = 2 /\ e[1] = p)
    BY <1>5, <2>2
  <2> QED
    BY <2>1, <2>2
<1>10. \A e \in Promises \X Pairs, o \in 0 .. 2, j \in Nat :
         Stage(t, ra, o, j, e) => \E n \in 0 .. 2, i \in Nat : Stage(s, ra, n, i, e)
  BY <1>8
<1>11. \A e \in Promises \X Pairs, o, m \in 0 .. 2, j, i \in Nat :
         Stage(t, ra, o, j, e) /\ Stage(t, ra, m, i, e) => o = m /\ j = i
  <2> TAKE e \in Promises \X Pairs, o, m \in 0 .. 2, j, i \in Nat
  <2> HAVE Stage(t, ra, o, j, e) /\ Stage(t, ra, m, i, e)
  <2>1. PICK n \in 0 .. 2, k \in Nat : /\ Stage(s, ra, n, k, e)
                                       /\ \/ o = n /\ j = k /\ (n = 2 => e[1] # p) /\ (n = 1 => k <= a)
                                          \/ n = 2 /\ e[1] = p /\ o = 1 /\ j = a + k /\ k > 0
    BY <1>8
  <2>2. PICK l \in 0 .. 2, h \in Nat : /\ Stage(s, ra, l, h, e)
                                       /\ \/ m = l /\ i = h /\ (l = 2 => e[1] # p) /\ (l = 1 => h <= a)
                                          \/ l = 2 /\ e[1] = p /\ m = 1 /\ i = a + h /\ h > 0
    BY <1>8
  <2>3. n = l /\ k = h
    BY <1>7, <2>1, <2>2
  <2> QED
    BY <2>1, <2>2, <2>3
<1>12. \A e, f \in Promises \X Pairs, n, o, m, l \in 0 .. 2, i, j, h, k \in Nat :
         /\ e[1] = f[1] /\ Stage(s, ra, n, i, e) /\ Stage(s, ra, o, j, f) /\ Before(n, i, o, j)
         /\ Stage(t, ra, m, h, e) /\ Stage(t, ra, l, k, f)
         => Before(m, h, l, k)
  <2> TAKE e, f \in Promises \X Pairs, n, o, m, l \in 0 .. 2, i, j, h, k \in Nat
  <2> HAVE /\ e[1] = f[1] /\ Stage(s, ra, n, i, e) /\ Stage(s, ra, o, j, f) /\ Before(n, i, o, j)
           /\ Stage(t, ra, m, h, e) /\ Stage(t, ra, l, k, f)
  <2>1. \/ m = n /\ h = i /\ (n = 2 => e[1] # p) /\ (n = 1 => i <= a)
        \/ n = 2 /\ e[1] = p /\ m = 1 /\ h = a + i /\ i > 0
    <3>1. PICK n1 \in 0 .. 2, i1 \in Nat : /\ Stage(s, ra, n1, i1, e)
                                           /\ \/ m = n1 /\ h = i1 /\ (n1 = 2 => e[1] # p) /\ (n1 = 1 => i1 <= a)
                                              \/ n1 = 2 /\ e[1] = p /\ m = 1 /\ h = a + i1 /\ i1 > 0
      BY <1>8
    <3>2. n1 = n /\ i1 = i
      BY <1>7, <3>1
    <3> QED
      BY <3>1, <3>2
  <2>2. \/ l = o /\ k = j /\ (o = 2 => f[1] # p) /\ (o = 1 => j <= a)
        \/ o = 2 /\ f[1] = p /\ l = 1 /\ k = a + j /\ j > 0
    <3>1. PICK n1 \in 0 .. 2, i1 \in Nat : /\ Stage(s, ra, n1, i1, f)
                                           /\ \/ l = n1 /\ k = i1 /\ (n1 = 2 => f[1] # p) /\ (n1 = 1 => i1 <= a)
                                              \/ n1 = 2 /\ f[1] = p /\ l = 1 /\ k = a + i1 /\ i1 > 0
      BY <1>8
    <3>2. n1 = o /\ i1 = j
      BY <1>7, <3>1
    <3> QED
      BY <3>1, <3>2
  <2>3. n < o \/ (n = o /\ i < j)
    BY DEF Before
  <2>4. m < l \/ (m = l /\ h < k)
    BY <1>1, <2>1, <2>2, <2>3
  <2> QED
    BY <2>4 DEF Before
<1>13. \A q \in Pairs : s.pair[q] # None => t.pair[q] # None
  BY <1>1
<1>14. Keeps(s, t, ra, ra)
  BY <1>6, <1>9, <1>10, <1>11, <1>12, <1>13, Zenon DEF Keeps
<1> QED
  BY <1>14, OrderKept

\* A step that leaves the queue and the reactions alone.
LEMMA OrderAlike ==
  ASSUME NEW s, NEW t, NEW as, NEW ra, Ordered(s, as, ra), t.jobs = s.jobs, t.reacts = s.reacts,
         \A q \in Pairs : s.pair[q] # None => t.pair[q] # None
  PROVE  Ordered(t, as, ra)
<1>1. \A n, i, e : Stage(t, ra, n, i, e) <=> Stage(s, ra, n, i, e)
  BY DEF Stage, Jobs, Reacts
<1>2. \A e \in Promises \X Pairs, n \in 0 .. 2, i \in Nat : Stage(t, ra, n, i, e) <=> Stage(s, ra, n, i, e)
  BY <1>1
<1> QED
  BY <1>2, OrderSame

\* A thenable job is no reaction.
LEMMA QueuesOrder ==
  ASSUME NEW s, NEW as, NEW ra, Ordered(s, as, ra), NEW p, NEW v, NEW t, QueuedTo(s, p, v, t)
  PROVE  Ordered(t, as, ra)
<1>1. t.reacts = s.reacts /\ t.pair = s.pair /\ Len(s.jobs) \in Nat /\ Len(t.jobs) = Len(s.jobs) + 1
  BY DEF QueuedTo
<1>2. \A i \in 1 .. Len(s.jobs) : t.jobs[i] = s.jobs[i]
  BY DEF QueuedTo
<1>3. t.jobs[Len(s.jobs) + 1].kind = "thenable"
  BY DEF QueuedTo
<1>4. \A i : i \in 1 .. Len(t.jobs) <=> i \in 1 .. Len(s.jobs) \/ i = Len(s.jobs) + 1
  BY <1>1
<1>5. ASSUME NEW i
      PROVE  /\ i \in Jobs(t, "reaction") <=> i \in Jobs(s, "reaction")
             /\ i \in Jobs(s, "reaction") => t.jobs[i] = s.jobs[i]
  <2>1. ASSUME i \in Jobs(s, "reaction") PROVE i \in Jobs(t, "reaction") /\ t.jobs[i] = s.jobs[i]
    BY <1>2, <1>4, <2>1 DEF Jobs
  <2>2. ASSUME i \in Jobs(t, "reaction") PROVE i \in Jobs(s, "reaction")
    <3>1. i # Len(s.jobs) + 1
      BY <1>3, <2>2 DEF Jobs
    <3> QED
      BY <1>2, <1>4, <2>2, <3>1 DEF Jobs
  <2> QED
    BY <2>1, <2>2
<1>6. \A i, e : Stage(t, ra, 1, i, e) <=> Stage(s, ra, 1, i, e)
  BY <1>5, Stages
<1>7. \A i, e : Stage(t, ra, 2, i, e) <=> Stage(s, ra, 2, i, e)
  BY <1>1, Stages DEF Reacts
<1>8. \A i, e : Stage(t, ra, 0, i, e) <=> Stage(s, ra, 0, i, e)
  BY Stages
<1>9. ASSUME NEW e \in Promises \X Pairs, NEW n \in 0 .. 2, NEW i \in Nat
      PROVE  Stage(t, ra, n, i, e) <=> Stage(s, ra, n, i, e)
  <2>1. n = 0 \/ n = 1 \/ n = 2
    OBVIOUS
  <2> QED
    BY <1>6, <1>7, <1>8, <2>1
<1> QED
  BY <1>1, <1>9, OrderSame

\* Calling a resolving function keeps the reactions in order.
LEMMA ResolvesOrder ==
  ASSUME NEW s \in StateType, NEW as, NEW ra, Ordered(s, as, ra), NEW q \in Pairs, s.pair[q] # None,
         Open(s, q) => s.state[s.pair[q].of] = "pending",
         NEW how \in Settling, NEW v \in Values, NEW t \in Resolved(s, q, how, v)
  PROVE  Ordered(t, as, ra)
<1>1. CASE ~Open(s, q)
  BY <1>1 DEF Resolved, Open
<1>2. CASE Open(s, q)
  <2> PICK p : p = s.pair[q].of
    OBVIOUS
  <2> PICK m : m = Marked(s, q)
    OBVIOUS
  <2>1. MarkedTo(s, q, m) /\ p \in Promises
    BY Marks, PairsTyped
  <2>2. m \in StateType /\ m.state[p] = "pending" /\ m.jobs = s.jobs /\ m.reacts = s.reacts
    BY <1>2, <2>1 DEF MarkedTo
  <2>3. \A r \in Pairs : s.pair[r] # None => m.pair[r] # None
    BY <2>1 DEF MarkedTo
  <2>4. Ordered(m, as, ra)
    BY <2>2, <2>3, OrderAlike
  <2>5. \/ \E st \in Settling, w \in Values : t = SettledAs(m, p, st, w)
        \/ v \in Promises \cup Foreigns /\ t = QueuedFor(m, p, v)
    <3>0. "rejected" \in Settling /\ "fulfilled" \in Settling /\ Error \in Values
      BY DEF Settling, Values
    <3>1. CASE how = "rejected" \/ v \notin Promises \cup Foreigns
      <4>1. t = SettledAs(m, p, how, v)
        BY <1>2, <3>1 DEF Resolved, Marked, Open
      <4> QED
        BY <4>1
    <3>2. CASE ~(how = "rejected" \/ v \notin Promises \cup Foreigns) /\ v = p
      <4>1. t = SettledAs(m, p, "rejected", Error)
        BY <1>2, <3>2 DEF Resolved, Marked, Open
      <4> QED
        BY <3>0, <4>1
    <3>3. CASE ~(how = "rejected" \/ v \notin Promises \cup Foreigns) /\ v # p /\ v \in Foreigns
      <4>1. \/ t = QueuedFor(m, p, v)
            \/ t = SettledAs(m, p, "fulfilled", v)
            \/ t = SettledAs(m, p, "rejected", Error)
        BY <1>2, <3>3 DEF Resolved, Marked, Open, QueuedFor
      <4> QED
        BY <3>0, <3>3, <4>1
    <3>4. CASE ~(how = "rejected" \/ v \notin Promises \cup Foreigns) /\ v # p /\ v \notin Foreigns
      <4>1. t = QueuedFor(m, p, v)
        BY <1>2, <3>4 DEF Resolved, Marked, Open, QueuedFor
      <4> QED
        BY <3>4, <4>1
    <3> QED
      BY <3>1, <3>2, <3>3, <3>4
  <2>6. ASSUME NEW st \in Settling, NEW w \in Values, t = SettledAs(m, p, st, w) PROVE Ordered(t, as, ra)
    <3>1. SettledTo(m, p, st, w, t)
      BY <2>1, <2>2, <2>6, Settles
    <3> QED
      BY <2>1, <2>2, <2>4, <3>1, SettlesOrder
  <2>7. ASSUME v \in Promises \cup Foreigns, t = QueuedFor(m, p, v) PROVE Ordered(t, as, ra)
    <3>1. QueuedTo(m, p, v, t)
      BY <2>1, <2>2, <2>7, Queues
    <3> QED
      BY <2>4, <3>1, QueuesOrder
  <2> QED
    BY <2>5, <2>6, <2>7
<1> QED
  BY <1>1, <1>2

\* A sequence with one more element at its end.
Longer(u, e, w) ==
  /\ Len(u) + 1 \in 1 .. Len(w) /\ w[Len(u) + 1] = e
  /\ \A k \in 1 .. Len(w) : k \in 1 .. Len(u) \/ k = Len(u) + 1
  /\ \A k \in 1 .. Len(u) : k \in 1 .. Len(w) /\ w[k] = u[k]
  /\ \A k, m \in 1 .. Len(w) : k < m => k \in 1 .. Len(u)

\* Append makes a sequence longer.
LEMMA Lengthens ==
  ASSUME NEW S, NEW u \in Seq(S), NEW e \in S, NEW w, w = Append(u, e)
  PROVE  w \in Seq(S) /\ Longer(u, e, w)
<1>1. Len(u) \in Nat
  BY LenProperties
<1>2. /\ w \in Seq(S) /\ Len(w) = Len(u) + 1 /\ w[Len(u) + 1] = e
      /\ \A k \in 1 .. Len(u) : w[k] = u[k]
  BY AppendProperties
<1> QED
  BY <1>1, <1>2 DEF Longer

\* In t, compared with s, a reaction of p is at the stage N, with the place I,
\* behind every other one of p; it is new, unless no promise is derived by it.
TailAt(s, t, ra, p, derived, N, I) ==
  /\ \A e \in Promises \X Pairs, n \in 0 .. 2, i \in Nat :
       Stage(t, ra, n, i, e) <=>
         Stage(s, ra, n, i, e) \/ (derived # None /\ e = <<p, derived>> /\ n = N /\ i = I)
  /\ \A e \in Promises \X Pairs, n \in 0 .. 2, i \in Nat :
       Stage(s, ra, n, i, e) /\ e[1] = p => Before(n, i, N, I)

\* Such a reaction, just asked for, keeps them in order.
LEMMA OrderAdded ==
  ASSUME NEW s, NEW t, NEW as, NEW ra, Ordered(s, as, ra), NEW p \in Promises, NEW q \in Pairs,
         \A k \in 1 .. Len(as) : as[k][2] # q,
         \A r \in Pairs : s.pair[r] # None => t.pair[r] # None, t.pair[q] # None,
         NEW N \in 0 .. 2, NEW I \in Nat,
         TailAt(s, t, ra, p, q, N, I),
         NEW bs, bs = Append(as, <<p, q>>)
  PROVE  Ordered(t, bs, ra)
<1> PICK e0 : e0 = <<p, q>>
  OBVIOUS
<1>1. /\ as \in Seq(Promises \X Pairs) /\ ra \in Seq(Promises \X Pairs) /\ e0 \in Promises \X Pairs
      /\ e0[1] = p /\ e0[2] = q
  BY DEF Ordered
<1>a. /\ \A e \in Promises \X Pairs, n \in 0 .. 2, i \in Nat :
           Stage(t, ra, n, i, e) <=> Stage(s, ra, n, i, e) \/ (e = e0 /\ n = N /\ i = I)
      /\ \A e \in Promises \X Pairs, n \in 0 .. 2, i \in Nat :
           Stage(s, ra, n, i, e) /\ e[1] = p => Before(n, i, N, I)
  BY PromiseAssumption DEF TailAt
<1>2. bs \in Seq(Promises \X Pairs) /\ Longer(as, e0, bs)
  BY <1>1, Lengthens
<1>3. \A k \in 1 .. Len(as) : as[k] \in Promises \X Pairs /\ as[k] # e0
  <2>1. \A k \in 1 .. Len(as) : as[k] \in Promises \X Pairs
    BY <1>1, ElementOfSeq
  <2> QED
    BY <1>1, <2>1
<1>4. /\ Len(as) + 1 \in 1 .. Len(bs)
      /\ \A k \in 1 .. Len(bs) : k \in 1 .. Len(as) \/ k = Len(as) + 1
      /\ \A k \in 1 .. Len(as) : k \in 1 .. Len(bs) /\ bs[k] = as[k]
      /\ \A k, m \in 1 .. Len(bs) : k < m => k \in 1 .. Len(as)
      /\ bs[Len(as) + 1] = e0
  BY <1>2 DEF Longer
<1>5. \A n \in 0 .. 2, i \in Nat : ~Stage(s, ra, n, i, e0)
  <2>1. \A n \in 0 .. 2, i \in Nat, e \in Promises \X Pairs : Stage(s, ra, n, i, e) => \E k \in 1 .. Len(as) : as[k] = e
    BY DEF Ordered
  <2> QED
    BY <1>1, <1>3, <2>1, ZenonT(60)
<1>6. \A k \in 1 .. Len(as), n \in 0 .. 2, i \in Nat : Stage(t, ra, n, i, as[k]) <=> Stage(s, ra, n, i, as[k])
  BY <1>a, <1>3
<1>7. \A n \in 0 .. 2, i \in Nat : Stage(t, ra, n, i, e0) <=> n = N /\ i = I
  BY <1>a, <1>1, <1>5
<1>8. \A k, m \in 1 .. Len(bs) : bs[k] = bs[m] => k = m
  <2> TAKE k, m \in 1 .. Len(bs)
  <2> HAVE bs[k] = bs[m]
  <2>1. \A x, y \in 1 .. Len(as) : as[x] = as[y] => x = y
    BY DEF Ordered
  <2>2. /\ k \in 1 .. Len(as) \/ k = Len(as) + 1
        /\ m \in 1 .. Len(as) \/ m = Len(as) + 1
    BY <1>4
  <2>3. CASE k \in 1 .. Len(as) /\ m \in 1 .. Len(as)
    <3>1. bs[k] = as[k] /\ bs[m] = as[m]
      BY <1>4, <2>3
    <3>2. as[k] = as[m]
      BY <3>1
    <3> QED
      BY <2>1, <2>3, <3>2
  <2>4. CASE k \in 1 .. Len(as) /\ m = Len(as) + 1
    BY <1>4, <1>3, <2>4
  <2>5. CASE k = Len(as) + 1 /\ m \in 1 .. Len(as)
    BY <1>4, <1>3, <2>5
  <2> QED
    BY <2>2, <2>3, <2>4, <2>5
<1>9. \A k \in 1 .. Len(bs) : t.pair[bs[k][2]] # None
  <2> TAKE k \in 1 .. Len(bs)
  <2>1. CASE k \in 1 .. Len(as)
    <3>1. s.pair[as[k][2]] # None /\ as[k][2] \in Pairs /\ bs[k] = as[k]
      BY <1>4, <1>3, <2>1 DEF Ordered
    <3> QED
      BY <3>1
  <2>2. CASE k = Len(as) + 1
    BY <1>1, <1>4, <2>2
  <2> QED
    BY <1>4, <2>1, <2>2
<1>10. \A k \in 1 .. Len(bs) : \E n \in 0 .. 2 : \E i \in Nat : Stage(t, ra, n, i, bs[k])
  <2> TAKE k \in 1 .. Len(bs)
  <2>1. CASE k \in 1 .. Len(as)
    <3>1. bs[k] = as[k] /\ \E n \in 0 .. 2 : \E i \in Nat : Stage(s, ra, n, i, as[k])
      BY <1>4, <2>1 DEF Ordered
    <3> QED
      BY <1>6, <2>1, <3>1
  <2>2. CASE k = Len(as) + 1
    <3>1. bs[k] = e0
      BY <1>4, <2>2
    <3>2. Stage(t, ra, N, I, e0)
      BY <1>7
    <3> QED
      BY <3>1, <3>2
  <2> QED
    BY <1>4, <2>1, <2>2
<1>11. \A n \in 0 .. 2, i \in Nat, e \in Promises \X Pairs : Stage(t, ra, n, i, e) => \E k \in 1 .. Len(bs) : bs[k] = e
  <2> TAKE n \in 0 .. 2, i \in Nat, e \in Promises \X Pairs
  <2> HAVE Stage(t, ra, n, i, e)
  <2>1. CASE e = e0
    BY <1>4, <2>1
  <2>2. CASE e # e0
    <3>1. Stage(s, ra, n, i, e)
      BY <1>a, <2>2
    <3>2. PICK k \in 1 .. Len(as) : as[k] = e
      BY <3>1 DEF Ordered
    <3> QED
      BY <1>4, <3>2
  <2> QED
    BY <2>1, <2>2
<1>12. \A n, o \in 0 .. 2, i, j \in Nat, e \in Promises \X Pairs : Stage(t, ra, n, i, e) /\ Stage(t, ra, o, j, e) => n = o /\ i = j
  <2> TAKE n, o \in 0 .. 2, i, j \in Nat, e \in Promises \X Pairs
  <2> HAVE Stage(t, ra, n, i, e) /\ Stage(t, ra, o, j, e)
  <2>1. CASE e = e0
    BY <1>7, <2>1
  <2>2. CASE e # e0
    <3>1. Stage(s, ra, n, i, e) /\ Stage(s, ra, o, j, e)
      BY <1>a, <2>2
    <3>2. \A x, y \in 0 .. 2, u, v \in Nat, d \in Promises \X Pairs :
            Stage(s, ra, x, u, d) /\ Stage(s, ra, y, v, d) => x = y /\ u = v
      BY DEF Ordered
    <3> QED
      BY <3>1, <3>2, ZenonT(30)
  <2> QED
    BY <2>1, <2>2
<1>13. \A k, m \in 1 .. Len(bs) : k < m /\ bs[k][1] = bs[m][1] =>
         \A n, o \in 0 .. 2, i, j \in Nat :
           Stage(t, ra, n, i, bs[k]) /\ Stage(t, ra, o, j, bs[m]) => Before(n, i, o, j)
  <2> TAKE k, m \in 1 .. Len(bs)
  <2> HAVE k < m /\ bs[k][1] = bs[m][1]
  <2> TAKE n, o \in 0 .. 2, i, j \in Nat
  <2> HAVE Stage(t, ra, n, i, bs[k]) /\ Stage(t, ra, o, j, bs[m])
  <2>1. k \in 1 .. Len(as) /\ bs[k] = as[k]
    <3>1. k \in 1 .. Len(as)
      BY <1>4
    <3> QED
      BY <1>4, <3>1
  <2>2. Stage(s, ra, n, i, as[k])
    BY <1>6, <2>1
  <2>3. CASE m = Len(as) + 1
    <3>1. o = N /\ j = I /\ as[k][1] = p
      BY <1>1, <1>4, <1>7, <2>1, <2>3
    <3> QED
      BY <1>a, <1>3, <2>1, <2>2, <3>1
  <2>4. CASE m \in 1 .. Len(as)
    <3>1. bs[m] = as[m] /\ Stage(s, ra, o, j, as[m])
      BY <1>4, <1>6, <2>4
    <3> QED
      BY <2>1, <2>2, <2>4, <3>1 DEF Ordered
  <2> QED
    BY <1>4, <2>3, <2>4
<1> QED
  BY <1>1, <1>2, <1>8, <1>9, <1>10, <1>11, <1>12, <1>13, Zenon DEF Ordered

\* A reaction that is registered is behind every other one of its promise.
LEMMA RegistersLast ==
  ASSUME NEW s, Sound(s), NEW p \in Promises, NEW r, Registrable(s, p, r), NEW ra, NEW t, t = Registered(s, p, r)
  PROVE  \E N \in 0 .. 2, I \in Nat : TailAt(s, t, ra, p, r.derived, N, I)
<1>1. CASE s.state[p] = "pending"
  <2> PICK I : I = Len(s.reacts[p]) + 1
    OBVIOUS
  <2>1. /\ t.jobs = s.jobs
        /\ \A x \in Promises : x # p => t.reacts[x] = s.reacts[x]
        /\ Len(s.reacts[p]) \in Nat /\ Len(t.reacts[p]) = Len(s.reacts[p]) + 1
        /\ \A i \in 1 .. Len(s.reacts[p]) : t.reacts[p][i] = s.reacts[p][i]
        /\ t.reacts[p][I] = r
    BY <1>1, RegistersWaiting
  <2>2. I \in Nat /\ I \in Reacts(t, p) /\ I \notin Reacts(s, p)
    BY <2>1 DEF Reacts
  <2>3. ASSUME NEW i PROVE i \in Reacts(t, p) <=> i \in Reacts(s, p) \/ i = I
    BY <2>1 DEF Reacts
  <2>4. ASSUME NEW i \in Reacts(s, p) PROVE t.reacts[p][i] = s.reacts[p][i] /\ i < I
    BY <2>1, <2>4 DEF Reacts
  <2>5. ASSUME NEW x \in Promises, x # p PROVE Reacts(t, x) = Reacts(s, x) /\ t.reacts[x] = s.reacts[x]
    BY <2>1, <2>5 DEF Reacts
  <2>6. ASSUME NEW e, NEW i
        PROVE  Stage(t, ra, 2, i, e) <=>
                 Stage(s, ra, 2, i, e) \/ (r.derived # None /\ e = <<p, r.derived>> /\ i = I)
    <3>1. ASSUME Stage(s, ra, 2, i, e) PROVE Stage(t, ra, 2, i, e)
      <4>1. PICK x \in Promises : /\ i \in Reacts(s, x) /\ s.reacts[x][i].derived # None
                                  /\ e = <<x, s.reacts[x][i].derived>>
        BY <3>1, Stages
      <4>2. i \in Reacts(t, x) /\ t.reacts[x][i] = s.reacts[x][i]
        BY <2>3, <2>4, <2>5, <4>1
      <4> QED
        BY <4>1, <4>2, Stages
    <3>2. ASSUME r.derived # None, e = <<p, r.derived>>, i = I PROVE Stage(t, ra, 2, i, e)
      <4>1. i \in Reacts(t, p) /\ t.reacts[p][i] = r
        BY <2>1, <2>2, <3>2
      <4> QED
        BY <3>2, <4>1, Stages
    <3>3. ASSUME Stage(t, ra, 2, i, e)
          PROVE  Stage(s, ra, 2, i, e) \/ (r.derived # None /\ e = <<p, r.derived>> /\ i = I)
      <4>1. PICK x \in Promises : /\ i \in Reacts(t, x) /\ t.reacts[x][i].derived # None
                                  /\ e = <<x, t.reacts[x][i].derived>>
        BY <3>3, Stages
      <4>2. CASE x = p /\ i = I
        BY <2>1, <4>1, <4>2
      <4>3. CASE ~(x = p /\ i = I)
        <5>1. i \in Reacts(s, x) /\ t.reacts[x][i] = s.reacts[x][i]
          BY <2>3, <2>4, <2>5, <4>1, <4>3
        <5> QED
          BY <4>1, <5>1, Stages
      <4> QED
        BY <4>2, <4>3
    <3> QED
      BY <3>1, <3>2, <3>3
  <2>7. \A e, i : Stage(t, ra, 1, i, e) <=> Stage(s, ra, 1, i, e)
    BY <2>1, Stages DEF Jobs
  <2>8. \A e, i : Stage(t, ra, 0, i, e) <=> Stage(s, ra, 0, i, e)
    BY Stages
  <2>9. \A e \in Promises \X Pairs, n \in 0 .. 2, i \in Nat :
          Stage(t, ra, n, i, e) <=>
            Stage(s, ra, n, i, e) \/ (r.derived # None /\ e = <<p, r.derived>> /\ n = 2 /\ i = I)
    <3> TAKE e \in Promises \X Pairs, n \in 0 .. 2, i \in Nat
    <3>1. CASE n = 2
      BY <2>6, <3>1
    <3>2. CASE n # 2
      <4>1. n = 0 \/ n = 1
        BY <3>2
      <4> QED
        BY <2>7, <2>8, <4>1
    <3> QED
      BY <3>1, <3>2
  <2>10. \A e \in Promises \X Pairs, n \in 0 .. 2, i \in Nat :
           Stage(s, ra, n, i, e) /\ e[1] = p => Before(n, i, 2, I)
    <3> TAKE e \in Promises \X Pairs, n \in 0 .. 2, i \in Nat
    <3> HAVE Stage(s, ra, n, i, e) /\ e[1] = p
    <3>1. CASE n = 2
      <4>1. i \in Reacts(s, p)
        BY <3>1, Stages
      <4> QED
        BY <2>4, <3>1, <4>1 DEF Before
    <3>2. CASE n # 2
      BY <3>2 DEF Before
    <3> QED
      BY <3>1, <3>2
  <2> QED
    BY <2>2, <2>9, <2>10 DEF TailAt
<1>2. CASE s.state[p] # "pending"
  <2> PICK I : I = Len(s.jobs) + 1
    OBVIOUS
  <2>1. /\ t.reacts = s.reacts /\ s.state[p] \in Settling
        /\ Len(s.jobs) \in Nat /\ Len(t.jobs) = Len(s.jobs) + 1
        /\ \A i \in 1 .. Len(s.jobs) : t.jobs[i] = s.jobs[i]
        /\ t.jobs[I] = ReactionJob(p, r, s.state[p], s.result[p])
    BY <1>2, RegistersJob
  <2>2. ASSUME NEW i PROVE i \in 1 .. Len(t.jobs) <=> i \in 1 .. Len(s.jobs) \/ i = I
    BY <2>1
  <2>3. I \in Nat /\ I \notin 1 .. Len(s.jobs) /\ \A i \in 1 .. Len(s.jobs) : i < I
    BY <2>1
  <2>4. t.jobs[I].kind = "reaction" /\ t.jobs[I].derived = r.derived /\ t.jobs[I].on = p
    BY <2>1 DEF ReactionJob
  <2>5. ASSUME NEW i PROVE i \in Jobs(t, "reaction") <=> i \in Jobs(s, "reaction") \/ i = I
    BY <2>1, <2>2, <2>4 DEF Jobs
  <2>6. ASSUME NEW i \in Jobs(s, "reaction") PROVE t.jobs[i] = s.jobs[i] /\ i < I /\ i # I
    BY <2>1, <2>3, <2>6 DEF Jobs
  <2>7. ASSUME NEW e, NEW i
        PROVE  Stage(t, ra, 1, i, e) <=>
                 Stage(s, ra, 1, i, e) \/ (r.derived # None /\ e = <<p, r.derived>> /\ i = I)
    <3>1. CASE i = I
      <4>1. i \notin Jobs(s, "reaction")
        BY <2>6, <3>1
      <4> QED
        BY <2>4, <2>5, <3>1, <4>1, Stages
    <3>2. CASE i # I
      BY <2>5, <2>6, <3>2, Stages
    <3> QED
      BY <3>1, <3>2
  <2>8. \A e, i : Stage(t, ra, 2, i, e) <=> Stage(s, ra, 2, i, e)
    BY <2>1, Stages DEF Reacts
  <2>9. \A e, i : Stage(t, ra, 0, i, e) <=> Stage(s, ra, 0, i, e)
    BY Stages
  <2>10. \A e \in Promises \X Pairs, n \in 0 .. 2, i \in Nat :
           Stage(t, ra, n, i, e) <=>
             Stage(s, ra, n, i, e) \/ (r.derived # None /\ e = <<p, r.derived>> /\ n = 1 /\ i = I)
    <3> TAKE e \in Promises \X Pairs, n \in 0 .. 2, i \in Nat
    <3>1. CASE n = 1
      BY <2>7, <3>1
    <3>2. CASE n # 1
      <4>1. n = 0 \/ n = 2
        BY <3>2
      <4> QED
        BY <2>8, <2>9, <4>1
    <3> QED
      BY <3>1, <3>2
  <2>11. s.reacts[p] = <<>>
    BY <1>2 DEF Sound, PromisesOK
  <2>12. \A e \in Promises \X Pairs, n \in 0 .. 2, i \in Nat :
           Stage(s, ra, n, i, e) /\ e[1] = p => Before(n, i, 1, I)
    <3> TAKE e \in Promises \X Pairs, n \in 0 .. 2, i \in Nat
    <3> HAVE Stage(s, ra, n, i, e) /\ e[1] = p
    <3>1. CASE n = 2
      <4>1. i \in Reacts(s, p)
        BY <3>1, Stages
      <4> QED
        BY <2>11, <4>1 DEF Reacts
    <3>2. CASE n = 1
      <4>1. i \in Jobs(s, "reaction")
        BY <3>2, Stages
      <4> QED
        BY <2>6, <3>2, <4>1 DEF Before
    <3>3. CASE n = 0
      BY <3>3 DEF Before
    <3> QED
      BY <3>1, <3>2, <3>3
  <2> QED
    BY <2>3, <2>10, <2>12 DEF TailAt
<1> QED
  BY <1>1, <1>2

\* A reaction by which a promise follows another is none that then was called for.
LEMMA AdoptsOrder ==
  ASSUME NEW s, Sound(s), NEW as, NEW ra, Ordered(s, as, ra), NEW p \in Promises, NEW r, Registrable(s, p, r),
         r.derived = None, NEW t, t = Registered(s, p, r)
  PROVE  Ordered(t, as, ra)
<1>1. \A e \in Promises \X Pairs, n \in 0 .. 2, i \in Nat : Stage(t, ra, n, i, e) <=> Stage(s, ra, n, i, e)
  BY RegistersLast DEF TailAt
<1>2. t.pair = s.pair
  BY RegistersSound DEF Around
<1> QED
  BY <1>1, <1>2, OrderSame

\* then asks for a reaction and registers it.
LEMMA AsksOrder ==
  ASSUME NEW s, Sound(s), NEW as, NEW ra, Ordered(s, as, ra), NEW p \in Promises, NEW r, Registrable(s, p, r),
         NEW q \in Pairs, r.derived = q, s.pair[q] # None, \A k \in 1 .. Len(as) : as[k][2] # q,
         NEW t, t = Registered(s, p, r), NEW bs, bs = Append(as, <<p, q>>)
  PROVE  Ordered(t, bs, ra)
<1>1. PICK N \in 0 .. 2, I \in Nat : TailAt(s, t, ra, p, q, N, I)
  BY RegistersLast
<1>2. t.pair = s.pair
  BY RegistersSound DEF Around
<1> QED
  BY <1>1, <1>2, OrderAdded

\* What taking the first job adds to the reactions that ran.
RanBy(ra, j) == IF j.kind = "reaction" /\ j.derived # None THEN Append(ra, <<j.on, j.derived>>) ELSE ra

\* The stage and the place before and after: the first job's reaction runs, and
\* what is queued moves up.
Moved(ra, n, i, o, j) ==
  \/ n = 0 /\ o = 0 /\ j = i /\ i <= Len(ra)
  \/ n = 2 /\ o = 2 /\ j = i
  \/ n = 1 /\ o = 1 /\ i = j + 1 /\ j > 0
  \/ n = 1 /\ i = 1 /\ o = 0 /\ j = Len(ra) + 1

\* Taking a job keeps the reactions in order.
LEMMA TakesOrder ==
  ASSUME NEW s, Sound(s), s.jobs # <<>>, NEW as, NEW ra, Ordered(s, as, ra), NEW t, t = TakenFrom(s),
         NEW rb, rb = RanBy(ra, Head(s.jobs))
  PROVE  Ordered(t, as, rb)
<1> PICK h : h = s.jobs[1]
  OBVIOUS
<1>1. /\ s \in StateType /\ t.reacts = s.reacts /\ t.pair = s.pair
      /\ Len(s.jobs) \in Nat /\ 1 \in 1 .. Len(s.jobs) /\ Head(s.jobs) = h
      /\ Len(t.jobs) = Len(s.jobs) - 1
      /\ \A i \in 1 .. Len(t.jobs) : i + 1 \in 1 .. Len(s.jobs) /\ t.jobs[i] = s.jobs[i + 1]
  BY Takes DEF Sound
<1>2. /\ ra \in Seq(Promises \X Pairs) /\ Len(ra) \in Nat
  <2>1. ra \in Seq(Promises \X Pairs)
    BY DEF Ordered
  <2> QED
    BY <2>1, LenProperties
<1>3. ASSUME NEW e
      PROVE  Stage(s, ra, 1, 1, e) <=> h.kind = "reaction" /\ h.derived # None /\ e = <<h.on, h.derived>>
  <2>1. 1 \in Jobs(s, "reaction") <=> h.kind = "reaction"
    BY <1>1 DEF Jobs
  <2> QED
    BY <2>1, Stages
<1>4. /\ rb \in Seq(Promises \X Pairs)
      /\ \A i \in Nat, e \in Promises \X Pairs :
           Stage(t, rb, 0, i, e) <=> Stage(s, ra, 0, i, e) \/ (Stage(s, ra, 1, 1, e) /\ i = Len(ra) + 1)
  <2>1. CASE h.kind = "reaction" /\ h.derived # None
    <3>0. 1 \in Jobs(s, "reaction")
      BY <1>1, <2>1 DEF Jobs
    <3>1. h.on \in Promises /\ h.derived \in Pairs
      BY <1>1, <2>1, <3>0, JobsTyped DEF ReactionJobType
    <3> PICK e1 : e1 = <<h.on, h.derived>>
      OBVIOUS
    <3>2. e1 \in Promises \X Pairs /\ rb = Append(ra, e1)
      BY <1>1, <2>1, <3>1 DEF RanBy
    <3>3. rb \in Seq(Promises \X Pairs) /\ Longer(ra, e1, rb)
      BY <1>2, <3>2, Lengthens
    <3>4. ASSUME NEW i \in Nat, NEW e \in Promises \X Pairs
          PROVE  Stage(t, rb, 0, i, e) <=> Stage(s, ra, 0, i, e) \/ (Stage(s, ra, 1, 1, e) /\ i = Len(ra) + 1)
      <4>1. Stage(s, ra, 1, 1, e) <=> e = e1
        BY <1>3, <2>1
      <4>2. i \in 1 .. Len(rb) /\ rb[i] = e <=> (i \in 1 .. Len(ra) /\ ra[i] = e) \/ (i = Len(ra) + 1 /\ e = e1)
        <5>1. /\ Len(ra) + 1 \in 1 .. Len(rb) /\ rb[Len(ra) + 1] = e1
              /\ i \in 1 .. Len(rb) => i \in 1 .. Len(ra) \/ i = Len(ra) + 1
              /\ i \in 1 .. Len(ra) => i \in 1 .. Len(rb) /\ rb[i] = ra[i]
          BY <3>3 DEF Longer
        <5>2. CASE i = Len(ra) + 1
          <6>1. i \notin 1 .. Len(ra)
            BY <1>2, <5>2
          <6> QED
            BY <5>1, <5>2, <6>1
        <5>3. CASE i # Len(ra) + 1
          BY <5>1, <5>3
        <5> QED
          BY <5>2, <5>3
      <4> QED
        BY <4>1, <4>2, Stages
    <3> QED
      BY <3>3, <3>4
  <2>2. CASE ~(h.kind = "reaction" /\ h.derived # None)
    <3>1. rb = ra
      BY <1>1, <2>2 DEF RanBy
    <3>2. \A e : ~Stage(s, ra, 1, 1, e)
      BY <1>3, <2>2
    <3>3. \A i, e : Stage(t, rb, 0, i, e) <=> Stage(s, ra, 0, i, e)
      BY <3>1, Stages
    <3> QED
      BY <1>2, <3>1, <3>2, <3>3
  <2> QED
    BY <2>1, <2>2
<1>5. ASSUME NEW i \in Nat, NEW e, Stage(t, rb, 1, i, e) PROVE i > 0 /\ i + 1 \in Nat /\ Stage(s, ra, 1, i + 1, e)
  <2>1. i \in Jobs(t, "reaction") /\ t.jobs[i].derived # None /\ e = <<t.jobs[i].on, t.jobs[i].derived>>
    BY <1>5, Stages
  <2>2. i \in 1 .. Len(t.jobs) /\ t.jobs[i].kind = "reaction"
    BY <2>1 DEF Jobs
  <2>3. i + 1 \in 1 .. Len(s.jobs) /\ t.jobs[i] = s.jobs[i + 1]
    BY <1>1, <2>2
  <2>4. i + 1 \in Jobs(s, "reaction")
    BY <2>2, <2>3 DEF Jobs
  <2>5. Stage(s, ra, 1, i + 1, e)
    BY <2>1, <2>3, <2>4, Stages
  <2>6. i > 0
    BY <2>2
  <2> QED
    BY <2>5, <2>6
<1>6. ASSUME NEW i \in Nat, NEW e, Stage(s, ra, 1, i, e), i # 1
      PROVE  \E j \in Nat : i = j + 1 /\ j > 0 /\ Stage(t, rb, 1, j, e)
  <2>1. i \in Jobs(s, "reaction") /\ s.jobs[i].derived # None /\ e = <<s.jobs[i].on, s.jobs[i].derived>>
    BY <1>6, Stages
  <2>2. i \in 1 .. Len(s.jobs) /\ s.jobs[i].kind = "reaction"
    BY <2>1 DEF Jobs
  <2>3. PICK j \in Nat : i = j + 1 /\ j > 0 /\ j \in 1 .. Len(t.jobs)
    <3>1. i - 1 \in Nat /\ i = (i - 1) + 1 /\ i - 1 > 0 /\ i - 1 \in 1 .. Len(t.jobs)
      BY <1>1, <1>6, <2>2
    <3> QED
      BY <3>1
  <2>4. t.jobs[j] = s.jobs[i]
    BY <1>1, <2>3
  <2>5. j \in Jobs(t, "reaction")
    BY <2>2, <2>3, <2>4 DEF Jobs
  <2>6. Stage(t, rb, 1, j, e)
    BY <2>1, <2>4, <2>5, Stages
  <2> QED
    BY <2>3, <2>6
<1>7. \A i, e : Stage(t, rb, 2, i, e) <=> Stage(s, ra, 2, i, e)
  BY <1>1, Stages DEF Reacts
<1>8. ASSUME NEW i, NEW e, Stage(s, ra, 0, i, e) PROVE i <= Len(ra)
  <2>1. i \in 1 .. Len(ra)
    BY <1>8, Stages
  <2> QED
    BY <1>2, <2>1
\* where a reaction was, and where it is
<1>9. ASSUME NEW e \in Promises \X Pairs, NEW o \in 0 .. 2, NEW j \in Nat, Stage(t, rb, o, j, e)
      PROVE  \E n \in 0 .. 2, i \in Nat : Stage(s, ra, n, i, e) /\ Moved(ra, n, i, o, j)
  <2>1. CASE o = 0 /\ Stage(s, ra, 0, j, e)
    BY <1>8, <2>1 DEF Moved
  <2>2. CASE o = 0 /\ Stage(s, ra, 1, 1, e) /\ j = Len(ra) + 1
    BY <2>2 DEF Moved
  <2>3. CASE o = 1
    <3>1. j > 0 /\ j + 1 \in Nat /\ Stage(s, ra, 1, j + 1, e)
      BY <1>5, <1>9, <2>3
    <3>2. Moved(ra, 1, j + 1, o, j)
      BY <2>3, <3>1 DEF Moved
    <3> QED
      BY <3>1, <3>2
  <2>4. CASE o = 2
    BY <1>7, <1>9, <2>4 DEF Moved
  <2>5. o = 0 \/ o = 1 \/ o = 2
    OBVIOUS
  <2> QED
    BY <1>4, <1>9, <2>1, <2>2, <2>3, <2>4, <2>5
<1>10. ASSUME NEW e \in Promises \X Pairs, NEW n \in 0 .. 2, NEW i \in Nat, Stage(s, ra, n, i, e)
       PROVE  \E o \in 0 .. 2, j \in Nat : Stage(t, rb, o, j, e)
  <2>1. CASE n = 0
    BY <1>4, <1>10, <2>1
  <2>2. CASE n = 1 /\ i = 1
    <3>1. Stage(t, rb, 0, Len(ra) + 1, e) /\ Len(ra) + 1 \in Nat
      BY <1>2, <1>4, <1>10, <2>2
    <3> QED
      BY <3>1
  <2>3. CASE n = 1 /\ i # 1
    <3>1. \E j \in Nat : i = j + 1 /\ j > 0 /\ Stage(t, rb, 1, j, e)
      BY <1>6, <1>10, <2>3
    <3> QED
      BY <3>1
  <2>4. CASE n = 2
    BY <1>7, <1>10, <2>4
  <2>5. n = 0 \/ n = 1 \/ n = 2
    OBVIOUS
  <2> QED
    BY <2>1, <2>2, <2>3, <2>4, <2>5
<1>11. \A e \in Promises \X Pairs, o, m \in 0 .. 2, j, i \in Nat :
         Stage(s, ra, o, j, e) /\ Stage(s, ra, m, i, e) => o = m /\ j = i
  BY DEF Ordered
<1>12. ASSUME NEW e \in Promises \X Pairs, NEW n \in 0 .. 2, NEW o \in 0 .. 2, NEW i \in Nat, NEW j \in Nat,
              Stage(s, ra, n, i, e), Stage(t, rb, o, j, e)
       PROVE  Moved(ra, n, i, o, j)
  <2>1. PICK m \in 0 .. 2, k \in Nat : Stage(s, ra, m, k, e) /\ Moved(ra, m, k, o, j)
    BY <1>9, <1>12
  <2>2. m = n /\ k = i
    BY <1>11, <1>12, <2>1
  <2> QED
    BY <2>1, <2>2
<1>13. \A e \in Promises \X Pairs, o, m \in 0 .. 2, j, i \in Nat :
         Stage(t, rb, o, j, e) /\ Stage(t, rb, m, i, e) => o = m /\ j = i
  <2> TAKE e \in Promises \X Pairs, o, m \in 0 .. 2, j, i \in Nat
  <2> HAVE Stage(t, rb, o, j, e) /\ Stage(t, rb, m, i, e)
  <2>1. PICK n \in 0 .. 2, k \in Nat : Stage(s, ra, n, k, e) /\ Moved(ra, n, k, o, j)
    BY <1>9
  <2>2. Moved(ra, n, k, m, i)
    BY <1>12, <2>1
  <2>3. CASE n = 1
    <3>1. CASE k = 1
      BY <2>1, <2>2, <2>3, <3>1 DEF Moved
    <3>2. CASE k # 1
      BY <2>1, <2>2, <2>3, <3>2 DEF Moved
    <3> QED
      BY <3>1, <3>2
  <2>4. CASE n # 1
    BY <2>1, <2>2, <2>4 DEF Moved
  <2> QED
    BY <2>3, <2>4
<1>14. \A e, f \in Promises \X Pairs, n, o, m, l \in 0 .. 2, i, j, h1, k \in Nat :
         /\ e[1] = f[1] /\ Stage(s, ra, n, i, e) /\ Stage(s, ra, o, j, f) /\ Before(n, i, o, j)
         /\ Stage(t, rb, m, h1, e) /\ Stage(t, rb, l, k, f)
         => Before(m, h1, l, k)
  <2> TAKE e, f \in Promises \X Pairs, n, o, m, l \in 0 .. 2, i, j, h1, k \in Nat
  <2> HAVE /\ e[1] = f[1] /\ Stage(s, ra, n, i, e) /\ Stage(s, ra, o, j, f) /\ Before(n, i, o, j)
           /\ Stage(t, rb, m, h1, e) /\ Stage(t, rb, l, k, f)
  <2>1. Moved(ra, n, i, m, h1) /\ Moved(ra, o, j, l, k)
    BY <1>12
  <2>2. i = 1 \/ i # 1
    OBVIOUS
  <2> PICK L \in Nat : L = Len(ra)
    BY <1>2
  <2>3. /\ \/ n = 0 /\ m = 0 /\ h1 = i /\ i <= L
           \/ n = 2 /\ m = 2 /\ h1 = i
           \/ n = 1 /\ m = 1 /\ i = h1 + 1 /\ h1 > 0
           \/ n = 1 /\ i = 1 /\ m = 0 /\ h1 = L + 1
        /\ \/ o = 0 /\ l = 0 /\ k = j /\ j <= L
           \/ o = 2 /\ l = 2 /\ k = j
           \/ o = 1 /\ l = 1 /\ j = k + 1 /\ k > 0
           \/ o = 1 /\ j = 1 /\ l = 0 /\ k = L + 1
    BY <2>1 DEF Moved
  <2>4. n < o \/ (n = o /\ i < j)
    BY DEF Before
  <2>5. m < l \/ (m = l /\ h1 < k)
    BY <2>3, <2>4
  <2> QED
    BY <2>5 DEF Before
<1>15. \A q \in Pairs : s.pair[q] # None => t.pair[q] # None
  BY <1>1
<1>16. \A e \in Promises \X Pairs, n \in 0 .. 2, i \in Nat :
         Stage(s, ra, n, i, e) => \E o \in 0 .. 2, j \in Nat : Stage(t, rb, o, j, e)
  BY <1>10
<1>17. \A e \in Promises \X Pairs, o \in 0 .. 2, j \in Nat :
         Stage(t, rb, o, j, e) => \E n \in 0 .. 2, i \in Nat : Stage(s, ra, n, i, e)
  BY <1>9
<1>18. rb \in Seq(Promises \X Pairs)
  BY <1>4
<1>19. Keeps(s, t, ra, rb)
  BY <1>13, <1>14, <1>15, <1>16, <1>17, <1>18, Zenon DEF Keeps
<1>20. \A x, y : Keeps(s, x, ra, y) => Ordered(x, as, y)
  BY OrderKept
<1> QED
  BY <1>19, <1>20

-----------------------------------------------------------------------------
(* What the actions do to the invariant.                                   *)

\* What runs may still call its pair.
LEMMA RunsStill ==
  ASSUME NEW s, NEW t, NEW r, Runs(s, r),
         \A q \in Pairs : s.pair[q] # None => t.pair[q] # None /\ (Public(s, q) => Public(t, q))
  PROVE  Runs(t, r)
BY DEF Runs

\* A promise and a pair for it.
LEMMA MakesGood ==
  ASSUME NEW s, NEW r, NEW as, NEW ra, Good(s, r, as, ra), NEW p \in Promises, s.state[p] = "none",
         NEW q \in Pairs, s.pair[q] = None, NEW held \in BOOLEAN, NEW t, t = WithPair(WithPromise(s, p), q, p, held)
  PROVE  /\ Good(t, r, as, ra) /\ t.follows = s.follows /\ t.follows[p] \notin Promises
         /\ t.pair[q] # None /\ t.pair[q].of = p
         /\ \A x \in Promises : x # p => t.state[x] = s.state[x]
         /\ \A k \in 1 .. Len(as) : as[k][2] # q
<1> PICK m : m = WithPromise(s, p)
  OBVIOUS
<1>1. Sound(s) /\ Runs(s, r) /\ Ordered(s, as, ra) /\ \A x \in Promises : Followed(s, x)
  BY DEF Good
<1>2. /\ Sound(m) /\ Free(m, p)
      /\ m.result = s.result /\ m.reacts = s.reacts /\ m.pair = s.pair
      /\ m.jobs = s.jobs /\ m.follows = s.follows
      /\ m.state[p] = "pending" /\ \A x \in Promises : x # p => m.state[x] = s.state[x]
      /\ m.follows[p] \notin Promises
      /\ \A x \in Promises : Followed(s, x) => Followed(m, x)
  BY <1>1, MakesPromise
<1>3. t = WithPair(m, q, p, held)
  OBVIOUS
<1>4. /\ Sound(t)
      /\ t.state = m.state /\ t.result = m.result /\ t.reacts = m.reacts
      /\ t.jobs = m.jobs /\ t.follows = m.follows
      /\ t.pair[q] # None /\ t.pair[q].of = p /\ Open(t, q)
      /\ \A x \in Pairs : x # q => t.pair[x] = m.pair[x]
      /\ \A x \in Promises : Followed(m, x) => Followed(t, x)
  BY <1>2, <1>3, MakesPair
<1>5. ASSUME NEW x \in Pairs, s.pair[x] # None PROVE t.pair[x] # None /\ (Public(s, x) => Public(t, x))
  <2>1. t.pair[x] = s.pair[x] /\ t.follows = s.follows
    BY <1>2, <1>4, <1>5
  <2> QED
    BY <1>5, <2>1 DEF Public, Open
<1>6. Runs(t, r)
  BY <1>1, <1>5, RunsStill
<1>7. Ordered(t, as, ra)
  <2>1. t.jobs = s.jobs /\ t.reacts = s.reacts /\ \A x \in Pairs : s.pair[x] # None => t.pair[x] # None
    BY <1>2, <1>4, <1>5
  <2> QED
    BY <1>1, <2>1, OrderAlike
<1>8. \A k \in 1 .. Len(as) : as[k][2] # q
  BY <1>1 DEF Ordered
<1>9. Good(t, r, as, ra)
  BY <1>1, <1>2, <1>4, <1>6, <1>7 DEF Good
<1>10. t.follows = s.follows /\ t.follows[p] \notin Promises /\ \A x \in Promises : x # p => t.state[x] = s.state[x]
  BY <1>2, <1>4
<1> QED
  BY <1>4, <1>8, <1>9, <1>10

\* then registers a reaction.
LEMMA AsksGood ==
  ASSUME NEW s, NEW r, NEW as, NEW ra, Good(s, r, as, ra), NEW p \in Promises, NEW w, Registrable(s, p, w),
         NEW q \in Pairs, w.derived = q, s.pair[q] # None, \A k \in 1 .. Len(as) : as[k][2] # q,
         NEW t, t = Registered(s, p, w), NEW bs, bs = Append(as, <<p, q>>)
  PROVE  Good(t, r, bs, ra)
<1>1. Sound(s) /\ Runs(s, r) /\ Ordered(s, as, ra) /\ \A x \in Promises : Followed(s, x)
  BY DEF Good
<1>2. Sound(t) /\ Around(s, t) /\ \A x \in Promises : Followed(s, x) => Followed(t, x)
  BY <1>1, RegistersSound
<1>3. Ordered(t, bs, ra)
  BY <1>1, AsksOrder
<1>4. \A x \in Pairs : s.pair[x] # None => t.pair[x] # None /\ (Public(s, x) => Public(t, x))
  BY <1>2 DEF Around, Public, Open
<1>5. Runs(t, r)
  BY <1>1, <1>4, RunsStill
<1> QED
  BY <1>1, <1>2, <1>3, <1>5 DEF Good

\* What then registers: its handlers are none of the engine's functions.
LEMMA ThenRegistrable ==
  ASSUME NEW s, NEW p, s.state[p] # "none", NEW q \in Pairs, s.pair[q] # None, s.follows[s.pair[q].of] \notin Promises,
         NEW f \in Handlers, NEW g \in Handlers, NEW w, w = Reaction(q, f, g)
  PROVE  Registrable(s, p, w) /\ w.derived = q
<1>1. /\ w \in ReactionType /\ w.derived = q /\ w.fulfilled = f /\ w.rejected = g
      /\ q # None /\ f \notin Pairs /\ g \notin Pairs
  BY PromiseAssumption DEF Reaction, ReactionType, HandlerType, Handlers
<1> QED
  BY <1>1 DEF Registrable, Waits, Public

\* A pair is called by who may call it.
LEMMA AnswersGood ==
  ASSUME NEW s, Sound(s), NEW r, Runs(s, r), NEW as, NEW ra, Ordered(s, as, ra), NEW q \in Pairs, s.pair[q] # None,
         NEW how \in Settling, NEW v \in Values, MayAnswer(s, q, how, v),
         \A x \in Promises : Followed(s, x) \/ (Open(s, q) /\ x = s.pair[q].of),
         NEW t \in Resolved(s, q, how, v)
  PROVE  Good(t, r, as, ra)
<1>1. /\ Sound(t)
      /\ \A x \in Pairs : s.pair[x] # None => /\ t.pair[x] # None
                                              /\ Public(s, x) => Public(t, x)
      /\ \A x \in Promises : Followed(s, x) \/ (Open(s, q) /\ x = s.pair[q].of) => Followed(t, x)
  BY ResolvesSound
<1>2. s \in StateType /\ (Open(s, q) => s.state[s.pair[q].of] = "pending")
  BY DEF Sound, PairsOK
<1>3. Ordered(t, as, ra)
  BY <1>2, ResolvesOrder
<1>4. Runs(t, r)
  BY <1>1, RunsStill
<1> QED
  BY <1>1, <1>3, <1>4 DEF Good

\* A public pair may be called with any value there is.
LEMMA PublicAnswers ==
  ASSUME NEW s, NEW q, Public(s, q), NEW how, NEW v, how = "fulfilled" /\ v \in Promises => s.state[v] # "none"
  PROVE  MayAnswer(s, q, how, v)
BY DEF Public, MayAnswer

\* The first job, a reaction's, is taken: what it will call may be called.
ReactionTaken(j, m, as, rb) ==
  /\ Sound(m) /\ Ordered(m, as, rb)
  /\ j.derived \in Pairs \cup {None} /\ j.handler \in HandlerType
  /\ j.was \in Settling /\ j.arg \in Values
  /\ j.handler \notin Pairs => /\ j.derived \in Pairs /\ m.pair[j.derived] # None
                               /\ Public(m, j.derived) /\ MayAnswer(m, j.derived, j.was, j.arg)
                               /\ \A x \in Promises : Followed(m, x)
  /\ j.handler \in Pairs => /\ m.pair[j.handler] # None
                            /\ MayAnswer(m, j.handler, j.was, j.arg)
                            /\ \A x \in Promises :
                                 Followed(m, x) \/ (Open(m, j.handler) /\ x = m.pair[j.handler].of)

\* What the reaction of a job calls is a public pair, or one that waits for its promise.
LEMMA TakesReaction ==
  ASSUME NEW s, NEW as, NEW ra, Good(s, Idle, as, ra), s.jobs # <<>>, NEW j, j = Head(s.jobs), j.kind = "reaction",
         NEW rb, rb = IF j.derived = None THEN ra ELSE Append(ra, <<j.on, j.derived>>),
         NEW m, m = TakenFrom(s)
  PROVE  ReactionTaken(j, m, as, rb)
<1>1. Sound(s) /\ Ordered(s, as, ra) /\ \A x \in Promises : Followed(s, x)
  BY DEF Good
<1>2. /\ Sound(m)
      /\ m.state = s.state /\ m.result = s.result /\ m.reacts = s.reacts
      /\ m.pair = s.pair /\ m.follows = s.follows
      /\ Len(s.jobs) \in Nat /\ 1 \in 1 .. Len(s.jobs) /\ j = s.jobs[1]
      /\ \A x \in Promises :
           /\ Followed(s, x)
           /\ j.handler \in Pairs /\ Open(s, j.handler) => s.pair[j.handler].of # x
           => Followed(m, x)
  BY <1>1, Takes
<1>3. /\ s \in StateType /\ PromisesOK(s) /\ ReactionJobsOK(s) /\ Private(s)
  BY <1>1 DEF Sound
<1>4. 1 \in Jobs(s, "reaction")
  BY <1>2 DEF Jobs
<1>5. j \in ReactionJobType
  BY <1>2, <1>3, <1>4, JobsTyped
<1>6. /\ j.on \in Promises /\ j.derived \in Pairs \cup {None} /\ j.handler \in HandlerType
      /\ j.was \in Settling /\ j.arg \in Values
  BY <1>5 DEF ReactionJobType
<1>7. /\ j.was = s.state[j.on] /\ j.arg = s.result[j.on]
      /\ Waits(s, j.on, j.derived, j.handler)
      /\ j.derived # None => Public(s, j.derived)
  BY <1>2, <1>3, <1>4 DEF ReactionJobsOK, Private
<1>8. j.was = "fulfilled" => j.arg \notin Promises
  BY <1>3, <1>6, <1>7 DEF PromisesOK
<1>9. \A x : (Open(m, x) <=> Open(s, x)) /\ (Public(m, x) <=> Public(s, x))
  BY <1>2 DEF Open, Public
<1>10. Ordered(m, as, rb)
  <2>1. rb = RanBy(ra, Head(s.jobs))
    BY DEF RanBy
  <2> QED
    BY <1>1, <2>1, TakesOrder
<1>11. ASSUME j.handler \notin Pairs
       PROVE  /\ j.derived \in Pairs /\ m.pair[j.derived] # None
              /\ Public(m, j.derived) /\ MayAnswer(m, j.derived, j.was, j.arg)
              /\ \A x \in Promises : Followed(m, x)
  <2>1. j.derived \in Pairs /\ s.pair[j.derived] # None /\ Public(s, j.derived)
    BY <1>6, <1>7, <1>11 DEF Waits
  <2>2. MayAnswer(m, j.derived, j.was, j.arg)
    BY <1>8, <1>9, <2>1, PublicAnswers
  <2> QED
    BY <1>1, <1>2, <1>9, <1>11, <2>1, <2>2
<1>12. ASSUME j.handler \in Pairs
       PROVE  /\ m.pair[j.handler] # None
              /\ MayAnswer(m, j.handler, j.was, j.arg)
              /\ \A x \in Promises : Followed(m, x) \/ (Open(m, j.handler) /\ x = m.pair[j.handler].of)
  <2>1. s.pair[j.handler] # None /\ (Open(s, j.handler) => s.follows[s.pair[j.handler].of] = j.on)
    BY <1>7, <1>12 DEF Waits
  <2>2. MayAnswer(m, j.handler, j.was, j.arg)
    BY <1>2, <1>6, <1>7, <1>8, <1>9, <2>1 DEF MayAnswer
  <2> QED
    BY <1>1, <1>2, <1>9, <2>1, <2>2
<1> QED
  BY <1>2, <1>6, <1>10, <1>11, <1>12 DEF ReactionTaken

\* The first job, a thenable's, is taken: its promise has a new pair.
PairGiven(j, q, t, as, ra) ==
  /\ Sound(t) /\ Ordered(t, as, ra)
  /\ j.of \in Promises /\ j.to \in Promises \cup Foreigns /\ t.follows[j.of] = j.to
  /\ t.pair[q] # None /\ t.pair[q].of = j.of /\ Open(t, q)
  /\ j.to \in Promises => t.state[j.to] # "none"
  /\ \A x \in Promises : x # j.of => Followed(t, x)

\* The promise of the job could be settled by nobody else.
LEMMA TakesThenable ==
  ASSUME NEW s, NEW as, NEW ra, Good(s, Idle, as, ra), s.jobs # <<>>, NEW j, j = Head(s.jobs), j.kind = "thenable",
         NEW q \in Pairs, s.pair[q] = None, NEW held \in BOOLEAN, held => j.to \in Foreigns,
         NEW t, t = WithPair(TakenFrom(s), q, j.of, held)
  PROVE  PairGiven(j, q, t, as, ra)
<1> PICK m : m = TakenFrom(s)
  OBVIOUS
<1>1. Sound(s) /\ Ordered(s, as, ra) /\ \A x \in Promises : Followed(s, x)
  BY DEF Good
<1>2. /\ Sound(m)
      /\ m.state = s.state /\ m.result = s.result /\ m.reacts = s.reacts
      /\ m.pair = s.pair /\ m.follows = s.follows
      /\ Len(s.jobs) \in Nat /\ 1 \in 1 .. Len(s.jobs) /\ j = s.jobs[1]
      /\ Free(m, j.of)
      /\ \A x \in Promises : Followed(s, x) /\ j.of # x => Followed(m, x)
  BY <1>1, Takes
<1>3. s \in StateType /\ PromisesOK(s) /\ ThenableJobsOK(s)
  BY <1>1 DEF Sound
<1>4. 1 \in Jobs(s, "thenable")
  BY <1>2 DEF Jobs
<1>5. j \in ThenableJobType
  BY <1>2, <1>3, <1>4, JobsTyped
<1>6. j.of \in Promises /\ j.to \in Promises \cup Foreigns
  BY <1>5 DEF ThenableJobType
<1>7. s.follows[j.of] = j.to
  BY <1>2, <1>3, <1>4 DEF ThenableJobsOK
<1>8. j.to \in Promises => s.state[j.to] # "none"
  BY <1>3, <1>6, <1>7 DEF PromisesOK
<1>9. held => m.follows[j.of] \notin Promises
  BY <1>2, <1>7, PromiseAssumption
<1>10. t = WithPair(m, q, j.of, held) /\ m.pair[q] = None
  BY <1>2
<1>11. /\ Sound(t)
       /\ t.state = m.state /\ t.result = m.result /\ t.reacts = m.reacts
       /\ t.jobs = m.jobs /\ t.follows = m.follows
       /\ t.pair[q] # None /\ t.pair[q].of = j.of /\ Open(t, q)
       /\ \A x \in Pairs : x # q => t.pair[x] = m.pair[x]
       /\ \A x \in Promises : Followed(m, x) => Followed(t, x)
  BY <1>2, <1>6, <1>9, <1>10, MakesPair, SMTT(30)
<1>12. Ordered(m, as, ra)
  <2>1. ra = RanBy(ra, Head(s.jobs))
    BY DEF RanBy
  <2> QED
    BY <1>1, <2>1, TakesOrder
<1>13. Ordered(t, as, ra)
  <2>1. \A x \in Pairs : m.pair[x] # None => t.pair[x] # None
    BY <1>11
  <2> QED
    BY <1>11, <1>12, <2>1, OrderAlike, ZenonT(60)
<1> QED
  BY <1>1, <1>2, <1>6, <1>7, <1>8, <1>11, <1>13, ZenonT(60) DEF PairGiven

-----------------------------------------------------------------------------
(* The invariant holds initially, and every action keeps it.               *)

\* From a record to the variables.
LEMMA Carries ==
  ASSUME NEW t, Good(t, running', asked', ran'), Becomes(t)
  PROVE  Inv'
<1>1. t \in StateType
  BY DEF Good, Sound
<1>2. t = [state |-> t.state, result |-> t.result, reacts |-> t.reacts, pair |-> t.pair,
           jobs |-> t.jobs, follows |-> t.follows]
  BY <1>1 DEF StateType
<1>3. Now' = t
  BY <1>2 DEF Now, Becomes
<1> QED
  BY <1>3 DEF Inv

\* js_promise_constructor.
LEMMA ConstructKeeps ==
  ASSUME Inv, NEW p \in Promises, NEW q \in Pairs, Construct(p, q)
  PROVE  Inv'
<1> PICK s : s = Now
  OBVIOUS
<1>1. Good(s, running, asked, ran) /\ s.state[p] = "none" /\ s.pair[q] = None
  BY DEF Inv, Construct, NewPromise, NewPair, Now
<1>2. \A held \in BOOLEAN : Good(WithPair(WithPromise(s, p), q, p, held), running, asked, ran)
  BY <1>1, MakesGood
<1>3. PICK t : t = WithPair(WithPromise(s, p), q, p, TRUE)
  OBVIOUS
<1>4. Good(t, running, asked, ran)
  BY <1>2, <1>3, Zenon
<1>5. Becomes(t)
  <2>1. t = [state |-> [state EXCEPT ![p] = "pending"], result |-> result, reacts |-> reacts,
             pair |-> [pair EXCEPT ![q] = [of |-> p, resolved |-> FALSE, held |-> TRUE]],
             jobs |-> jobs, follows |-> follows]
    BY <1>3 DEF WithPair, WithPromise, Now
  <2> QED
    BY <2>1 DEF Construct, history, Becomes
<1> QED
  BY <1>4, <1>5, Carries DEF Construct, history

\* js_promise_then.
LEMMA ThenKeeps ==
  ASSUME Inv, NEW p \in Promises, NEW d \in Promises, NEW q \in Pairs, NEW f \in Handlers, NEW g \in Handlers,
         Then(p, d, q, f, g)
  PROVE  Inv'
<1> PICK s : s = Now
  OBVIOUS
<1>1. /\ Good(s, running, asked, ran) /\ s.state[d] = "none" /\ s.pair[q] = None /\ s.state[p] # "none" /\ p # d
      /\ running' = running /\ ran' = ran /\ asked' = Append(asked, <<p, q>>)
  BY DEF Inv, Then, NewPromise, NewPair, Now, Made
<1>2. \A held \in BOOLEAN : \A m : m = WithPair(WithPromise(s, d), q, d, held) =>
        /\ Good(m, running, asked, ran) /\ m.follows[d] \notin Promises
        /\ m.pair[q] # None /\ m.pair[q].of = d
        /\ \A x \in Promises : x # d => m.state[x] = s.state[x]
        /\ \A k \in 1 .. Len(asked) : asked[k][2] # q
  BY <1>1, MakesGood
<1>3. PICK m : m = WithPair(WithPromise(s, d), q, d, FALSE)
  OBVIOUS
<1>4. /\ Good(m, running, asked, ran) /\ m.follows[d] \notin Promises
      /\ m.pair[q] # None /\ m.pair[q].of = d
      /\ \A x \in Promises : x # d => m.state[x] = s.state[x]
      /\ \A k \in 1 .. Len(asked) : asked[k][2] # q
  BY <1>2, <1>3, Zenon
<1>5. PICK w : w = Reaction(q, f, g)
  OBVIOUS
<1>6. m.state[p] # "none" /\ m.follows[m.pair[q].of] \notin Promises
  BY <1>1, <1>4
<1>7. Registrable(m, p, w) /\ w.derived = q
  BY <1>4, <1>5, <1>6, ThenRegistrable
<1>8. PICK t : t = Registered(m, p, w)
  OBVIOUS
<1>9. Good(t, running, asked', ran)
  BY <1>1, <1>4, <1>7, <1>8, AsksGood
<1>10. Becomes(t)
  <2>1. m = [Now EXCEPT !.state[d] = "pending", !.pair[q] = [of |-> d, resolved |-> FALSE, held |-> FALSE]]
    BY <1>3 DEF WithPair, WithPromise, Now
  <2> QED
    BY <1>5, <1>8, <2>1 DEF Then
<1> QED
  BY <1>1, <1>9, <1>10, Carries

\* Every value that script may pass is one.
LEMMA Passed ==
  ASSUME Inv, NEW v \in Vals \cup Made \cup Foreigns
  PROVE  v \in Values /\ (v \in Promises => state[v] # "none")
BY PromiseAssumption DEF Values, Made

\* A resolving function in the hands of script.
LEMMA CallKeeps ==
  ASSUME Inv, NEW q \in Pairs, NEW v \in Vals \cup Made \cup Foreigns, NEW how \in Settling, Call(q, how, v)
  PROVE  Inv'
<1> PICK s : s = Now
  OBVIOUS
<1>1. /\ Good(s, running, asked, ran) /\ s.pair[q] # None /\ s.pair[q].held
      /\ running' = running /\ ran' = ran /\ asked' = asked
  BY DEF Inv, Call, Now
<1>2. Sound(s) /\ Runs(s, running) /\ Ordered(s, asked, ran) /\ \A x \in Promises : Followed(s, x)
  BY <1>1 DEF Good
<1>3. Public(s, q)
  BY <1>1, <1>2 DEF Sound, Private
<1>4. v \in Values /\ (v \in Promises => s.state[v] # "none")
  BY Passed DEF Now
<1>5. MayAnswer(s, q, how, v)
  BY <1>3, <1>4, PublicAnswers
<1>6. PICK t \in Resolved(s, q, how, v) : Becomes(t)
  BY DEF Call
<1>7. Good(t, running, asked, ran)
  BY <1>1, <1>2, <1>4, <1>5, AnswersGood
<1> QED
  BY <1>1, <1>6, <1>7, Carries

\* The top level returns.
LEMMA ScriptEndsKeeps ==
  ASSUME Inv, ScriptEnds
  PROVE  Inv'
<1>1. Now' = Now /\ running' = Idle /\ asked' = asked /\ ran' = ran
  BY DEF ScriptEnds, Now, history
<1>2. Runs(Now, Idle)
  BY DEF Runs
<1> QED
  BY <1>1, <1>2 DEF Inv, Good

\* promise_reaction_job without a handler of the script.
LEMMA PassOnKeeps ==
  ASSUME Inv, PassOn
  PROVE  Inv'
<1> PICK s : s = Now
  OBVIOUS
<1> PICK j : j = Head(s.jobs)
  OBVIOUS
<1> PICK m : m = TakenFrom(s)
  OBVIOUS
<1>1. /\ Good(s, Idle, asked, ran) /\ s.jobs # <<>> /\ j.kind = "reaction" /\ j.handler # Callback
      /\ running' = Idle /\ asked' = asked /\ ran' = IF j.derived = None THEN ran ELSE Append(ran, <<j.on, j.derived>>)
  BY DEF Inv, PassOn, Now, Ran
<1>a. ReactionTaken(j, m, asked, ran')
  BY <1>1, TakesReaction
<1>2. /\ Sound(m) /\ Ordered(m, asked, ran')
      /\ j.derived \in Pairs \cup {None} /\ j.handler \in HandlerType
      /\ j.was \in Settling /\ j.arg \in Values
      /\ j.handler \notin Pairs => /\ j.derived \in Pairs /\ m.pair[j.derived] # None
                                   /\ Public(m, j.derived) /\ MayAnswer(m, j.derived, j.was, j.arg)
                                   /\ \A x \in Promises : Followed(m, x)
      /\ j.handler \in Pairs => /\ m.pair[j.handler] # None
                                /\ MayAnswer(m, j.handler, j.was, j.arg)
                                /\ \A x \in Promises :
                                     Followed(m, x) \/ (Open(m, j.handler) /\ x = m.pair[j.handler].of)
  BY <1>a DEF ReactionTaken
<1>3. m = Taken /\ j = Head(jobs) /\ Runs(m, Idle)
  BY DEF Taken, TakenFrom, Now, Runs
<1>4. CASE j.handler = None
  <2>1. j.handler \notin Pairs /\ j.derived # None
    BY <1>2, <1>4, PromiseAssumption
  <2>2. PICK t \in Resolved(m, j.derived, j.was, j.arg) : Becomes(t)
    BY <1>3, <1>4, <2>1 DEF PassOn, Give
  <2>3. Good(t, Idle, asked, ran')
    BY <1>2, <1>3, <2>1, AnswersGood
  <2> QED
    BY <1>1, <2>2, <2>3, Carries
<1>5. CASE j.handler # None
  <2>1. j.handler \in Pairs
    BY <1>1, <1>2, <1>5 DEF HandlerType
  <2>2. PICK t \in Resolved(m, j.handler, j.was, j.arg) : Becomes(t)
    BY <1>3, <1>5 DEF PassOn
  <2>3. Good(t, Idle, asked, ran')
    BY <1>2, <1>3, <2>1, AnswersGood
  <2> QED
    BY <1>1, <2>2, <2>3, Carries
<1> QED
  BY <1>4, <1>5

\* promise_reaction_job calls a handler.
LEMMA StartHandlerKeeps ==
  ASSUME Inv, StartHandler
  PROVE  Inv'
<1> PICK s : s = Now
  OBVIOUS
<1> PICK j : j = Head(s.jobs)
  OBVIOUS
<1> PICK m : m = TakenFrom(s)
  OBVIOUS
<1>1. /\ Good(s, Idle, asked, ran) /\ s.jobs # <<>> /\ j.kind = "reaction" /\ j.handler = Callback
      /\ running' = j /\ asked' = asked /\ ran' = IF j.derived = None THEN ran ELSE Append(ran, <<j.on, j.derived>>)
  BY DEF Inv, StartHandler, Now, Ran
<1>a. ReactionTaken(j, m, asked, ran')
  BY <1>1, TakesReaction
<1>2. /\ Sound(m) /\ Ordered(m, asked, ran')
      /\ j.handler \notin Pairs => /\ j.derived \in Pairs /\ m.pair[j.derived] # None
                                   /\ Public(m, j.derived)
                                   /\ \A x \in Promises : Followed(m, x)
  BY <1>a DEF ReactionTaken
<1>3. j.handler \notin Pairs
  BY <1>1, PromiseAssumption
<1>4. Runs(m, j)
  BY <1>2, <1>3 DEF Runs
<1>5. Becomes(m)
  BY DEF StartHandler, Taken, TakenFrom
<1>6. Good(m, running', asked', ran')
  BY <1>1, <1>2, <1>3, <1>4 DEF Good
<1> QED
  BY <1>5, <1>6, Carries

\* The handler, or a then method, is over.
LEMMA FinishHandlerKeeps ==
  ASSUME Inv, NEW v \in Vals \cup Made \cup Foreigns, NEW how \in Settling, FinishHandler(how, v)
  PROVE  Inv'
<1> PICK s : s = Now
  OBVIOUS
<1> PICK q : q = running.derived
  OBVIOUS
<1>1. /\ Good(s, running, asked, ran) /\ running \notin {Idle, Script}
      /\ running' = Idle /\ ran' = ran /\ asked' = asked
  BY DEF Inv, FinishHandler
<1>2. Sound(s) /\ Runs(s, running) /\ Ordered(s, asked, ran) /\ \A x \in Promises : Followed(s, x)
  BY <1>1 DEF Good
<1>3. q \in Pairs \cup {None} /\ (q # None => s.pair[q] # None /\ Public(s, q))
  BY <1>1, <1>2 DEF Runs
<1>4. Good(s, Idle, asked, ran)
  BY <1>2 DEF Good, Runs
<1>5. CASE Becomes(s)
  BY <1>1, <1>4, <1>5, Carries
<1>6. CASE ~Becomes(s)
  <2>1. PICK t \in Give(s, q, how, v) : Becomes(t)
    BY <1>6 DEF FinishHandler
  <2>2. q # None /\ t \in Resolved(s, q, how, v)
    BY <1>6, <2>1 DEF Give
  <2>3. v \in Values /\ (v \in Promises => s.state[v] # "none")
    BY Passed DEF Now
  <2>4. MayAnswer(s, q, how, v)
    BY <1>3, <2>2, <2>3, PublicAnswers
  <2>5. Runs(s, Idle)
    BY DEF Runs
  <2>6. Good(t, Idle, asked, ran)
    BY <1>2, <1>3, <2>2, <2>3, <2>4, <2>5, AnswersGood
  <2> QED
    BY <1>1, <2>1, <2>6, Carries
<1> QED
  BY <1>5, <1>6

\* js_promise_resolve_thenable_job.
LEMMA RunThenableKeeps ==
  ASSUME Inv, NEW q \in Pairs, RunThenable(q)
  PROVE  Inv'
<1> PICK s : s = Now
  OBVIOUS
<1> PICK j : j = Head(s.jobs)
  OBVIOUS
<1>1. /\ Good(s, Idle, asked, ran) /\ s.jobs # <<>> /\ j.kind = "thenable" /\ s.pair[q] = None
      /\ asked' = asked /\ ran' = ran
  BY DEF Inv, RunThenable, NewPair, Now
<1>2. \A held \in BOOLEAN : (held => j.to \in Foreigns) =>
        \A t : t = WithPair(TakenFrom(s), q, j.of, held) => PairGiven(j, q, t, asked, ran)
  BY <1>1, TakesThenable
<1>3. Taken = TakenFrom(s) /\ j = Head(jobs)
  BY DEF Taken, TakenFrom, Now
<1>4. CASE j.to \in Foreigns
  <2>1. PICK t : t = WithPair(TakenFrom(s), q, j.of, TRUE)
    OBVIOUS
  <2>2. PairGiven(j, q, t, asked, ran)
    BY <1>2, <1>4, <2>1, Zenon
  <2>3. /\ Sound(t) /\ Ordered(t, asked, ran) /\ t.pair[q] # None /\ t.pair[q].of = j.of
        /\ t.follows[j.of] \notin Promises
        /\ \A x \in Promises : x # j.of => Followed(t, x)
    BY <1>4, <2>2, PromiseAssumption DEF PairGiven
  <2>4. \A x \in Promises : Followed(t, x)
    BY <2>3 DEF Followed
  <2>5. running' = [kind |-> "thenable", derived |-> q]
    BY <1>3, <1>4 DEF RunThenable
  <2>6. running'.derived = q
    BY <2>5
  <2>7. Runs(t, running')
    BY <2>3, <2>6 DEF Runs, Public
  <2>8. Becomes(t)
    <3>1. (j.to \in Foreigns) = TRUE
      BY <1>4
    <3>2. t = [Taken EXCEPT !.pair[q] = [of |-> j.of, resolved |-> FALSE, held |-> j.to \in Foreigns]]
      BY <1>3, <2>1, <3>1 DEF WithPair
    <3> QED
      BY <1>3, <1>4, <3>2 DEF RunThenable
  <2>9. Good(t, running', asked', ran')
    BY <1>1, <2>3, <2>4, <2>7 DEF Good
  <2> QED
    BY <2>8, <2>9, Carries
<1>5. CASE j.to \notin Foreigns
  <2>1. PICK m : m = WithPair(TakenFrom(s), q, j.of, FALSE)
    OBVIOUS
  <2>2. PairGiven(j, q, m, asked, ran)
    BY <1>2, <2>1, Zenon
  <2>3. /\ Sound(m) /\ Ordered(m, asked, ran)
        /\ j.of \in Promises /\ j.to \in Promises /\ m.follows[j.of] = j.to
        /\ m.pair[q] # None /\ m.pair[q].of = j.of /\ Open(m, q)
        /\ m.state[j.to] # "none"
        /\ \A x \in Promises : x # j.of => Followed(m, x)
    BY <1>5, <2>2 DEF PairGiven
  <2>4. PICK w : w = Reaction(None, q, q)
    OBVIOUS
  <2>5. /\ w \in ReactionType /\ w.derived = None /\ w.fulfilled = q /\ w.rejected = q /\ q # None
    BY <2>4, PromiseAssumption DEF Reaction, ReactionType, HandlerType
  <2>6. Registrable(m, j.to, w)
    BY <2>3, <2>5 DEF Registrable, Waits
  <2>7. PICK t : t = Registered(m, j.to, w)
    OBVIOUS
  <2>8. /\ Sound(t)
        /\ \A x \in Promises : Followed(m, x) => Followed(t, x)
        /\ \A y \in Pairs : w.derived = None /\ w.fulfilled = y /\ Open(m, y) /\ m.follows[m.pair[y].of] = j.to =>
             Followed(t, m.pair[y].of)
    BY <2>3, <2>6, <2>7, RegistersSound, SMTT(30)
  <2>9. \A x \in Promises : Followed(t, x)
    BY <2>3, <2>5, <2>8
  <2>10. Ordered(t, asked, ran)
    BY <2>3, <2>5, <2>6, <2>7, AdoptsOrder
  <2>11. running' = Idle
    BY <1>3, <1>5 DEF RunThenable
  <2>12. Becomes(t)
    <3>1. (j.to \in Foreigns) = FALSE
      BY <1>5
    <3>2. m = [Taken EXCEPT !.pair[q] = [of |-> j.of, resolved |-> FALSE, held |-> j.to \in Foreigns]]
      BY <1>3, <2>1, <3>1 DEF WithPair
    <3> QED
      BY <1>3, <1>5, <2>4, <2>7, <3>2 DEF RunThenable
  <2>13. Good(t, running', asked', ran')
    BY <1>1, <2>8, <2>9, <2>10, <2>11 DEF Good, Runs
  <2> QED
    BY <2>12, <2>13, Carries
<1> QED
  BY <1>4, <1>5

\* Nothing has been created yet.
LEMMA InitGood == Init => Inv
<1> SUFFICES ASSUME Init PROVE Inv
  OBVIOUS
<1> PICK s : s = Now
  OBVIOUS
<1>1. /\ \A p \in Promises : /\ s.state[p] = "none" /\ s.result[p] = None /\ s.reacts[p] = <<>>
                             /\ s.follows[p] = None
      /\ \A q \in Pairs : s.pair[q] = None
      /\ s.jobs = <<>> /\ running = Script /\ asked = <<>> /\ ran = <<>>
  BY DEF Init, Now
<1>2. s \in StateType
  <2>1. /\ s.state \in [Promises -> States] /\ s.result \in [Promises -> Values] /\ s.follows \in [Promises -> Values]
    BY DEF Init, Now, States, Values
  <2>2. s.reacts \in [Promises -> Seq(ReactionType)] /\ s.jobs \in Seq(JobType)
    BY DEF Init, Now
  <2>3. s.pair \in [Pairs -> PairType \cup {None}]
    BY DEF Init, Now
  <2> QED
    BY <2>1, <2>2, <2>3 DEF StateType, Now
<1>3. Jobs(s, "reaction") = {} /\ Jobs(s, "thenable") = {} /\ \A p \in Promises : Reacts(s, p) = {}
  BY <1>1 DEF Jobs, Reacts
<1>4. None \notin Promises
  BY PromiseAssumption
<1>5. PromisesOK(s)
  BY <1>1, <1>4 DEF PromisesOK
<1>6. PairsOK(s)
  BY <1>1 DEF PairsOK, Open
<1>7. ReactsOK(s) /\ ReactionJobsOK(s) /\ ThenableJobsOK(s)
  BY <1>3 DEF ReactsOK, ReactionJobsOK, ThenableJobsOK
<1>8. Private(s)
  BY <1>1, <1>3 DEF Private
<1>9. Locked(s)
  BY <1>1, <1>4 DEF Locked
<1>10. \A p \in Promises : Followed(s, p)
  BY <1>1, <1>4 DEF Followed
<1>11. ASSUME NEW n \in 0 .. 2, NEW i, NEW e PROVE ~Stage(s, ran, n, i, e)
  <2>1. ~Stage(s, ran, 0, i, e) /\ ~Stage(s, ran, 1, i, e) /\ ~Stage(s, ran, 2, i, e)
    BY <1>1, <1>3, Stages
  <2>2. n = 0 \/ n = 1 \/ n = 2
    OBVIOUS
  <2> QED
    BY <2>1, <2>2
<1>12. Ordered(s, asked, ran)
  <2>1. asked \in Seq(Promises \X Pairs) /\ ran \in Seq(Promises \X Pairs) /\ \A k : k \notin 1 .. Len(asked)
    BY <1>1
  <2> QED
    BY <1>11, <2>1 DEF Ordered
<1> QED
  BY <1>1, <1>2, <1>5, <1>6, <1>7, <1>8, <1>9, <1>10, <1>12 DEF Inv, Good, Sound, Runs

\* The inductive step.
LEMMA NextKeeps == Inv /\ [Next]_vars => Inv'
<1> SUFFICES ASSUME Inv, [Next]_vars PROVE Inv'
  OBVIOUS
<1>0. "fulfilled" \in Settling /\ "rejected" \in Settling
  BY DEF Settling
<1>1. ASSUME NEW p \in Promises, NEW q \in Pairs, Construct(p, q) PROVE Inv'
  BY <1>1, ConstructKeeps
<1>2. ASSUME NEW p \in Promises, NEW d \in Promises, NEW q \in Pairs, NEW f \in Handlers, NEW r \in Handlers,
             Then(p, d, q, f, r)
      PROVE  Inv'
  BY <1>2, ThenKeeps
<1>3. ASSUME NEW q \in Pairs, NEW v \in Vals \cup Made \cup Foreigns,
             Call(q, "fulfilled", v) \/ Call(q, "rejected", v)
      PROVE  Inv'
  BY <1>0, <1>3, CallKeeps
<1>4. CASE ScriptEnds
  BY <1>4, ScriptEndsKeeps
<1>5. CASE PassOn
  BY <1>5, PassOnKeeps
<1>6. CASE StartHandler
  BY <1>6, StartHandlerKeeps
<1>7. ASSUME NEW q \in Pairs, RunThenable(q) PROVE Inv'
  BY <1>7, RunThenableKeeps
<1>8. ASSUME NEW v \in Vals \cup Made \cup Foreigns,
             FinishHandler("fulfilled", v) \/ FinishHandler("rejected", v)
      PROVE  Inv'
  BY <1>0, <1>8, FinishHandlerKeeps
<1>9. CASE UNCHANGED vars
  <2>1. Now' = Now /\ running' = running /\ asked' = asked /\ ran' = ran
    BY <1>9 DEF vars, history, Now
  <2> QED
    BY <2>1 DEF Inv
<1> QED
  BY <1>1, <1>2, <1>3, <1>4, <1>5, <1>6, <1>7, <1>8, <1>9 DEF Next, ScriptStep, ExecutePendingJob, Return

\* Of the stages, only the last one is seen from outside.
LEMMA RunInOrder ==
  ASSUME NEW s, Ordered(s, asked, ran)
  PROVE  ReactionsInOrder
<1>1. /\ asked \in Seq(Promises \X Pairs) /\ ran \in Seq(Promises \X Pairs)
      /\ \A k \in 1 .. Len(asked) : \E n \in 0 .. 2 : \E i \in Nat : Stage(s, ran, n, i, asked[k])
      /\ \A n \in 0 .. 2, i \in Nat, e \in Promises \X Pairs : Stage(s, ran, n, i, e) => \E k \in 1 .. Len(asked) : asked[k] = e
      /\ \A n, o \in 0 .. 2, i, j \in Nat, e \in Promises \X Pairs : Stage(s, ran, n, i, e) /\ Stage(s, ran, o, j, e) => n = o /\ i = j
      /\ \A k, m \in 1 .. Len(asked) : k < m /\ asked[k][1] = asked[m][1] =>
           \A n, o \in 0 .. 2, i, j \in Nat :
             Stage(s, ran, n, i, asked[k]) /\ Stage(s, ran, o, j, asked[m]) => Before(n, i, o, j)
  BY DEF Ordered
<1>2. DOMAIN asked = 1 .. Len(asked) /\ DOMAIN ran = 1 .. Len(ran)
  BY <1>1
<1>3. ASSUME NEW i \in DOMAIN ran PROVE ran[i] \in Promises \X Pairs /\ i \in Nat /\ Stage(s, ran, 0, i, ran[i])
  <2>1. ran[i] \in Promises \X Pairs
    BY <1>1, <1>2, <1>3, ElementOfSeq
  <2>2. i \in Nat /\ i \in 1 .. Len(ran)
    BY <1>2, <1>3
  <2> QED
    BY <2>1, <2>2, Stages
<1>4. 0 \in 0 .. 2
  OBVIOUS
<1>5. \A i, k \in DOMAIN ran : ran[i] = ran[k] => i = k
  <2> TAKE i, k \in DOMAIN ran
  <2> HAVE ran[i] = ran[k]
  <2>1. Stage(s, ran, 0, i, ran[i]) /\ Stage(s, ran, 0, k, ran[i]) /\ ran[i] \in Promises \X Pairs /\ i \in Nat /\ k \in Nat
    BY <1>3
  <2> QED
    BY <1>1, <1>4, <2>1
<1>6. \A i \in DOMAIN ran : \E k \in DOMAIN asked : asked[k] = ran[i]
  BY <1>1, <1>2, <1>3, <1>4
<1>7. \A k, m \in DOMAIN asked : \A j \in DOMAIN ran :
        k < m /\ asked[k][1] = asked[m][1] /\ ran[j] = asked[m] =>
          \E i \in DOMAIN ran : i < j /\ ran[i] = asked[k]
  <2> TAKE k, m \in DOMAIN asked
  <2> TAKE j \in DOMAIN ran
  <2> HAVE k < m /\ asked[k][1] = asked[m][1] /\ ran[j] = asked[m]
  <2>1. k \in 1 .. Len(asked) /\ m \in 1 .. Len(asked)
    BY <1>2
  <2>2. Stage(s, ran, 0, j, asked[m]) /\ j \in Nat
    BY <1>3
  <2>3. PICK n \in 0 .. 2, i \in Nat : Stage(s, ran, n, i, asked[k])
    BY <1>1, <2>1
  <2>4. Before(n, i, 0, j)
    BY <1>1, <1>4, <2>1, <2>2, <2>3
  <2>5. n = 0 /\ i < j
    BY <2>4 DEF Before
  <2>6. i \in 1 .. Len(ran) /\ ran[i] = asked[k]
    BY <2>3, <2>5, Stages
  <2> QED
    BY <1>2, <2>5, <2>6
<1> QED
  BY <1>5, <1>6, <1>7 DEF ReactionsInOrder

\* The invariant implies what is promised.
LEMMA InvKept == Inv => PromisesKept
<1> SUFFICES ASSUME Inv PROVE PromisesKept
  OBVIOUS
<1> PICK s : s = Now
  OBVIOUS
<1>1. /\ s \in StateType /\ PromisesOK(s) /\ PairsOK(s) /\ Locked(s) /\ Ordered(s, asked, ran)
      /\ \A p \in Promises : Followed(s, p)
  BY DEF Inv, Good, Sound
<1>2. /\ s.state = state /\ s.result = result /\ s.reacts = reacts /\ s.pair = pair
      /\ s.jobs = jobs /\ s.follows = follows
  BY DEF Now
<1>3. /\ state \in [Promises -> States] /\ pair \in [Pairs -> PairType \cup {None}]
      /\ jobs \in Seq(JobType) /\ reacts \in [Promises -> Seq(ReactionType)]
  BY <1>1, <1>2 DEF StateType
<1>4. DOMAIN jobs = 1 .. Len(jobs) /\ \A p \in Promises : DOMAIN reacts[p] = 1 .. Len(reacts[p])
  BY <1>3
<1>5. TypeOK
  <2>1. \A p \in Promises : state[p] # "pending" => reacts[p] = <<>>
    BY <1>1, <1>2 DEF PromisesOK
  <2>2. \A q \in Pairs : pair[q] # None => pair[q].of \in Made
    <3>1. \A q \in Pairs : s.pair[q] # None => s.pair[q].of \in Promises
      BY <1>1, PairsTyped
    <3> QED
      BY <1>1, <1>2, <3>1 DEF PairsOK, Made
  <2>3. \A i \in DOMAIN jobs : jobs[i].kind \in {"reaction", "thenable"}
    <3>1. \A i \in 1 .. Len(jobs) : jobs[i] \in JobType
      BY <1>3
    <3> QED
      BY <1>4, <3>1 DEF JobType, ReactionJobType, ThenableJobType
  <2> QED
    BY <1>3, <2>1, <2>2, <2>3 DEF TypeOK, States, Settling
<1>6. LockedIn
  BY <1>1, <1>2 DEF Locked, LockedIn, Settled, Settling
<1>7. NoSelfResolution
  <2>1. ASSUME NEW p \in Promises PROVE follows[p] # p
    <3>1. follows[p] \in Promises => follows[p] # p
      BY <1>1, <1>2 DEF PromisesOK
    <3> QED
      BY <3>1
  <2> QED
    BY <2>1 DEF NoSelfResolution
<1>8. FollowerNotLost
  <2> SUFFICES ASSUME NEW p \in Promises, follows[p] \in Promises, state[p] = "pending"
               PROVE  \/ \E i \in DOMAIN jobs : jobs[i].kind = "thenable" /\ jobs[i].of = p
                      \/ \E q \in Pairs :
                           /\ pair[q] # None /\ pair[q].of = p
                           /\ \/ \E i \in DOMAIN jobs : jobs[i].kind = "reaction" /\ jobs[i].handler = q
                              \/ \E i \in DOMAIN reacts[follows[p]] : reacts[follows[p]][i].fulfilled = q
    BY DEF FollowerNotLost
  <2>1. \A k : \A i \in Jobs(s, k) : i \in DOMAIN jobs /\ jobs[i].kind = k
    BY <1>2, <1>4 DEF Jobs
  <2>2. \A i \in Reacts(s, follows[p]) : i \in DOMAIN reacts[follows[p]]
    BY <1>2, <1>4 DEF Reacts
  <2>3. \/ \E i \in Jobs(s, "thenable") : jobs[i].of = p
        \/ \E q \in Pairs : /\ Open(s, q) /\ pair[q].of = p
                            /\ \/ \E i \in Jobs(s, "reaction") : jobs[i].handler = q
                               \/ \E i \in Reacts(s, follows[p]) : reacts[follows[p]][i].fulfilled = q
    BY <1>1, <1>2 DEF Followed
  <2>4. CASE \E i \in Jobs(s, "thenable") : jobs[i].of = p
    BY <2>1, <2>4
  <2>5. ASSUME NEW q \in Pairs, Open(s, q), pair[q].of = p,
               \/ \E i \in Jobs(s, "reaction") : jobs[i].handler = q
               \/ \E i \in Reacts(s, follows[p]) : reacts[follows[p]][i].fulfilled = q
        PROVE  /\ pair[q] # None /\ pair[q].of = p
               /\ \/ \E i \in DOMAIN jobs : jobs[i].kind = "reaction" /\ jobs[i].handler = q
                  \/ \E i \in DOMAIN reacts[follows[p]] : reacts[follows[p]][i].fulfilled = q
    <3>1. pair[q] # None
      BY <1>2, <2>5 DEF Open
    <3> QED
      BY <2>1, <2>2, <2>5, <3>1
  <2> QED
    BY <2>3, <2>4, <2>5
<1>9. ReactionsInOrder
  BY <1>1, RunInOrder
<1> QED
  BY <1>5, <1>6, <1>7, <1>8, <1>9 DEF PromisesKept

\* However script, handlers and then methods interleave with the jobs of the
\* host: a promise that was resolved with another ends as that one did, none
\* waits for itself, the link of a pending promise to the one it follows is
\* never lost, and the reactions of a promise run in the order in which then
\* was called, each once and none before those ahead of it
\* (js_promise_resolve_function_call, perform_promise_then,
\* js_promise_resolve_thenable_job, promise_reaction_job).
THEOREM PromisesKeptCorrect == Spec => []PromisesKept
<1>1. Init => Inv
  BY InitGood
<1>2. Inv /\ [Next]_vars => Inv'
  BY NextKeeps
<1>3. Inv => PromisesKept
  BY InvKept
<1> QED
  BY <1>1, <1>2, <1>3, PTL DEF Spec
=============================================================================
