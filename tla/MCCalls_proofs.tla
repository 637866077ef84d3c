---------------------------- MODULE MCCalls_proofs ----------------------------
(***************************************************************************)
(* Proofs about both backends under concurrency, for every set of threads  *)
(* and Jibs, every use of Jibs by the bodies of others and every bound on  *)
(* the calls: first about QJSCalls, with the invariant CInv and what makes *)
(* its calls atomic; then about the specification that is checked, whose   *)
(* threads use a Jib of either backend. What is proved of one Jib of the   *)
(* JavaScriptCore backend is in JSCCalls.                                  *)
(***************************************************************************)
EXTENDS MCCalls, TLAPS

Pcs == {"locking", "start", "script", "returned", "threw", "done"}

FrameType ==
  [id : Ids, jib : Jibs, kind : Kinds, pc : Pcs, run : {1, 2}, before : Nat, read : Nat]

Typed ==
  /\ lock \in [Jibs -> Threads \cup {NoThread}]
  /\ calls \in 0 .. MaxCalls
  /\ heap \in [Jibs -> Nat]
  /\ pending \in [Jibs -> Ids \cup {NoId}]
  /\ exception \in [Jibs -> Ids \cup {NoId}]
  /\ stack \in [Threads -> Seq(FrameType)]
  /\ outcome = [c \in Ids |-> outcome[c]]

\* the i-th operation that thread t is in has taken the lock
Owns(t, i) == i \in 1 .. Len(stack[t]) /\ stack[t][i].pc # "locking"

\* Who is past lock.lock() holds the lock, with one operation, and the lock is
\* held by somebody.
LockInv ==
  /\ \A t \in Threads : \A i : Owns(t, i) => lock[stack[t][i].jib] = t
  /\ \A t \in Threads : \A i, k : Owns(t, i) /\ Owns(t, k) /\ stack[t][i].jib = stack[t][k].jib => i = k
  /\ \A j \in Jibs : lock[j] # NoThread => \E i : Owns(lock[j], i) /\ stack[lock[j]][i].jib = j

\* Operations have numbers of their own, and those still to be called no outcome.
IdsInv ==
  /\ \A t \in Threads : \A i \in 1 .. Len(stack[t]) : stack[t][i].id <= calls
  /\ \A t, u \in Threads : \A i \in 1 .. Len(stack[t]), k \in 1 .. Len(stack[u]) :
       stack[t][i].id = stack[u][k].id => t = u /\ i = k
  /\ \A c \in Ids : c > calls => outcome[c] = Unset

\* What an operation that holds the lock has done to the state so far.
Progress(f, now, thrown) ==
  /\ f.run = 2 => f.kind = "get"
  /\ f.pc = "start" => now = f.before \/ (f.run = 2 /\ now = f.before + 1)
  /\ f.pc = "script" => /\ f.kind \in {"call", "get"} /\ f.read = now
                        /\ now = f.before \/ (f.run = 2 /\ now = f.before + 1)
  /\ f.pc = "returned" => /\ f.kind \in {"call", "get"}
                          /\ now = f.before + 1 \/ (f.run = 2 /\ now = f.before + 2)
  /\ f.pc = "threw" =>
       /\ f.kind # "brief"
       /\ \/ now = f.before
          \/ f.kind # "set" /\ now = f.before + 1
          \/ f.run = 2 /\ now = f.before + 2
       /\ f.kind # "get" => thrown = f.id

ProgressInv ==
  \A t \in Threads : \A i \in 1 .. Len(stack[t]) :
    /\ stack[t][i].pc = "locking" => stack[t][i].run = 1
    /\ Owns(t, i) => Progress(stack[t][i], heap[stack[t][i].jib], pending[stack[t][i].jib])

CInv == Typed /\ LockInv /\ IdsInv /\ ProgressInv
-----------------------------------------------------------------------------
(* The three things that happen to a stack.                                *)

\* The innermost operation of a thread in some operation.
LEMMA TopTyped ==
  ASSUME Typed, NEW t \in Threads, Busy(t)
  PROVE  /\ stack[t] \in Seq(FrameType) /\ Len(stack[t]) \in Nat \ {0}
         /\ Top(t) = stack[t][Len(stack[t])] /\ Top(t) \in FrameType
<1>1. stack[t] \in Seq(FrameType) /\ stack[t] # <<>>
  BY DEF Typed, Busy
<1> QED
  BY <1>1 DEF Top, Last

\* Whoever moves replaces its innermost operation.
LEMMA Moved ==
  ASSUME Typed, NEW t \in Threads, Busy(t), NEW g \in FrameType, Moves(t, g)
  PROVE  /\ stack' \in [Threads -> Seq(FrameType)]
         /\ Len(stack'[t]) = Len(stack[t])
         /\ \A i \in 1 .. Len(stack[t]) : stack'[t][i] = IF i = Len(stack[t]) THEN g ELSE stack[t][i]
         /\ \A u \in Threads : u # t => stack'[u] = stack[u]
<1>1. stack[t] \in Seq(FrameType) /\ Len(stack[t]) \in Nat \ {0}
  BY TopTyped
<1> DEFINE rest == SubSeq(stack[t], 1, Len(stack[t]) - 1)
<1>2. /\ rest \in Seq(FrameType) /\ Len(rest) = Len(stack[t]) - 1
      /\ \A i \in 1 .. Len(stack[t]) - 1 : rest[i] = stack[t][i]
  BY <1>1
<1>3. stack' = [stack EXCEPT ![t] = Append(rest, g)]
  BY DEF Moves, Front
<1> HIDE DEF rest
<1>4. /\ Append(rest, g) \in Seq(FrameType) /\ Len(Append(rest, g)) = Len(stack[t])
      /\ \A i \in 1 .. Len(stack[t]) : Append(rest, g)[i] = IF i = Len(stack[t]) THEN g ELSE stack[t][i]
  BY <1>1, <1>2
<1>5. stack'[t] = Append(rest, g)
  BY <1>3 DEF Typed
<1> QED
  BY <1>3, <1>4, <1>5 DEF Typed

\* Whoever calls has one operation more.
LEMMA Pushed ==
  ASSUME Typed, NEW t \in Threads, NEW g \in FrameType, stack' = [stack EXCEPT ![t] = Append(@, g)]
  PROVE  /\ stack' \in [Threads -> Seq(FrameType)]
         /\ Len(stack'[t]) = Len(stack[t]) + 1 /\ Len(stack[t]) \in Nat
         /\ \A i \in 1 .. Len(stack[t]) + 1 : stack'[t][i] = IF i = Len(stack[t]) + 1 THEN g ELSE stack[t][i]
         /\ \A u \in Threads : u # t => stack'[u] = stack[u]
<1>1. stack[t] \in Seq(FrameType)
  BY DEF Typed
<1>2. stack'[t] = Append(stack[t], g)
  BY DEF Typed
<1>3. /\ Append(stack[t], g) \in Seq(FrameType) /\ Len(Append(stack[t], g)) = Len(stack[t]) + 1 /\ Len(stack[t]) \in Nat
      /\ \A i \in 1 .. Len(stack[t]) + 1 : Append(stack[t], g)[i] = IF i = Len(stack[t]) + 1 THEN g ELSE stack[t][i]
  BY <1>1
<1> QED
  BY <1>2, <1>3 DEF Typed

\* Whoever returns has one less.
LEMMA Popped ==
  ASSUME Typed, NEW t \in Threads, Busy(t), stack' = [stack EXCEPT ![t] = Front(@)]
  PROVE  /\ stack' \in [Threads -> Seq(FrameType)]
         /\ Len(stack'[t]) = Len(stack[t]) - 1
         /\ \A i \in 1 .. Len(stack[t]) - 1 : stack'[t][i] = stack[t][i]
         /\ \A u \in Threads : u # t => stack'[u] = stack[u]
<1>1. stack[t] \in Seq(FrameType) /\ Len(stack[t]) \in Nat \ {0}
  BY TopTyped
<1>2. stack'[t] = SubSeq(stack[t], 1, Len(stack[t]) - 1)
  BY DEF Typed, Front
<1>3. /\ SubSeq(stack[t], 1, Len(stack[t]) - 1) \in Seq(FrameType)
      /\ Len(SubSeq(stack[t], 1, Len(stack[t]) - 1)) = Len(stack[t]) - 1
      /\ \A i \in 1 .. Len(stack[t]) - 1 : SubSeq(stack[t], 1, Len(stack[t]) - 1)[i] = stack[t][i]
  BY <1>1
<1> QED
  BY <1>2, <1>3 DEF Typed
-----------------------------------------------------------------------------
(* The steps of an operation that holds the lock.                          *)

\* The innermost operation of t, which holds its lock, becomes g; of its Jib,
\* h is the state, p the pending and e the recorded exception; o its outcome.
Steps(t, g, h, p, e, o) ==
  LET f == Top(t)
  IN  /\ Busy(t) /\ f.pc # "locking" /\ f.pc # "done" /\ g.pc # "locking"
      /\ g \in FrameType /\ Moves(t, g)
      /\ g.id = f.id /\ g.jib = f.jib /\ g.kind = f.kind /\ g.before = f.before
      /\ h \in Nat /\ p \in Ids \cup {NoId} /\ e \in Ids \cup {NoId}
      /\ heap' = [heap EXCEPT ![f.jib] = h]
      /\ pending' = [pending EXCEPT ![f.jib] = p]
      /\ exception' = [exception EXCEPT ![f.jib] = e]
      /\ outcome' = [outcome EXCEPT ![f.id] = o]
      /\ UNCHANGED <<lock, calls>>
      /\ Progress(g, h, p)

\* What an operation f that ends may leave: the state h, the exception e and
\* its outcome o, when e0 was the exception before.
Ends(f, h, e0, e, o) ==
  \/ f.kind = "call" /\ h = f.before + 1 /\ e = e0 /\ o = Value(h)
  \/ f.kind = "call" /\ h \in {f.before, f.before + 1} /\ e = f.id /\ o = Failed(f.jib)
  \/ f.kind = "get" /\ h \in {f.before + 1, f.before + 2} /\ e = e0 /\ o = Value(h)
  \/ f.kind = "get" /\ h \in {f.before, f.before + 1, f.before + 2} /\ e = e0 /\ o = Nil
  \/ f.kind = "set" /\ h = 0 /\ e = e0 /\ o = Done
  \/ f.kind = "set" /\ h = f.before /\ e = f.id /\ o = Failed(f.jib)
  \/ f.kind = "brief" /\ h = f.before /\ e = e0 /\ o = Done

\* Until it ends, an operation has no outcome and records no exception.
EndsOrGoesOn(f, g, h, e, o) ==
  IF g.pc = "done" THEN Ends(f, h, exception[f.jib], e, o)
  ELSE e = exception[f.jib] /\ o = outcome[f.id]

\* The invariant of the thread's innermost operation.
LEMMA TopProgress ==
  ASSUME CInv, NEW t \in Threads, Busy(t), Top(t).pc # "locking"
  PROVE  /\ Owns(t, Len(stack[t])) /\ Top(t).jib \in Jibs /\ Top(t).id \in Ids
         /\ Progress(Top(t), heap[Top(t).jib], pending[Top(t).jib])
  BY TopTyped DEF CInv, ProgressInv, Owns, FrameType

\* A step that leaves state and exceptions of its Jib as they are.
LEMMA Unmoved ==
  ASSUME CInv, NEW t \in Threads, Busy(t)
  PROVE  LET f == Top(t)
         IN  /\ heap = [heap EXCEPT ![f.jib] = heap[f.jib]] /\ heap[f.jib] \in Nat
             /\ pending = [pending EXCEPT ![f.jib] = pending[f.jib]] /\ pending[f.jib] \in Ids \cup {NoId}
             /\ exception = [exception EXCEPT ![f.jib] = exception[f.jib]] /\ exception[f.jib] \in Ids \cup {NoId}
             /\ outcome = [outcome EXCEPT ![f.id] = outcome[f.id]]
<1>1. Top(t).jib \in Jibs /\ Top(t).id \in Ids
  BY TopTyped DEF CInv, FrameType
<1>2. outcome = [c \in Ids |-> outcome[c]]
  BY DEF CInv, Typed
<1>3. outcome = [outcome EXCEPT ![Top(t).id] = outcome[Top(t).id]]
  BY <1>1, <1>2
<1> QED
  BY <1>1, <1>3 DEF CInv, Typed

\* An operation whose pc alone changes.
LEMMA SetPc ==
  ASSUME NEW f \in FrameType, NEW pc \in Pcs
  PROVE  LET g == [f EXCEPT !.pc = pc]
         IN  /\ g \in FrameType /\ g.pc = pc /\ g.id = f.id /\ g.jib = f.jib /\ g.kind = f.kind
             /\ g.run = f.run /\ g.before = f.before /\ g.read = f.read
  BY DEF FrameType

\* Script begins.
LEMMA ReadsSteps ==
  ASSUME CInv, NEW t \in Threads, ScriptReads(t)
  PROVE  \E g, h, p, e, o : Steps(t, g, h, p, e, o) /\ EndsOrGoesOn(Top(t), g, h, e, o)
<1> DEFINE f == Top(t)
           g == [f EXCEPT !.pc = "script", !.read = heap[f.jib]]
<1>1. Busy(t) /\ f.pc = "start" /\ f.kind \in {"call", "get"} /\ Moves(t, g)
  BY DEF ScriptReads, At
<1>2. f \in FrameType /\ f.jib \in Jibs /\ f.id \in Ids /\ Progress(f, heap[f.jib], pending[f.jib])
  BY <1>1, TopTyped, TopProgress DEF CInv
<1>3. heap[f.jib] \in Nat
  BY <1>2 DEF CInv, Typed
<1> HIDE DEF f
<1>4. /\ g \in FrameType /\ g.id = f.id /\ g.jib = f.jib /\ g.kind = f.kind /\ g.before = f.before /\ g.run = f.run
      /\ g.pc = "script" /\ g.read = heap[f.jib]
  BY <1>2, <1>3 DEF FrameType, Pcs
<1>5. Progress(g, heap[f.jib], pending[f.jib])
  BY <1>1, <1>2, <1>4 DEF Progress
<1>6. UNCHANGED <<lock, calls, heap, pending, exception, outcome>>
  BY DEF ScriptReads
<1> HIDE DEF g
<1>7. Steps(t, g, heap[f.jib], pending[f.jib], exception[f.jib], outcome[f.id])
  BY <1>1, <1>4, <1>5, <1>6, Unmoved DEF Steps, f
<1>8. EndsOrGoesOn(f, g, heap[f.jib], exception[f.jib], outcome[f.id])
  BY <1>4 DEF EndsOrGoesOn
<1> QED
  BY <1>7, <1>8 DEF f
\* Script returns.
LEMMA ReturnsSteps ==
  ASSUME CInv, NEW t \in Threads, ScriptReturns(t)
  PROVE  \E g, h, p, e, o : Steps(t, g, h, p, e, o) /\ EndsOrGoesOn(Top(t), g, h, e, o)
<1> DEFINE f == Top(t)
           g == [f EXCEPT !.pc = "returned"]
           h == f.read + 1
           p == pending[f.jib]
           e == exception[f.jib]
           o == outcome[f.id]
<1>1. /\ Busy(t) /\ f.pc = "script" /\ Moves(t, g)
      /\ UNCHANGED <<lock, calls, pending, exception, outcome>>
  BY DEF ScriptReturns, At, Goes
<1>2. /\ f \in FrameType /\ f.jib \in Jibs /\ f.id \in Ids
      /\ Progress(f, heap[f.jib], pending[f.jib])
      /\ heap[f.jib] \in Nat /\ f.before \in Nat /\ f.read \in Nat
  BY <1>1, TopTyped, TopProgress DEF CInv, Typed, FrameType
<1>3. /\ heap' = [heap EXCEPT ![f.jib] = h] /\ h \in Nat
      /\ pending' = [pending EXCEPT ![f.jib] = p] /\ p \in Ids \cup {NoId}
      /\ exception' = [exception EXCEPT ![f.jib] = e] /\ e \in Ids \cup {NoId}
      /\ outcome' = [outcome EXCEPT ![f.id] = o]
  BY <1>1, <1>2, Unmoved DEF ScriptReturns, Yields, CInv, Typed
<1> HIDE DEF f, h, p, e, o
<1>4. /\ g \in FrameType /\ g.pc = "returned" /\ g.id = f.id /\ g.jib = f.jib /\ g.kind = f.kind
      /\ g.before = f.before /\ g.run = f.run
  BY <1>2, SetPc DEF Pcs
<1> HIDE DEF g
<1>5. Progress(g, h, p) /\ EndsOrGoesOn(f, g, h, e, o)
  BY <1>1, <1>2, <1>4 DEF Progress, EndsOrGoesOn, h, p, e, o
<1>6. Steps(t, g, h, p, e, o)
  BY <1>1, <1>3, <1>4, <1>5 DEF Steps, f
<1> QED
  BY <1>5, <1>6 DEF f

\* resolve(_:) evaluates its text again.
LEMMA AgainSteps ==
  ASSUME CInv, NEW t \in Threads, ResolveAgain(t)
  PROVE  \E g, h, p, e, o : Steps(t, g, h, p, e, o) /\ EndsOrGoesOn(Top(t), g, h, e, o)
<1> DEFINE f == Top(t)
           g == [f EXCEPT !.pc = "start", !.run = 2]
           h == heap[f.jib]
           p == pending[f.jib]
           e == exception[f.jib]
           o == outcome[f.id]
<1>1. /\ Busy(t) /\ f.pc = "threw" /\ f.kind = "get" /\ f.run = 1 /\ Moves(t, g)
      /\ UNCHANGED <<lock, calls, heap, pending, exception, outcome>>
  BY DEF ResolveAgain, At, Goes
<1>2. /\ f \in FrameType /\ f.jib \in Jibs /\ f.id \in Ids
      /\ Progress(f, heap[f.jib], pending[f.jib])
      /\ heap[f.jib] \in Nat /\ f.before \in Nat /\ f.read \in Nat
  BY <1>1, TopTyped, TopProgress DEF CInv, Typed, FrameType
<1>3. /\ heap' = [heap EXCEPT ![f.jib] = h] /\ h \in Nat
      /\ pending' = [pending EXCEPT ![f.jib] = p] /\ p \in Ids \cup {NoId}
      /\ exception' = [exception EXCEPT ![f.jib] = e] /\ e \in Ids \cup {NoId}
      /\ outcome' = [outcome EXCEPT ![f.id] = o]
  BY <1>1, <1>2, Unmoved DEF ResolveAgain, Yields, CInv, Typed
<1> HIDE DEF f, h, p, e, o
<1>4. /\ g \in FrameType /\ g.pc = "start" /\ g.id = f.id /\ g.jib = f.jib /\ g.kind = f.kind
      /\ g.before = f.before /\ g.run = 2
  BY <1>2 DEF FrameType, Pcs
<1> HIDE DEF g
<1>5. Progress(g, h, p) /\ EndsOrGoesOn(f, g, h, e, o)
  BY <1>1, <1>2, <1>4 DEF Progress, EndsOrGoesOn, h, p, e, o
<1>6. Steps(t, g, h, p, e, o)
  BY <1>1, <1>3, <1>4, <1>5 DEF Steps, f
<1> QED
  BY <1>5, <1>6 DEF f

\* A subscript finds nothing.
LEMMA FailsSteps ==
  ASSUME CInv, NEW t \in Threads, ResolveFails(t)
  PROVE  \E g, h, p, e, o : Steps(t, g, h, p, e, o) /\ EndsOrGoesOn(Top(t), g, h, e, o)
<1> DEFINE f == Top(t)
           g == [f EXCEPT !.pc = "done"]
           h == heap[f.jib]
           p == pending[f.jib]
           e == exception[f.jib]
           o == Nil
<1>1. /\ Busy(t) /\ f.pc = "threw" /\ f.kind = "get" /\ f.run = 2 /\ Moves(t, g)
      /\ UNCHANGED <<lock, calls, heap, pending, exception>>
  BY DEF ResolveFails, At, Goes
<1>2. /\ f \in FrameType /\ f.jib \in Jibs /\ f.id \in Ids
      /\ Progress(f, heap[f.jib], pending[f.jib])
      /\ heap[f.jib] \in Nat /\ f.before \in Nat /\ f.read \in Nat
  BY <1>1, TopTyped, TopProgress DEF CInv, Typed, FrameType
<1>3. /\ heap' = [heap EXCEPT ![f.jib] = h] /\ h \in Nat
      /\ pending' = [pending EXCEPT ![f.jib] = p] /\ p \in Ids \cup {NoId}
      /\ exception' = [exception EXCEPT ![f.jib] = e] /\ e \in Ids \cup {NoId}
      /\ outcome' = [outcome EXCEPT ![f.id] = o]
  BY <1>1, <1>2, Unmoved DEF ResolveFails, Yields, CInv, Typed
<1> HIDE DEF f, h, p, e, o
<1>4. /\ g \in FrameType /\ g.pc = "done" /\ g.id = f.id /\ g.jib = f.jib /\ g.kind = f.kind
      /\ g.before = f.before /\ g.run = f.run
  BY <1>2, SetPc DEF Pcs
<1> HIDE DEF g
<1>5. Progress(g, h, p) /\ EndsOrGoesOn(f, g, h, e, o)
  BY <1>1, <1>2, <1>4 DEF Progress, EndsOrGoesOn, Ends, h, p, e, o
<1>6. Steps(t, g, h, p, e, o)
  BY <1>1, <1>3, <1>4, <1>5 DEF Steps, f
<1> QED
  BY <1>5, <1>6 DEF f

\* An exception is recorded.
LEMMA RecordSteps ==
  ASSUME CInv, NEW t \in Threads, Record(t)
  PROVE  \E g, h, p, e, o : Steps(t, g, h, p, e, o) /\ EndsOrGoesOn(Top(t), g, h, e, o)
<1> DEFINE f == Top(t)
           g == [f EXCEPT !.pc = "done"]
           h == heap[f.jib]
           p == NoId
           e == pending[f.jib]
           o == Failed(f.jib)
<1>1. /\ Busy(t) /\ f.pc = "threw" /\ f.kind # "get" /\ Moves(t, g)
      /\ UNCHANGED <<lock, calls, heap>>
  BY DEF Record, At, Goes
<1>2. /\ f \in FrameType /\ f.jib \in Jibs /\ f.id \in Ids
      /\ Progress(f, heap[f.jib], pending[f.jib])
      /\ heap[f.jib] \in Nat /\ f.before \in Nat /\ f.kind \in Kinds
  BY <1>1, TopTyped, TopProgress DEF CInv, Typed, FrameType
<1>3. /\ heap' = [heap EXCEPT ![f.jib] = h] /\ h \in Nat
      /\ pending' = [pending EXCEPT ![f.jib] = p] /\ p \in Ids \cup {NoId}
      /\ exception' = [exception EXCEPT ![f.jib] = e] /\ e \in Ids \cup {NoId}
      /\ outcome' = [outcome EXCEPT ![f.id] = o]
  BY <1>1, <1>2, Unmoved DEF Record, Yields, CInv, Typed
<1> HIDE DEF f, h, p, e, o
<1>4. /\ g \in FrameType /\ g.pc = "done" /\ g.id = f.id /\ g.jib = f.jib /\ g.kind = f.kind
      /\ g.before = f.before /\ g.run = f.run
  BY <1>2, SetPc DEF Pcs
<1> HIDE DEF g
<1>5. Progress(g, h, p) /\ EndsOrGoesOn(f, g, h, e, o)
  BY <1>1, <1>2, <1>4 DEF Progress, EndsOrGoesOn, Ends, Kinds, h, p, e, o
<1>6. Steps(t, g, h, p, e, o)
  BY <1>1, <1>3, <1>4, <1>5 DEF Steps, f
<1> QED
  BY <1>5, <1>6 DEF f

\* A value is converted.
LEMMA ConvertSteps ==
  ASSUME CInv, NEW t \in Threads, Convert(t)
  PROVE  \E g, h, p, e, o : Steps(t, g, h, p, e, o) /\ EndsOrGoesOn(Top(t), g, h, e, o)
<1> DEFINE f == Top(t)
           g == [f EXCEPT !.pc = "done"]
           h == heap[f.jib]
           p == pending[f.jib]
           e == exception[f.jib]
           o == Value(heap[f.jib])
<1>1. /\ Busy(t) /\ f.pc = "returned" /\ Moves(t, g)
      /\ UNCHANGED <<lock, calls, heap, pending, exception>>
  BY DEF Convert, At, Goes
<1>2. /\ f \in FrameType /\ f.jib \in Jibs /\ f.id \in Ids
      /\ Progress(f, heap[f.jib], pending[f.jib])
      /\ heap[f.jib] \in Nat /\ f.before \in Nat /\ f.read \in Nat
  BY <1>1, TopTyped, TopProgress DEF CInv, Typed, FrameType
<1>3. /\ heap' = [heap EXCEPT ![f.jib] = h] /\ h \in Nat
      /\ pending' = [pending EXCEPT ![f.jib] = p] /\ p \in Ids \cup {NoId}
      /\ exception' = [exception EXCEPT ![f.jib] = e] /\ e \in Ids \cup {NoId}
      /\ outcome' = [outcome EXCEPT ![f.id] = o]
  BY <1>1, <1>2, Unmoved DEF Convert, Yields, CInv, Typed
<1> HIDE DEF f, h, p, e, o
<1>4. /\ g \in FrameType /\ g.pc = "done" /\ g.id = f.id /\ g.jib = f.jib /\ g.kind = f.kind
      /\ g.before = f.before /\ g.run = f.run
  BY <1>2, SetPc DEF Pcs
<1> HIDE DEF g
<1>5. Progress(g, h, p) /\ EndsOrGoesOn(f, g, h, e, o)
  BY <1>1, <1>2, <1>4 DEF Progress, EndsOrGoesOn, Ends, h, p, e, o
<1>6. Steps(t, g, h, p, e, o)
  BY <1>1, <1>3, <1>4, <1>5 DEF Steps, f
<1> QED
  BY <1>5, <1>6 DEF f

\* A property is set.
LEMMA SetSteps ==
  ASSUME CInv, NEW t \in Threads, SetGlobal(t)
  PROVE  \E g, h, p, e, o : Steps(t, g, h, p, e, o) /\ EndsOrGoesOn(Top(t), g, h, e, o)
<1> DEFINE f == Top(t)
           g == [f EXCEPT !.pc = "done"]
           h == 0
           p == pending[f.jib]
           e == exception[f.jib]
           o == Done
<1>1. /\ Busy(t) /\ f.pc = "start" /\ f.kind = "set" /\ Moves(t, g)
      /\ UNCHANGED <<lock, calls, pending, exception>>
  BY DEF SetGlobal, At, Goes
<1>2. /\ f \in FrameType /\ f.jib \in Jibs /\ f.id \in Ids
      /\ Progress(f, heap[f.jib], pending[f.jib])
      /\ heap[f.jib] \in Nat /\ f.before \in Nat /\ f.read \in Nat
  BY <1>1, TopTyped, TopProgress DEF CInv, Typed, FrameType
<1>3. /\ heap' = [heap EXCEPT ![f.jib] = h] /\ h \in Nat
      /\ pending' = [pending EXCEPT ![f.jib] = p] /\ p \in Ids \cup {NoId}
      /\ exception' = [exception EXCEPT ![f.jib] = e] /\ e \in Ids \cup {NoId}
      /\ outcome' = [outcome EXCEPT ![f.id] = o]
  BY <1>1, <1>2, Unmoved DEF SetGlobal, Yields, CInv, Typed
<1> HIDE DEF f, h, p, e, o
<1>4. /\ g \in FrameType /\ g.pc = "done" /\ g.id = f.id /\ g.jib = f.jib /\ g.kind = f.kind
      /\ g.before = f.before /\ g.run = f.run
  BY <1>2, SetPc DEF Pcs
<1> HIDE DEF g
<1>5. Progress(g, h, p) /\ EndsOrGoesOn(f, g, h, e, o)
  BY <1>1, <1>2, <1>4 DEF Progress, EndsOrGoesOn, Ends, h, p, e, o
<1>6. Steps(t, g, h, p, e, o)
  BY <1>1, <1>3, <1>4, <1>5 DEF Steps, f
<1> QED
  BY <1>5, <1>6 DEF f

\* A property is not set.
LEMMA SetThrowsSteps ==
  ASSUME CInv, NEW t \in Threads, SetGlobalThrows(t)
  PROVE  \E g, h, p, e, o : Steps(t, g, h, p, e, o) /\ EndsOrGoesOn(Top(t), g, h, e, o)
<1> DEFINE f == Top(t)
           g == [f EXCEPT !.pc = "threw"]
           h == heap[f.jib]
           p == f.id
           e == exception[f.jib]
           o == outcome[f.id]
<1>1. /\ Busy(t) /\ f.pc = "start" /\ f.kind = "set" /\ Moves(t, g)
      /\ UNCHANGED <<lock, calls, heap, exception, outcome>>
  BY DEF SetGlobalThrows, At, Goes
<1>2. /\ f \in FrameType /\ f.jib \in Jibs /\ f.id \in Ids
      /\ Progress(f, heap[f.jib], pending[f.jib])
      /\ heap[f.jib] \in Nat /\ f.before \in Nat /\ f.read \in Nat
  BY <1>1, TopTyped, TopProgress DEF CInv, Typed, FrameType
<1>3. /\ heap' = [heap EXCEPT ![f.jib] = h] /\ h \in Nat
      /\ pending' = [pending EXCEPT ![f.jib] = p] /\ p \in Ids \cup {NoId}
      /\ exception' = [exception EXCEPT ![f.jib] = e] /\ e \in Ids \cup {NoId}
      /\ outcome' = [outcome EXCEPT ![f.id] = o]
  BY <1>1, <1>2, Unmoved DEF SetGlobalThrows, Yields, CInv, Typed
<1> HIDE DEF f, h, p, e, o
<1>4. /\ g \in FrameType /\ g.pc = "threw" /\ g.id = f.id /\ g.jib = f.jib /\ g.kind = f.kind
      /\ g.before = f.before /\ g.run = f.run
  BY <1>2, SetPc DEF Pcs
<1> HIDE DEF g
<1>5. Progress(g, h, p) /\ EndsOrGoesOn(f, g, h, e, o)
  BY <1>1, <1>2, <1>4 DEF Progress, EndsOrGoesOn, h, p, e, o
<1>6. Steps(t, g, h, p, e, o)
  BY <1>1, <1>3, <1>4, <1>5 DEF Steps, f
<1> QED
  BY <1>5, <1>6 DEF f

\* new(function:body:) and garbageCollect() end.
LEMMA BriefSteps ==
  ASSUME CInv, NEW t \in Threads, Brief(t)
  PROVE  \E g, h, p, e, o : Steps(t, g, h, p, e, o) /\ EndsOrGoesOn(Top(t), g, h, e, o)
<1> DEFINE f == Top(t)
           g == [f EXCEPT !.pc = "done"]
           h == heap[f.jib]
           p == pending[f.jib]
           e == exception[f.jib]
           o == Done
<1>1. /\ Busy(t) /\ f.pc = "start" /\ f.kind = "brief" /\ Moves(t, g)
      /\ UNCHANGED <<lock, calls, heap, pending, exception>>
  BY DEF Brief, At, Goes
<1>2. /\ f \in FrameType /\ f.jib \in Jibs /\ f.id \in Ids
      /\ Progress(f, heap[f.jib], pending[f.jib])
      /\ heap[f.jib] \in Nat /\ f.before \in Nat /\ f.read \in Nat
  BY <1>1, TopTyped, TopProgress DEF CInv, Typed, FrameType
<1>3. /\ heap' = [heap EXCEPT ![f.jib] = h] /\ h \in Nat
      /\ pending' = [pending EXCEPT ![f.jib] = p] /\ p \in Ids \cup {NoId}
      /\ exception' = [exception EXCEPT ![f.jib] = e] /\ e \in Ids \cup {NoId}
      /\ outcome' = [outcome EXCEPT ![f.id] = o]
  BY <1>1, <1>2, Unmoved DEF Brief, Yields, CInv, Typed
<1> HIDE DEF f, h, p, e, o
<1>4. /\ g \in FrameType /\ g.pc = "done" /\ g.id = f.id /\ g.jib = f.jib /\ g.kind = f.kind
      /\ g.before = f.before /\ g.run = f.run
  BY <1>2, SetPc DEF Pcs
<1> HIDE DEF g
<1>5. Progress(g, h, p) /\ EndsOrGoesOn(f, g, h, e, o)
  BY <1>1, <1>2, <1>4 DEF Progress, EndsOrGoesOn, Ends, h, p, e, o
<1>6. Steps(t, g, h, p, e, o)
  BY <1>1, <1>3, <1>4, <1>5 DEF Steps, f
<1> QED
  BY <1>5, <1>6 DEF f

\* Script throws, before or after it has written the state.
LEMMA ThrowsSteps ==
  ASSUME CInv, NEW t \in Threads, ScriptThrows(t)
  PROVE  \E g, h, p, e, o : Steps(t, g, h, p, e, o) /\ EndsOrGoesOn(Top(t), g, h, e, o)
<1> DEFINE f == Top(t)
           g == [f EXCEPT !.pc = "threw"]
           h == IF heap' = heap THEN heap[f.jib] ELSE f.read + 1
           p == f.id
           e == exception[f.jib]
           o == outcome[f.id]
<1>1. /\ Busy(t) /\ f.pc = "script" /\ Moves(t, g)
      /\ UNCHANGED <<lock, calls, exception, outcome>>
  BY DEF ScriptThrows, At, Goes
<1>2. /\ f \in FrameType /\ f.jib \in Jibs /\ f.id \in Ids
      /\ Progress(f, heap[f.jib], pending[f.jib])
      /\ heap[f.jib] \in Nat /\ f.before \in Nat /\ f.read \in Nat
  BY <1>1, TopTyped, TopProgress DEF CInv, Typed, FrameType
<1>3. /\ heap' = [heap EXCEPT ![f.jib] = h] /\ h \in Nat
      /\ pending' = [pending EXCEPT ![f.jib] = p] /\ p \in Ids \cup {NoId}
      /\ exception' = [exception EXCEPT ![f.jib] = e] /\ e \in Ids \cup {NoId}
      /\ outcome' = [outcome EXCEPT ![f.id] = o]
  BY <1>1, <1>2, Unmoved DEF ScriptThrows, Yields, CInv, Typed
<1> HIDE DEF f, h, p, e, o
<1>4. /\ g \in FrameType /\ g.pc = "threw" /\ g.id = f.id /\ g.jib = f.jib /\ g.kind = f.kind
      /\ g.before = f.before /\ g.run = f.run
  BY <1>2, SetPc DEF Pcs
<1> HIDE DEF g
<1>5. Progress(g, h, p) /\ EndsOrGoesOn(f, g, h, e, o)
  BY <1>1, <1>2, <1>4 DEF Progress, EndsOrGoesOn, h, p, e, o
<1>6. Steps(t, g, h, p, e, o)
  BY <1>1, <1>3, <1>4, <1>5 DEF Steps, f
<1> QED
  BY <1>5, <1>6 DEF f

-----------------------------------------------------------------------------
(* Every step keeps the invariant.                                         *)

\* Such a step changes one operation, which keeps its number, Jib and lock.
LEMMA StepsFrames ==
  ASSUME CInv, NEW t \in Threads, NEW g, NEW h, NEW p, NEW e, NEW o, Steps(t, g, h, p, e, o)
  PROVE  LET f == Top(t)
             n == Len(stack[t])
         IN  /\ n \in Nat \ {0} /\ f = stack[t][n] /\ f \in FrameType /\ f.jib \in Jibs /\ f.id \in Ids /\ Owns(t, n)
             /\ stack' \in [Threads -> Seq(FrameType)] /\ stack'[t][n] = g
             /\ \A u \in Threads :
                  /\ Len(stack'[u]) = Len(stack[u]) /\ Len(stack[u]) \in Nat
                  /\ \A i \in 1 .. Len(stack[u]) :
                       /\ stack'[u][i].id = stack[u][i].id /\ stack'[u][i].jib = stack[u][i].jib
                       /\ (stack'[u][i].pc = "locking") <=> (stack[u][i].pc = "locking")
                       /\ u # t \/ i # n => stack'[u][i] = stack[u][i]
<1> DEFINE f == Top(t)
           n == Len(stack[t])
<1>1. /\ n \in Nat \ {0} /\ f = stack[t][n] /\ f \in FrameType /\ Typed /\ Owns(t, n)
  BY TopTyped, TopProgress DEF CInv, Steps
<1>2. /\ stack' \in [Threads -> Seq(FrameType)] /\ Len(stack'[t]) = n
      /\ \A i \in 1 .. n : stack'[t][i] = IF i = n THEN g ELSE stack[t][i]
      /\ \A u \in Threads : u # t => stack'[u] = stack[u]
  BY <1>1, Moved DEF Steps
<1>3. f.pc # "locking" /\ g.pc # "locking" /\ g.id = f.id /\ g.jib = f.jib /\ f.jib \in Jibs /\ f.id \in Ids
  BY <1>1 DEF Steps, FrameType
<1> HIDE DEF f, n
<1>4. stack'[t][n] = g
  BY <1>1, <1>2
<1>5. ASSUME NEW u \in Threads
      PROVE  /\ Len(stack'[u]) = Len(stack[u]) /\ Len(stack[u]) \in Nat
             /\ \A i \in 1 .. Len(stack[u]) : /\ stack'[u][i].id = stack[u][i].id /\ stack'[u][i].jib = stack[u][i].jib
                                              /\ (stack'[u][i].pc = "locking") <=> (stack[u][i].pc = "locking")
                                              /\ u # t \/ i # n => stack'[u][i] = stack[u][i]
  <2>1. Len(stack[u]) \in Nat
    BY <1>1 DEF Typed
  <2>2. CASE u = t
    BY <1>1, <1>2, <1>3, <2>2 DEF n
  <2>3. CASE u # t
    BY <1>2, <2>1, <2>3
  <2> QED
    BY <2>2, <2>3
<1> QED
  BY <1>1, <1>2, <1>3, <1>4, <1>5 DEF f, n

\* A step of an operation that holds the lock.
LEMMA StepsKeep ==
  ASSUME CInv, NEW t \in Threads, NEW g, NEW h, NEW p, NEW e, NEW o, Steps(t, g, h, p, e, o)
  PROVE  CInv'
<1> DEFINE f == Top(t)
           n == Len(stack[t])
<1>1. /\ n \in Nat \ {0} /\ f = stack[t][n] /\ f \in FrameType /\ f.jib \in Jibs /\ f.id \in Ids /\ Owns(t, n)
      /\ stack' \in [Threads -> Seq(FrameType)] /\ stack'[t][n] = g /\ Typed
  BY StepsFrames DEF CInv
<1>3. /\ f.pc # "locking" /\ g.pc # "locking" /\ UNCHANGED <<lock, calls>>
      /\ g.id = f.id /\ g.jib = f.jib
      /\ heap' = [heap EXCEPT ![f.jib] = h] /\ h \in Nat
      /\ pending' = [pending EXCEPT ![f.jib] = p] /\ p \in Ids \cup {NoId}
      /\ exception' = [exception EXCEPT ![f.jib] = e] /\ e \in Ids \cup {NoId}
      /\ outcome' = [outcome EXCEPT ![f.id] = o]
      /\ Progress(g, h, p)
  BY <1>1 DEF Steps, FrameType
<1> HIDE DEF f, n
<1>4. Typed'
  <2>1. outcome' = [c \in Ids |-> outcome'[c]]
    BY <1>1, <1>3 DEF Typed
  <2> QED
    BY <1>1, <1>3, <2>1 DEF Typed
<1>5. ASSUME NEW u \in Threads
      PROVE  /\ Len(stack'[u]) = Len(stack[u]) /\ Len(stack[u]) \in Nat
             /\ \A i \in 1 .. Len(stack[u]) : /\ stack'[u][i].id = stack[u][i].id /\ stack'[u][i].jib = stack[u][i].jib
                                              /\ (stack'[u][i].pc = "locking") <=> (stack[u][i].pc = "locking")
                                              /\ u # t \/ i # n => stack'[u][i] = stack[u][i]
  BY StepsFrames, <1>5 DEF f, n
<1>6. ASSUME NEW u \in Threads, NEW i
      PROVE  Owns(u, i)' <=> Owns(u, i)
  BY <1>5 DEF Owns
<1>7. LockInv'
  <2>1. LockInv
    BY DEF CInv
  <2>2. ASSUME NEW u \in Threads, NEW i, Owns(u, i)' PROVE stack'[u][i].jib = stack[u][i].jib /\ Owns(u, i)
    BY <1>5, <1>6, <2>2 DEF Owns
  <2>3. ASSUME NEW u \in Threads, NEW i, Owns(u, i)' PROVE lock'[stack'[u][i].jib] = u
    BY <1>3, <2>1, <2>2, <2>3 DEF LockInv
  <2>4. ASSUME NEW u \in Threads, NEW i, NEW k, Owns(u, i)', Owns(u, k)', stack'[u][i].jib = stack'[u][k].jib PROVE i = k
    BY <2>1, <2>2, <2>4 DEF LockInv
  <2>5. ASSUME NEW j \in Jibs, lock'[j] # NoThread
        PROVE  (\E i : Owns(lock[j], i) /\ stack[lock[j]][i].jib = j)'
    <3>1. lock'[j] \in Threads /\ lock' = lock
      BY <1>1, <1>3, <2>5 DEF Typed
    <3>2. PICK i : Owns(lock[j], i) /\ stack[lock[j]][i].jib = j
      BY <2>1, <2>5, <3>1 DEF LockInv
    <3>3. /\ i \in 1 .. Len(stack'[lock[j]]) /\ stack'[lock[j]][i].pc # "locking"
          /\ stack'[lock[j]][i].jib = j
      BY <1>5, <3>1, <3>2 DEF Owns
    <3> QED
      BY <3>1, <3>3 DEF Owns
  <2> QED
    BY <2>3, <2>4, <2>5 DEF LockInv
<1>8. IdsInv'
  <2>1. IdsInv
    BY DEF CInv
  <2>2. ASSUME NEW c \in Ids, c > calls PROVE outcome'[c] = Unset
    <3>1. f.id <= calls
      BY <1>1, <2>1 DEF IdsInv, Owns
    <3> QED
      BY <1>1, <1>3, <2>1, <2>2, <3>1 DEF IdsInv, Typed, Ids
  <2>3. ASSUME NEW u \in Threads, NEW i \in 1 .. Len(stack'[u]) PROVE stack'[u][i].id <= calls'
    <3>1. i \in 1 .. Len(stack[u]) /\ stack'[u][i].id = stack[u][i].id
      BY <1>5, <2>3
    <3> QED
      BY <1>3, <2>1, <3>1 DEF IdsInv
  <2>4. ASSUME NEW u \in Threads, NEW v \in Threads, NEW i \in 1 .. Len(stack'[u]), NEW m \in 1 .. Len(stack'[v]),
               stack'[u][i].id = stack'[v][m].id
        PROVE  u = v /\ i = m
    <3>1. i \in 1 .. Len(stack[u]) /\ stack'[u][i].id = stack[u][i].id
      BY <1>5, <2>4
    <3>2. m \in 1 .. Len(stack[v]) /\ stack'[v][m].id = stack[v][m].id
      BY <1>5, <2>4
    <3>3. stack[u][i].id = stack[v][m].id
      BY <2>4, <3>1, <3>2
    <3> QED
      BY <2>1, <3>1, <3>2, <3>3 DEF IdsInv
  <2>5. ASSUME NEW c \in Ids, c > calls' PROVE outcome'[c] = Unset
    BY <1>3, <2>2, <2>5
  <2> QED
    BY <2>3, <2>4, <2>5 DEF IdsInv
<1>9. ProgressInv'
  <2>1. ASSUME NEW u \in Threads, NEW i \in 1 .. Len(stack[u]), u # t \/ i # n
        PROVE  /\ stack'[u][i] = stack[u][i]
               /\ Owns(u, i) => /\ heap'[stack[u][i].jib] = heap[stack[u][i].jib]
                                /\ pending'[stack[u][i].jib] = pending[stack[u][i].jib]
    <3>1. ASSUME Owns(u, i) PROVE stack[u][i].jib # f.jib
      BY <1>1, <2>1, <3>1 DEF CInv, LockInv
    <3>2. stack[u] \in Seq(FrameType) /\ stack[u][i] \in FrameType
      BY <1>1, <2>1 DEF Typed
    <3>3. stack'[u][i] = stack[u][i]
      BY <1>5, <2>1
    <3>4. stack[u][i].jib \in Jibs
      BY <3>2 DEF FrameType
    <3>5. ASSUME Owns(u, i)
          PROVE  /\ heap'[stack[u][i].jib] = heap[stack[u][i].jib]
                 /\ pending'[stack[u][i].jib] = pending[stack[u][i].jib]
      BY <1>1, <1>3, <3>1, <3>4, <3>5 DEF Typed
    <3> QED
      BY <3>3, <3>5
  <2>2. ASSUME NEW u \in Threads, NEW i \in 1 .. Len(stack'[u])
        PROVE  /\ stack'[u][i].pc = "locking" => stack'[u][i].run = 1
               /\ Owns(u, i)' => Progress(stack'[u][i], heap'[stack'[u][i].jib], pending'[stack'[u][i].jib])
    <3>1. i \in 1 .. Len(stack[u])
      BY <1>5, <2>2
    <3>2. CASE u # t \/ i # n
      BY <1>6, <2>1, <3>1, <3>2 DEF CInv, ProgressInv
    <3>3. CASE u = t /\ i = n
      <4>1. stack'[u][i] = g
        BY <1>1, <3>3
      <4>2. heap'[g.jib] = h /\ pending'[g.jib] = p
        BY <1>1, <1>3 DEF Typed
      <4> QED
        BY <1>3, <4>1, <4>2
    <3> QED
      BY <3>2, <3>3
  <2> QED
    BY <2>2 DEF ProgressInv
<1> QED
  BY <1>4, <1>7, <1>8, <1>9 DEF CInv

\* lock.lock() returns.
LEMMA AcquireKeeps ==
  ASSUME CInv, NEW t \in Threads, Acquire(t)
  PROVE  CInv'
<1> DEFINE f == Top(t)
           n == Len(stack[t])
           g == [f EXCEPT !.pc = "start", !.before = heap[f.jib]]
<1>1. /\ Busy(t) /\ f.pc = "locking" /\ lock[f.jib] = NoThread /\ lock' = [lock EXCEPT ![f.jib] = t]
      /\ Moves(t, g) /\ UNCHANGED <<calls, heap, pending, exception, outcome>>
  BY DEF Acquire, At
<1>2. /\ n \in Nat \ {0} /\ f = stack[t][n] /\ f \in FrameType /\ Typed /\ f.jib \in Jibs
  BY <1>1, TopTyped DEF CInv, FrameType
<1>3. f.run = 1
  BY <1>1, <1>2 DEF CInv, ProgressInv
<1>4. heap[f.jib] \in Nat
  BY <1>2 DEF Typed
<1> HIDE DEF f
<1>5. /\ g \in FrameType /\ g.pc = "start" /\ g.id = f.id /\ g.jib = f.jib /\ g.run = 1 /\ g.before = heap[f.jib]
  BY <1>2, <1>3, <1>4 DEF FrameType, Pcs
<1> HIDE DEF g, n
<1>6. /\ stack' \in [Threads -> Seq(FrameType)] /\ Len(stack'[t]) = n
      /\ \A i \in 1 .. n : stack'[t][i] = IF i = n THEN g ELSE stack[t][i]
      /\ \A u \in Threads : u # t => stack'[u] = stack[u]
  BY <1>1, <1>2, <1>5, Moved DEF n
<1>7. Typed'
  BY <1>1, <1>2, <1>6 DEF Typed
<1>8. ASSUME NEW u \in Threads
      PROVE  /\ Len(stack'[u]) = Len(stack[u]) /\ Len(stack[u]) \in Nat
             /\ \A i \in 1 .. Len(stack[u]) : /\ stack'[u][i].id = stack[u][i].id /\ stack'[u][i].jib = stack[u][i].jib
                                              /\ u # t \/ i # n => stack'[u][i] = stack[u][i]
  <2>1. Len(stack[u]) \in Nat
    BY <1>2 DEF Typed
  <2>2. CASE u = t
    BY <1>2, <1>5, <1>6, <2>2 DEF n
  <2>3. CASE u # t
    BY <1>6, <2>1, <2>3
  <2> QED
    BY <2>2, <2>3
<1>9. ASSUME NEW u \in Threads, NEW i
      PROVE  Owns(u, i)' <=> Owns(u, i) \/ (u = t /\ i = n)
  BY <1>1, <1>2, <1>5, <1>6, <1>8 DEF Owns, n
\* nobody was past the lock
<1>10. ASSUME NEW u \in Threads, NEW i, Owns(u, i) PROVE stack[u][i].jib # f.jib
  BY <1>1, <1>10, ThreadsAssumption DEF CInv, LockInv
<1>11. LockInv'
  <2>1. LockInv
    BY DEF CInv
  <2>2. ASSUME NEW u \in Threads, NEW i, Owns(u, i)'
        PROVE  \/ u = t /\ i = n /\ stack'[u][i].jib = f.jib
               \/ Owns(u, i) /\ stack'[u][i].jib = stack[u][i].jib /\ stack[u][i].jib # f.jib /\ stack[u][i].jib \in Jibs
    <3>1. CASE u = t /\ i = n
      BY <1>2, <1>5, <1>6, <3>1
    <3>2. CASE Owns(u, i)
      <4>1. stack[u] \in Seq(FrameType) /\ i \in 1 .. Len(stack[u]) /\ stack[u][i] \in FrameType
        BY <1>2, <3>2 DEF Typed, Owns
      <4> QED
        BY <1>8, <1>10, <3>2, <4>1 DEF FrameType
    <3> QED
      BY <1>9, <2>2, <3>1, <3>2
  <2>3. ASSUME NEW u \in Threads, NEW i, Owns(u, i)' PROVE lock'[stack'[u][i].jib] = u
    <3>1. CASE u = t /\ stack'[u][i].jib = f.jib
      BY <1>1, <1>2, <3>1 DEF Typed
    <3>2. CASE Owns(u, i) /\ stack'[u][i].jib = stack[u][i].jib /\ stack[u][i].jib # f.jib /\ stack[u][i].jib \in Jibs
      <4>1. lock[stack[u][i].jib] = u
        BY <2>1, <3>2 DEF LockInv
      <4> QED
        BY <1>1, <1>2, <3>2, <4>1 DEF Typed
    <3> QED
      BY <2>2, <2>3, <3>1, <3>2
  <2>4. ASSUME NEW u \in Threads, NEW i, NEW k, Owns(u, i)', Owns(u, k)', stack'[u][i].jib = stack'[u][k].jib PROVE i = k
    BY <2>1, <2>2, <2>4 DEF LockInv
  <2>5. ASSUME NEW j \in Jibs, lock'[j] # NoThread
        PROVE  (\E i : Owns(lock[j], i) /\ stack[lock[j]][i].jib = j)'
    <3>1. CASE j = f.jib
      <4>1. lock'[j] = t /\ n \in 1 .. Len(stack'[t]) /\ stack'[t][n].pc # "locking" /\ stack'[t][n].jib = j
        BY <1>1, <1>2, <1>5, <1>6, <3>1 DEF Typed
      <4> QED
        BY <4>1 DEF Owns
    <3>2. CASE j # f.jib
      <4>1. lock'[j] = lock[j] /\ lock[j] \in Threads
        BY <1>1, <1>2, <2>5, <3>2 DEF Typed
      <4>2. PICK i : Owns(lock[j], i) /\ stack[lock[j]][i].jib = j
        BY <2>1, <2>5, <4>1 DEF LockInv
      <4>3. Owns(lock[j], i)' /\ stack'[lock[j]][i].jib = j
        <5>1. Owns(lock[j], i) => i \in 1 .. Len(stack[lock[j]])
          BY DEF Owns
        <5>2. lock[j] # t \/ i # n
          BY <1>2, <3>2, <4>2
        <5> QED
          BY <1>8, <4>1, <4>2, <5>1, <5>2 DEF Owns
      <4> QED
        BY <4>1, <4>3
    <3> QED
      BY <3>1, <3>2
  <2> QED
    BY <2>3, <2>4, <2>5 DEF LockInv
<1>12. IdsInv'
  BY <1>1, <1>8 DEF CInv, IdsInv
<1>13. ProgressInv'
  <2>1. ASSUME NEW u \in Threads, NEW i \in 1 .. Len(stack'[u])
        PROVE  /\ stack'[u][i].pc = "locking" => stack'[u][i].run = 1
               /\ Owns(u, i)' => Progress(stack'[u][i], heap'[stack'[u][i].jib], pending'[stack'[u][i].jib])
    <3>1. i \in 1 .. Len(stack[u])
      BY <1>8, <2>1
    <3>2. CASE u # t \/ i # n
      BY <1>1, <1>8, <1>9, <3>1, <3>2 DEF CInv, ProgressInv
    <3>3. CASE u = t /\ i = n
      <4>1. stack'[u][i] = g
        BY <1>2, <1>6, <3>3
      <4> QED
        BY <1>1, <1>5, <4>1 DEF Progress
    <3> QED
      BY <3>2, <3>3
  <2> QED
    BY <2>1 DEF ProgressInv
<1> QED
  BY <1>7, <1>11, <1>12, <1>13 DEF CInv

\* An operation is called.
LEMMA CallKeeps ==
  ASSUME CInv, NEW t \in Threads, NEW j \in Jibs, NEW k \in Kinds, Call(t, j, k)
  PROVE  CInv'
<1> DEFINE n == Len(stack[t])
           g == Frame(calls + 1, j, k)
<1>1. /\ calls < MaxCalls /\ calls' = calls + 1 /\ stack' = [stack EXCEPT ![t] = Append(@, g)]
      /\ UNCHANGED <<lock, heap, pending, exception, outcome>>
  BY DEF Call
<1>2. Typed /\ calls \in Nat /\ calls + 1 \in Ids
  BY <1>1, MaxCallsAssumption DEF CInv, Typed, Ids
<1>3. g \in FrameType /\ g.id = calls + 1 /\ g.pc = "locking" /\ g.run = 1
  BY <1>2 DEF Frame, FrameType, Pcs
<1> HIDE DEF g, n
<1>4. /\ stack' \in [Threads -> Seq(FrameType)] /\ Len(stack'[t]) = n + 1 /\ n \in Nat
      /\ \A i \in 1 .. n + 1 : stack'[t][i] = IF i = n + 1 THEN g ELSE stack[t][i]
      /\ \A u \in Threads : u # t => stack'[u] = stack[u]
  BY <1>1, <1>2, <1>3, Pushed DEF n
<1>5. Typed'
  <2>1. calls' \in 0 .. MaxCalls
    BY <1>1, <1>2 DEF Ids
  <2> QED
    BY <1>1, <1>2, <1>4, <2>1 DEF Typed
<1>6. ASSUME NEW u \in Threads, NEW i \in 1 .. Len(stack'[u])
      PROVE  \/ u = t /\ i = n + 1 /\ stack'[u][i] = g
             \/ i \in 1 .. Len(stack[u]) /\ stack'[u][i] = stack[u][i]
  BY <1>4, <1>6 DEF n
<1>7. ASSUME NEW u \in Threads, NEW i \in 1 .. Len(stack[u])
      PROVE  i \in 1 .. Len(stack'[u]) /\ stack'[u][i] = stack[u][i]
  BY <1>4, <1>7 DEF n
<1>8. ASSUME NEW u \in Threads, NEW i
      PROVE  /\ Owns(u, i)' <=> Owns(u, i)
             /\ Owns(u, i) => stack'[u][i] = stack[u][i]
  BY <1>3, <1>6, <1>7 DEF Owns
<1>9. LockInv'
  <2>1. LockInv
    BY DEF CInv
  <2>2. ASSUME NEW x \in Jibs, lock'[x] # NoThread
        PROVE  (\E i : Owns(lock[x], i) /\ stack[lock[x]][i].jib = x)'
    <3>1. lock' = lock /\ lock[x] \in Threads
      BY <1>1, <1>2, <2>2 DEF Typed
    <3>2. PICK i : Owns(lock[x], i) /\ stack[lock[x]][i].jib = x
      BY <2>1, <2>2, <3>1 DEF LockInv
    <3>3. /\ i \in 1 .. Len(stack'[lock[x]]) /\ stack'[lock[x]][i].pc # "locking" /\ stack'[lock[x]][i].jib = x
      BY <1>7, <3>1, <3>2 DEF Owns
    <3> QED
      BY <3>1, <3>3 DEF Owns
  <2>3. ASSUME NEW u \in Threads, NEW i, Owns(u, i)' PROVE lock'[stack'[u][i].jib] = u
    <3>1. Owns(u, i) /\ stack'[u][i] = stack[u][i] /\ lock' = lock
      BY <1>1, <1>8, <2>3
    <3>2. lock[stack[u][i].jib] = u
      BY <2>1, <3>1 DEF LockInv
    <3> QED
      BY <3>1, <3>2
  <2>4. ASSUME NEW u \in Threads, NEW i, NEW m, Owns(u, i)', Owns(u, m)', stack'[u][i].jib = stack'[u][m].jib PROVE i = m
    BY <1>8, <2>1, <2>4 DEF LockInv
  <2> QED
    BY <2>2, <2>3, <2>4 DEF LockInv
<1>10. IdsInv'
  <2>1. IdsInv
    BY DEF CInv
  <2>2. ASSUME NEW u \in Threads, NEW i \in 1 .. Len(stack[u]) PROVE stack[u][i].id \in Nat /\ stack[u][i].id <= calls
    <3>1. stack[u] \in Seq(FrameType) /\ stack[u][i] \in FrameType
      BY <1>2, <2>2 DEF Typed
    <3> QED
      BY <2>1, <2>2, <3>1 DEF IdsInv, FrameType, Ids
  <2>3. ASSUME NEW u \in Threads, NEW i \in 1 .. Len(stack'[u]) PROVE stack'[u][i].id <= calls'
    <3>1. CASE stack'[u][i] = g
      BY <1>1, <1>2, <1>3, <3>1
    <3>2. CASE i \in 1 .. Len(stack[u]) /\ stack'[u][i] = stack[u][i]
      BY <1>1, <1>2, <2>2, <3>2
    <3> QED
      BY <1>6, <2>3, <3>1, <3>2
  <2>4. ASSUME NEW u \in Threads, NEW v \in Threads, NEW i \in 1 .. Len(stack'[u]), NEW m \in 1 .. Len(stack'[v]),
               stack'[u][i].id = stack'[v][m].id
        PROVE  u = v /\ i = m
    <3>1. CASE (u = t /\ i = n + 1) /\ (v = t /\ m = n + 1)
      BY <3>1
    <3>2. CASE (i \in 1 .. Len(stack[u]) /\ stack'[u][i] = stack[u][i]) /\ (m \in 1 .. Len(stack[v]) /\ stack'[v][m] = stack[v][m])
      <4>1. stack[u][i].id = stack[v][m].id
        BY <2>4, <3>2
      <4> QED
        BY <2>1, <3>2, <4>1 DEF IdsInv
    <3>3. CASE (stack'[u][i] = g) /\ (m \in 1 .. Len(stack[v]) /\ stack'[v][m] = stack[v][m])
      BY <1>2, <1>3, <2>2, <2>4, <3>3
    <3>4. CASE (stack'[v][m] = g) /\ (i \in 1 .. Len(stack[u]) /\ stack'[u][i] = stack[u][i])
      BY <1>2, <1>3, <2>2, <2>4, <3>4
    <3> QED
      BY <1>6, <3>1, <3>2, <3>3, <3>4
  <2>5. ASSUME NEW c \in Ids, c > calls' PROVE outcome'[c] = Unset
    BY <1>1, <1>2, <2>1, <2>5 DEF IdsInv, Ids
  <2> QED
    BY <2>3, <2>4, <2>5 DEF IdsInv
<1>11. ProgressInv'
  <2>1. ASSUME NEW u \in Threads, NEW i \in 1 .. Len(stack'[u])
        PROVE  /\ stack'[u][i].pc = "locking" => stack'[u][i].run = 1
               /\ Owns(u, i)' => Progress(stack'[u][i], heap'[stack'[u][i].jib], pending'[stack'[u][i].jib])
    BY <1>1, <1>3, <1>6, <1>8, <2>1 DEF CInv, ProgressInv, Owns
  <2> QED
    BY <2>1 DEF ProgressInv
<1> QED
  BY <1>5, <1>9, <1>10, <1>11 DEF CInv

\* lock.unlock(), and back to the caller.
LEMMA ReturnKeeps ==
  ASSUME CInv, NEW t \in Threads, Return(t)
  PROVE  CInv'
<1> DEFINE f == Top(t)
           n == Len(stack[t])
<1>1. /\ Busy(t) /\ f.pc = "done" /\ lock' = [lock EXCEPT ![f.jib] = NoThread]
      /\ stack' = [stack EXCEPT ![t] = Front(@)] /\ UNCHANGED <<calls, heap, pending, exception, outcome>>
  BY DEF Return, At
<1>2. /\ n \in Nat \ {0} /\ f = stack[t][n] /\ f \in FrameType /\ Typed /\ f.jib \in Jibs /\ Owns(t, n)
  BY <1>1, TopTyped, TopProgress DEF CInv
<1> HIDE DEF f, n
<1>3. /\ stack' \in [Threads -> Seq(FrameType)] /\ Len(stack'[t]) = n - 1
      /\ \A i \in 1 .. n - 1 : stack'[t][i] = stack[t][i]
      /\ \A u \in Threads : u # t => stack'[u] = stack[u]
  BY <1>1, <1>2, Popped DEF n
<1>4. Typed'
  BY <1>1, <1>2, <1>3 DEF Typed
<1>5. ASSUME NEW u \in Threads, NEW i \in 1 .. Len(stack'[u])
      PROVE  i \in 1 .. Len(stack[u]) /\ stack'[u][i] = stack[u][i] /\ (u # t \/ i # n)
  BY <1>2, <1>3, <1>5 DEF n
<1>6. ASSUME NEW u \in Threads, NEW i \in 1 .. Len(stack[u]), u # t \/ i # n
      PROVE  i \in 1 .. Len(stack'[u]) /\ stack'[u][i] = stack[u][i]
  BY <1>2, <1>3, <1>6 DEF n
<1>7. ASSUME NEW u \in Threads, NEW i, Owns(u, i)'
      PROVE  /\ Owns(u, i) /\ stack'[u][i] = stack[u][i]
             /\ stack[u][i].jib # f.jib /\ stack[u][i].jib \in Jibs
  <2>1. Owns(u, i) /\ stack'[u][i] = stack[u][i] /\ (u # t \/ i # n)
    BY <1>5, <1>7 DEF Owns
  <2>2. stack[u] \in Seq(FrameType) /\ i \in 1 .. Len(stack[u]) /\ stack[u][i] \in FrameType
    BY <1>2, <2>1 DEF Typed, Owns
  <2>3. stack[u][i].jib # f.jib
    BY <1>2, <2>1 DEF CInv, LockInv
  <2> QED
    BY <2>1, <2>2, <2>3 DEF FrameType
<1>8. LockInv'
  <2>1. LockInv
    BY DEF CInv
  <2>2. ASSUME NEW x \in Jibs, lock'[x] # NoThread
        PROVE  (\E i : Owns(lock[x], i) /\ stack[lock[x]][i].jib = x)'
    <3>1. lock'[x] = lock[x] /\ lock[x] \in Threads /\ x # f.jib
      BY <1>1, <1>2, <2>2 DEF Typed
    <3>2. PICK i : Owns(lock[x], i) /\ stack[lock[x]][i].jib = x
      BY <2>1, <2>2, <3>1 DEF LockInv
    <3>3. /\ i \in 1 .. Len(stack'[lock[x]]) /\ stack'[lock[x]][i].pc # "locking" /\ stack'[lock[x]][i].jib = x
      <4>1. lock[x] # t \/ i # n
        BY <1>2, <3>1, <3>2
      <4> QED
        BY <1>6, <3>1, <3>2, <4>1 DEF Owns
    <3> QED
      BY <3>1, <3>3 DEF Owns
  <2>3. ASSUME NEW u \in Threads, NEW i, Owns(u, i)' PROVE lock'[stack'[u][i].jib] = u
    BY <1>1, <1>2, <1>7, <2>1, <2>3 DEF LockInv, Typed
  <2>4. ASSUME NEW u \in Threads, NEW i, NEW m, Owns(u, i)', Owns(u, m)', stack'[u][i].jib = stack'[u][m].jib PROVE i = m
    BY <1>7, <2>1, <2>4 DEF LockInv
  <2> QED
    BY <2>2, <2>3, <2>4 DEF LockInv
<1>9. IdsInv'
  BY <1>1, <1>5 DEF CInv, IdsInv
<1>10. ProgressInv'
  <2>1. ASSUME NEW u \in Threads, NEW i \in 1 .. Len(stack'[u])
        PROVE  /\ stack'[u][i].pc = "locking" => stack'[u][i].run = 1
               /\ Owns(u, i)' => Progress(stack'[u][i], heap'[stack'[u][i].jib], pending'[stack'[u][i].jib])
    BY <1>1, <1>5, <1>7, <2>1 DEF CInv, ProgressInv
  <2> QED
    BY <2>1 DEF ProgressInv
<1> QED
  BY <1>4, <1>8, <1>9, <1>10 DEF CInv

-----------------------------------------------------------------------------
(* What the invariant says.                                                *)

\* It holds at first.
LEMMA InitCInv == Init => CInv
<1> SUFFICES ASSUME Init
             PROVE  CInv
  OBVIOUS
<1>1. \A t \in Threads : stack[t] = <<>> /\ Len(stack[t]) = 0
  BY DEF Init
<1>2. \A t \in Threads : \A i : ~ Owns(t, i)
  BY <1>1 DEF Owns
<1>3. Typed
  <2>1. outcome = [c \in Ids |-> outcome[c]] /\ calls \in 0 .. MaxCalls
    BY MaxCallsAssumption DEF Init
  <2> QED
    BY <2>1 DEF Init, Typed
<1>4. LockInv /\ IdsInv /\ ProgressInv
  BY <1>1, <1>2 DEF Init, LockInv, IdsInv, ProgressInv
<1> QED
  BY <1>3, <1>4 DEF CInv

\* Every step of an operation that holds the lock, but the last, is one of Steps.
LEMMA ProceedSteps ==
  ASSUME CInv, NEW t \in Threads, Proceed(t), ~ Acquire(t), ~ Return(t)
  PROVE  \E g, h, p, e, o : Steps(t, g, h, p, e, o) /\ EndsOrGoesOn(Top(t), g, h, e, o)
  BY ReadsSteps, ReturnsSteps, ThrowsSteps, AgainSteps, FailsSteps, RecordSteps, ConvertSteps, SetSteps, SetThrowsSteps, BriefSteps
     DEF Proceed

\* It is inductive.
LEMMA CInvStep == CInv /\ [Next]_vars => CInv'
<1> SUFFICES ASSUME CInv, [Next]_vars
             PROVE  CInv'
  OBVIOUS
<1>1. ASSUME NEW t \in Threads, Proceed(t) PROVE CInv'
  BY <1>1, AcquireKeeps, ReturnKeeps, ProceedSteps, StepsKeep
<1>2. ASSUME NEW t \in Threads, NEW j \in Jibs, NEW k \in Kinds, Call(t, j, k) PROVE CInv'
  BY <1>2, CallKeeps
<1>3. CASE UNCHANGED vars
  BY <1>3 DEF vars, CInv, Typed, LockInv, IdsInv, ProgressInv, Owns
<1> QED
  BY <1>1, <1>2, <1>3 DEF Next

LEMMA CInvariant == Spec => []CInv
  BY InitCInv, CInvStep, PTL DEF Spec

\* Every variable has its type.
THEOREM TypeCorrect == Spec => []TypeOK
<1>1. CInv => TypeOK
  <2> SUFFICES ASSUME CInv
               PROVE  TypeOK
    OBVIOUS
  <2>1. ASSUME NEW t \in Threads, NEW f \in Frames(t)
        PROVE  f \in FrameType
    <3>1. PICK i \in 1 .. Len(stack[t]) : f = stack[t][i]
      BY <2>1 DEF Frames
    <3>2. stack[t] \in Seq(FrameType)
      BY DEF CInv, Typed
    <3> QED
      BY <3>1, <3>2
  <2> QED
    BY <2>1 DEF CInv, Typed, TypeOK, FrameType, Pcs
<1> QED
  BY <1>1, CInvariant, PTL

\* A JSRuntime is never entered by two threads, callbacks and conversions
\* included, and its lock is held by the one that is inside.
THEOREM EngineExclusiveCorrect == Spec => []EngineExclusive
<1>1. CInv => EngineExclusive
  <2> SUFFICES ASSUME CInv, NEW j \in Jibs
               PROVE  Inside(j) = IF lock[j] = NoThread THEN {} ELSE {lock[j]}
    BY DEF EngineExclusive
  <2>1. ASSUME NEW t \in Threads
        PROVE  t \in Inside(j) <=> \E i : Owns(t, i) /\ stack[t][i].jib = j
    BY DEF Inside, Frames, Owns
  <2>2. Inside(j) \subseteq Threads
    BY DEF Inside
  <2>3. ASSUME NEW t \in Inside(j) PROVE lock[j] = t
    BY <2>1, <2>2, <2>3 DEF CInv, LockInv
  <2>4. ASSUME lock[j] # NoThread PROVE lock[j] \in Inside(j)
    <3>1. lock[j] \in Threads
      BY <2>4 DEF CInv, Typed
    <3> QED
      BY <2>1, <2>4, <3>1 DEF CInv, LockInv
  <2> QED
    BY <2>2, <2>3, <2>4, ThreadsAssumption
<1> QED
  BY <1>1, CInvariant, PTL

-----------------------------------------------------------------------------
(* QJSCalls implements AtomicJib.                                          *)

\* the i-th operation of thread t has the lock and no outcome yet
OpenAt(t, i) == Owns(t, i) /\ stack[t][i].pc # "done"

\* What AtomicJib sees of a Jib is the state before the operation that is open,
\* and the state itself when none is.
SettledInv ==
  /\ \A t \in Threads : \A i : OpenAt(t, i) => Settled(stack[t][i].jib) = stack[t][i].before
  /\ \A j \in Jibs : (\A t \in Threads : \A i : OpenAt(t, i) => stack[t][i].jib # j) => Settled(j) = heap[j]

\* What AtomicJib has still to do.
Todo == UNION {{<<f.id, f.jib, f.kind>> : f \in {g \in Frames(t) : g.pc # "done"}} : t \in Threads}

ToDoAt(t, i, r) ==
  /\ i \in 1 .. Len(stack[t]) /\ stack[t][i].pc # "done"
  /\ r = <<stack[t][i].id, stack[t][i].jib, stack[t][i].kind>>

TodoInv == \A r : r \in Todo <=> \E t \in Threads : \E i : ToDoAt(t, i, r)

\* The open operation of a Jib is the one that holds its lock.
LEMMA SettledCorrect == CInv => SettledInv
<1> SUFFICES ASSUME CInv
             PROVE  SettledInv
  OBVIOUS
<1>1. ASSUME NEW j, NEW f
      PROVE  f \in Open(j) <=> \E t \in Threads : \E i : OpenAt(t, i) /\ f = stack[t][i] /\ f.jib = j
  BY DEF Open, Frames, OpenAt, Owns
<1>2. ASSUME NEW t \in Threads, NEW i, OpenAt(t, i)
      PROVE  Settled(stack[t][i].jib) = stack[t][i].before
  <2> DEFINE j == stack[t][i].jib
  <2>1. stack[t][i] \in Open(j)
    BY <1>1, <1>2
  <2>2. ASSUME NEW f \in Open(j) PROVE f = stack[t][i]
    <3>0. PICK u \in Threads : \E k : OpenAt(u, k) /\ f = stack[u][k] /\ f.jib = j
      BY <1>1, <2>2
    <3>1. PICK k : OpenAt(u, k) /\ f = stack[u][k] /\ f.jib = j
      BY <3>0
    <3>2. u = t
      BY <1>2, <3>1 DEF CInv, LockInv, OpenAt
    <3> QED
      BY <1>2, <3>1, <3>2 DEF CInv, LockInv, OpenAt
  <2>3. (CHOOSE f \in Open(j) : TRUE) = stack[t][i]
    BY <2>1, <2>2
  <2> QED
    BY <2>1, <2>3 DEF Settled
<1>3. ASSUME NEW j \in Jibs, \A t \in Threads : \A i : OpenAt(t, i) => stack[t][i].jib # j
      PROVE  Settled(j) = heap[j]
  <2>1. Open(j) = {}
    BY <1>1, <1>3
  <2> QED
    BY <2>1 DEF Settled
<1> QED
  BY <1>2, <1>3 DEF SettledInv

LEMMA TodoCorrect == TodoInv
  BY DEF TodoInv, Todo, ToDoAt, Frames

\* Everything the refinement needs of a state.
Seen == CInv /\ SettledInv /\ TodoInv

\* The state of a Jib that is being used by another operation is not touched.
LEMMA OtherSettled ==
  ASSUME Seen, Seen', NEW j \in Jibs, heap'[j] = heap[j],
         \A u \in Threads : \A i : stack[u][i].jib = j /\ OpenAt(u, i) =>
            OpenAt(u, i)' /\ stack'[u][i] = stack[u][i],
         \A u \in Threads : \A i : stack'[u][i].jib = j /\ OpenAt(u, i)' => OpenAt(u, i) /\ stack'[u][i] = stack[u][i]
  PROVE  Settled(j)' = Settled(j)
<1>1. CASE \E u \in Threads : \E i : stack[u][i].jib = j /\ OpenAt(u, i)
  <2>0. PICK u \in Threads : \E i : stack[u][i].jib = j /\ OpenAt(u, i)
    BY <1>1
  <2>1. PICK i : stack[u][i].jib = j /\ OpenAt(u, i)
    BY <2>0
  <2>2. Settled(j) = stack[u][i].before
    BY <2>1 DEF Seen, SettledInv
  <2>3. OpenAt(u, i)' /\ stack'[u][i] = stack[u][i]
    BY <2>1
  <2>4. Settled(j)' = stack'[u][i].before
    BY <2>1, <2>3 DEF Seen, SettledInv
  <2> QED
    BY <2>2, <2>3, <2>4
<1>2. CASE ~ \E u \in Threads : \E i : stack[u][i].jib = j /\ OpenAt(u, i)
  <2>1. Settled(j) = heap[j]
    BY <1>2 DEF Seen, SettledInv
  <2>2. (\A u \in Threads : \A i : OpenAt(u, i) => stack[u][i].jib # j)'
    BY <1>2
  <2>3. Settled(j)' = heap'[j]
    BY <2>2 DEF Seen, SettledInv
  <2> QED
    BY <2>1, <2>3
<1> QED
  BY <1>1, <1>2
\* What a step of an operation that holds the lock leaves to be done, and the
\* states of the other Jibs.
LEMMA StepsSeen ==
  ASSUME Seen, Seen', NEW t \in Threads, NEW g, NEW h, NEW p, NEW e, NEW o, Steps(t, g, h, p, e, o),
         NEW f, f = Top(t)
  PROVE  LET r == <<f.id, f.jib, f.kind>>
         IN  /\ Settled(f.jib) = f.before
             /\ Settled(f.jib)' = IF g.pc = "done" THEN h ELSE f.before
             /\ \A j \in Jibs : j # f.jib => Settled(j)' = Settled(j)
             /\ r \in Todo
             /\ Todo' = IF g.pc = "done" THEN Todo \ {r} ELSE Todo
<1> PICK n : n = Len(stack[t])
  OBVIOUS
<1> DEFINE r == <<f.id, f.jib, f.kind>>
<1>1. /\ n \in Nat \ {0} /\ f = stack[t][n] /\ f.jib \in Jibs /\ Owns(t, n) /\ stack'[t][n] = g
      /\ \A u \in Threads :
           /\ Len(stack'[u]) = Len(stack[u]) /\ Len(stack[u]) \in Nat
           /\ \A i \in 1 .. Len(stack[u]) :
                /\ stack'[u][i].id = stack[u][i].id /\ stack'[u][i].jib = stack[u][i].jib
                /\ (stack'[u][i].pc = "locking") <=> (stack[u][i].pc = "locking")
                /\ u # t \/ i # n => stack'[u][i] = stack[u][i]
  BY StepsFrames DEF Seen
<1>2. /\ f.pc # "locking" /\ f.pc # "done" /\ g.pc # "locking"
      /\ g.id = f.id /\ g.jib = f.jib /\ g.kind = f.kind /\ g.before = f.before
      /\ heap' = [heap EXCEPT ![f.jib] = h]
  BY DEF Steps
<1>3. OpenAt(t, n) /\ Settled(f.jib) = f.before
  BY <1>1, <1>2 DEF OpenAt, Seen, SettledInv
<1>4. ASSUME NEW u \in Threads, NEW i, u # t \/ i # n
      PROVE  /\ OpenAt(u, i)' <=> OpenAt(u, i)
             /\ OpenAt(u, i) => stack'[u][i] = stack[u][i]
  BY <1>1, <1>4 DEF OpenAt, Owns
<1>5. heap'[f.jib] = h /\ \A j \in Jibs : j # f.jib => heap'[j] = heap[j]
  BY <1>1, <1>2 DEF Seen, CInv, Typed
<1>6. Settled(f.jib)' = IF g.pc = "done" THEN h ELSE f.before
  <2>1. CASE g.pc = "done"
    <3>1. ASSUME NEW u \in Threads, NEW i, OpenAt(u, i)' PROVE stack'[u][i].jib # f.jib
      <4>1. u # t \/ i # n
        BY <1>1, <2>1, <3>1 DEF OpenAt
      <4>2. OpenAt(u, i) /\ stack'[u][i] = stack[u][i]
        BY <1>4, <3>1, <4>1
      <4> QED
        BY <1>1, <4>1, <4>2 DEF OpenAt, Seen, CInv, LockInv
    <3> QED
      BY <1>1, <1>5, <2>1, <3>1 DEF Seen, SettledInv
  <2>2. CASE g.pc # "done"
    <3>1. OpenAt(t, n)'
      BY <1>1, <1>2, <2>2 DEF OpenAt, Owns
    <3> QED
      BY <1>1, <1>2, <2>2, <3>1 DEF Seen, SettledInv
  <2> QED
    BY <2>1, <2>2
<1>7. ASSUME NEW j \in Jibs, j # f.jib PROVE Settled(j)' = Settled(j)
  <2>1. ASSUME NEW u \in Threads, NEW i, stack[u][i].jib = j, OpenAt(u, i)
        PROVE  OpenAt(u, i)' /\ stack'[u][i] = stack[u][i]
    BY <1>1, <1>4, <1>7, <2>1
  <2>2. ASSUME NEW u \in Threads, NEW i, stack'[u][i].jib = j, OpenAt(u, i)'
        PROVE  OpenAt(u, i) /\ stack'[u][i] = stack[u][i]
    BY <1>1, <1>2, <1>4, <1>7, <2>2
  <2> QED
    BY <1>5, <1>7, <2>1, <2>2, OtherSettled
<1>8. ASSUME NEW s
      PROVE  /\ \A u \in Threads : \A i : u # t \/ i # n => (ToDoAt(u, i, s)' <=> ToDoAt(u, i, s))
             /\ ToDoAt(t, n, s) <=> s = r
             /\ ToDoAt(t, n, s)' <=> g.pc # "done" /\ s = r
  BY <1>1, <1>2 DEF ToDoAt, Owns
<1>9. r \in Todo
  BY <1>8 DEF Seen, TodoInv
\* it is the only one of its number
<1>10. ASSUME NEW u \in Threads, NEW i, ToDoAt(u, i, r) PROVE u = t /\ i = n
  BY <1>1, <1>10 DEF ToDoAt, Owns, Seen, CInv, IdsInv
<1> HIDE DEF r
<1>11. ASSUME NEW s
       PROVE  s \in Todo' <=> s \in Todo /\ (g.pc = "done" => s # r)
  BY <1>8, <1>10 DEF Seen, TodoInv
<1> QED
  BY <1>3, <1>6, <1>7, <1>9, <1>11 DEF r
\* AtomicJib's states of the Jibs.
Vals == [j \in Jibs |-> Settled(j)]

\* An operation that holds the lock takes effect as it ends, and not before.
LEMMA StepsTake ==
  ASSUME Seen, Seen', NEW t \in Threads, NEW g, NEW h, NEW p, NEW e, NEW o, Steps(t, g, h, p, e, o),
         EndsOrGoesOn(Top(t), g, h, e, o)
  PROVE  [Atomic!Next]_(Atomic!vars)
<1> PICK f : f = Top(t)
  OBVIOUS
<1>1. /\ Settled(f.jib) = f.before
      /\ Settled(f.jib)' = IF g.pc = "done" THEN h ELSE f.before
      /\ \A j \in Jibs : j # f.jib => Settled(j)' = Settled(j)
      /\ <<f.id, f.jib, f.kind>> \in Todo
      /\ Todo' = IF g.pc = "done" THEN Todo \ {<<f.id, f.jib, f.kind>>} ELSE Todo
  BY StepsSeen
<1>2. f \in FrameType /\ f.id \in Ids /\ f.jib \in Jibs /\ f.kind \in Kinds /\ f.before \in Nat /\ f.pc # "locking"
  BY TopTyped DEF Seen, CInv, Steps, FrameType
<1>3. /\ exception' = [exception EXCEPT ![f.jib] = e]
      /\ outcome' = [outcome EXCEPT ![f.id] = o]
  BY DEF Steps
<1>4. CASE g.pc # "done"
  <2>1. e = exception[f.jib] /\ o = outcome[f.id]
    BY <1>4 DEF EndsOrGoesOn
  <2>2. exception' = exception
    BY <1>2, <1>3, <2>1 DEF Seen, CInv, Typed
  <2>3. outcome' = outcome
    BY <1>2, <1>3, <2>1 DEF Seen, CInv, Typed
  <2>4. Vals' = Vals
    BY <1>1, <1>4 DEF Vals
  <2>5. Todo' = Todo
    BY <1>1, <1>4
  <2> QED
    BY <2>2, <2>3, <2>4, <2>5 DEF Vals, Todo, Atomic!vars
<1>5. CASE g.pc = "done"
  <2>1. Ends(f, h, exception[f.jib], e, o)
    BY <1>5 DEF EndsOrGoesOn
  <2>2. Vals[f.jib] = f.before /\ Vals' = [Vals EXCEPT ![f.jib] = h]
    BY <1>1, <1>2, <1>5 DEF Vals
  <2>3. Atomic!Effect(f.id, f.jib, h, e, o)
    BY <1>3, <2>2 DEF Atomic!Effect, Vals
  <2>4. ASSUME f.kind = "call" PROVE Atomic!Scripted(f.id, f.jib)
    BY <1>2, <2>1, <2>2, <2>3, <2>4 DEF Ends, Atomic!Scripted, Vals, Value, Failed, Atomic!Value, Atomic!Failed
  <2>5. ASSUME f.kind = "get" PROVE Atomic!Got(f.id, f.jib)
    <3>1. CASE h \in {f.before + 1, f.before + 2} /\ e = exception[f.jib] /\ o = Value(h)
      <4>1. PICK m \in {1, 2} : h = f.before + m
        BY <3>1
      <4>2. Atomic!Effect(f.id, f.jib, Vals[f.jib] + m, exception[f.jib], Atomic!Value(Vals[f.jib] + m))
        BY <2>2, <2>3, <3>1, <4>1 DEF Value, Atomic!Value
      <4> QED
        BY <4>2 DEF Atomic!Got, Vals
    <3>2. CASE h \in {f.before, f.before + 1, f.before + 2} /\ e = exception[f.jib] /\ o = Nil
      <4>1. PICK m \in {0, 1, 2} : h = f.before + m
        BY <1>2, <3>2
      <4>2. Atomic!Effect(f.id, f.jib, Vals[f.jib] + m, exception[f.jib], Atomic!Nil)
        BY <2>2, <2>3, <3>2, <4>1 DEF Nil, Atomic!Nil
      <4> QED
        BY <4>2 DEF Atomic!Got, Vals
    <3> QED
      BY <2>1, <2>5, <3>1, <3>2 DEF Ends
  <2>6. ASSUME f.kind = "set" PROVE Atomic!WasSet(f.id, f.jib)
    BY <1>2, <2>1, <2>2, <2>3, <2>6 DEF Ends, Atomic!WasSet, Vals, Done, Failed, Atomic!Done, Atomic!Failed
  <2>7. ASSUME f.kind = "brief" PROVE Atomic!Effect(f.id, f.jib, Vals[f.jib], exception[f.jib], Atomic!Done)
    BY <1>2, <2>1, <2>2, <2>3, <2>7 DEF Ends, Done, Atomic!Done
  <2>8. \/ f.kind = "call" /\ Atomic!Scripted(f.id, f.jib)
        \/ f.kind = "get" /\ Atomic!Got(f.id, f.jib)
        \/ f.kind = "set" /\ Atomic!WasSet(f.id, f.jib)
        \/ f.kind = "brief" /\ Atomic!Effect(f.id, f.jib, Vals[f.jib], exception[f.jib], Atomic!Done)
    <3> HIDE DEF Vals
    <3> QED
      BY <1>2, <2>4, <2>5, <2>6, <2>7 DEF Kinds
  <2>9. Atomic!Takes(f.id, f.jib, f.kind)
    BY <1>1, <1>5, <2>8 DEF Atomic!Takes, Vals, Todo
  <2> QED
    BY <1>2, <2>9 DEF Atomic!Next, Kinds, Atomic!Kinds
<1> QED
  BY <1>4, <1>5
\* Taking the lock shows nothing: the state of the Jib is what it was.
LEMMA AcquireStutters ==
  ASSUME Seen, Seen', NEW t \in Threads, Acquire(t)
  PROVE  UNCHANGED Atomic!vars
<1> PICK f : f = Top(t)
  OBVIOUS
<1> PICK n : n = Len(stack[t])
  OBVIOUS
<1> DEFINE g == [f EXCEPT !.pc = "start", !.before = heap[f.jib]]
<1>1. /\ Busy(t) /\ f.pc = "locking" /\ lock[f.jib] = NoThread
      /\ Moves(t, g) /\ UNCHANGED <<calls, heap, pending, exception, outcome>>
  BY DEF Acquire, At
<1>2. /\ n \in Nat \ {0} /\ f = stack[t][n] /\ f \in FrameType /\ Typed /\ f.jib \in Jibs
  BY <1>1, TopTyped DEF Seen, CInv, FrameType
<1>3. heap[f.jib] \in Nat
  BY <1>2 DEF Typed
<1>4. g \in FrameType /\ g.pc = "start" /\ g.id = f.id /\ g.jib = f.jib /\ g.kind = f.kind /\ g.before = heap[f.jib]
  BY <1>2, <1>3 DEF FrameType, Pcs
<1> HIDE DEF g
<1>5. /\ Len(stack'[t]) = n /\ stack'[t][n] = g
      /\ \A i \in 1 .. n : i # n => stack'[t][i] = stack[t][i]
      /\ \A u \in Threads : u # t => stack'[u] = stack[u]
  BY <1>1, <1>2, <1>4, Moved
<1>6. ASSUME NEW u \in Threads, NEW i, u # t \/ i # n
      PROVE  /\ OpenAt(u, i)' <=> OpenAt(u, i)
             /\ OpenAt(u, i) => stack'[u][i] = stack[u][i]
  BY <1>2, <1>5, <1>6 DEF OpenAt, Owns
<1>7. OpenAt(t, n)' /\ ~ OpenAt(t, n)
  BY <1>1, <1>2, <1>4, <1>5 DEF OpenAt, Owns
<1>8. ASSUME NEW j \in Jibs PROVE Settled(j)' = Settled(j)
  <2>1. CASE j = f.jib
    <3>1. \A u \in Threads : \A i : OpenAt(u, i) => stack[u][i].jib # j
      BY <1>1, <2>1, ThreadsAssumption DEF OpenAt, Seen, CInv, LockInv
    <3>2. Settled(j) = heap[j]
      BY <3>1 DEF Seen, SettledInv
    <3>3. Settled(j)' = stack'[t][n].before
      BY <1>4, <1>5, <1>7, <2>1 DEF Seen, SettledInv
    <3> QED
      BY <1>4, <1>5, <2>1, <3>2, <3>3
  <2>2. CASE j # f.jib
    <3>1. ASSUME NEW u \in Threads, NEW i, stack[u][i].jib = j, OpenAt(u, i)
          PROVE  OpenAt(u, i)' /\ stack'[u][i] = stack[u][i]
      BY <1>6, <1>7, <3>1
    <3>2. ASSUME NEW u \in Threads, NEW i, stack'[u][i].jib = j, OpenAt(u, i)'
          PROVE  OpenAt(u, i) /\ stack'[u][i] = stack[u][i]
      BY <1>4, <1>5, <1>6, <2>2, <3>2
    <3> QED
      BY <1>1, <3>1, <3>2, OtherSettled
  <2> QED
    BY <2>1, <2>2
<1>9. ASSUME NEW u \in Threads, NEW i, NEW s
      PROVE  ToDoAt(u, i, s)' <=> ToDoAt(u, i, s)
  <2>1. CASE u = t /\ i = n
    BY <1>1, <1>2, <1>4, <1>5, <2>1 DEF ToDoAt
  <2>2. CASE u # t \/ i # n
    BY <1>2, <1>5, <2>2 DEF ToDoAt
  <2> QED
    BY <2>1, <2>2
<1>10. Todo' = Todo
  BY <1>9 DEF Seen, TodoInv
<1>11. Vals' = Vals
  BY <1>8 DEF Vals
<1> QED
  BY <1>1, <1>10, <1>11 DEF Vals, Todo, Atomic!vars

\* An operation that returns has taken effect.
LEMMA ReturnStutters ==
  ASSUME Seen, Seen', NEW t \in Threads, Return(t)
  PROVE  UNCHANGED Atomic!vars
<1> PICK n : n = Len(stack[t])
  OBVIOUS
<1>1. /\ Busy(t) /\ Top(t).pc = "done" /\ stack' = [stack EXCEPT ![t] = Front(@)]
      /\ UNCHANGED <<calls, heap, pending, exception, outcome>>
  BY DEF Return, At
<1>2. n \in Nat \ {0} /\ Top(t) = stack[t][n] /\ Typed
  BY <1>1, TopTyped DEF Seen, CInv
<1>3. /\ Len(stack'[t]) = n - 1
      /\ \A i \in 1 .. n - 1 : stack'[t][i] = stack[t][i]
      /\ \A u \in Threads : u # t => stack'[u] = stack[u]
  BY <1>1, <1>2, Popped
<1>4. ASSUME NEW u \in Threads, NEW i
      PROVE  /\ OpenAt(u, i)' <=> OpenAt(u, i)
             /\ OpenAt(u, i) => stack'[u][i] = stack[u][i]
  BY <1>1, <1>2, <1>3 DEF OpenAt, Owns
<1>5. ASSUME NEW j \in Jibs PROVE Settled(j)' = Settled(j)
  BY <1>1, <1>4, OtherSettled
<1>6. ASSUME NEW u \in Threads, NEW i, NEW s
      PROVE  ToDoAt(u, i, s)' <=> ToDoAt(u, i, s)
  BY <1>1, <1>2, <1>3 DEF ToDoAt
<1>7. Todo' = Todo
  BY <1>6 DEF Seen, TodoInv
<1>8. Vals' = Vals
  BY <1>5 DEF Vals
<1> QED
  BY <1>1, <1>7, <1>8 DEF Vals, Todo, Atomic!vars

\* An operation that is called is one that AtomicJib has to do.
LEMMA CallCalls ==
  ASSUME Seen, Seen', NEW t \in Threads, NEW j \in Jibs, NEW k \in Kinds, Call(t, j, k)
  PROVE  Atomic!Next
<1> PICK n : n = Len(stack[t])
  OBVIOUS
<1> PICK c : c = calls + 1
  OBVIOUS
<1> DEFINE g == Frame(c, j, k)
           r == <<c, j, k>>
<1>1. /\ calls < MaxCalls /\ stack' = [stack EXCEPT ![t] = Append(@, g)]
      /\ UNCHANGED <<heap, exception, outcome>>
  BY DEF Call
<1>2. Typed /\ calls \in Nat /\ c \in Ids /\ c > calls
  BY <1>1, MaxCallsAssumption DEF Seen, CInv, Typed, Ids
<1>3. g \in FrameType /\ g.id = c /\ g.jib = j /\ g.kind = k /\ g.pc = "locking"
  BY <1>2 DEF Frame, FrameType, Pcs
<1> HIDE DEF g
<1>4. /\ Len(stack'[t]) = n + 1 /\ n \in Nat /\ stack'[t][n + 1] = g
      /\ \A i \in 1 .. n : stack'[t][i] = stack[t][i]
      /\ \A u \in Threads : u # t => stack'[u] = stack[u]
  <2>1. /\ Len(stack'[t]) = Len(stack[t]) + 1 /\ Len(stack[t]) \in Nat
        /\ \A i \in 1 .. Len(stack[t]) + 1 : stack'[t][i] = IF i = Len(stack[t]) + 1 THEN g ELSE stack[t][i]
        /\ \A u \in Threads : u # t => stack'[u] = stack[u]
    BY <1>1, <1>2, <1>3, Pushed
  <2>2. Len(stack'[t]) = n + 1 /\ n \in Nat
    BY <2>1
  <2>3. stack'[t][n + 1] = g
    BY <2>1
  <2>4. ASSUME NEW i \in 1 .. n PROVE stack'[t][i] = stack[t][i]
    <3>1. i \in 1 .. Len(stack[t]) + 1 /\ i # Len(stack[t]) + 1
      BY <2>1
    <3> QED
      BY <2>1, <3>1
  <2> QED
    BY <2>1, <2>2, <2>3, <2>4
<1>5. ASSUME NEW u \in Threads, NEW i
      PROVE  /\ OpenAt(u, i)' <=> OpenAt(u, i)
             /\ OpenAt(u, i) => stack'[u][i] = stack[u][i]
  <2>1. CASE u # t
    BY <1>4, <2>1 DEF OpenAt, Owns
  <2>2. CASE u = t /\ i \in 1 .. n
    <3>1. i \in 1 .. Len(stack[t]) /\ i \in 1 .. Len(stack'[t]) /\ stack'[t][i] = stack[t][i]
      BY <1>4, <2>2
    <3> QED
      BY <2>2, <3>1 DEF OpenAt, Owns
  <2>3. CASE u = t /\ i \notin 1 .. n
    <3>1. ~OpenAt(t, i)
      BY <2>3 DEF OpenAt, Owns
    <3>2. i \in 1 .. Len(stack'[t]) => i = n + 1
      BY <1>4, <2>3
    <3>3. ~OpenAt(t, i)'
      BY <1>3, <1>4, <3>2 DEF OpenAt, Owns
    <3> QED
      BY <2>3, <3>1, <3>3
  <2> QED
    BY <2>1, <2>2, <2>3
<1>6. ASSUME NEW l \in Jibs PROVE Settled(l)' = Settled(l)
  BY <1>1, <1>5, OtherSettled
<1>7. ASSUME NEW u \in Threads, NEW i, NEW s
      PROVE  ToDoAt(u, i, s)' <=> ToDoAt(u, i, s) \/ (u = t /\ i = n + 1 /\ s = r)
  <2>1. CASE u # t
    BY <1>4, <2>1 DEF ToDoAt
  <2>2. CASE u = t /\ i = n + 1
    BY <1>3, <1>4, <2>2 DEF ToDoAt
  <2>3. CASE u = t /\ i # n + 1
    <3>1. i \in 1 .. n + 1 <=> i \in 1 .. n
      BY <1>4, <2>3
    <3> QED
      BY <1>4, <2>3, <3>1 DEF ToDoAt
  <2> QED
    BY <2>1, <2>2, <2>3
<1> HIDE DEF r
<1>8. ASSUME NEW s PROVE s \in Todo' <=> s \in Todo \/ s = r
  BY <1>7 DEF Seen, TodoInv
<1>9. Todo' = Todo \cup {r}
  BY <1>8
<1>10. Vals' = Vals
  BY <1>6 DEF Vals
<1>11. outcome[c] = Atomic!Unset
  BY <1>2 DEF Seen, CInv, IdsInv, Unset, Atomic!Unset
<1>12. ASSUME NEW s \in Todo PROVE s[1] # c
  <2>1. PICK u \in Threads : \E i : ToDoAt(u, i, s)
    BY <1>12 DEF Seen, TodoInv
  <2>2. PICK i : ToDoAt(u, i, s)
    BY <2>1
  <2>3. s[1] = stack[u][i].id /\ stack[u][i].id <= calls /\ stack[u][i] \in FrameType
    BY <1>2, <2>2 DEF ToDoAt, Seen, CInv, IdsInv, Typed
  <2> QED
    BY <1>2, <2>3 DEF FrameType, Ids
<1>13. Atomic!Called(c, j, k)
  BY <1>1, <1>9, <1>10, <1>11, <1>12 DEF Atomic!Called, Vals, Todo, r
<1> QED
  BY <1>2, <1>13 DEF Atomic!Next, Kinds, Atomic!Kinds

\* Operations are atomic: what threads see is what one thread at a time would.
\* Each takes effect, for AtomicJib, when only lock.unlock() is left of it.
THEOREM ActsAtomicallyCorrect == Spec => ActsAtomically
<1>1. Init => Atomic!Init
  <2> SUFFICES ASSUME Init
               PROVE  Atomic!Init
    OBVIOUS
  <2>1. Seen
    BY InitCInv, SettledCorrect, TodoCorrect DEF Seen
  <2>2. \A t \in Threads : stack[t] = <<>> /\ Len(stack[t]) = 0
    BY DEF Init
  <2>3. Vals = [j \in Jibs |-> 0]
    <3>1. ASSUME NEW j \in Jibs PROVE Settled(j) = 0
      BY <2>1, <2>2 DEF Seen, SettledInv, OpenAt, Owns, Init
    <3> QED
      BY <3>1 DEF Vals
  <2>4. Todo = {}
    BY <2>1, <2>2 DEF Seen, TodoInv, ToDoAt
  <2> QED
    BY <2>3, <2>4 DEF Init, Vals, Todo, Atomic!Init, Unset, Atomic!Unset, NoId, Atomic!NoId
<1>2. Seen /\ Seen' /\ [Next]_vars => [Atomic!Next]_(Atomic!vars)
  <2> SUFFICES ASSUME Seen, Seen', [Next]_vars
               PROVE  [Atomic!Next]_(Atomic!vars)
    OBVIOUS
  <2>1. ASSUME NEW t \in Threads, Proceed(t) PROVE [Atomic!Next]_(Atomic!vars)
    BY <2>1, AcquireStutters, ReturnStutters, ProceedSteps, StepsTake DEF Seen
  <2>2. ASSUME NEW t \in Threads, NEW j \in Jibs, NEW k \in Kinds, Call(t, j, k) PROVE Atomic!Next
    BY <2>2, CallCalls
  <2>3. CASE UNCHANGED vars
    BY <2>3 DEF vars, Atomic!vars, Settled, Open, Frames
  <2> QED
    BY <2>1, <2>2, <2>3 DEF Next
<1> QED
  BY <1>1, <1>2, CInvariant, SettledCorrect, TodoCorrect, PTL DEF Spec, Seen, ActsAtomically, Atomic!Spec
-----------------------------------------------------------------------------
(* The specification that is checked.                                       *)

\* What JSCCalls proves of the steps of its threads, for the policy that runs.
CoreInv == (on = "quiescent" => Quiet!JInv) /\ (on = "any" => Overlap!JInv)

\* The backend that does not run keeps its state, so the one that does keeps its
\* invariant.
LEMMA CoreInvariant == MCSpec => []CoreInv
<1>1. Quiet!JSCAssumption /\ Overlap!JSCAssumption
  BY MCCallsAssumption
<1>2. MCInit => CoreInv
  <2>1. Quiet!Init => Quiet!JInv
    BY <1>1, Quiet!InitJInv
  <2>2. Overlap!Init => Overlap!JInv
    BY <1>1, Overlap!InitJInv
  <2>3. Overlap!Init => Quiet!Init
    BY DEF Overlap!Init, Quiet!Init
  <2> QED
    BY <2>1, <2>2, <2>3 DEF MCInit, CoreInv
<1>3. CoreInv /\ [MCNext]_MCVars => CoreInv'
  <2> SUFFICES ASSUME CoreInv, [MCNext]_MCVars
               PROVE  CoreInv'
    OBVIOUS
  <2>1. on' = on
    BY DEF MCNext, MCVars, QuickJS
  <2>2. ASSUME on = "quiescent" PROVE Quiet!JInv'
    <3>1. [Quiet!Next]_(Quiet!vars)
      BY <2>2 DEF MCNext, MCVars, QuickJS, Quiet!vars, Quiet!thread, coreVars
    <3>2. Quiet!JInv /\ [Quiet!Next]_(Quiet!vars) => Quiet!JInv'
      BY <1>1, Quiet!NextJInv
    <3> QED
      BY <2>2, <3>1, <3>2 DEF CoreInv
  <2>3. ASSUME on = "any" PROVE Overlap!JInv'
    <3>1. [Overlap!Next]_(Overlap!vars)
      BY <2>3 DEF MCNext, MCVars, QuickJS, Overlap!vars, Overlap!thread, coreVars
    <3>2. Overlap!JInv /\ [Overlap!Next]_(Overlap!vars) => Overlap!JInv'
      BY <1>1, Overlap!NextJInv
    <3> QED
      BY <2>3, <3>1, <3>2 DEF CoreInv
  <2> QED
    BY <2>1, <2>2, <2>3 DEF CoreInv
<1> QED
  BY <1>2, <1>3, PTL DEF MCSpec

\* When release() overlaps nothing, no operation of the JavaScriptCore backend
\* uses the context that release() freed, whichever thread called it and when.
THEOREM NoUseAfterReleaseCorrect == MCSpec => []NoUseAfterRelease
<1>1. CoreInv => NoUseAfterRelease
  BY DEF CoreInv, NoUseAfterRelease, Quiet!JInv, Quiet!LockInv, Quiet!QuietInv, Quiet!NoUseAfterRelease, Quiet!Using, Quiet!Locked
<1> QED
  BY <1>1, CoreInvariant, PTL

\* A released context stays released, whoever calls release() and whatever it
\* overlaps: it is freed once, with deinit or before, and an operation called
\* later does not get past the flag.
THEOREM ReleaseIsFinalCorrect == MCSpec => []ReleaseIsFinal
<1>1. CoreInv => ReleasedOnce
  BY DEF CoreInv, ReleasedOnce, Quiet!JInv, Quiet!FlagInv, Quiet!ReleasedOnce,
         Overlap!JInv, Overlap!FlagInv, Overlap!ReleasedOnce
<1>2. CoreInv => LateCallsRefused
  BY DEF CoreInv, LateCallsRefused, Overlap!JInv, Overlap!LockInv, Overlap!FlagInv,
         Overlap!LateCallsRefused, Overlap!Using, Overlap!Locked
<1> QED
  BY <1>1, <1>2, CoreInvariant, PTL DEF ReleaseIsFinal

\* Scripts and the conversions of subscripts run one at a time in a context of
\* JavaScriptCore, by the thread that holds its lock, whenever release() is called.
THEOREM LockedUseExclusiveCorrect == MCSpec => []LockedUseExclusive
<1>1. CoreInv => LockedUseExclusive
  BY DEF CoreInv, LockedUseExclusive,
         Quiet!JInv, Quiet!LockInv, Quiet!Holds, Quiet!LockedUseExclusive, Quiet!Locked,
         Overlap!JInv, Overlap!LockInv, Overlap!Holds, Overlap!LockedUseExclusive, Overlap!Locked
<1> QED
  BY <1>1, CoreInvariant, PTL
=============================================================================
