--------------------------- MODULE MCAsync_proofs ---------------------------
(***************************************************************************)
(* Proofs about the parts of the engine that suspend code and resume it,   *)
(* for however many generators, async calls, elements and requests there   *)
(* are: of each part an invariant, and from them the properties of the     *)
(* specification that is checked, in which one part runs. What is proved   *)
(* of promises is in QJSPromise_proofs.                                    *)
(***************************************************************************)
EXTENDS MCAsync, FiniteSetTheorems, SequenceTheorems, TLAPS

-----------------------------------------------------------------------------
(* Generators. `left` says where a suspended body stands, which            *)
(* ThrowReachesYield needs before the body is resumed.                     *)

GeneratorTypes ==
  /\ genState \in [Gens -> Gen!Suspended \cup {"none", "executing", "completed"}]
  /\ func \in [Gens -> {"live", "completed", "null"}]
  /\ genStack \in Seq(Gens)
  /\ raised \in [Gens -> BOOLEAN] /\ sent \in [Gens -> Gen!Magic] /\ left \in [Gens -> Gen!Suspended]

SuspendedWhereLeft == \A g \in Gens : genState[g] \in Gen!Suspended => left[g] = genState[g]

GInv == GeneratorTypes /\ Gen!GeneratorsResumable /\ SuspendedWhereLeft

\* What a call of next leaves on the stack: the body it resumed on top.
LEMMA Resumed ==
  ASSUME GInv, NEW g \in Gens, genState[g] # "executing",
         genStack' = Append(genStack, g), genState' = [genState EXCEPT ![g] = "executing"]
  PROVE  genStack' \in Seq(Gens) /\ Gen!ExecutingOnStack'
<1>1. /\ genStack' \in Seq(Gens) /\ Len(genStack') = Len(genStack) + 1 /\ Len(genStack) \in Nat
      /\ DOMAIN genStack = 1 .. Len(genStack) /\ DOMAIN genStack' = 1 .. Len(genStack) + 1
      /\ genStack'[Len(genStack) + 1] = g
      /\ \A i \in 1 .. Len(genStack) : genStack'[i] = genStack[i] /\ genStack[i] \in Gens
  BY DEF GInv, GeneratorTypes
<1>2. \A i \in 1 .. Len(genStack) : genStack[i] # g
  BY <1>1 DEF GInv, Gen!GeneratorsResumable, Gen!ExecutingOnStack
<1>3. \A i, j \in DOMAIN genStack' : genStack'[i] = genStack'[j] => i = j
  BY <1>1, <1>2 DEF GInv, Gen!GeneratorsResumable, Gen!ExecutingOnStack
<1>4. ASSUME NEW h \in Gens PROVE genState'[h] = "executing" <=> \E i \in DOMAIN genStack' : genStack'[i] = h
  <2>1. CASE h = g
    <3>1. genState'[g] = "executing"
      BY DEF GInv, GeneratorTypes
    <3>2. Len(genStack) + 1 \in DOMAIN genStack' /\ genStack'[Len(genStack) + 1] = g
      BY <1>1
    <3> QED
      BY <2>1, <3>1, <3>2
  <2>2. CASE h # g
    <3>1. genState'[h] = genState[h]
      BY <2>2 DEF GInv, GeneratorTypes
    <3>2. (\E i \in DOMAIN genStack' : genStack'[i] = h) <=> (\E i \in DOMAIN genStack : genStack[i] = h)
      BY <1>1, <2>2
    <3> QED
      BY <3>1, <3>2 DEF GInv, Gen!GeneratorsResumable, Gen!ExecutingOnStack
  <2> QED
    BY <2>1, <2>2
<1> QED
  BY <1>1, <1>3, <1>4 DEF Gen!ExecutingOnStack

\* What a body leaves on the stack when it yields or ends: the others.
LEMMA Stopped ==
  ASSUME GInv, NEW g \in Gens, Gen!Running(g), genStack' = Gen!Front(genStack),
         NEW k, k # "executing", genState' = [genState EXCEPT ![g] = k]
  PROVE  genStack' \in Seq(Gens) /\ Gen!ExecutingOnStack' /\ genState[g] = "executing"
<1> PICK n \in Nat : n = Len(genStack)
  BY DEF GInv, GeneratorTypes
<1>1. /\ n > 0 /\ genStack[n] = g
      /\ DOMAIN genStack = 1 .. n /\ DOMAIN genStack' = 1 .. n - 1
      /\ genStack' \in Seq(Gens) /\ \A i \in 1 .. n - 1 : genStack'[i] = genStack[i]
  BY DEF GInv, GeneratorTypes, Gen!Running, Gen!Last, Gen!Front
<1>2. \A i \in 1 .. n - 1 : genStack[i] # g
  BY <1>1 DEF GInv, Gen!GeneratorsResumable, Gen!ExecutingOnStack
<1>3. \A i, j \in DOMAIN genStack' : genStack'[i] = genStack'[j] => i = j
  BY <1>1 DEF GInv, Gen!GeneratorsResumable, Gen!ExecutingOnStack
<1>4. ASSUME NEW h \in Gens PROVE genState'[h] = "executing" <=> \E i \in DOMAIN genStack' : genStack'[i] = h
  <2>1. CASE h = g
    BY <1>1, <1>2, <2>1 DEF GInv, GeneratorTypes
  <2>2. CASE h # g
    <3>1. genState'[h] = genState[h]
      BY <2>2 DEF GInv, GeneratorTypes
    <3>2. (\E i \in DOMAIN genStack' : genStack'[i] = h) <=> (\E i \in DOMAIN genStack : genStack[i] = h)
      BY <1>1, <2>2, SMTT(20)
    <3> QED
      BY <3>1, <3>2 DEF GInv, Gen!GeneratorsResumable, Gen!ExecutingOnStack
  <2> QED
    BY <2>1, <2>2
<1>5. genState[g] = "executing"
  BY <1>1 DEF GInv, Gen!GeneratorsResumable, Gen!ExecutingOnStack
<1> QED
  BY <1>1, <1>3, <1>4, <1>5 DEF Gen!ExecutingOnStack

\* So it holds in every state that generators reach.
LEMMA GeneratorsHold == Gen!Spec => []Gen!GeneratorsResumable
<1>1. Gen!Init => GInv
  BY DEF Gen!Init, GInv, GeneratorTypes, Gen!GeneratorsResumable, Gen!ExecutingOnStack, Gen!ResumableLive,
         Gen!ThrowReachesYield, SuspendedWhereLeft, Gen!Suspended, Gen!Magic
<1>2. GInv /\ [Gen!Next]_(Gen!vars) => GInv'
  <2> SUFFICES ASSUME GInv, [Gen!Next]_(Gen!vars) PROVE GInv'
    OBVIOUS
  <2> USE DEF Gen!Suspended, Gen!Magic
  <2>1. ASSUME NEW g \in Gens, Gen!Create(g) PROVE GInv'
    <3>1. GeneratorTypes'
      BY <2>1 DEF Gen!Create, GInv, GeneratorTypes
    <3>2. Gen!ExecutingOnStack'
      BY <2>1 DEF Gen!Create, GInv, GeneratorTypes, Gen!GeneratorsResumable, Gen!ExecutingOnStack
    <3>3. Gen!ResumableLive' /\ Gen!ThrowReachesYield' /\ SuspendedWhereLeft'
      BY <2>1 DEF Gen!Create, GInv, GeneratorTypes, Gen!GeneratorsResumable, Gen!ResumableLive, Gen!ThrowReachesYield,
                  SuspendedWhereLeft
    <3> QED
      BY <3>1, <3>2, <3>3 DEF GInv, Gen!GeneratorsResumable
  <2>2. ASSUME NEW g \in Gens, NEW m \in Gen!Magic, Gen!EndBeforeStart(g, m) PROVE GInv'
    <3>1. /\ genState[g] = "start" /\ genState' = [genState EXCEPT ![g] = "completed"]
          /\ func' = [func EXCEPT ![g] = "null"] /\ UNCHANGED <<genStack, raised, sent, left>>
      BY <2>2 DEF Gen!EndBeforeStart, Gen!Free
    <3>2. GeneratorTypes'
      BY <3>1 DEF GInv, GeneratorTypes
    <3>3. Gen!ExecutingOnStack'
      BY <3>1 DEF GInv, GeneratorTypes, Gen!GeneratorsResumable, Gen!ExecutingOnStack
    <3>4. Gen!ResumableLive' /\ Gen!ThrowReachesYield' /\ SuspendedWhereLeft'
      BY <3>1 DEF GInv, GeneratorTypes, Gen!GeneratorsResumable, Gen!ResumableLive, Gen!ThrowReachesYield, SuspendedWhereLeft
    <3> QED
      BY <3>2, <3>3, <3>4 DEF GInv, Gen!GeneratorsResumable
  <2>3. ASSUME NEW g \in Gens, NEW m \in Gen!Magic, Gen!Resume(g, m) PROVE GInv'
    <3>1. genStack' \in Seq(Gens) /\ Gen!ExecutingOnStack'
      BY <2>3, Resumed DEF Gen!Resume
    <3>2. GeneratorTypes'
      BY <2>3, <3>1 DEF Gen!Resume, GInv, GeneratorTypes
    <3>3. Gen!ResumableLive' /\ SuspendedWhereLeft'
      BY <2>3 DEF Gen!Resume, GInv, GeneratorTypes, Gen!GeneratorsResumable, Gen!ResumableLive, SuspendedWhereLeft
    <3>4. Gen!ThrowReachesYield'
      <4> SUFFICES ASSUME NEW h \in Gens, genState'[h] = "executing"
                   PROVE  raised'[h] <=> sent'[h] = "throw" /\ left'[h] = "yield"
        BY DEF Gen!ThrowReachesYield
      <4>1. CASE h = g
        <5>1. /\ raised'[g] <=> m = "throw" /\ genState[g] = "yield"
              /\ sent'[g] = m /\ left'[g] = genState[g]
          BY <2>3 DEF Gen!Resume, GInv, GeneratorTypes, SuspendedWhereLeft
        <5> QED
          BY <4>1, <5>1
      <4>2. CASE h # g
        BY <2>3, <4>2 DEF Gen!Resume, GInv, GeneratorTypes, Gen!GeneratorsResumable, Gen!ThrowReachesYield
      <4> QED
        BY <4>1, <4>2
    <3> QED
      BY <3>1, <3>2, <3>3, <3>4 DEF GInv, Gen!GeneratorsResumable
  <2>4. ASSUME NEW g \in Gens, NEW k \in {"yield", "yield_star"}, Gen!Yield(g, k) PROVE GInv'
    <3>1. genStack' \in Seq(Gens) /\ Gen!ExecutingOnStack' /\ genState[g] = "executing"
      BY <2>4, Stopped DEF Gen!Yield
    <3>2. GeneratorTypes'
      BY <2>4, <3>1 DEF Gen!Yield, GInv, GeneratorTypes
    <3>3. Gen!ResumableLive' /\ Gen!ThrowReachesYield' /\ SuspendedWhereLeft'
      BY <2>4, <3>1 DEF Gen!Yield, GInv, GeneratorTypes, Gen!GeneratorsResumable, Gen!ResumableLive, Gen!ThrowReachesYield,
                        SuspendedWhereLeft
    <3> QED
      BY <3>1, <3>2, <3>3 DEF GInv, Gen!GeneratorsResumable
  <2>5. ASSUME NEW g \in Gens, Gen!Finish(g) PROVE GInv'
    <3>1. genStack' \in Seq(Gens) /\ Gen!ExecutingOnStack' /\ genState[g] = "executing"
      BY <2>5, Stopped DEF Gen!Finish
    <3>2. GeneratorTypes'
      BY <2>5, <3>1 DEF Gen!Finish, GInv, GeneratorTypes
    <3>3. Gen!ResumableLive' /\ Gen!ThrowReachesYield' /\ SuspendedWhereLeft'
      BY <2>5, <3>1 DEF Gen!Finish, GInv, GeneratorTypes, Gen!GeneratorsResumable, Gen!ResumableLive, Gen!ThrowReachesYield,
                        SuspendedWhereLeft
    <3> QED
      BY <3>1, <3>2, <3>3 DEF GInv, Gen!GeneratorsResumable
  <2>6. ASSUME UNCHANGED <<genState, func, genStack, raised, sent, left>> PROVE GInv'
    BY <2>6 DEF GInv, GeneratorTypes, Gen!GeneratorsResumable, Gen!ExecutingOnStack, Gen!ResumableLive, Gen!ThrowReachesYield,
                SuspendedWhereLeft
  <2>7. ASSUME NEW g \in Gens, NEW m \in Gen!Magic, Gen!Refused(g, m) PROVE GInv'
    BY <2>6, <2>7 DEF Gen!Refused
  <2> QED
    BY <2>1, <2>2, <2>3, <2>4, <2>5, <2>6, <2>7 DEF Gen!Next, Gen!vars
<1>3. GInv => Gen!GeneratorsResumable
  BY DEF GInv
<1> QED
  BY <1>1, <1>2, <1>3, PTL DEF Gen!Spec

-----------------------------------------------------------------------------
(* Async functions. What holds of a call depends on what its body does,    *)
(* and, while that runs, on what is on the stack for it.                   *)

AsyncTypes ==
  /\ ref \in [Acts -> Int] /\ funcs \in [Acts -> Int] /\ settled \in [Acts -> Int] /\ queued \subseteq Acts
  /\ frame \in [Acts -> {"none", "live", "freed"}] /\ at \in [Acts -> {"none", "runs", "awaits", "completed"}]
  /\ callStack \in Seq(Acts \X {"call", "job"})

Fits(a) ==
  \/ at[a] = "none" /\ ref[a] = 0 /\ funcs[a] = 0 /\ frame[a] = "none" /\ settled[a] = 0 /\ a \notin queued
  \/ at[a] = "runs" /\ ref[a] = 1 /\ frame[a] = "live" /\ settled[a] = 0 /\ a \notin queued
  \/ /\ at[a] = "awaits" /\ funcs[a] \in 0 .. 2 /\ ref[a] = funcs[a] /\ (a \in queued <=> funcs[a] = 1)
     /\ frame[a] = IF funcs[a] = 0 THEN "freed" ELSE "live"
     /\ settled[a] \in {0, 1} /\ (funcs[a] > 0 => settled[a] = 0)
  \/ at[a] = "completed" /\ ref[a] = 0 /\ funcs[a] = 0 /\ frame[a] = "freed" /\ settled[a] = 1 /\ a \notin queued

\* A body that runs is on the stack once: a job has taken one of its functions.
StackFits ==
  /\ \A i \in DOMAIN callStack : /\ at[callStack[i][1]] = "runs"
                              /\ funcs[callStack[i][1]] = IF callStack[i][2] = "job" THEN 1 ELSE 0
  /\ \A a \in Acts : at[a] = "runs" => \E i \in DOMAIN callStack : callStack[i][1] = a
  /\ \A i, j \in DOMAIN callStack : callStack[i][1] = callStack[j][1] => i = j

AInv == AsyncTypes /\ StackFits /\ \A a \in Acts : Fits(a)

\* A body begins to run, or runs again.
LEMMA Starts ==
  ASSUME AInv, NEW a \in Acts, at[a] # "runs", NEW w \in {"call", "job"},
         callStack' = Append(callStack, <<a, w>>), at' = [at EXCEPT ![a] = "runs"],
         funcs' = funcs, funcs[a] = IF w = "job" THEN 1 ELSE 0
  PROVE  callStack' \in Seq(Acts \X {"call", "job"}) /\ StackFits'
<1> PICK n \in Nat : n = Len(callStack)
  BY DEF AInv, AsyncTypes
<1>1. /\ callStack' \in Seq(Acts \X {"call", "job"})
      /\ DOMAIN callStack = 1 .. n /\ DOMAIN callStack' = 1 .. n + 1
      /\ callStack'[n + 1] = <<a, w>> /\ \A i \in 1 .. n : callStack'[i] = callStack[i]
  BY DEF AInv, AsyncTypes
<1>2. \A i \in 1 .. n : callStack[i] \in Acts \X {"call", "job"} /\ callStack[i][1] \in Acts /\ callStack[i][1] # a
  <2>1. \A i \in 1 .. n : callStack[i] \in Acts \X {"call", "job"}
    BY <1>1 DEF AInv, AsyncTypes
  <2>2. \A i \in 1 .. n : at[callStack[i][1]] = "runs"
    BY <1>1 DEF AInv, StackFits
  <2> QED
    BY <2>1, <2>2
<1>3. at'[a] = "runs" /\ \A b \in Acts : b # a => at'[b] = at[b]
  BY DEF AInv, AsyncTypes
<1>4. ASSUME NEW i \in DOMAIN callStack'
      PROVE  at'[callStack'[i][1]] = "runs" /\ funcs'[callStack'[i][1]] = IF callStack'[i][2] = "job" THEN 1 ELSE 0
  <2>1. CASE i = n + 1
    BY <1>1, <1>3, <2>1
  <2>2. CASE i \in 1 .. n
    BY <1>1, <1>2, <1>3, <2>2 DEF AInv, StackFits
  <2> QED
    BY <1>1, <2>1, <2>2
<1>5. ASSUME NEW b \in Acts, at'[b] = "runs" PROVE \E i \in DOMAIN callStack' : callStack'[i][1] = b
  <2>1. CASE b = a
    <3>1. n + 1 \in DOMAIN callStack' /\ callStack'[n + 1][1] = a
      BY <1>1
    <3> QED
      BY <2>1, <3>1
  <2>2. CASE b # a
    <3>1. PICK i \in 1 .. n : callStack[i][1] = b
      BY <1>1, <1>3, <1>5, <2>2 DEF AInv, StackFits
    <3> QED
      BY <1>1, <3>1
  <2> QED
    BY <2>1, <2>2
<1>6. \A i, j \in DOMAIN callStack' : callStack'[i][1] = callStack'[j][1] => i = j
  BY <1>1, <1>2 DEF AInv, StackFits
<1> QED
  BY <1>1, <1>4, <1>5, <1>6 DEF StackFits

\* A body stops.
LEMMA Stops ==
  ASSUME AInv, NEW a \in Acts, Func!Running(a), callStack' = Func!Front(callStack),
         NEW k, k # "runs", at' = [at EXCEPT ![a] = k], NEW f, funcs' = [funcs EXCEPT ![a] = f]
  PROVE  /\ callStack' \in Seq(Acts \X {"call", "job"}) /\ StackFits'
         /\ at[a] = "runs" /\ Func!Top[2] \in {"call", "job"} /\ funcs[a] = IF Func!Top[2] = "job" THEN 1 ELSE 0
<1> PICK n \in Nat : n = Len(callStack)
  BY DEF AInv, AsyncTypes
<1>1. /\ n > 0 /\ callStack[n][1] = a /\ Func!Top = callStack[n]
      /\ DOMAIN callStack = 1 .. n /\ DOMAIN callStack' = 1 .. n - 1
      /\ callStack' \in Seq(Acts \X {"call", "job"}) /\ \A i \in 1 .. n - 1 : callStack'[i] = callStack[i]
  BY SMTT(20) DEF AInv, AsyncTypes, Func!Running, Func!Top, Func!Last, Func!Front
<1>2. \A i \in 1 .. n : callStack[i] \in Acts \X {"call", "job"} /\ callStack[i][1] \in Acts
  BY <1>1 DEF AInv, AsyncTypes
<1>3. \A i \in 1 .. n - 1 : callStack[i][1] # a
  <2>1. \A i, j \in 1 .. n : callStack[i][1] = callStack[j][1] => i = j
    BY <1>1 DEF AInv, StackFits
  <2>2. \A i \in 1 .. n - 1 : i \in 1 .. n /\ i # n
    OBVIOUS
  <2> QED
    BY <1>1, <2>1, <2>2
<1>4. /\ at'[a] = k /\ \A b \in Acts : b # a => at'[b] = at[b] /\ funcs'[b] = funcs[b]
  BY DEF AInv, AsyncTypes
<1>5. \A i \in DOMAIN callStack' : /\ at'[callStack'[i][1]] = "runs"
                               /\ funcs'[callStack'[i][1]] = IF callStack'[i][2] = "job" THEN 1 ELSE 0
  <2> SUFFICES ASSUME NEW i \in 1 .. n - 1
               PROVE  /\ at'[callStack[i][1]] = "runs"
                      /\ funcs'[callStack[i][1]] = IF callStack[i][2] = "job" THEN 1 ELSE 0
    BY <1>1
  <2>1. i \in DOMAIN callStack /\ callStack[i][1] \in Acts /\ callStack[i][1] # a
    BY <1>1, <1>2, <1>3
  <2>2. at[callStack[i][1]] = "runs" /\ funcs[callStack[i][1]] = IF callStack[i][2] = "job" THEN 1 ELSE 0
    BY <2>1 DEF AInv, StackFits
  <2> QED
    BY <1>4, <2>1, <2>2
<1>6. ASSUME NEW b \in Acts, at'[b] = "runs" PROVE \E i \in DOMAIN callStack' : callStack'[i][1] = b
  <2>1. b # a /\ at[b] = "runs"
    BY <1>4, <1>6
  <2>2. PICK i \in 1 .. n : callStack[i][1] = b
    BY <1>1, <2>1 DEF AInv, StackFits
  <2>3. i \in 1 .. n - 1
    BY <1>1, <2>1, <2>2
  <2> QED
    BY <1>1, <2>2, <2>3
<1>7. \A i, j \in DOMAIN callStack' : callStack'[i][1] = callStack'[j][1] => i = j
  <2>1. \A i, j \in 1 .. n : callStack[i][1] = callStack[j][1] => i = j
    BY <1>1 DEF AInv, StackFits
  <2>2. \A i \in DOMAIN callStack' : i \in 1 .. n /\ callStack'[i] = callStack[i]
    BY <1>1
  <2> QED
    BY <2>1, <2>2
<1>8. n \in DOMAIN callStack /\ Func!Top[2] \in {"call", "job"}
  BY <1>1, <1>2
<1>9. at[a] = "runs" /\ funcs[a] = IF Func!Top[2] = "job" THEN 1 ELSE 0
  BY <1>1, <1>8 DEF AInv, StackFits
<1> QED
  BY <1>1, <1>5, <1>6, <1>7, <1>8, <1>9 DEF StackFits

\* The invariant holds at first.
LEMMA InitAInv == Func!Init => AInv
  BY DEF Func!Init, AInv, AsyncTypes, StackFits, Fits

\* A call that a step leaves alone fits as before.
LEMMA OthersFit ==
  ASSUME NEW b \in Acts, Fits(b), ref'[b] = ref[b], frame'[b] = frame[b], at'[b] = at[b],
         funcs'[b] = funcs[b], b \in queued' <=> b \in queued, settled'[b] = settled[b]
  PROVE  Fits(b)'
  BY DEF Fits

\* Every step keeps the invariant: for each, the stack, the call that steps, and
\* the others.
LEMMA NextAInv == AInv /\ [Func!Next]_(Func!vars) => AInv'
<1> SUFFICES ASSUME AInv, [Func!Next]_(Func!vars) PROVE AInv'
  OBVIOUS
<1>1. ASSUME NEW a \in Acts, Func!Call(a) PROVE AInv'
  <2>1. callStack' \in Seq(Acts \X {"call", "job"}) /\ StackFits'
    BY <1>1, Starts DEF Func!Call, AInv, Fits
  <2>2. Fits(a)
    BY DEF AInv
  <2>3. AsyncTypes'
    BY <1>1, <2>1 DEF Func!Call, AInv, AsyncTypes
  <2>4. Fits(a)'
    BY <1>1, <2>1, <2>2 DEF Func!Call, AInv, AsyncTypes, Fits
  <2>5. \A b \in Acts : b # a => Fits(b)'
    BY <1>1, OthersFit DEF Func!Call, AInv, AsyncTypes
  <2> QED
    BY <2>1, <2>3, <2>4, <2>5 DEF AInv
<1>2. ASSUME NEW a \in Acts, Func!Await(a) PROVE AInv'
  <2>1. /\ callStack' \in Seq(Acts \X {"call", "job"}) /\ StackFits'
        /\ at[a] = "runs" /\ Func!Top[2] \in {"call", "job"} /\ funcs[a] = IF Func!Top[2] = "job" THEN 1 ELSE 0
    BY <1>2, Stops DEF Func!Await, Func!LetGo
  <2>2. Fits(a)
    BY DEF AInv
  <2>3. AsyncTypes'
    BY <1>2, <2>1 DEF Func!Await, Func!LetGo, Func!FreedIf, AInv, AsyncTypes
  <2>4. Fits(a)'
    BY <1>2, <2>1, <2>2 DEF Func!Await, Func!LetGo, Func!FreedIf, AInv, AsyncTypes, Fits
  <2>5. \A b \in Acts : b # a => Fits(b)'
    BY <1>2, OthersFit DEF Func!Await, Func!LetGo, AInv, AsyncTypes
  <2> QED
    BY <2>1, <2>3, <2>4, <2>5 DEF AInv
<1>3. ASSUME NEW a \in Acts, Func!AwaitSettled(a) PROVE AInv'
  <2>1. /\ callStack' \in Seq(Acts \X {"call", "job"}) /\ StackFits'
        /\ at[a] = "runs" /\ Func!Top[2] \in {"call", "job"} /\ funcs[a] = IF Func!Top[2] = "job" THEN 1 ELSE 0
    BY <1>3, Stops DEF Func!AwaitSettled, Func!LetGo
  <2>2. Fits(a)
    BY DEF AInv
  <2>3. AsyncTypes'
    BY <1>3, <2>1 DEF Func!AwaitSettled, Func!LetGo, AInv, AsyncTypes
  <2>4. Fits(a)'
    BY <1>3, <2>1, <2>2 DEF Func!AwaitSettled, Func!LetGo, AInv, AsyncTypes, Fits
  <2>5. \A b \in Acts : b # a => Fits(b)'
    BY <1>3, OthersFit DEF Func!AwaitSettled, Func!LetGo, AInv, AsyncTypes
  <2> QED
    BY <2>1, <2>3, <2>4, <2>5 DEF AInv
<1>4. ASSUME NEW a \in Acts, Func!AwaitFails(a) PROVE AInv'
  <2>1. /\ callStack' \in Seq(Acts \X {"call", "job"}) /\ StackFits'
        /\ at[a] = "runs" /\ Func!Top[2] \in {"call", "job"} /\ funcs[a] = IF Func!Top[2] = "job" THEN 1 ELSE 0
    BY <1>4, Stops DEF Func!AwaitFails, Func!LetGo
  <2>2. Fits(a)
    BY DEF AInv
  <2>3. AsyncTypes'
    BY <1>4, <2>1 DEF Func!AwaitFails, Func!LetGo, Func!FreedIf, AInv, AsyncTypes
  <2>4. Fits(a)'
    BY <1>4, <2>1, <2>2 DEF Func!AwaitFails, Func!LetGo, Func!FreedIf, AInv, AsyncTypes, Fits
  <2>5. \A b \in Acts : b # a => Fits(b)'
    BY <1>4, OthersFit DEF Func!AwaitFails, Func!LetGo, AInv, AsyncTypes
  <2> QED
    BY <2>1, <2>3, <2>4, <2>5 DEF AInv
<1>5. ASSUME NEW a \in Acts, Func!Finish(a) PROVE AInv'
  <2>1. /\ callStack' \in Seq(Acts \X {"call", "job"}) /\ StackFits'
        /\ at[a] = "runs" /\ Func!Top[2] \in {"call", "job"} /\ funcs[a] = IF Func!Top[2] = "job" THEN 1 ELSE 0
    BY <1>5, Stops DEF Func!Finish, Func!LetGo
  <2>2. Fits(a)
    BY DEF AInv
  <2>3. AsyncTypes'
    BY <1>5, <2>1 DEF Func!Finish, Func!LetGo, AInv, AsyncTypes
  <2>4. Fits(a)'
    BY <1>5, <2>1, <2>2 DEF Func!Finish, Func!LetGo, AInv, AsyncTypes, Fits
  <2>5. \A b \in Acts : b # a => Fits(b)'
    BY <1>5, OthersFit DEF Func!Finish, Func!LetGo, AInv, AsyncTypes
  <2> QED
    BY <2>1, <2>3, <2>4, <2>5 DEF AInv
<1>6. ASSUME NEW a \in Acts, Func!Settle(a) PROVE AInv'
  <2>1. callStack' \in Seq(Acts \X {"call", "job"}) /\ StackFits'
    BY <1>6, SMTT(30) DEF Func!Settle, AInv, AsyncTypes, StackFits
  <2>2. Fits(a)
    BY DEF AInv
  <2>3. AsyncTypes'
    BY <1>6, <2>1 DEF Func!Settle, AInv, AsyncTypes
  <2>4. Fits(a)'
    BY <1>6, <2>1, <2>2 DEF Func!Settle, AInv, AsyncTypes, Fits
  <2>5. \A b \in Acts : b # a => Fits(b)'
    BY <1>6, OthersFit DEF Func!Settle, AInv, AsyncTypes
  <2> QED
    BY <2>1, <2>3, <2>4, <2>5 DEF AInv
<1>7. ASSUME NEW a \in Acts, Func!Forget(a) PROVE AInv'
  <2>1. callStack' \in Seq(Acts \X {"call", "job"}) /\ StackFits'
    BY <1>7, SMTT(30) DEF Func!Forget, AInv, AsyncTypes, StackFits
  <2>2. Fits(a)
    BY DEF AInv
  <2>3. AsyncTypes'
    BY <1>7, <2>1 DEF Func!Forget, Func!FreedIf, AInv, AsyncTypes
  <2>4. Fits(a)'
    BY <1>7, <2>1, <2>2 DEF Func!Forget, Func!FreedIf, AInv, AsyncTypes, Fits
  <2>5. \A b \in Acts : b # a => Fits(b)'
    BY <1>7, OthersFit DEF Func!Forget, AInv, AsyncTypes
  <2> QED
    BY <2>1, <2>3, <2>4, <2>5 DEF AInv
<1>8. ASSUME NEW a \in Acts, Func!Resume(a) PROVE AInv'
  <2>1. callStack' \in Seq(Acts \X {"call", "job"}) /\ StackFits'
    BY <1>8, Starts DEF Func!Resume, AInv, Fits
  <2>2. Fits(a)
    BY DEF AInv
  <2>3. AsyncTypes'
    BY <1>8, <2>1 DEF Func!Resume, AInv, AsyncTypes
  <2>4. Fits(a)'
    BY <1>8, <2>1, <2>2 DEF Func!Resume, AInv, AsyncTypes, Fits
  <2>5. \A b \in Acts : b # a => Fits(b)'
    BY <1>8, OthersFit DEF Func!Resume, AInv, AsyncTypes
  <2> QED
    BY <2>1, <2>3, <2>4, <2>5 DEF AInv
<1>9. ASSUME UNCHANGED Func!vars PROVE AInv'
  <2>1. AsyncTypes' /\ StackFits'
    BY <1>9 DEF Func!vars, AInv, AsyncTypes, StackFits
  <2>2. \A b \in Acts : Fits(b)'
    BY <1>9, OthersFit DEF Func!vars, AInv
  <2> QED
    BY <2>1, <2>2 DEF AInv
<1> QED
  BY <1>1, <1>2, <1>3, <1>4, <1>5, <1>6, <1>7, <1>8, <1>9 DEF Func!Next

\* So it holds in every state that async calls reach.
LEMMA CallsHold == Func!Spec => []Func!CallsCounted
<1>1. AInv => Func!CallsCounted
  <2> SUFFICES ASSUME AInv PROVE Func!CallsCounted
    OBVIOUS
  <2>1. \A i \in DOMAIN callStack : callStack[i] \in Acts \X {"call", "job"} /\ callStack[i][1] \in Acts
                              /\ callStack[i] = <<callStack[i][1], callStack[i][2]>> /\ callStack[i][2] \in {"call", "job"}
    BY DEF AInv, AsyncTypes
  <2>2. Func!CountExact
    <3> SUFFICES ASSUME NEW a \in Acts PROVE ref[a] = Func!OfCall(a) + funcs[a]
      BY DEF Func!CountExact
    <3>1. CASE at[a] = "runs"
      <4>1. PICK i \in DOMAIN callStack : callStack[i][1] = a
        BY <3>1 DEF AInv, StackFits
      <4>2. \A j \in DOMAIN callStack : callStack[j] = <<a, "call">> => j = i
        BY <4>1 DEF AInv, StackFits
      <4>3. ref[a] = 1 /\ funcs[a] = IF callStack[i][2] = "job" THEN 1 ELSE 0
        BY <3>1, <4>1 DEF AInv, StackFits, Fits
      <4>4. CASE callStack[i][2] = "job"
        <5>1. ~ \E j \in DOMAIN callStack : callStack[j] = <<a, "call">>
          BY <4>2, <4>4
        <5> QED
          BY <4>3, <4>4, <5>1 DEF Func!OfCall
      <4>5. CASE callStack[i][2] = "call"
        <5>1. callStack[i] = <<a, "call">>
          BY <2>1, <4>1, <4>5
        <5> QED
          BY <4>3, <4>5, <5>1 DEF Func!OfCall
      <4> QED
        BY <2>1, <4>4, <4>5
    <3>2. CASE at[a] # "runs"
      <4>1. ~ \E i \in DOMAIN callStack : callStack[i] = <<a, "call">>
        BY <3>2 DEF AInv, StackFits
      <4>2. ref[a] = funcs[a] /\ funcs[a] \in Int
        BY <3>2 DEF AInv, AsyncTypes, Fits
      <4> QED
        BY <4>1, <4>2 DEF Func!OfCall
    <3> QED
      BY <3>1, <3>2
  <2>3. Func!RunsOnLiveFrame
    BY <2>1 DEF AInv, StackFits, Fits, Func!RunsOnLiveFrame
  <2>4. Func!NoFrameLeft
    BY DEF AInv, Fits, Func!NoFrameLeft
  <2>5. Func!SettledOnce
    BY DEF AInv, Fits, Func!SettledOnce
  <2> QED
    BY <2>2, <2>3, <2>4, <2>5 DEF Func!CallsCounted
<1> QED
  BY <1>1, InitAInv, NextAInv, PTL DEF Func!Spec

-----------------------------------------------------------------------------
(* Promise.all and its like. The count is what is owed: an answer for each *)
(* element given and one for the loop; less when an element answered twice. *)

AllTypes ==
  /\ method \in All!Kinds /\ foreign \subseteq All!Elements /\ loop \in {"runs", "ended", "failed"}
  /\ given \in 0 .. MaxElements /\ count \in Int /\ called \subseteq All!Elements \X All!Answers
  /\ values \in [All!Elements -> All!Answers \cup {None}] /\ outcome \in All!Outcomes \cup {None}
  /\ answers \in Seq(All!Elements \X All!Answers)

\* The element functions called are the answers that count; an element of the
\* engine answers once, and none before its then was called.
AnswersFit ==
  /\ called = {a \in All!ToSet(answers) : All!Counting(a[2])}
  /\ \A a \in All!ToSet(answers) : a[1] <= given
  /\ \A a, b \in All!ToSet(answers) : a[1] = b[1] /\ a # b => a[1] \in foreign

\* The elements whose answer was counted, and what that leaves of the count.
Heard == {i \in All!Elements : \E h \in All!Answers : <<i, h>> \in called}
Owed == given - Cardinality(Heard) + IF loop = "ended" THEN 0 ELSE 1

CountFits ==
  /\ \A i \in Heard : values[i] # None
  /\ method # "race" => count <= Owed /\ (count <= 0 => outcome # None)
  /\ method # "race" /\ ~All!TwiceCounted => count = Owed

\* Who settled the returned promise.
OutcomeFits ==
  /\ outcome # None /\ outcome.what = Callback =>
       method # "race" /\ (~All!TwiceCounted => loop # "runs" /\ Heard = 1 .. given)
  /\ outcome = None => \A i \in DOMAIN answers : All!Counting(answers[i][2])
  /\ All!FirstDecides

AllInv == AllTypes /\ AnswersFit /\ CountFits /\ OutcomeFits

\* The elements heard are among those given.
LEMMA HeardFinite ==
  ASSUME All!AllAssumption, AllInv
  PROVE  /\ IsFiniteSet(Heard) /\ Cardinality(Heard) \in 0 .. given /\ Heard \subseteq 1 .. given
         /\ Cardinality(Heard) = given => Heard = 1 .. given
<1>1. Heard \subseteq 1 .. given
  <2> SUFFICES ASSUME NEW i \in All!Elements, NEW h \in All!Answers, <<i, h>> \in called
               PROVE  i \in 1 .. given
    BY DEF Heard
  <2>1. i <= given
    BY DEF AllInv, AnswersFit
  <2> QED
    BY <2>1 DEF AllInv, AllTypes, All!AllAssumption, All!Elements
<1>2. given \in Nat
  BY DEF AllInv, AllTypes, All!AllAssumption
<1>3. IsFiniteSet(1 .. given) /\ Cardinality(1 .. given) = given
  BY <1>2, FS_Interval
<1>4. IsFiniteSet(Heard) /\ Cardinality(Heard) <= given
      /\ (Cardinality(1 .. given) = Cardinality(Heard) => 1 .. given = Heard)
  BY <1>1, <1>3, FS_Subset
<1>5. Cardinality(Heard) \in Nat
  BY <1>4, FS_CardinalityType
<1> QED
  BY <1>1, <1>2, <1>3, <1>4, <1>5

\* The invariant holds at first.
LEMMA InitAllInv ==
  ASSUME All!AllAssumption, All!Init
  PROVE  AllInv
<1>1. AllTypes
  BY DEF All!AllAssumption, All!Init, AllTypes
<1>2. DOMAIN answers = {} /\ All!ToSet(answers) = {}
  BY DEF All!Init, All!ToSet
<1>3. AnswersFit
  BY <1>2 DEF All!Init, AnswersFit
<1>4. Heard = {}
  BY DEF All!Init, Heard
<1>5. Owed = 1
  BY <1>4, FS_EmptySet DEF All!Init, Owed
<1>6. CountFits
  BY <1>4, <1>5 DEF All!Init, CountFits
<1>7. OutcomeFits
  BY <1>2 DEF All!Init, OutcomeFits, All!FirstDecides
<1> QED
  BY <1>1, <1>3, <1>6, <1>7 DEF AllInv

\* What an answer adds to those that were given.
LEMMA AnswerAdds ==
  ASSUME All!AllAssumption, AllInv, NEW i \in All!Elements, NEW how \in All!Answers, All!Answer(i, how)
  PROVE  /\ answers' \in Seq(All!Elements \X All!Answers) /\ All!ToSet(answers') = All!ToSet(answers) \cup {<<i, how>>}
         /\ DOMAIN answers \subseteq DOMAIN answers'
         /\ \A j \in DOMAIN answers : answers'[j] = answers[j]
         /\ <<i, how>> \notin All!ToSet(answers) =>
              DOMAIN answers' = 1 .. Len(answers) + 1 /\ answers'[Len(answers) + 1] = <<i, how>>
<1>1. answers \in Seq(All!Elements \X All!Answers) /\ Len(answers) \in Nat /\ DOMAIN answers = 1 .. Len(answers)
  BY DEF AllInv, AllTypes
<1>2. CASE <<i, how>> \in All!ToSet(answers)
  BY <1>1, <1>2 DEF All!Answer
<1>3. CASE <<i, how>> \notin All!ToSet(answers)
  <2>1. answers' = Append(answers, <<i, how>>)
    BY <1>3 DEF All!Answer
  <2>2. /\ answers' \in Seq(All!Elements \X All!Answers) /\ DOMAIN answers' = 1 .. Len(answers) + 1
        /\ answers'[Len(answers) + 1] = <<i, how>> /\ \A j \in 1 .. Len(answers) : answers'[j] = answers[j]
    BY <1>1, <2>1
  <2>3. All!ToSet(answers') = All!ToSet(answers) \cup {<<i, how>>}
    <3>1. ASSUME NEW x \in All!ToSet(answers') PROVE x \in All!ToSet(answers) \cup {<<i, how>>}
      BY <1>1, <2>2, <3>1 DEF All!ToSet
    <3>2. ASSUME NEW x \in All!ToSet(answers) PROVE x \in All!ToSet(answers')
      <4>1. PICK j \in 1 .. Len(answers) : x = answers[j]
        BY <1>1 DEF All!ToSet
      <4>2. j \in DOMAIN answers' /\ answers'[j] = x
        BY <1>1, <2>2, <4>1
      <4> QED
        BY <4>2 DEF All!ToSet
    <3>3. <<i, how>> \in All!ToSet(answers')
      <4>1. Len(answers) + 1 \in DOMAIN answers'
        BY <1>1, <2>2
      <4> QED
        BY <2>2, <4>1 DEF All!ToSet
    <3> QED
      BY <3>1, <3>2, <3>3
  <2> QED
    BY <1>1, <2>2, <2>3
<1> QED
  BY <1>2, <1>3

\* An answer leaves the answers fitting.
LEMMA AnswersStay ==
  ASSUME All!AllAssumption, AllInv, NEW i \in All!Elements, NEW how \in All!Answers, All!Answer(i, how)
  PROVE  AnswersFit' /\ (called' = IF All!Counting(how) THEN called \cup {<<i, how>>} ELSE called)
<1>1. All!ToSet(answers') = All!ToSet(answers) \cup {<<i, how>>} /\ method' = method /\ foreign' = foreign /\ given' = given
  BY AnswerAdds DEF All!Answer
<1>2. called' = IF All!Counting(how) THEN called \cup {<<i, how>>} ELSE called
  BY DEF All!Answer, All!Counted
<1>3. called' = {a \in All!ToSet(answers') : All!Counting(a[2])'}
  <2>1. \A h : All!Counting(h)' <=> All!Counting(h)
    BY <1>1 DEF All!Counting
  <2>2. called = {a \in All!ToSet(answers) : All!Counting(a[2])}
    BY DEF AllInv, AnswersFit
  <2> QED
    BY <1>1, <1>2, <2>1, <2>2
<1>4. \A a \in All!ToSet(answers') : a[1] <= given'
  BY <1>1 DEF AllInv, AnswersFit, All!Answer, All!MayAnswer
<1>5. ASSUME NEW a \in All!ToSet(answers'), NEW b \in All!ToSet(answers'), a[1] = b[1], a # b
      PROVE  a[1] \in foreign'
  <2>1. \A c, d \in All!ToSet(answers) : c[1] = d[1] /\ c # d => c[1] \in foreign
    BY DEF AllInv, AnswersFit
  <2>2. i \in foreign \/ \A c \in All!ToSet(answers) : c[1] # i
    BY DEF All!Answer, All!MayAnswer
  <2>3. (a \in All!ToSet(answers) \/ a = <<i, how>>) /\ (b \in All!ToSet(answers) \/ b = <<i, how>>)
    BY <1>1, <1>5
  <2>4. CASE a \in All!ToSet(answers) /\ b \in All!ToSet(answers)
    BY <1>1, <1>5, <2>1, <2>4
  <2>5. CASE a = <<i, how>>
    <3>1. b \in All!ToSet(answers) /\ a[1] = i /\ b[1] = i
      BY <1>5, <2>3, <2>5
    <3> QED
      BY <1>1, <2>2, <3>1
  <2>6. CASE b = <<i, how>>
    <3>1. a \in All!ToSet(answers) /\ a[1] = i
      BY <1>5, <2>3, <2>6
    <3> QED
      BY <1>1, <2>2, <3>1
  <2> QED
    BY <2>3, <2>4, <2>5, <2>6
<1> QED
  BY <1>2, <1>3, <1>4, <1>5 DEF AnswersFit

\* An answer that is counted takes one off the count, and off what is owed
\* unless its element was heard before.
LEMMA CountedFits ==
  ASSUME All!AllAssumption, AllInv, NEW i \in All!Elements, NEW how \in All!Answers, All!Answer(i, how),
         All!Counting(how), <<i, how>> \notin called
  PROVE  /\ Heard' = Heard \cup {i} /\ CountFits' /\ Owed' \in Int /\ method # "race" /\ Heard' \subseteq 1 .. given'
         /\ Cardinality(Heard') = given' => Heard' = 1 .. given'
         /\ Cardinality(Heard') <= given'
<1>1. /\ called' = called \cup {<<i, how>>} /\ values' = [values EXCEPT ![i] = how]
      /\ count' = count - 1 /\ outcome' = IF count = 1 THEN All!Finished(outcome) ELSE outcome
      /\ method' = method /\ foreign' = foreign /\ loop' = loop /\ given' = given /\ i <= given
  BY DEF All!Answer, All!Counted, All!MayAnswer
<1>2. method # "race"
  BY DEF All!Counting
<1>3. Heard' = Heard \cup {i}
  BY <1>1, Zenon DEF Heard
<1>4. IsFiniteSet(Heard) /\ Cardinality(Heard) \in 0 .. given /\ Heard \subseteq 1 .. given
  BY HeardFinite
<1>5. /\ IsFiniteSet(Heard')
      /\ Cardinality(Heard') = IF i \in Heard THEN Cardinality(Heard) ELSE Cardinality(Heard) + 1
  BY <1>3, <1>4, FS_AddElement
<1>6. given \in Nat /\ count \in Int /\ i \in 1 .. given
  BY <1>1 DEF AllInv, AllTypes, All!AllAssumption, All!Elements
<1>7. ~All!TwiceCounted => i \notin Heard
  <2> SUFFICES ASSUME ~All!TwiceCounted, NEW h \in All!Answers, <<i, h>> \in called PROVE FALSE
    BY DEF Heard
  <2>1. <<i, h>> \in All!ToSet(answers) /\ All!Counting(h)
    BY DEF AllInv, AnswersFit
  <2>2. h # how
    OBVIOUS
  <2>3. method = "allSettled" /\ foreign = {}
    BY <2>1, <2>2 DEF All!Counting, All!TwiceCounted
  <2>4. \A a \in All!ToSet(answers) : a[1] # i
    BY <2>3 DEF All!Answer, All!MayAnswer
  <2> QED
    BY <2>1, <2>4
<1>8. \A j \in Heard' : values'[j] # None
  <2>1. how # None
    BY DEF All!AllAssumption
  <2>2. values' \in [All!Elements -> All!Answers \cup {None}] /\ values'[i] = how
    BY <1>1 DEF AllInv, AllTypes
  <2>3. \A j \in Heard : j # i => values'[j] = values[j]
    BY <1>1 DEF AllInv, AllTypes, Heard
  <2> QED
    BY <1>3, <2>1, <2>2, <2>3 DEF AllInv, CountFits
<1>9. /\ count <= Owed /\ (count <= 0 => outcome # None) /\ (~All!TwiceCounted => count = Owed)
      /\ Owed' = given - Cardinality(Heard') + IF loop = "ended" THEN 0 ELSE 1
      /\ Owed = given - Cardinality(Heard) + IF loop = "ended" THEN 0 ELSE 1
  BY <1>1, <1>2 DEF AllInv, CountFits, Owed
<1>10. count = 1 => outcome' # None
  <2>1. All!Finished(outcome) # None
    BY DEF All!Finished, All!Settle, All!AllAssumption, AllInv, AllTypes, All!Outcomes, All!Answers
  <2> QED
    BY <1>1, <2>1
<1>11. count' <= Owed' /\ (count' <= 0 => outcome' # None) /\ (~All!TwiceCounted => count' = Owed')
  BY <1>1, <1>4, <1>5, <1>6, <1>7, <1>9, <1>10
<1>12. All!TwiceCounted' <=> All!TwiceCounted
  BY <1>1 DEF All!TwiceCounted
<1>13. CountFits'
  BY <1>8, <1>11, <1>12 DEF CountFits
<1>14. Heard' \subseteq 1 .. given'
  BY <1>1, <1>3, <1>4, <1>6
<1>15. Cardinality(Heard') <= given' /\ (Cardinality(Heard') = given' => Heard' = 1 .. given')
  <2>1. IsFiniteSet(1 .. given') /\ Cardinality(1 .. given') = given'
    BY <1>1, <1>6, FS_Interval
  <2> QED
    BY <1>14, <2>1, FS_Subset
<1>16. Owed' \in Int
  BY <1>4, <1>5, <1>6, <1>9
<1> QED
  BY <1>2, <1>3, <1>13, <1>14, <1>15, <1>16

\* A step that settles the returned promise with an element is the first answer
\* that goes straight to it.
LEMMA AnswerKeeps ==
  ASSUME All!AllAssumption, AllInv, NEW i \in All!Elements, NEW how \in All!Answers, All!Answer(i, how)
  PROVE  AllInv'
<1>1. /\ method' = method /\ foreign' = foreign /\ loop' = loop /\ given' = given
      /\ \A h : All!Counting(h)' <=> All!Counting(h)
  BY DEF All!Answer, All!Counting
<1>2. AnswersFit' /\ (called' = IF All!Counting(how) THEN called \cup {<<i, how>>} ELSE called)
  BY AnswersStay
<1>3. /\ answers' \in Seq(All!Elements \X All!Answers) /\ All!ToSet(answers') = All!ToSet(answers) \cup {<<i, how>>}
      /\ DOMAIN answers \subseteq DOMAIN answers' /\ \A j \in DOMAIN answers : answers'[j] = answers[j]
      /\ <<i, how>> \notin All!ToSet(answers) =>
           DOMAIN answers' = 1 .. Len(answers) + 1 /\ answers'[Len(answers) + 1] = <<i, how>>
  BY AnswerAdds
<1>4. /\ All!Finished(outcome) \in All!Outcomes /\ All!Settle(outcome, how, i) \in All!Outcomes
      /\ outcome # None => All!Finished(outcome) = outcome /\ All!Settle(outcome, how, i) = outcome
      /\ outcome = None => All!Finished(outcome).what = Callback /\ All!Settle(outcome, how, i) = [how |-> how, what |-> i]
  BY DEF All!Finished, All!Settle, AllInv, AllTypes, All!Outcomes, All!Answers
<1>5. AllTypes'
  <2>1. method' \in All!Kinds /\ foreign' \subseteq All!Elements /\ loop' \in {"runs", "ended", "failed"} /\ given' \in 0 .. MaxElements
    BY <1>1 DEF AllInv, AllTypes
  <2>2. called' \subseteq All!Elements \X All!Answers
    BY <1>2 DEF AllInv, AllTypes
  <2>3. count' \in Int /\ values' \in [All!Elements -> All!Answers \cup {None}] /\ outcome' \in All!Outcomes \cup {None}
    BY <1>4 DEF All!Answer, All!Counted, AllInv, AllTypes
  <2> QED
    BY <1>3, <2>1, <2>2, <2>3 DEF AllTypes
<1>6. CASE All!Counting(how) /\ <<i, how>> \notin called
  <2>1. /\ Heard' = Heard \cup {i} /\ CountFits' /\ Owed' \in Int /\ method # "race" /\ Heard' \subseteq 1 .. given'
        /\ Cardinality(Heard') = given' => Heard' = 1 .. given'
        /\ Cardinality(Heard') <= given'
    BY <1>6, CountedFits
  <2>2. count' = count - 1 /\ outcome' = IF count = 1 THEN All!Finished(outcome) ELSE outcome
    BY <1>6 DEF All!Answer, All!Counted
  <2>3. ASSUME outcome' # None, outcome'.what = Callback, ~All!TwiceCounted PROVE loop # "runs" /\ Heard' = 1 .. given'
    <3>1. CASE outcome # None
      <4>1. outcome' = outcome
        BY <1>4, <2>2, <3>1
      <4>2. loop # "runs" /\ Heard = 1 .. given
        BY <2>3, <4>1 DEF AllInv, OutcomeFits
      <4> QED
        BY <1>1, <2>1, <4>2
    <3>2. CASE outcome = None
      <4>1. count = 1 /\ count' = 0
        BY <2>2, <2>3, <3>2
      <4>2. Owed' = 0
        <5>1. ~All!TwiceCounted'
          BY <1>1, <2>3 DEF All!TwiceCounted
        <5> QED
          BY <1>1, <2>1, <4>1, <5>1 DEF CountFits
      <4>3. Owed' = given' - Cardinality(Heard') + IF loop' = "ended" THEN 0 ELSE 1
        BY DEF Owed
      <4>4. given' \in Nat /\ Cardinality(Heard') \in Int
        <5>1. IsFiniteSet(Heard')
          BY <2>1, HeardFinite, FS_AddElement
        <5> QED
          BY <1>5, <5>1, FS_CardinalityType DEF AllTypes, All!AllAssumption
      <4>5. loop' = "ended"
        BY <2>1, <4>2, <4>3, <4>4
      <4>6. Owed' = given' - Cardinality(Heard')
        BY <4>3, <4>4, <4>5
      <4>7. Cardinality(Heard') = given'
        BY <4>2, <4>4, <4>6
      <4> QED
        BY <1>1, <2>1, <4>5, <4>7
    <3> QED
      BY <3>1, <3>2
  <2>4. outcome' = None => \A j \in DOMAIN answers' : All!Counting(answers'[j][2])
    <3> SUFFICES ASSUME outcome' = None, NEW j \in DOMAIN answers' PROVE All!Counting(answers'[j][2])
      OBVIOUS
    <3>1. outcome = None
      BY <1>4, <2>2
    <3>2. \A k \in DOMAIN answers : All!Counting(answers[k][2])
      BY <3>1 DEF AllInv, OutcomeFits
    <3>3. answers'[j] \in All!ToSet(answers')
      BY DEF All!ToSet
    <3>4. CASE answers'[j] = <<i, how>>
      BY <1>6, <3>4
    <3>5. CASE answers'[j] \in All!ToSet(answers)
      BY <3>2, <3>5 DEF All!ToSet
    <3> QED
      BY <1>3, <3>3, <3>4, <3>5
  <2>5. All!FirstDecides'
    <3> SUFFICES ASSUME outcome' # None, outcome'.what \in All!Elements
                 PROVE  \E k \in DOMAIN answers' :
                          /\ answers'[k] = <<outcome'.what, outcome'.how>> /\ ~All!Counting(outcome'.how)
                          /\ \A j \in 1 .. k - 1 : All!Counting(answers'[j][2])
      BY <1>1 DEF All!FirstDecides
    <3>1. outcome # None /\ outcome' = outcome
      BY <1>4, <2>2 DEF All!AllAssumption
    <3>2. PICK k \in DOMAIN answers : /\ answers[k] = <<outcome.what, outcome.how>> /\ ~All!Counting(outcome.how)
                                      /\ \A j \in 1 .. k - 1 : All!Counting(answers[j][2])
      BY <3>1 DEF AllInv, OutcomeFits, All!FirstDecides
    <3>3. \A j \in 1 .. k - 1 : j \in DOMAIN answers
      BY <3>2 DEF AllInv, AllTypes
    <3> QED
      BY <1>3, <3>1, <3>2, <3>3
  <2>6. OutcomeFits'
    <3>1. All!TwiceCounted' <=> All!TwiceCounted
      BY <1>1 DEF All!TwiceCounted
    <3> QED
      BY <1>1, <2>1, <2>3, <2>4, <2>5, <3>1 DEF OutcomeFits, All!Counting
  <2> QED
    BY <1>2, <1>5, <2>1, <2>6 DEF AllInv
<1>7. ASSUME called' = called, count' = count, values' = values PROVE (outcome # None => outcome' # None) => CountFits'
  <2>1. Heard' = Heard /\ (All!TwiceCounted' <=> All!TwiceCounted)
    BY <1>1, <1>7, Zenon DEF Heard, All!TwiceCounted
  <2>2. Owed' = Owed
    BY <1>1, <2>1 DEF Owed
  <2> QED
    BY <1>1, <1>7, <2>1, <2>2 DEF AllInv, CountFits
<1>8. CASE All!Counting(how) /\ <<i, how>> \in called
  <2>1. <<i, how>> \in All!ToSet(answers)
    BY <1>8 DEF AllInv, AnswersFit
  <2>2. UNCHANGED <<called, values, count, outcome, answers>>
    BY <1>8, <2>1 DEF All!Answer, All!Counted
  <2>3. CountFits'
    BY <1>7, <2>2
  <2>4. Heard' = Heard /\ (All!TwiceCounted' <=> All!TwiceCounted)
    BY <1>1, <2>2, Zenon DEF Heard, All!TwiceCounted
  <2>5. OutcomeFits'
    BY <1>1, <2>2, <2>4 DEF AllInv, OutcomeFits, All!FirstDecides
  <2> QED
    BY <1>2, <1>5, <2>3, <2>5 DEF AllInv
<1>9. CASE ~All!Counting(how)
  <2>1. outcome' = All!Settle(outcome, how, i) /\ UNCHANGED <<called, values, count>>
    BY <1>9 DEF All!Answer
  <2>2. outcome' # None /\ CountFits'
    <3>1. outcome' # None
      BY <1>4, <2>1 DEF All!AllAssumption
    <3> QED
      BY <1>7, <2>1, <3>1
  <2>3. Heard' = Heard /\ (All!TwiceCounted' <=> All!TwiceCounted)
    BY <1>1, <2>1, Zenon DEF Heard, All!TwiceCounted
  <2>4. CASE outcome # None
    <3>1. outcome' = outcome
      BY <1>4, <2>1, <2>4
    <3>2. All!FirstDecides'
      <4> SUFFICES ASSUME outcome.what \in All!Elements
                   PROVE  \E k \in DOMAIN answers' :
                            /\ answers'[k] = <<outcome.what, outcome.how>> /\ ~All!Counting(outcome.how)
                            /\ \A j \in 1 .. k - 1 : All!Counting(answers'[j][2])
        BY <1>1, <3>1 DEF All!FirstDecides
      <4>1. PICK k \in DOMAIN answers : /\ answers[k] = <<outcome.what, outcome.how>> /\ ~All!Counting(outcome.how)
                                        /\ \A j \in 1 .. k - 1 : All!Counting(answers[j][2])
        BY <2>4 DEF AllInv, OutcomeFits, All!FirstDecides
      <4>2. \A j \in 1 .. k - 1 : j \in DOMAIN answers
        BY <4>1 DEF AllInv, AllTypes
      <4> QED
        BY <1>3, <4>1, <4>2
    <3>3. OutcomeFits'
      BY <1>1, <2>2, <2>3, <2>4, <3>1, <3>2 DEF AllInv, OutcomeFits
    <3> QED
      BY <1>2, <1>5, <2>2, <3>3 DEF AllInv
  <2>5. CASE outcome = None
    <3>1. outcome' = [how |-> how, what |-> i]
      BY <1>4, <2>1, <2>5
    <3>2. \A j \in DOMAIN answers : All!Counting(answers[j][2])
      BY <2>5 DEF AllInv, OutcomeFits
    <3>3. <<i, how>> \notin All!ToSet(answers)
      BY <1>9, <3>2 DEF All!ToSet
    <3>4. Len(answers) \in Nat /\ DOMAIN answers = 1 .. Len(answers)
      BY DEF AllInv, AllTypes
    <3>5. /\ Len(answers) + 1 \in DOMAIN answers' /\ answers'[Len(answers) + 1] = <<i, how>>
          /\ \A j \in 1 .. Len(answers) + 1 - 1 : All!Counting(answers'[j][2])
      <4>1. /\ Len(answers) + 1 \in DOMAIN answers' /\ answers'[Len(answers) + 1] = <<i, how>>
            /\ \A j \in DOMAIN answers : answers'[j] = answers[j]
        BY <1>3, <3>3, <3>4
      <4>2. 1 .. Len(answers) + 1 - 1 = DOMAIN answers
        BY <3>4
      <4> QED
        BY <3>2, <4>1, <4>2
    <3>6. outcome'.what = i /\ outcome'.how = how
      BY <3>1
    <3>7. All!FirstDecides'
      BY <1>1, <1>9, <3>5, <3>6 DEF All!FirstDecides
    <3>8. outcome'.what # Callback
      BY <3>6 DEF All!AllAssumption
    <3>9. OutcomeFits'
      BY <2>2, <3>7, <3>8 DEF OutcomeFits
    <3> QED
      BY <1>2, <1>5, <2>2, <3>9 DEF AllInv
  <2> QED
    BY <2>4, <2>5
<1> QED
  BY <1>6, <1>8, <1>9

\* Every step keeps the invariant.
LEMMA NextAllInv ==
  ASSUME All!AllAssumption, AllInv, [All!Next]_(All!vars)
  PROVE  AllInv'
<1>1. /\ IsFiniteSet(Heard) /\ Cardinality(Heard) \in 0 .. given /\ Heard \subseteq 1 .. given
      /\ Cardinality(Heard) = given => Heard = 1 .. given
  BY HeardFinite
<1>2. given \in Nat /\ count \in Int
  BY DEF AllInv, AllTypes, All!AllAssumption
<1>3. CASE All!Hand
  <2>1. /\ given' = given + 1 /\ loop = "runs" /\ UNCHANGED <<method, foreign, loop, called, values, outcome, answers>>
        /\ count' = IF method = "race" THEN count ELSE count + 1
    BY <1>3 DEF All!Hand
  <2>2. AllTypes'
    BY <1>3, <2>1 DEF All!Hand, AllInv, AllTypes, All!AllAssumption
  <2>3. /\ Heard' = Heard /\ (All!TwiceCounted' <=> All!TwiceCounted) /\ \A h : All!Counting(h)' <=> All!Counting(h)
    BY <2>1, Zenon DEF Heard, All!TwiceCounted, All!Counting
  <2>4. AnswersFit'
    <3>1. \A a \in All!ToSet(answers) : a[1] \in Int
      BY DEF AllInv, AllTypes, All!ToSet, All!Elements, All!AllAssumption
    <3> QED
      BY <1>2, <2>1, <2>3, <3>1 DEF AllInv, AnswersFit
  <2>5. Owed' = Owed + 1 /\ Owed \in Int
    BY <1>1, <1>2, <2>1, <2>3 DEF Owed
  <2>6. CountFits'
    BY <1>2, <2>1, <2>3, <2>5 DEF AllInv, CountFits
  <2>7. OutcomeFits'
    BY <2>1, <2>3 DEF AllInv, OutcomeFits, All!FirstDecides
  <2> QED
    BY <2>2, <2>4, <2>6, <2>7 DEF AllInv
<1>4. CASE All!End
  <2>1. /\ loop = "runs" /\ loop' = "ended" /\ UNCHANGED <<method, foreign, given, called, values, answers>>
        /\ method = "race" => UNCHANGED <<count, outcome>>
        /\ method # "race" => count' = count - 1 /\ outcome' = IF count = 1 THEN All!Finished(outcome) ELSE outcome
    BY <1>4 DEF All!End
  <2>2. /\ All!Finished(outcome) \in All!Outcomes
        /\ outcome # None => All!Finished(outcome) = outcome
        /\ outcome = None => All!Finished(outcome).what = Callback
    BY DEF All!Finished, All!Settle, AllInv, AllTypes, All!Outcomes, All!Answers
  <2>3. AllTypes'
    BY <2>1, <2>2 DEF AllInv, AllTypes
  <2>4. /\ Heard' = Heard /\ (All!TwiceCounted' <=> All!TwiceCounted) /\ \A h : All!Counting(h)' <=> All!Counting(h)
    BY <2>1, Zenon DEF Heard, All!TwiceCounted, All!Counting
  <2>5. AnswersFit'
    BY <2>1, <2>4 DEF AllInv, AnswersFit
  <2>6. Owed' = Owed - 1 /\ Owed \in Int /\ Owed' = given - Cardinality(Heard)
    BY <1>1, <1>2, <2>1, <2>4 DEF Owed
  <2>7. CountFits'
    <3>1. outcome # None => outcome' # None
      BY <2>1, <2>2 DEF AllInv, AllTypes
    <3>2. method # "race" /\ count = 1 => outcome' # None
      BY <2>1, <2>2 DEF All!AllAssumption
    <3> QED
      <4>1. \A i \in Heard' : values'[i] # None
        BY <2>1, <2>4 DEF AllInv, CountFits
      <4>2. method # "race" => count' <= Owed' /\ (count' <= 0 => outcome' # None)
        BY <1>2, <2>1, <2>6, <3>1, <3>2 DEF AllInv, CountFits
      <4>3. method # "race" /\ ~All!TwiceCounted => count' = Owed'
        BY <1>2, <2>1, <2>6 DEF AllInv, CountFits
      <4> QED
        BY <2>1, <2>4, <4>1, <4>2, <4>3 DEF CountFits
  <2>8. ASSUME outcome' # None, outcome'.what = Callback
        PROVE  method # "race" /\ (~All!TwiceCounted => Heard = 1 .. given)
    <3>1. CASE outcome # None
      BY <2>1, <2>2, <2>8, <3>1 DEF AllInv, OutcomeFits
    <3>2. CASE outcome = None
      <4>1. method # "race" /\ count = 1
        BY <2>1, <2>8, <3>2
      <4>2. ~All!TwiceCounted => Owed = 1
        BY <4>1 DEF AllInv, CountFits
      <4> QED
        BY <1>1, <1>2, <2>6, <4>1, <4>2
    <3> QED
      BY <3>1, <3>2
  <2>9. outcome # None => outcome' = outcome
    BY <2>1, <2>2
  <2>10. All!FirstDecides'
    <3> SUFFICES ASSUME outcome' # None, outcome'.what \in All!Elements
                 PROVE  outcome # None /\ outcome' = outcome
      BY <2>1, <2>4 DEF AllInv, OutcomeFits, All!FirstDecides
    <3> QED
      BY <2>1, <2>2, <2>9 DEF All!AllAssumption
  <2>11. OutcomeFits'
    BY <2>1, <2>4, <2>8, <2>9, <2>10 DEF AllInv, OutcomeFits
  <2> QED
    BY <2>3, <2>5, <2>7, <2>11 DEF AllInv
<1>5. CASE All!Fail
  <2>1. /\ loop = "runs" /\ loop' = "failed" /\ outcome' = All!Settle(outcome, "rejected", Error)
        /\ UNCHANGED <<method, foreign, given, count, called, values, answers>>
    BY <1>5 DEF All!Fail
  <2>2. /\ outcome' \in All!Outcomes /\ (outcome # None => outcome' = outcome)
        /\ outcome = None => outcome'.what = Error
    BY <2>1 DEF All!Settle, AllInv, AllTypes, All!Outcomes, All!Answers
  <2>3. AllTypes'
    BY <2>1, <2>2 DEF AllInv, AllTypes
  <2>4. /\ Heard' = Heard /\ (All!TwiceCounted' <=> All!TwiceCounted) /\ \A h : All!Counting(h)' <=> All!Counting(h)
    BY <2>1, Zenon DEF Heard, All!TwiceCounted, All!Counting
  <2>5. AnswersFit'
    BY <2>1, <2>4 DEF AllInv, AnswersFit
  <2>6. Owed' = Owed
    BY <2>1, <2>4 DEF Owed
  <2>7. outcome' # None
    BY <2>2 DEF All!AllAssumption
  <2>8. CountFits'
    BY <2>1, <2>4, <2>6, <2>7 DEF AllInv, CountFits
  <2>9. outcome'.what = Callback \/ outcome'.what \in All!Elements => outcome # None /\ outcome' = outcome
    BY <2>2 DEF All!AllAssumption
  <2>10. OutcomeFits'
    BY <2>1, <2>4, <2>7, <2>9 DEF AllInv, OutcomeFits, All!FirstDecides
  <2> QED
    BY <2>3, <2>5, <2>8, <2>10 DEF AllInv
<1>6. ASSUME NEW i \in All!Elements, NEW how \in All!Answers, All!Answer(i, how) PROVE AllInv'
  BY <1>6, AnswerKeeps
<1>7. CASE UNCHANGED All!vars
  <2>1. Heard' = Heard /\ (All!TwiceCounted' <=> All!TwiceCounted) /\ \A h : All!Counting(h)' <=> All!Counting(h)
    BY <1>7, Zenon DEF All!vars, Heard, All!TwiceCounted, All!Counting
  <2>2. Owed' = Owed
    BY <1>7, <2>1 DEF All!vars, Owed
  <2> QED
    BY <1>7, <2>1, <2>2 DEF All!vars, AllInv, AllTypes, AnswersFit, CountFits, OutcomeFits, All!FirstDecides
<1> QED
  BY <1>3, <1>4, <1>5, <1>6, <1>7 DEF All!Next

\* What the invariant says of the returned promise.
LEMMA AllInvCombined ==
  ASSUME All!AllAssumption, AllInv
  PROVE  All!CombinedOnce
<1>1. All!HandedOverComplete
  <2> SUFFICES ASSUME outcome # None, outcome.what = Callback, ~All!TwiceCounted
               PROVE  loop # "runs" /\ \A i \in 1 .. given : All!Answered(i) /\ values[i] # None
    BY DEF All!HandedOverComplete
  <2>1. loop # "runs" /\ Heard = 1 .. given
    BY DEF AllInv, OutcomeFits
  <2>2. ASSUME NEW i \in Heard PROVE All!Answered(i) /\ values[i] # None
    <3>1. PICK h \in All!Answers : <<i, h>> \in called
      BY DEF Heard
    <3>2. <<i, h>> \in All!ToSet(answers) /\ All!Counting(h)
      BY <3>1 DEF AllInv, AnswersFit
    <3> QED
      BY <3>2 DEF All!Answered, AllInv, CountFits
  <2> QED
    BY <2>1, <2>2
<1>2. All!SettledInTheEnd
  <2> SUFFICES ASSUME loop = "ended", method # "race", \A i \in 1 .. given : All!Answered(i)
               PROVE  outcome # None
    BY DEF All!SettledInTheEnd
  <2>1. 1 .. given \subseteq Heard
    <3> SUFFICES ASSUME NEW i \in 1 .. given PROVE i \in Heard
      OBVIOUS
    <3>1. PICK h \in All!Answers : All!Counting(h) /\ <<i, h>> \in All!ToSet(answers)
      BY DEF All!Answered
    <3>2. <<i, h>> \in called
      BY <3>1 DEF AllInv, AnswersFit
    <3>3. i \in All!Elements
      BY DEF AllInv, AllTypes, All!Elements, All!AllAssumption
    <3> QED
      BY <3>2, <3>3 DEF Heard
  <2>2. Heard \subseteq 1 .. given
    BY HeardFinite
  <2>3. Cardinality(Heard) = given /\ given \in Nat
    <3>1. given \in Nat
      BY DEF AllInv, AllTypes, All!AllAssumption
    <3>2. Heard = 1 .. given
      BY <2>1, <2>2
    <3> QED
      BY <3>1, <3>2, FS_Interval
  <2>4. Owed = 0
    BY <2>3 DEF Owed
  <2>5. count <= 0
    BY <2>4 DEF AllInv, CountFits
  <2> QED
    BY <2>5 DEF AllInv, CountFits
<1> QED
  BY <1>1, <1>2 DEF All!CombinedOnce, AllInv, OutcomeFits

\* So it holds in every state that Promise.all and its like reach.
LEMMA CombinedHolds == All!Spec => []All!CombinedOnce
<1>1. All!AllAssumption
  BY MCAsyncAssumption
<1>2. All!Init => AllInv
  BY <1>1, InitAllInv
<1>3. AllInv /\ [All!Next]_(All!vars) => AllInv'
  BY <1>1, NextAllInv
<1>4. AllInv => All!CombinedOnce
  BY <1>1, AllInvCombined
<1> QED
  BY <1>2, <1>3, <1>4, PTL DEF All!Spec

-----------------------------------------------------------------------------
(* Async generators. The state says what is on the stack, which is never   *)
(* more than a lookup of constructor and a call of resume_next above it.   *)

Requests == [id : Nat, type : AGen!Types]

AGenTypes ==
  /\ agState \in AGen!Suspended \cup {"executing", "awaiting_return", "completed"}
  /\ live \in BOOLEAN /\ waiting \in {"nothing", "restart", "resume_return"}
  /\ queue \in Seq(Requests) /\ agAnswers \in Seq(Requests)
  /\ agAsked \in Nat /\ returned \in Nat

\* The requests are numbered as they come, and leave the queue in that order.
InOrder ==
  /\ agAsked = Len(agAnswers) + Len(queue)
  /\ \A i \in 1 .. Len(agAnswers) : agAnswers[i].id = i
  /\ \A i \in 1 .. Len(queue) : queue[i].id = Len(agAnswers) + i

\* What is on the stack in each state of the generator, and what it waits for.
\* Only a lookup of constructor has another call of resume_next above it, which
\* leaves again.
StackSays ==
  \/ /\ agState \in AGen!Suspended /\ live /\ waiting = "nothing"
     /\ agStack \in {<<"loop">>, <<"then_loop">>} \/ (agStack = <<>> /\ queue = <<>>)
  \/ /\ agState = "executing" /\ live /\ queue # <<>>
     /\ \/ waiting = "nothing" /\ agStack \in {<<"body">>, <<"restart">>}
        \/ waiting = "restart" /\ agStack = <<>>
  \/ /\ agState = "awaiting_return" /\ ~live /\ queue # <<>>
     /\ waiting = "resume_return" /\ returned = Head(queue).id
     /\ agStack \in {<<>>, <<"loop">>, <<"constructor">>, <<"constructor", "loop">>}
  \/ /\ agState = "completed" /\ ~live /\ waiting = "nothing"
     /\ agStack \in {<<>>, <<"loop">>, <<"then_loop">>, <<"then_done">>}

AGenInv == AGenTypes /\ InOrder /\ StackSays

\* The stack after its top has moved on or gone.
LEMMA SmallStacks ==
  ASSUME NEW p \in AGen!Points
  PROVE  /\ <<p>> # <<>> /\ AGen!Last(<<p>>) = p /\ AGen!Front(<<p>>) = <<>> /\ Append(<<>>, p) = <<p>>
         /\ \A q \in AGen!Points : AGen!Last(<<p, q>>) = q /\ <<p, q>> # <<>> /\ AGen!Front(<<p, q>>) = <<p>> /\ Append(<<p>>, q) = <<p, q>>
<1>1. <<p>> # <<>> /\ AGen!Last(<<p>>) = p /\ AGen!Front(<<p>>) = <<>> /\ Append(<<>>, p) = <<p>>
  BY DEF AGen!Last, AGen!Front
<1>2. ASSUME NEW q \in AGen!Points
      PROVE  AGen!Last(<<p, q>>) = q /\ <<p, q>> # <<>> /\ AGen!Front(<<p, q>>) = <<p>> /\ Append(<<p>>, q) = <<p, q>>
  <2>1. AGen!Last(<<p, q>>) = q /\ <<p, q>> # <<>>
    BY DEF AGen!Last
  <2>2. AGen!Front(<<p, q>>) = <<p>>
    <3>1. AGen!Front(<<p, q>>) \in Seq(AGen!Points) /\ Len(AGen!Front(<<p, q>>)) = 1 /\ AGen!Front(<<p, q>>)[1] = p
      BY DEF AGen!Front
    <3>2. <<p>> \in Seq(AGen!Points) /\ Len(<<p>>) = 1 /\ <<p>>[1] = p
      OBVIOUS
    <3> QED
      BY <3>1, <3>2, SeqEqual
  <2>3. Append(<<p>>, q) = <<p, q>>
    <3>1. Append(<<p>>, q) \in Seq(AGen!Points) /\ Len(Append(<<p>>, q)) = 2 /\ Append(<<p>>, q)[1] = p /\ Append(<<p>>, q)[2] = q
      OBVIOUS
    <3>2. <<p, q>> \in Seq(AGen!Points) /\ Len(<<p, q>>) = 2 /\ <<p, q>>[1] = p /\ <<p, q>>[2] = q
      OBVIOUS
    <3>3. \A i \in 1 .. 2 : Append(<<p>>, q)[i] = <<p, q>>[i]
      BY <3>1, <3>2
    <3>4. Append(<<p>>, q) \in Seq(AGen!Points) /\ Len(Append(<<p>>, q)) = 2
      BY <3>1
    <3> QED
      BY <3>2, <3>3, <3>4, SeqEqual
  <2> QED
    BY <2>1, <2>2, <2>3
<1> QED
  BY <1>1, <1>2

\* Answering the head of the queue keeps the order.
LEMMA AnswersInOrder ==
  ASSUME AGenInv, queue # <<>>, AGen!AnswerHead, agAsked' = agAsked
  PROVE  InOrder' /\ queue' \in Seq(Requests) /\ agAnswers' \in Seq(Requests)
<1>1. /\ queue \in Seq(Requests) /\ agAnswers \in Seq(Requests) /\ Len(agAnswers) \in Nat /\ Len(queue) \in Nat
      /\ Len(queue) > 0
  BY DEF AGenInv, AGenTypes
<1>2. /\ queue' \in Seq(Requests) /\ Len(queue') = Len(queue) - 1
      /\ \A i \in 1 .. Len(queue) - 1 : queue'[i] = queue[i + 1]
  BY <1>1 DEF AGen!AnswerHead
<1>3. Head(queue) = queue[1] /\ queue[1] \in Requests /\ queue[1].id = Len(agAnswers) + 1
  BY <1>1 DEF AGenInv, InOrder
<1>4. /\ agAnswers' \in Seq(Requests) /\ Len(agAnswers') = Len(agAnswers) + 1
      /\ agAnswers'[Len(agAnswers) + 1] = queue[1] /\ \A i \in 1 .. Len(agAnswers) : agAnswers'[i] = agAnswers[i]
  BY <1>1, <1>3 DEF AGen!AnswerHead
<1>5. agAsked' = Len(agAnswers') + Len(queue')
  BY <1>1, <1>2, <1>4 DEF AGenInv, InOrder
<1>6. \A i \in 1 .. Len(agAnswers') : agAnswers'[i].id = i
  BY <1>1, <1>3, <1>4 DEF AGenInv, InOrder
<1>7. \A i \in 1 .. Len(queue') : queue'[i].id = Len(agAnswers') + i
  <2> SUFFICES ASSUME NEW i \in 1 .. Len(queue) - 1 PROVE queue'[i].id = Len(agAnswers') + i
    BY <1>2
  <2>1. i + 1 \in 1 .. Len(queue)
    BY <1>1
  <2>2. queue[i + 1].id = Len(agAnswers) + (i + 1)
    BY <2>1 DEF AGenInv, InOrder
  <2> QED
    BY <1>1, <1>2, <1>4, <2>2
<1> QED
  BY <1>2, <1>4, <1>5, <1>6, <1>7 DEF InOrder

\* The invariant holds at first.
LEMMA InitAGenInv == AGen!Init => AGenInv
BY DEF AGen!Init, AGenInv, AGenTypes, InOrder, StackSays, AGen!Suspended

\* A request is put at the end of the queue; resume_next is called unless the
\* body runs.
LEMMA RequestKeeps ==
  ASSUME AGenInv, NEW t \in AGen!Types, AGen!Request(t)
  PROVE  AGenInv'
<1>1. /\ AGen!ScriptRuns /\ agAsked' = agAsked + 1 /\ queue' = Append(queue, [id |-> agAsked + 1, type |-> t])
      /\ agStack' = IF agState # "executing" THEN Append(agStack, "loop") ELSE agStack
      /\ UNCHANGED <<agState, live, waiting, returned, agAnswers>>
  BY DEF AGen!Request
<1>2. /\ queue \in Seq(Requests) /\ agAnswers \in Seq(Requests) /\ Len(agAnswers) \in Nat /\ Len(queue) \in Nat
      /\ agAsked \in Nat /\ agAsked = Len(agAnswers) + Len(queue)
  BY DEF AGenInv, AGenTypes, InOrder
<1>3. [id |-> agAsked + 1, type |-> t] \in Requests
  BY <1>2 DEF Requests
<1>4. /\ queue' \in Seq(Requests) /\ Len(queue') = Len(queue) + 1 /\ queue'[Len(queue) + 1] = [id |-> agAsked + 1, type |-> t]
      /\ \A i \in 1 .. Len(queue) : queue'[i] = queue[i]
      /\ queue' # <<>> /\ (queue # <<>> => Head(queue') = Head(queue))
  BY <1>1, <1>2, <1>3
<1>5. AGenTypes'
  BY <1>1, <1>2, <1>4 DEF AGenInv, AGenTypes
<1>6. InOrder'
  <2>1. agAsked' = Len(agAnswers') + Len(queue')
    BY <1>1, <1>2, <1>4
  <2>2. \A i \in 1 .. Len(agAnswers') : agAnswers'[i].id = i
    BY <1>1 DEF AGenInv, InOrder
  <2>3. \A i \in 1 .. Len(queue') : queue'[i].id = Len(agAnswers') + i
    <3> SUFFICES ASSUME NEW i \in 1 .. Len(queue') PROVE queue'[i].id = Len(agAnswers) + i
      BY <1>1
    <3>1. CASE i \in 1 .. Len(queue)
      BY <1>4, <3>1 DEF AGenInv, InOrder
    <3>2. CASE i = Len(queue) + 1
      BY <1>2, <1>4, <3>2
    <3> QED
      BY <1>2, <1>4, <3>1, <3>2
  <2> QED
    BY <2>1, <2>2, <2>3 DEF InOrder
<1>7. agStack # <<>> => AGen!Last(agStack) \in {"body", "constructor"}
  BY <1>1 DEF AGen!ScriptRuns, AGen!Here, AGen!Top
<1>8. StackSays'
  <2>1. CASE agStack = <<>>
    <3>1. Append(agStack, "loop") = <<"loop">>
      BY <2>1, SmallStacks DEF AGen!Points
    <3>2. agState = "executing" => agStack' = <<>>
      BY <1>1, <2>1
    <3>3. agState # "executing" => agStack' = <<"loop">>
      BY <1>1, <3>1
    <3> QED
      BY <1>1, <1>4, <2>1, <3>2, <3>3 DEF AGenInv, StackSays, AGen!Suspended
  <2>2. CASE agStack # <<>>
    <3>1. /\ AGen!Last(<<"loop">>) = "loop" /\ AGen!Last(<<"then_loop">>) = "then_loop" /\ AGen!Last(<<"then_done">>) = "then_done"
          /\ AGen!Last(<<"constructor", "loop">>) = "loop" /\ AGen!Last(<<"restart">>) = "restart"
          /\ Append(<<"constructor">>, "loop") = <<"constructor", "loop">>
      BY SmallStacks DEF AGen!Points
    <3>2. agStack \in {<<"body">>, <<"constructor">>}
      BY <1>7, <2>2, <3>1 DEF AGenInv, StackSays
    <3>3. CASE agStack = <<"body">>
      <4>1. agState = "executing"
        BY <3>3 DEF AGenInv, StackSays
      <4> QED
        BY <1>1, <1>4, <3>3, <4>1 DEF AGenInv, StackSays, AGen!Suspended
    <3>4. CASE agStack = <<"constructor">>
      <4>1. agState = "awaiting_return"
        BY <3>4 DEF AGenInv, StackSays
      <4>2. agStack' = <<"constructor", "loop">>
        BY <1>1, <3>1, <3>4, <4>1
      <4> QED
        BY <1>1, <1>4, <4>1, <4>2 DEF AGenInv, StackSays, AGen!Suspended
    <3> QED
      BY <3>2, <3>3, <3>4
  <2> QED
    BY <2>1, <2>2
<1> QED
  BY <1>5, <1>6, <1>8 DEF AGenInv

\* Where resume_next is tells what is on the stack.
LEMMA TopTells ==
  ASSUME AGenInv, NEW p \in AGen!Points, AGen!At(p)
  PROVE  /\ agStack = <<p>> \/ (p = "loop" /\ agStack = <<"constructor", "loop">> /\ agState = "awaiting_return")
         /\ agStack = <<p>> => (\A q \in AGen!Points : AGen!Goto(q) => agStack' = <<q>>) /\ (AGen!Done => agStack' = <<>>)
<1>1. agStack # <<>> /\ AGen!Last(agStack) = p
  BY DEF AGen!At, AGen!Here, AGen!Top
<1>2. \/ agStack \in {<<"loop">>, <<"then_loop">>, <<"then_done">>, <<"body">>, <<"restart">>, <<"constructor">>}
      \/ agStack = <<"constructor", "loop">> /\ agState = "awaiting_return"
  BY <1>1 DEF AGenInv, StackSays
<1>3. /\ \A r \in AGen!Points : AGen!Last(<<r>>) = r
      /\ AGen!Last(<<"constructor", "loop">>) = "loop"
  BY SmallStacks DEF AGen!Points
<1>4. agStack = <<p>> \/ (p = "loop" /\ agStack = <<"constructor", "loop">> /\ agState = "awaiting_return")
  <2>1. ASSUME NEW r \in AGen!Points, agStack = <<r>> PROVE agStack = <<p>>
    BY <1>1, <1>3, <2>1
  <2>2. ASSUME agStack = <<"constructor", "loop">>, agState = "awaiting_return" PROVE p = "loop"
    BY <1>1, <1>3, <2>2 DEF AGen!Points
  <2> QED
    BY <1>2, <2>1, <2>2 DEF AGen!Points
<1>5. ASSUME agStack = <<p>>
      PROVE  (\A q \in AGen!Points : AGen!Goto(q) => agStack' = <<q>>) /\ (AGen!Done => agStack' = <<>>)
  <2>1. AGen!Front(agStack) = <<>>
    BY <1>5, SmallStacks
  <2> QED
    BY <2>1, SmallStacks DEF AGen!Goto, AGen!Done
<1> QED
  BY <1>4, <1>5

\* What the steps that take nothing from the queue keep.
LEMMA QueueStays ==
  ASSUME AGenInv, UNCHANGED <<queue, agAsked, agAnswers>>,
         agState' \in AGen!Suspended \cup {"executing", "awaiting_return", "completed"}, live' \in BOOLEAN,
         waiting' \in {"nothing", "restart", "resume_return"}, returned' \in Nat
  PROVE  AGenTypes' /\ InOrder'
BY DEF AGenInv, AGenTypes, InOrder

\* The steps of resume_next.
LEMMA ResumeNextKeeps ==
  ASSUME AGenInv, AGen!ResumeNext
  PROVE  AGenInv'
<1>1. CASE AGen!Leave
  <2>1. UNCHANGED <<agState, live, queue, waiting, agAsked, returned, agAnswers>> /\ AGen!Done
    BY <1>1 DEF AGen!Leave
  <2>2. \/ agStack = <<"loop">> /\ agStack' = <<>>
        \/ agStack = <<"constructor", "loop">> /\ agStack' = <<"constructor">> /\ agState = "awaiting_return"
    <3>1. agStack = <<"loop">> \/ (agStack = <<"constructor", "loop">> /\ agState = "awaiting_return")
      BY <1>1, TopTells DEF AGen!Leave, AGen!Points
    <3>2. AGen!Front(<<"loop">>) = <<>> /\ AGen!Front(<<"constructor", "loop">>) = <<"constructor">>
      BY SmallStacks DEF AGen!Points
    <3>3. CASE agStack = <<"loop">>
      BY <2>1, <3>2, <3>3 DEF AGen!Done
    <3>4. CASE agStack = <<"constructor", "loop">> /\ agState = "awaiting_return"
      BY <2>1, <3>2, <3>4 DEF AGen!Done
    <3> QED
      BY <3>1, <3>3, <3>4
  <2>3. queue = <<>> \/ agState = "awaiting_return"
    BY <1>1 DEF AGen!Leave
  <2>4. StackSays'
    BY <2>1, <2>2, <2>3 DEF AGenInv, StackSays, AGen!Suspended
  <2> QED
    BY <2>1, <2>4, QueueStays DEF AGenInv, AGenTypes
<1>2. CASE AGen!Complete
  <2>1. agState = "start" /\ AGen!At("loop")
    BY <1>2 DEF AGen!Complete
  <2>2. agStack = <<"loop">>
    BY <2>1, TopTells DEF AGen!Points
  <2>3. StackSays'
    BY <1>2, <2>1, <2>2 DEF AGen!Complete, AGenInv, StackSays, AGen!Suspended
  <2> QED
    BY <1>2, <2>3, QueueStays DEF AGen!Complete, AGenInv, AGenTypes
<1>3. CASE AGen!Resume
  <2>1. (AGen!At("loop") \/ AGen!At("restart")) /\ queue # <<>> /\ agState \in {"start", "yield", "yield_star", "executing"}
        /\ agState' = "executing" /\ AGen!Goto("body") /\ UNCHANGED <<live, queue, waiting, agAsked, returned, agAnswers>>
    BY <1>3 DEF AGen!Resume
  <2>2. agStack \in {<<"loop">>, <<"restart">>} /\ agStack' = <<"body">>
    BY <2>1, TopTells DEF AGen!Points
  <2>3. live /\ waiting = "nothing"
    BY <2>1, <2>2 DEF AGenInv, StackSays, AGen!Suspended
  <2>4. StackSays'
    BY <2>1, <2>2, <2>3 DEF StackSays, AGen!Suspended
  <2> QED
    BY <2>1, <2>4, QueueStays DEF AGenInv, AGenTypes
<1>4. CASE AGen!AnswerCompleted
  <2>1. /\ AGen!At("loop") /\ queue # <<>> /\ agState = "completed" /\ AGen!AnswerHead /\ AGen!Goto("then_done")
        /\ UNCHANGED <<agState, live, waiting, agAsked, returned>>
    BY <1>4 DEF AGen!AnswerCompleted
  <2>2. agStack = <<"loop">> /\ agStack' = <<"then_done">>
    BY <2>1, TopTells DEF AGen!Points
  <2>3. InOrder' /\ queue' \in Seq(Requests) /\ agAnswers' \in Seq(Requests)
    BY <2>1, AnswersInOrder
  <2>4. StackSays'
    BY <2>1, <2>2 DEF AGenInv, StackSays, AGen!Suspended
  <2> QED
    BY <2>1, <2>3, <2>4 DEF AGenInv, AGenTypes
<1>5. CASE AGen!AwaitReturn
  <2>1. /\ AGen!At("loop") /\ queue # <<>> /\ agState = "completed" /\ AGen!Goto("constructor")
        /\ agState' = "awaiting_return" /\ waiting' = "resume_return" /\ returned' = Head(queue).id
        /\ UNCHANGED <<live, queue, agAsked, agAnswers>>
    BY <1>5 DEF AGen!AwaitReturn
  <2>2. agStack = <<"loop">> /\ agStack' = <<"constructor">>
    BY <2>1, TopTells DEF AGen!Points
  <2>3. StackSays'
    BY <2>1, <2>2 DEF AGenInv, StackSays, AGen!Suspended
  <2>4. Head(queue).id \in Nat
    <3>1. Head(queue) \in Requests
      BY <2>1 DEF AGenInv, AGenTypes
    <3> QED
      BY <3>1 DEF Requests
  <2> QED
    BY <2>1, <2>3, <2>4, QueueStays DEF AGenInv, AGenTypes
<1>6. ASSUME NEW kind \in {"yield", "yield_star"}, AGen!Yield(kind) PROVE AGenInv'
  <2>1. /\ AGen!At("body") /\ agState' = kind /\ AGen!AnswerHead /\ AGen!Goto("then_loop")
        /\ UNCHANGED <<live, waiting, agAsked, returned>>
    BY <1>6 DEF AGen!Yield
  <2>2. agStack = <<"body">> /\ agStack' = <<"then_loop">>
    BY <2>1, TopTells DEF AGen!Points
  <2>3. queue # <<>> /\ live /\ waiting = "nothing"
    BY <2>2 DEF AGenInv, StackSays
  <2>4. InOrder' /\ queue' \in Seq(Requests) /\ agAnswers' \in Seq(Requests)
    BY <2>1, <2>3, AnswersInOrder
  <2>5. StackSays'
    BY <2>1, <2>2, <2>3 DEF StackSays, AGen!Suspended
  <2> QED
    BY <2>1, <2>4, <2>5 DEF AGenInv, AGenTypes, AGen!Suspended
<1>7. CASE AGen!Await
  <2>1. AGen!At("body") /\ waiting' = "restart" /\ AGen!Done /\ UNCHANGED <<agState, live, queue, agAsked, returned, agAnswers>>
    BY <1>7 DEF AGen!Await
  <2>2. agStack = <<"body">> /\ agStack' = <<>>
    BY <2>1, TopTells DEF AGen!Points
  <2>3. StackSays'
    BY <2>1, <2>2 DEF AGenInv, StackSays
  <2> QED
    BY <2>1, <2>3, QueueStays DEF AGenInv, AGenTypes
<1>8. CASE AGen!Finish
  <2>1. /\ AGen!At("body") /\ agState' = "completed" /\ live' = FALSE /\ AGen!AnswerHead /\ AGen!Goto("then_loop")
        /\ UNCHANGED <<waiting, agAsked, returned>>
    BY <1>8 DEF AGen!Finish
  <2>2. agStack = <<"body">> /\ agStack' = <<"then_loop">>
    BY <2>1, TopTells DEF AGen!Points
  <2>3. queue # <<>> /\ waiting = "nothing"
    BY <2>2 DEF AGenInv, StackSays
  <2>4. InOrder' /\ queue' \in Seq(Requests) /\ agAnswers' \in Seq(Requests)
    BY <2>1, <2>3, AnswersInOrder
  <2>5. StackSays'
    BY <2>1, <2>2, <2>3 DEF StackSays
  <2> QED
    BY <2>1, <2>4, <2>5 DEF AGenInv, AGenTypes
<1>9. CASE AGen!CallReturns
  <2>1. UNCHANGED <<agState, live, queue, waiting, agAsked, returned, agAnswers>>
    BY <1>9 DEF AGen!CallReturns
  <2>2. \/ agStack = <<"then_loop">> /\ agStack' = <<"loop">>
        \/ agStack \in {<<"then_done">>, <<"constructor">>} /\ agStack' = <<>>
    BY <1>9, TopTells DEF AGen!CallReturns, AGen!Points
  <2>3. StackSays'
    BY <2>1, <2>2 DEF AGenInv, StackSays, AGen!Suspended
  <2> QED
    BY <2>1, <2>3, QueueStays DEF AGenInv, AGenTypes
<1> QED
  BY <1>1, <1>2, <1>3, <1>4, <1>5, <1>6, <1>7, <1>8, <1>9 DEF AGen!ResumeNext

\* Every step keeps the invariant.
LEMMA NextAGenInv == AGenInv /\ [AGen!Next]_(AGen!vars) => AGenInv'
<1> SUFFICES ASSUME AGenInv, [AGen!Next]_(AGen!vars) PROVE AGenInv'
  OBVIOUS
<1>1. ASSUME NEW t \in AGen!Types, AGen!Request(t) PROVE AGenInv'
  BY <1>1, RequestKeeps
<1>2. CASE AGen!ResumeNext
  BY <1>2, ResumeNextKeeps
<1>3. CASE AGen!Restart
  <2>1. /\ agStack = <<>> /\ waiting = "restart" /\ waiting' = "nothing" /\ agStack' = <<"restart">>
        /\ UNCHANGED <<agState, live, queue, agAsked, returned, agAnswers>>
    BY <1>3 DEF AGen!Restart, AGen!Here
  <2>2. StackSays'
    BY <2>1 DEF AGenInv, StackSays
  <2> QED
    BY <2>1, <2>2, QueueStays DEF AGenInv, AGenTypes
<1>4. CASE AGen!ResumeReturn
  <2>1. /\ waiting = "resume_return" /\ waiting' = "nothing" /\ returned' = 0 /\ agState' = "completed" /\ AGen!AnswerHead
        /\ agStack' = <<"then_done">> /\ UNCHANGED <<live, agAsked>>
    BY <1>4 DEF AGen!ResumeReturn
  <2>2. queue # <<>> /\ ~live
    BY <2>1 DEF AGenInv, StackSays
  <2>3. InOrder' /\ queue' \in Seq(Requests) /\ agAnswers' \in Seq(Requests)
    BY <2>1, <2>2, AnswersInOrder
  <2>4. StackSays'
    BY <2>1, <2>2 DEF StackSays
  <2> QED
    BY <2>1, <2>3, <2>4 DEF AGenInv, AGenTypes
<1>5. CASE UNCHANGED AGen!vars
  BY <1>5 DEF AGen!vars, AGenInv, AGenTypes, InOrder, StackSays
<1> QED
  BY <1>1, <1>2, <1>3, <1>4, <1>5 DEF AGen!Next

\* What the invariant says of the requests and the body.
LEMMA AGenInvAnswers ==
  ASSUME AGenInv
  PROVE  AGen!RequestsAnswered
<1>1. ASSUME NEW i \in DOMAIN agStack, agStack[i] = "body" PROVE i = 1 /\ agStack = <<"body">> /\ agState = "executing" /\ waiting = "nothing"
  <2>1. \/ agStack = <<>> \/ agStack = <<"constructor", "loop">>
        \/ agStack \in {<<"loop">>, <<"then_loop">>, <<"then_done">>, <<"body">>, <<"restart">>, <<"constructor">>}
    BY DEF AGenInv, StackSays
  <2>2. agStack = <<"body">>
    BY <1>1, <2>1
  <2> QED
    BY <1>1, <2>2 DEF AGenInv, StackSays
<1>2. AGen!OneBody /\ AGen!AwaitNotSkipped
  <2>1. waiting = "restart" => agState = "executing"
    BY DEF AGenInv, StackSays
  <2> QED
    BY <1>1, <2>1 DEF AGen!OneBody, AGen!AwaitNotSkipped
<1>3. AGen!ReturnAnswersItself
  BY DEF AGenInv, StackSays, AGen!ReturnAnswersItself
<1>4. AGen!FuncStateLive
  <2>1. live <=> agState \notin {"awaiting_return", "completed"}
    BY DEF AGenInv, StackSays, AGen!Suspended
  <2>2. AGen!At("body") => agStack = <<"body">>
    BY TopTells DEF AGen!Points
  <2>3. agStack = <<"body">> => live
    BY DEF AGenInv, StackSays
  <2> QED
    BY <2>1, <2>2, <2>3 DEF AGen!FuncStateLive
<1>5. AGen!SuspendedIdle
  BY DEF AGenInv, StackSays, AGen!SuspendedIdle, AGen!Here, AGen!Suspended
<1>6. AGen!AnsweredInOrder
  BY DEF AGenInv, AGenTypes, InOrder, AGen!AnsweredInOrder
<1> QED
  BY <1>2, <1>3, <1>4, <1>5, <1>6 DEF AGen!RequestsAnswered

\* So it holds in every state that an async generator reaches.
LEMMA AnswersHold == AGen!Spec => []AGen!RequestsAnswered
<1>1. AGen!Init => AGenInv
  BY InitAGenInv
<1>2. AGenInv => AGen!RequestsAnswered
  BY AGenInvAnswers
<1> QED
  BY <1>1, <1>2, NextAGenInv, PTL DEF AGen!Spec

-----------------------------------------------------------------------------
(* What follows for the specification that is checked.                     *)

\* A part behaves as it does by itself, and keeps its state while another runs.
LEMMA PartsBehave == MCSpec => Gen!Spec /\ Func!Spec /\ All!Spec /\ AGen!Spec
<1>1. [MCNext]_MCVars => [Gen!Next]_(Gen!vars)
  BY DEF MCNext, MCVars, Promise, Gen!vars, genVars
<1>2. [MCNext]_MCVars => [Func!Next]_(Func!vars)
  BY DEF MCNext, MCVars, Promise, Func!vars, afVars
<1>3. [MCNext]_MCVars => [All!Next]_(All!vars)
  BY DEF MCNext, MCVars, Promise, All!vars, allVars
<1>4. [MCNext]_MCVars => [AGen!Next]_(AGen!vars)
  BY DEF MCNext, MCVars, Promise, AGen!vars, agVars
<1>5. MCInit => Gen!Init /\ Func!Init /\ All!Init /\ AGen!Init
  BY DEF MCInit
<1> QED
  BY <1>1, <1>2, <1>3, <1>4, <1>5, PTL DEF MCSpec, Gen!Spec, Func!Spec, All!Spec, AGen!Spec

\* A generator executes exactly while its body is on the stack, and once; what
\* js_generator_next resumes was neither completed nor freed; and a body finds an
\* exception exactly if throw was called on a plain yield.
THEOREM GeneratorsResumableCorrect == MCSpec => []GeneratorsResumable
BY PartsBehave, GeneratorsHold, PTL DEF GeneratorsResumable

\* However many async calls run, await, are resumed or forgotten: the count of a
\* call's state is the number of those that hold it, a body runs on a frame that
\* was not freed and in one place, a frame nobody holds is freed, and the promise
\* of the call is settled at most once (js_async_function_resume and its callers).
THEOREM CallsCountedCorrect == MCSpec => []CallsCounted
BY PartsBehave, CallsHold, PTL DEF CallsCounted

\* Whatever the elements of Promise.all, allSettled, any and race answer, and
\* when: the collected values are handed over only after the loop and every
\* element's answer, no result is lost, and if an element decides it is the first
\* that called a resolving function (js_promise_all and its element functions).
THEOREM CombinedOnceCorrect == MCSpec => []CombinedOnce
BY PartsBehave, CombinedHolds, PTL DEF CombinedOnce

\* However often next, return and throw of an async generator are called, and
\* from where: its requests are answered in their order, its body is not entered
\* while it runs or awaits, what is resumed was not freed, and no request is left
\* when it is suspended (js_async_generator_resume_next).
THEOREM RequestsAnsweredCorrect == MCSpec => []RequestsAnswered
BY PartsBehave, AnswersHold, PTL DEF RequestsAnswered
=============================================================================
