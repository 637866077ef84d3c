------------------------------- MODULE QJSRegExp -------------------------------
(***************************************************************************)
(* libregexp.c: the code compiled for a pattern, and the machine that      *)
(* executes it with a stack of states to go back to. Jumps count           *)
(* instructions instead of bytes.                                          *)
(***************************************************************************)
EXTENDS RegExpPatterns, TLC

CONSTANTS
  Regs,         \* regular expressions, as Flagged makes them
  Texts         \* texts they are matched with

VARIABLES
  job,          \* the expression, the text and the position to start from
  program,      \* its bytecode
  room,         \* the stack size in the header of the bytecode
  pc, cptr,     \* the next instruction and the position in the text
  capture,      \* the start and the end of the match and of each capture
  stack,        \* counters and positions of quantifiers
  states,       \* states to go back to
  status        \* "running", "matched" or "failed"

vars == <<job, program, room, pc, cptr, capture, stack, states, status>>

-----------------------------------------------------------------------------
(* The compiler.                                                           *)

Ins(op, a, b) == [op |-> op, a |-> a, b |-> b, c |-> 0, ranges |-> <<>>]
Op(op) == <<Ins(op, 0, 0)>>
Op1(op, v) == <<Ins(op, v, 0)>>
\* re_emit_goto: to the instruction at pos of a piece of code, at its end
Goto(op, code, pos) == <<Ins(op, pos - Len(code) - 1, 0)>>

Simple == {"char", "range", "dot", "any"}

\* Fault: an instruction whose outcome is unknown counts as one that advances
NeedCheckAdvance0(code) == \A i \in DOMAIN code : code[i].op \notin Simple \cup {"split_goto_first", "split_next_first"}

\* re_need_check_advance
NeedCheckAdvance(code) ==
  LET known == Simple \cup {"line_start", "line_end", "push_i32", "push_char_pos", "drop", "word_boundary", "not_word_boundary",
                            "prev", "save_start", "save_end", "save_reset", "back_reference", "backward_back_reference"}
      unknown == \E i \in DOMAIN code : code[i].op \notin known
  IN  unknown \/ \A i \in DOMAIN code : code[i].op \notin Simple

\* re_is_simple_quantifier: how many characters the atom consumes, or none
SimpleLength(code) ==
  IF \A i \in DOMAIN code : code[i].op \in Simple \cup {"line_start", "line_end", "word_boundary", "not_word_boundary"}
  THEN Cardinality({i \in DOMAIN code : code[i].op \in Simple})
  ELSE None

\* the captures of an atom that may not be executed are reset
Reset(k) == IF Captures(k) = {} THEN <<>> ELSE <<Ins("save_reset", Least(Captures(k)), Greatest(Captures(k)))>>

\* the atom between a split and what repeats it
Repeated(atom, split, check, again) ==
  LET body == (IF check THEN Op("push_char_pos") ELSE <<>>) \o atom \o (IF check THEN Op("check_advance") ELSE <<>>)
      tail == IF again = "once" THEN <<>> ELSE Goto(again, <<Ins(split, 0, 0)>> \o body, 0)
  IN  Op1(split, Len(body) + Len(tail)) \o body \o tail

Counted(n, code) == Op1("push_i32", n) \o code \o Op("drop")
Times(n, atom) == Counted(n, atom \o Goto("loop", atom, 0))

\* a quantifier that may execute the atom no time
FromZero(k, atom, split, check) ==
  IF k.b = 0 THEN <<>>
  ELSE IF k.b = 1 THEN Repeated(atom, split, check, "once")
  ELSE IF k.b = Unlimited THEN Repeated(atom, split, check, "goto")
  ELSE Counted(k.b, Repeated(atom, split, check, "loop"))

\* at least once: the atom, then a copy of it
FromOne(k, atom, split, check) ==
  LET first == IF k.a = 1 THEN atom ELSE Times(k.a, atom)
  IN  IF k.a = 1 /\ k.b = Unlimited /\ ~check
      THEN atom \o Goto(IF k.t = "greedy" THEN "split_goto_first" ELSE "split_next_first", atom, 0)
      ELSE IF k.b = Unlimited THEN first \o Repeated(atom, split, check, "goto")
      ELSE IF k.b > k.a THEN first \o Counted(k.b - k.a, Repeated(atom, split, check, "loop"))
      ELSE first

Quantified(k, atom) ==
  LET len == SimpleLength(atom)
      greedy == k.t = "greedy"
      split == IF greedy THEN "split_next_first" ELSE "split_goto_first"
      check == greedy /\ NeedCheckAdvance(atom)
  IN  IF greedy /\ k.b > 0 /\ len > 0
      THEN <<[Ins("simple_greedy_quant", k.a, k.b) EXCEPT !.c = len, !.ranges = <<Len(atom) + 1>>]>> \o atom \o Op("match")
      ELSE IF k.a = 0 THEN Reset(k) \o FromZero(k, atom, split, check)
      ELSE FromOne(k, atom, split, check)

\* a character to the left is passed over before and after it is compared
Backward(back, code) == IF back THEN Op("prev") \o code \o Op("prev") ELSE code

RECURSIVE Term(_, _, _), Alternative(_, _, _), Disjunction(_, _, _)

Alternative(kids, back, flags) ==
  FoldLeft(LAMBDA code, k : IF back THEN Term(k, back, flags) \o code ELSE code \o Term(k, back, flags), <<>>, kids)

\* every alternative after the first puts a split before those so far
Disjunction(k, back, flags) ==
  LET alternatives == IF k.t = "either" THEN k.kids ELSE <<k>>
      alternative(a) == Alternative(IF a.t = "terms" THEN a.kids ELSE <<a>>, back, flags)
  IN  FoldLeft(LAMBDA code, a : LET next == alternative(a)
                                IN  Op1("split_next_first", Len(code) + 1) \o code \o Op1("goto", Len(next)) \o next,
               alternative(Head(alternatives)), Tail(alternatives))

Term(k, back, flags) ==
  CASE k.t = "char" -> Backward(back, Op1("char", Canonical(k.a, flags)))
    [] k.t = "dot" -> Backward(back, Op(IF "dotAll" \in flags THEN "any" ELSE "dot"))
    [] k.t = "class" -> Backward(back, <<[Ins("range", 0, 0) EXCEPT !.ranges = k.ranges]>>)
    [] k.t = "lineStart" -> Op("line_start")
    [] k.t = "lineEnd" -> Op("line_end")
    [] k.t = "boundary" -> Op("word_boundary")
    [] k.t = "notBoundary" -> Op("not_word_boundary")
    [] k.t \in {"terms", "either"} -> Disjunction(k, back, flags)
    [] k.t = "capture" ->
         Op1(IF back THEN "save_end" ELSE "save_start", k.a) \o Disjunction(k.kids[1], back, flags)
           \o Op1(IF back THEN "save_start" ELSE "save_end", k.a)
    [] k.t = "back" -> Op1(IF back THEN "backward_back_reference" ELSE "back_reference", k.a)
    [] k.t \in Looks ->
         LET body == Disjunction(k.kids[1], k.t \in {"behind", "notBehind"}, flags) \o Op("match")
         IN  Op1(IF k.t \in Negative THEN "negative_lookahead" ELSE "lookahead", Len(body)) \o body
    [] k.t \in {"greedy", "lazy"} -> Quantified(k, Term(k.kids[1], back, flags))

\* lre_compile
Compile(re) ==
  (IF "sticky" \in re.flags THEN <<>> ELSE <<Ins("split_goto_first", 2, 0), Ins("any", 0, 0), Ins("goto", -3, 0)>>)
    \o Op1("save_start", 0) \o Disjunction(re.node, FALSE, re.flags) \o Op1("save_end", 0) \o Op("match")

\* compute_stack_size: in the order of the code, whatever it jumps over
ComputeStackSize(code) ==
  LET step(s, i) == LET n == s[1] + (IF i.op \in {"push_i32", "push_char_pos"} THEN 1 ELSE IF i.op \in {"drop", "check_advance"} THEN -1 ELSE 0)
                    IN  <<n, IF n > s[2] THEN n ELSE s[2]>>
  IN  FoldLeft(step, <<0, 0>>, code)[2]

-----------------------------------------------------------------------------
(* The machine.                                                            *)

text == job.text
options == job.re.flags
ins == program[pc]
Running(ops) == status = "running" /\ ins.op \in ops

\* push_state
State(type, count, at, next) == [type |-> type, count |-> count, cptr |-> at, pc |-> next, capture |-> capture, stack |-> stack]

\* the state at which an outcome, of the whole or of a lookahead, goes on; the
\* states above it are dropped
RECURSIVE Resume(_, _)
Resume(saved, success) ==
  LET top == Last(saved)
      wanted == (top.type = "lookahead" /\ success) \/ (top.type = "negative_lookahead" /\ ~success)
  IN  IF saved = <<>> THEN [found |-> FALSE, success |-> success, top |-> <<>>, left |-> <<>>]
      ELSE IF top.type = "greedy_quant" /\ ~success
      THEN [found |-> TRUE, success |-> success, top |-> top,
            left |-> IF top.count = 1 THEN Front(saved)
                     ELSE Append(Front(saved), [top EXCEPT !.count = @ - 1, !.cptr = @ - program[top.pc].c])]
      ELSE IF (top.type = "split" /\ ~success) \/ wanted
      THEN [found |-> TRUE, success |-> success, top |-> top, left |-> Front(saved)]
      ELSE Resume(Front(saved), success /\ top.type \in {"split", "greedy_quant"})

\* a match or a failure: go on from a state, or end
Outcome(success) ==
  LET r == Resume(states, success)
      top == r.top
  IN  IF ~r.found
      THEN status' = (IF r.success THEN "matched" ELSE "failed") /\ states' = <<>> /\ UNCHANGED <<pc, cptr, capture, stack>>
      ELSE /\ states' = r.left /\ stack' = top.stack /\ UNCHANGED status
           /\ capture' = IF top.type = "lookahead" THEN capture ELSE top.capture
           /\ pc' = IF top.type = "greedy_quant" THEN top.pc + 1 + program[top.pc].ranges[1] ELSE top.pc
           /\ cptr' = IF top.type = "greedy_quant" THEN top.cptr - program[top.pc].c ELSE top.cptr

Fails == Outcome(FALSE)
Continue == pc' = pc + 1 /\ UNCHANGED <<states, status>>
Passes(condition) == IF condition THEN Continue /\ UNCHANGED <<cptr, capture, stack>> ELSE Fails

\* binary search in the intervals of a class
RECURSIVE Search(_, _, _, _)
Search(c, ranges, low, high) ==
  LET mid == (low + high) \div 2
  IN  IF low > high THEN FALSE
      ELSE IF c < ranges[mid + 1][1] THEN Search(c, ranges, low, mid - 1)
      ELSE IF c > ranges[mid + 1][2] THEN Search(c, ranges, mid + 1, high)
      ELSE TRUE

InRange(c, ranges) ==
  /\ c >= ranges[1][1] /\ c <= ranges[Len(ranges)][2]
  /\ Search(c, ranges, 0, Len(ranges) - 1)

\* whether an instruction accepts the next character
Accepts(i, at) ==
  LET c == Canonical(text[at + 1], options)
  IN  /\ at < Len(text)
      /\ CASE i.op = "char" -> c = i.a
           [] i.op = "range" -> InRange(c, i.ranges)
           [] i.op = "dot" -> text[at + 1] \notin Newlines
           [] i.op = "any" -> TRUE

\* whether an assertion holds at a position
Holds(op, at) ==
  LET before == IF at = 0 THEN FALSE ELSE text[at] \in WordChars
      here == IF at >= Len(text) THEN FALSE ELSE text[at + 1] \in WordChars
  IN  CASE op = "line_start" -> at = 0 \/ ("multiline" \in options /\ text[at] \in Newlines)
        [] op = "line_end" -> at = Len(text) \/ ("multiline" \in options /\ text[at + 1] \in Newlines)
        [] op = "word_boundary" -> before # here
        [] op = "not_word_boundary" -> before = here

Match == Running({"match"}) /\ Outcome(TRUE)

Consume ==
  /\ Running(Simple)
  /\ IF Accepts(ins, cptr) THEN Continue /\ cptr' = cptr + 1 /\ UNCHANGED <<capture, stack>> ELSE Fails

Test == Running({"line_start", "line_end", "word_boundary", "not_word_boundary"}) /\ Passes(Holds(ins.op, cptr))

Prev ==
  /\ Running({"prev"})
  /\ IF cptr > 0 THEN Continue /\ cptr' = cptr - 1 /\ UNCHANGED <<capture, stack>> ELSE Fails

Split ==
  /\ Running({"split_goto_first", "split_next_first"})
  /\ LET target == pc + 1 + ins.a
         first == IF ins.op = "split_goto_first" THEN target ELSE pc + 1
         second == IF ins.op = "split_goto_first" THEN pc + 1 ELSE target
     IN  pc' = first /\ states' = Append(states, State("split", 0, cptr, second))
  /\ UNCHANGED <<cptr, capture, stack, status>>

Lookahead ==
  /\ Running({"lookahead", "negative_lookahead"})
  /\ pc' = pc + 1 /\ states' = Append(states, State(ins.op, 0, cptr, pc + 1 + ins.a))
  /\ UNCHANGED <<cptr, capture, stack, status>>

Jump == Running({"goto"}) /\ pc' = pc + 1 + ins.a /\ UNCHANGED <<cptr, capture, stack, states, status>>

Save ==
  /\ Running({"save_start", "save_end", "save_reset"}) /\ Continue
  /\ capture' = CASE ins.op = "save_start" -> [capture EXCEPT ![ins.a + 1][1] = cptr]
                  [] ins.op = "save_end" -> [capture EXCEPT ![ins.a + 1][2] = cptr]
                  [] ins.op = "save_reset" -> Forget(capture, (ins.a + 1)..(ins.b + 1))
  /\ UNCHANGED <<cptr, stack>>

Counter ==
  /\ Running({"push_i32", "push_char_pos", "drop"}) /\ Continue
  /\ stack' = IF ins.op = "drop" THEN Front(stack) ELSE Append(stack, IF ins.op = "push_i32" THEN ins.a ELSE cptr)
  /\ UNCHANGED <<cptr, capture>>

Loop ==
  /\ Running({"loop"})
  /\ LET n == Last(stack) - 1 IN stack' = Append(Front(stack), n) /\ pc' = IF n # 0 THEN pc + 1 + ins.a ELSE pc + 1
  /\ UNCHANGED <<cptr, capture, states, status>>

CheckAdvance ==
  /\ Running({"check_advance"})
  /\ IF Last(stack) = cptr THEN Fails ELSE Continue /\ stack' = Front(stack) /\ UNCHANGED <<cptr, capture>>

Reference ==
  /\ Running({"back_reference", "backward_back_reference"})
  /\ LET c == capture[ins.a + 1]
         unset == None \in {c[1], c[2]}
         len == IF c[2] > c[1] THEN c[2] - c[1] ELSE 0
         from == IF ins.op = "back_reference" THEN cptr ELSE cptr - len
     IN  IF unset THEN Passes(TRUE)
         ELSE IF /\ from >= 0 /\ from + len <= Len(text)
                 /\ \A i \in 1..len : Canonical(text[c[1] + i], options) = Canonical(text[from + i], options)
         THEN Continue /\ cptr' = (IF ins.op = "back_reference" THEN cptr + len ELSE from) /\ UNCHANGED <<capture, stack>>
         ELSE Fails

\* a simple atom once: the position after it, or none
RECURSIVE Once(_, _)
Once(i, at) ==
  CASE program[i].op = "match" -> at
    [] program[i].op \in Simple -> IF Accepts(program[i], at) THEN Once(i + 1, at + 1) ELSE None
    [] OTHER -> IF Holds(program[i].op, at) THEN Once(i + 1, at) ELSE None

RECURSIVE Often(_, _, _)
Often(n, at, max) ==
  LET next == Once(pc + 1, at)
  IN  IF next = None THEN <<n, at>>
      ELSE IF n + 1 >= max /\ max # Unlimited THEN <<n + 1, next>>
      ELSE Often(n + 1, next, max)

\* as often as possible; one state stands for all the shorter ones
SimpleGreedyQuant ==
  /\ Running({"simple_greedy_quant"})
  /\ LET q == Often(0, cptr, ins.b)
     IN  IF q[1] < ins.a THEN Fails
         ELSE /\ pc' = pc + 1 + ins.ranges[1] /\ cptr' = q[2]
              /\ states' = IF q[1] > ins.a THEN Append(states, State("greedy_quant", q[1] - ins.a, q[2], pc)) ELSE states
              /\ UNCHANGED <<capture, stack, status>>

-----------------------------------------------------------------------------

\* lre_exec
Init ==
  /\ \E re \in Regs, t \in Texts, from \in {0, 1} : from <= Len(t) /\ job = [re |-> re, text |-> t, from |-> from]
  /\ program = Compile(job.re) /\ room = ComputeStackSize(program)
  /\ pc = 1 /\ cptr = job.from
  /\ capture = Unsets(1 + Cardinality(Captures(job.re.node)))
  /\ stack = <<>> /\ states = <<>> /\ status = "running"

Next ==
  /\ \/ Match \/ Consume \/ Test \/ Prev \/ Split \/ Lookahead \/ Jump \/ Save
     \/ Counter \/ Loop \/ CheckAdvance \/ Reference \/ SimpleGreedyQuant
  /\ UNCHANGED <<job, program, room>>

Spec == Init /\ [][Next]_vars

-----------------------------------------------------------------------------
(* Properties.                                                             *)

\* The machine ends with the captures of the first match in the order of the
\* language, or without a match when there is none.
SameMatch ==
  status # "running" =>
    LET expected == Exec(job.re, text, job.from)
    IN  IF status = "matched" THEN expected = <<capture>> ELSE expected = <<>>

\* The stack, and those of the saved states, never get beyond the size computed
\* from the code alone (compute_stack_size), for which memory is set aside.
StackFits == Len(stack) <= room /\ \A i \in DOMAIN states : Len(states[i].stack) <= room

\* A match ends with the stack as it was at the start.
StackReleased == status = "matched" => stack = <<>>

\* No state is saved that is already there to go back to: an atom that consumes
\* nothing is not repeated for ever (re_need_check_advance, check_advance).
NothingTwice == \A i, j \in DOMAIN states : states[i] = states[j] => i = j
=============================================================================
