----------------------------- MODULE QJSControl -----------------------------
(***************************************************************************)
(* The statements of a function or a script, compiled by QJSCompile and    *)
(* executed by the loop of JS_CallInternal, beside the completion records  *)
(* of the language: both are asked the same questions (does an expression  *)
(* throw, is a condition true, has an iterator ended) and must ask the     *)
(* next one at the same place and end in the same way.                     *)
(***************************************************************************)
EXTENDS QJSCompile

CONSTANTS
  Programs,       \* the statements
  CatchPattern    \* the parameter of a catch clause may be a pattern, which can throw

PatternAssumption == CatchPattern \in BOOLEAN

VARIABLES
  program,
  bytecode, \* its code
  levels,   \* what compute_stack_size finds at each instruction
  vm,     \* the interpreter, at an instruction that needs an answer, or at the end
  lang    \* the language's evaluation of the same statement

vars == <<program, bytecode, levels, vm, lang>>

-----------------------------------------------------------------------------
(* Values and answers.                                                     *)

Cell(t, at) == [t |-> t, at |-> at]
Undef == Cell("undef", <<>>)
Val(path) == Cell("val", path)
Err(path) == Cell("err", path)
Bool(b) == Cell(IF b THEN "t" ELSE "f", <<>>)

\* what is asked, and where in the program
Ask(q, path) == [q |-> q, path |-> path, v |-> Undef]
End(kind, v) == [q |-> kind, path |-> <<>>, v |-> v]
Ended(at) == at.q \in {"return", "throw"}

Answers(q) ==
  CASE q = "cond" -> {"t", "f", "throw"}
    [] q = "select" -> {"t", "f"}
    [] q = "next" -> {"value", "done", "throw"}
    [] q = "catch" -> IF CatchPattern THEN {"ok", "throw"} ELSE {"ok"}
    [] OTHER -> {"ok", "throw"}

-----------------------------------------------------------------------------
(* The interpreter.                                                        *)

Push(m, c) == [m EXCEPT !.stack = Append(@, c), !.pc = @ + 1]
Pop(m, n) == [m EXCEPT !.stack = SubSeq(@, 1, Len(@) - n), !.pc = @ + 1]
Top(m, n) == m.stack[Len(m.stack) - n]
Goes(m, l, code) == [m EXCEPT !.pc = Target(code, l)]

\* the values above the innermost catch offset are removed with it
NipCatch(m) ==
  LET i == CHOOSE j \in DOMAIN m.stack : /\ m.stack[j].t \in {"catch", "mark"}
                                         /\ \A k \in (j + 1)..Len(m.stack) : m.stack[k].t \notin {"catch", "mark"}
  IN  [m EXCEPT !.stack = Append(SubSeq(@, 1, i - 1), Last(@)), !.pc = @ + 1]

RECURSIVE Unwind(_, _), Execute(_, _)

\* an iterator that failed or ended was replaced by undefined
Closes(c) == c # Undef

\* what a handler finds on the stack
Caught(rest, e) == Append(rest, e)

\* an exception, in m.err, looks for a handler and closes the iterators on its way
Unwind(m, code) ==
  IF m.stack = <<>> THEN [m EXCEPT !.at = End("throw", m.err)]
  ELSE LET c == Last(m.stack)
           rest == Front(m.stack)
       IN  IF c.t = "catch"
           THEN Execute([m EXCEPT !.stack = Caught(rest, m.err), !.err = Undef, !.pc = c.at[1]], code)
           ELSE IF c.t = "mark" /\ Closes(Last(Front(rest)))
           THEN [m EXCEPT !.stack = Front(rest), !.at = Ask("close", Last(Front(rest)).at)]
           ELSE Unwind([m EXCEPT !.stack = rest], code)

Raise(m, e, code) == Unwind([m EXCEPT !.err = e], code)

\* the question an instruction asks
Question(o, m) ==
  CASE o.op \in {"expr", "cond"} -> Ask(o.op, o.a)
    [] o.op = "strict_eq" -> Ask("select", o.a)
    [] o.op \in {"for_in_start", "for_of_start"} -> Ask("start", o.a)
    [] o.op \in {"for_in_next", "for_of_next"} -> Ask("next", o.a)
    [] o.op = "assign" -> Ask("assign", o.a)
    [] o.op = "assign_catch" -> Ask("catch", o.a)
    [] o.op = "iterator_close" -> Ask("close", Top(m, 2).at)

Asks(o, m) ==
  \/ o.op \in {"expr", "cond", "strict_eq", "for_in_start", "for_of_start", "for_in_next", "for_of_next", "assign", "assign_catch"}
  \/ o.op = "iterator_close" /\ Closes(Top(m, 2))

\* the instructions that ask nothing
Silent(o, m, code) ==
  CASE o.op \in {"label", "enter_scope", "leave_scope"} -> [m EXCEPT !.pc = @ + 1]
    [] o.op = "undefined" -> Push(m, Undef)
    [] o.op = "drop" -> Pop(m, 1)
    [] o.op = "dup" -> Push(m, Top(m, 0))
    [] o.op = "rot3r" -> [m EXCEPT !.stack = SubSeq(@, 1, Len(@) - 3) \o <<Top(m, 0), Top(m, 2), Top(m, 1)>>, !.pc = @ + 1]
    [] o.op = "nip" -> [m EXCEPT !.stack = Append(SubSeq(@, 1, Len(@) - 2), Top(m, 0)), !.pc = @ + 1]
    [] o.op = "nip_catch" -> NipCatch(m)
    [] o.op = "put_ret" -> Pop([m EXCEPT !.ret = Top(m, 0)], 1)
    [] o.op = "get_ret" -> Push(m, m.ret)
    [] o.op = "save_ret" -> [m EXCEPT !.saved = (o.a :> m.ret) @@ @, !.pc = @ + 1]
    [] o.op = "restore_ret" -> [m EXCEPT !.ret = m.saved[o.a], !.pc = @ + 1]
    [] o.op = "goto" -> Goes(m, o.a, code)
    [] o.op \in {"if_false", "if_true"} ->
         IF (Top(m, 0) = Bool(TRUE)) = (o.op = "if_true") THEN Goes(Pop(m, 1), o.a, code) ELSE Pop(m, 1)
    [] o.op = "catch" -> Push(m, Cell("catch", <<Target(code, o.a)>>))
    [] o.op = "gosub" -> Goes(Push(m, Cell("addr", <<m.pc + 1>>)), o.a, code)
    [] o.op = "ret" -> [Pop(m, 1) EXCEPT !.pc = Top(m, 0).at[1]]
    [] o.op = "iterator_close" -> Pop(m, 3)

\* execution up to the next question
Execute(m, code) ==
  LET o == code[m.pc]
  IN  IF Asks(o, m) THEN [m EXCEPT !.at = Question(o, m)]
      ELSE IF o.op = "throw" THEN Raise(Pop(m, 1), Top(m, 0), code)
      ELSE IF o.op = "return" THEN [m EXCEPT !.at = End("return", Top(m, 0))]
      ELSE IF o.op = "return_undef" THEN [m EXCEPT !.at = End("return", Undef)]
      ELSE Execute(Silent(o, m, code), code)

Boot(code) == Execute([pc |-> 1, stack |-> <<>>, ret |-> Undef, saved |-> <<>>, err |-> Undef, at |-> Ask("", <<>>)], code)

\* js_for_of_next: the iterator that ended or failed is replaced
NextOf(m, answer) ==
  IF answer = "value" THEN m ELSE [m EXCEPT !.stack[Len(m.stack) - 2] = Undef]

\* an instruction goes on with the answer
Reply(m, code, answer) ==
  LET o == code[m.pc]
      e == Err(m.at.path)
      unwinding == m.err # Undef
      after ==
        CASE o.op = "expr" -> Push(m, Val(o.a))
          [] o.op = "cond" -> Push(m, Bool(answer = "t"))
          [] o.op = "strict_eq" -> Push([m EXCEPT !.stack = SubSeq(@, 1, Len(@) - 2)], Bool(answer = "t"))
          [] o.op = "for_in_start" -> Push([m EXCEPT !.stack = Front(@)], Cell("iter", o.a))
          [] o.op = "for_of_start" ->
               [m EXCEPT !.stack = Front(@) \o <<Cell("iter", o.a), Cell("next", o.a), Cell("mark", <<>>)>>, !.pc = @ + 1]
          [] o.op = "for_in_next" ->
               [m EXCEPT !.stack = @ \o <<IF answer = "done" THEN Undef ELSE Val(o.a), Bool(answer = "done")>>, !.pc = @ + 1]
          [] o.op = "for_of_next" ->
               [NextOf(m, answer) EXCEPT !.stack = @ \o <<IF answer = "done" THEN Undef ELSE Val(o.a), Bool(answer = "done")>>, !.pc = @ + 1]
          [] o.op \in {"assign", "assign_catch"} -> Pop(m, 1)
          [] o.op = "iterator_close" -> Pop(m, 3)
  IN  IF unwinding THEN Unwind([m EXCEPT !.stack = Front(@)], code)
      ELSE IF answer = "throw"
      THEN Raise(CASE o.op = "for_of_next" -> NextOf(m, answer)
                   [] o.op = "iterator_close" -> [m EXCEPT !.stack = SubSeq(@, 1, Len(@) - 2)]
                   [] OTHER -> m, e, code)
      ELSE Execute(after, code)

-----------------------------------------------------------------------------
(* The language: completion records and what is left to evaluate.          *)

Empty == Cell("empty", <<>>)
Completion(type, label, v) == [type |-> type, label |-> label, v |-> v]
Normal(v) == Completion("normal", "", v)
UpdateEmpty(c, v) == IF c.v = Empty THEN [c EXCEPT !.v = v] ELSE c
Nonempty(c, v) == UpdateEmpty(c, v).v

\* a break without a label ends the statement it is in
Breakable(c) == IF c.type = "break" /\ c.label = "" THEN Normal(Nonempty(c, Undef)) ELSE c

LoopContinues(c, labels) == c.type = "normal" \/ (c.type = "continue" /\ c.label \in labels \cup {""})

RECURSIVE Evaluate(_, _, _, _), Complete(_, _), Iterate(_, _)

Waits(q, path, rest) == [at |-> Ask(q, path), rest |-> rest]

\* a statement is evaluated, then what is in rest
Evaluate(s, path, labels, rest) ==
  LET then(f) == Append(rest, f @@ [s |-> s, path |-> path])
  IN  CASE s.k = "none" -> Complete(Normal(Empty), rest)
        [] s.k \in {"expr", "throw"} -> Waits("expr", path, then([f |-> s.k]))
        [] s.k = "return" -> IF s.value THEN Waits("expr", path, then([f |-> "return"]))
                             ELSE Complete(Completion("return", "", Undef), rest)
        [] s.k \in {"break", "continue"} -> Complete(Completion(s.k, s.label, Empty), rest)
        [] s.k = "block" -> Complete(Normal(Empty), then([f |-> "list", list |-> s.list, i |-> 0, v |-> Empty]))
        [] s.k = "if" -> Waits("cond", path, then([f |-> "if"]))
        [] s.k = "do" -> Evaluate(s.body, Append(path, 1), {}, then([f |-> "loop", labels |-> labels, v |-> Undef]))
        [] s.k \in {"while", "for"} -> Iterate(then([f |-> "loop", labels |-> labels, v |-> Undef]), TRUE)
        [] s.k \in {"forin", "forof"} -> Waits("expr", Append(path, 2), then([f |-> "head", labels |-> labels, v |-> Undef]))
        [] s.k = "label" -> Evaluate(s.body, Append(path, 1), labels \cup {s.label}, then([f |-> "label"]))
        [] s.k = "switch" -> Waits("expr", Append(path, 0), then([f |-> "switch", i |-> 0]))
        [] s.k = "try" -> Evaluate(Block(s.block.list), Append(path, 1), {}, then([f |-> "try"]))

\* the next round of the loop on top: from the start, or from the increment
Iterate(rest, first) ==
  LET f == Last(rest)
      body == Evaluate(f.s.body, Append(f.path, 1), {}, rest)
  IN  IF f.s.k \in {"forin", "forof"} THEN Waits("next", f.path, Append(rest, [f |-> "next"]))
      ELSE IF f.s.k = "for" /\ f.s.update /\ ~first THEN Waits("expr", Append(f.path, 2), Append(rest, [f |-> "update"]))
      ELSE IF f.s.k = "for" /\ ~f.s.test THEN body
      ELSE Waits("cond", f.path, Append(rest, [f |-> "test"]))

\* a list of statements at its i-th, or at its end
Rest(f, rest, v, path) ==
  IF f.i = Len(f.list) THEN Complete(Normal(v), rest)
  ELSE Evaluate(f.list[f.i + 1], Append(path, f.i + 1), {}, Append(rest, [f EXCEPT !.i = @ + 1, !.v = v]))

\* the clauses of a switch that come after the i-th are evaluated
RunClauses(f, rest, i, v) ==
  IF i = Len(f.s.clauses) THEN Complete(Normal(v), rest)
  ELSE Evaluate(Block(f.s.clauses[i + 1].list), Append(f.path, i + 1), {},
                Append(rest, [f |-> "run", s |-> f.s, path |-> f.path, i |-> i + 1, v |-> v]))

\* the case after the i-th clause that is compared next, or the default
TestClause(f, rest, i) ==
  LET cases == {j \in (i + 1)..Len(f.s.clauses) : f.s.clauses[j].case}
      default == {j \in DOMAIN f.s.clauses : ~f.s.clauses[j].case}
      next == CHOOSE j \in cases : \A k \in cases : j <= k
  IN  IF cases # {} THEN Waits("expr", Append(f.path, next), Append(rest, [f EXCEPT !.i = next]))
      ELSE IF default # {} THEN RunClauses(f, rest, (CHOOSE j \in default : TRUE) - 1, Undef)
      ELSE Complete(Normal(Undef), rest)

\* the finally block comes after every completion of the block and the handler
Finally(f, rest, c) ==
  IF f.s.finally = NoBlock THEN Complete(UpdateEmpty(c, Undef), rest)
  ELSE Evaluate(Block(f.s.finally.list), Append(f.path, 3), {}, Append(rest, [f |-> "finally", c |-> c]))

\* a statement ended with c
Complete(c, rest) ==
  IF rest = <<>> THEN [at |-> IF c.type = "throw" THEN End("throw", c.v)
                              ELSE End("return", IF c.type = "return" \/ Eval THEN Nonempty(c, Undef) ELSE Undef), rest |-> <<>>]
  ELSE LET f == Last(rest)
           outer == Front(rest)
       IN  CASE f.f = "list" -> IF c.type = "normal" THEN Rest(f, outer, Nonempty(c, f.v), f.path)
                                ELSE Complete(UpdateEmpty(c, f.v), outer)
             [] f.f = "then" -> Complete(UpdateEmpty(c, Undef), outer)
             [] f.f = "label" -> Complete(IF c.type = "break" /\ c.label = f.s.label THEN Normal(c.v) ELSE c, outer)
             [] f.f = "loop" ->
                  IF LoopContinues(c, f.labels) THEN Iterate(Append(outer, [f EXCEPT !.v = Nonempty(c, f.v)]), FALSE)
                  ELSE IF f.s.k = "forof" THEN Waits("close", f.path, Append(outer, [f |-> "closing", c |-> UpdateEmpty(c, f.v)]))
                  ELSE Complete(Breakable(UpdateEmpty(c, f.v)), outer)
             [] f.f = "run" ->
                  IF c.type = "normal" THEN RunClauses(f, outer, f.i, Nonempty(c, f.v))
                  ELSE Complete(Breakable(UpdateEmpty(c, f.v)), outer)
             [] f.f = "try" ->
                  IF c.type = "throw" /\ f.s.catch # NoBlock
                  THEN Waits("catch", f.path, Append(outer, [f EXCEPT !.f = "param"]))
                  ELSE Finally(f, outer, c)
             [] f.f = "catch" -> Finally(f, outer, c)
             [] f.f = "finally" -> Complete(IF c.type = "normal" THEN UpdateEmpty(f.c, Undef) ELSE UpdateEmpty(c, Undef), outer)

\* the evaluation goes on with the answer to what it waits for
Resume(l, answer) ==
  LET f == Last(l.rest)
      rest == Front(l.rest)
      thrown == Completion("throw", "", Err(l.at.path))
      loop == Last(rest)
      yes == answer = "t"
  IN  IF f.f = "closing" THEN Complete(IF f.c.type # "throw" /\ answer = "throw" THEN thrown ELSE Breakable(f.c), rest)
      ELSE IF answer = "throw"
      THEN IF f.f = "param" THEN Finally(f, rest, thrown)
           ELSE IF f.f \in {"next", "test", "update"} THEN Complete(thrown, Front(rest))
           ELSE Complete(thrown, rest)
      ELSE CASE f.f = "expr" -> Complete(Normal(Val(f.path)), rest)
             [] f.f = "throw" -> Complete(Completion("throw", "", Val(f.path)), rest)
             [] f.f = "return" -> Complete(Completion("return", "", Val(f.path)), rest)
             [] f.f = "if" ->
                  Evaluate(IF yes THEN f.s.then ELSE f.s.else, Append(f.path, IF yes THEN 1 ELSE 2), {}, Append(rest, [f |-> "then"]))
             [] f.f = "test" ->
                  IF yes THEN Evaluate(loop.s.body, Append(loop.path, 1), {}, rest)
                  ELSE Complete(Normal(loop.v), Front(rest))
             [] f.f = "update" -> Iterate(rest, TRUE)
             [] f.f = "head" ->
                  IF l.at.q = "expr" THEN Waits("start", f.path, l.rest)
                  ELSE Iterate(Append(rest, [f EXCEPT !.f = "loop"]), TRUE)
             [] f.f = "next" ->
                  IF answer = "done" THEN Complete(Normal(loop.v), Front(rest))
                  ELSE Waits("assign", loop.path, Append(rest, [f |-> "assign"]))
             [] f.f = "assign" -> Evaluate(loop.s.body, Append(loop.path, 1), {}, rest)
             [] f.f = "switch" ->
                  IF l.at.q = "expr" /\ f.i > 0 THEN Waits("select", Append(f.path, f.i), l.rest)
                  ELSE IF yes THEN RunClauses(f, rest, f.i - 1, Undef)
                  ELSE TestClause(f, rest, f.i)
             [] f.f = "param" -> Evaluate(Block(f.s.catch.list), Append(f.path, 2), {}, Append(rest, [f EXCEPT !.f = "catch"]))

-----------------------------------------------------------------------------

Init ==
  /\ program \in Programs
  /\ bytecode = Compile(program)
  /\ levels = StackLevels(bytecode)
  /\ vm = Boot(bytecode)
  /\ lang = Evaluate(program, <<1>>, {}, <<>>)

Answer(a) ==
  /\ ~Ended(vm.at)
  /\ a \in Answers(vm.at.q)
  /\ vm' = Reply(vm, bytecode, a)
  /\ lang' = Resume(lang, a)
  /\ UNCHANGED <<program, bytecode, levels>>

Next == \E a \in {"ok", "throw", "t", "f", "value", "done"} : Answer(a)

Spec == Init /\ [][Next]_vars

-----------------------------------------------------------------------------
(* Properties.                                                             *)

\* The interpreter executing the compiled statement asks for the same
\* expression, condition or call of an iterator as the language's evaluation
\* of the statement, and it returns or throws the same value at the end: every
\* finally block and every close of an iterator is executed once, in order, and
\* nothing else is (js_parse_statement_or_decl, emit_break, emit_return,
\* exception: of JS_CallInternal).
SameAsLanguage == vm.at = lang.at

\* Wherever the interpreter stops, the stack has the depth compute_stack_size
\* found for the instruction, and the innermost catch offset is the one it
\* found (stack_level_tab, catch_pos_tab).
StackAsComputed ==
  (~Ended(vm.at) /\ vm.err = Undef) =>
    LET known == levels[vm.pc]
        catches == {i \in DOMAIN vm.stack : vm.stack[i].t \in {"catch", "mark"}}
    IN  /\ Len(vm.stack) = known.level
        /\ (known.catch = 0) = (catches = {})
        /\ known.catch # 0 =>
             LET c == vm.stack[CHOOSE i \in catches : \A j \in catches : j <= i]
                 o == bytecode[known.catch]
             IN  c.t = IF o.op = "catch" THEN "catch" ELSE "mark"

\* compute_stack_size accepts the code of every statement: no instruction is
\* reached with two depths or with two innermost catch offsets (ss_check).
CodeAccepted == levels # Inconsistent
=============================================================================
