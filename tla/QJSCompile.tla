----------------------------- MODULE QJSCompile -----------------------------
(***************************************************************************)
(* The code the parser emits for statements: jumps, catch offsets, gosub   *)
(* to finally blocks, iterators, the hidden variable with the value of a   *)
(* script, and the depth of the stack compute_stack_size finds for it.     *)
(* Expressions are single instructions; scopes are kept only because the   *)
(* instruction that leaves one makes the code after a jump live again.     *)
(***************************************************************************)
EXTENDS Integers, Sequences, SequencesExt, FiniteSets, TLC

CONSTANT Eval   \* the code of a script, which has a value, instead of a function

EvalAssumption == Eval \in BOOLEAN

\* statements
Expr == [k |-> "expr"]
Throw == [k |-> "throw"]
Return(v) == [k |-> "return", value |-> v]
Break(l) == [k |-> "break", label |-> l]
Continue(l) == [k |-> "continue", label |-> l]
Block(list) == [k |-> "block", list |-> list]
If(then, else) == [k |-> "if", then |-> then, else |-> else]
While(body) == [k |-> "while", body |-> body]
DoWhile(body) == [k |-> "do", body |-> body]
For(test, update, body) == [k |-> "for", test |-> test, update |-> update, body |-> body]
ForIn(body) == [k |-> "forin", body |-> body]
ForOf(body) == [k |-> "forof", body |-> body]
Labelled(l, body) == [k |-> "label", label |-> l, body |-> body]
Switch(clauses) == [k |-> "switch", clauses |-> clauses]
Case(list) == [case |-> TRUE, list |-> list]
Default(list) == [case |-> FALSE, list |-> list]
Try(block, catch, finally) == [k |-> "try", block |-> block, catch |-> catch, finally |-> finally]
NoBlock == [k |-> "none"]
Loops == {"while", "do", "for", "forin", "forof"}

-----------------------------------------------------------------------------
(* Emitting.                                                               *)

\* no instruction after these is reached without a label
Dead == {"return", "return_undef", "throw", "goto", "ret"}
Live(code) == code = <<>> \/ Last(code).op \notin Dead

Op(code, o, a) == Append(code, [op |-> o, a |-> a])
Label(code, l) == Op(code, "label", l)

\* emit_goto: nothing after a jump
Goto(code, o, l) == IF Live(code) THEN Op(code, o, l) ELSE code

SetEvalRetUndefined(code) ==
  IF Eval THEN Op(Op(code, "undefined", <<>>), "put_ret", <<>>) ELSE code

NoLabel == <<>>

\* push_break_entry: how to leave a statement
BlockEnv(name, brk, cont, drop) ==
  [name |-> name, brk |-> brk, cont |-> cont, drop |-> drop, finally |-> NoLabel, iterator |-> FALSE]

Drops(code, n) == IF n = 0 THEN code ELSE IF n = 1 THEN Op(code, "drop", <<>>) ELSE Op(Op(code, "drop", <<>>), "drop", <<>>)

\* what a break or a continue does to a statement it leaves
LeaveEntry(code, e) ==
  LET c1 == IF e.iterator THEN Op(code, "iterator_close", <<>>) ELSE code
      c2 == Drops(c1, IF e.iterator THEN e.drop - 3 ELSE e.drop)
  IN  IF e.finally = NoLabel THEN c2
      ELSE Op(Goto(Op(c2, "undefined", <<>>), "gosub", e.finally), "drop", <<>>)

RECURSIVE EmitBreak(_, _, _, _)
EmitBreak(code, name, isCont, env) ==
  LET e == Last(env)
      l == IF isCont THEN e.cont ELSE e.brk
  IN  IF l # NoLabel /\ (name = "" \/ e.name = name) THEN Goto(code, "goto", l)
      ELSE EmitBreak(LeaveEntry(code, e), name, isCont, Front(env))

\* Fault: the iterators a return leaves are dropped but not closed
ReturnThrough0(code, e) ==
  LET c == Op(code, "nip_catch", <<>>)
  IN  IF e.iterator THEN Op(Op(c, "nip", <<>>), "nip", <<>>) ELSE Goto(c, "gosub", e.finally)

\* what a return does to a loop over an iterator or a try statement it leaves
ReturnThrough(code, e) ==
  LET c == Op(code, "nip_catch", <<>>)
  IN  IF e.iterator
      THEN Op(Op(Op(c, "rot3r", <<>>), "undefined", <<>>), "iterator_close", <<>>)
      ELSE Goto(c, "gosub", e.finally)

RECURSIVE EmitReturn(_, _, _)
EmitReturn(code, hasval, env) ==
  IF env = <<>> THEN Op(code, IF hasval THEN "return" ELSE "return_undef", <<>>)
  ELSE LET e == Last(env)
       IN  IF ~e.iterator /\ e.finally = NoLabel THEN EmitReturn(code, hasval, Front(env))
           ELSE EmitReturn(ReturnThrough(IF hasval THEN code ELSE Op(code, "undefined", <<>>), e), TRUE, Front(env))

-----------------------------------------------------------------------------
(* js_parse_statement_or_decl. A path names a statement and its labels.    *)

RECURSIVE Stmt(_, _, _, _, _), Stmts(_, _, _, _)

L(path, name) == <<path, name>>

\* js_parse_block
EmitBlock(code, list, path, env) ==
  IF list = <<>> THEN code
  ELSE Op(Stmts(Op(code, "enter_scope", <<>>), list, path, env), "leave_scope", <<>>)

EmitIf(code, s, path, env) ==
  LET c1 == Goto(Op(SetEvalRetUndefined(Op(code, "enter_scope", <<>>)), "cond", path), "if_false", L(path, "1"))
      c2 == Stmt(c1, s.then, Append(path, 1), env, "")
      c3 == Stmt(Label(Goto(c2, "goto", L(path, "2")), L(path, "1")), s.else, Append(path, 2), env, "")
  IN  IF s.else = NoBlock THEN Op(Label(c2, L(path, "1")), "leave_scope", <<>>)
      \* the label is emitted only when the jump was
      ELSE Op(IF Live(c2) THEN Label(c3, L(path, "2")) ELSE c3, "leave_scope", <<>>)

EmitWhile(code, s, path, env, name) ==
  LET e == BlockEnv(name, L(path, "break"), L(path, "cont"), 0)
      c1 == Op(Label(SetEvalRetUndefined(code), L(path, "cont")), "cond", path)
      c2 == Stmt(Goto(c1, "if_false", L(path, "break")), s.body, Append(path, 1), Append(env, e), "")
  IN  Label(Goto(c2, "goto", L(path, "cont")), L(path, "break"))

EmitDo(code, s, path, env, name) ==
  LET e == BlockEnv(name, L(path, "break"), L(path, "cont"), 0)
      c1 == Stmt(SetEvalRetUndefined(Label(code, L(path, "1"))), s.body, Append(path, 1), Append(env, e), "")
      c2 == Op(Label(c1, L(path, "cont")), "cond", path)
  IN  Label(Goto(c2, "if_true", L(path, "1")), L(path, "break"))

\* the increment is moved behind the body when there is a test too
EmitFor(code, s, path, env, name) ==
  LET body == L(path, "body")
      test == IF s.test THEN L(path, "test") ELSE body
      cont == IF s.update THEN L(path, "cont") ELSE test
      e == BlockEnv(name, L(path, "break"), cont, 0)
      c0 == Op(SetEvalRetUndefined(code), "enter_scope", <<>>)
      c1 == IF s.test THEN Goto(Op(Label(c0, test), "cond", path), "if_false", L(path, "break")) ELSE c0
      update(c) == Op(Op(Label(c, cont), "expr", Append(path, 2)), "drop", <<>>)
      c2 == IF s.update THEN Goto(c1, "goto", body) ELSE c1
      c3 == IF s.update /\ ~s.test THEN update(c2) ELSE c2
      c4 == Op(Stmt(Label(c3, body), s.body, Append(path, 1), Append(env, e), ""), "leave_scope", <<>>)
      c5 == IF s.update /\ s.test THEN Op(update(c4), "goto", test) ELSE Goto(c4, "goto", cont)
  IN  Op(Label(c5, L(path, "break")), "leave_scope", <<>>)

\* what lies on the stack during a loop over the names or the values of an object
ForEntry(name, path, of) ==
  [BlockEnv(name, L(path, "break"), L(path, "cont"), IF of THEN 3 ELSE 1) EXCEPT !.iterator = of]

\* js_parse_for_in_of: the assignment to the loop variable is moved behind the expression
EmitForInOf(code, s, path, env, name) ==
  LET of == s.k = "forof"
      e == ForEntry(name, path, of)
      c0 == Goto(Op(SetEvalRetUndefined(code), "enter_scope", <<>>), "goto", L(path, "expr"))
      c1 == Op(Op(Label(c0, L(path, "expr")), "expr", Append(path, 2)), "leave_scope", <<>>)
      c2 == Goto(Op(c1, IF of THEN "for_of_start" ELSE "for_in_start", path), "goto", L(path, "cont"))
      c3 == Op(Op(Label(c2, L(path, "next")), "assign", path), "goto", L(path, "body"))
      c4 == Stmt(Label(c3, L(path, "body")), s.body, Append(path, 1), Append(env, e), "")
      c5 == Op(Label(Op(c4, "leave_scope", <<>>), L(path, "cont")), IF of THEN "for_of_next" ELSE "for_in_next", path)
      c6 == Op(Goto(c5, "if_false", L(path, "next")), "drop", <<>>)
      c7 == Op(Label(c6, L(path, "break")), IF of THEN "iterator_close" ELSE "drop", <<>>)
  IN  Op(c7, "leave_scope", <<>>)

\* whether a label was given to a jump, and so exists
Jumps == {"goto", "if_false", "if_true", "gosub", "catch"}
Used(code, l) == \E i \in DOMAIN code : code[i].op \in Jumps /\ code[i].a = l
LabelIf(code, l) == IF Used(code, l) THEN Label(code, l) ELSE code

\* a clause that shares its statements with the case after it
SharesNext(clauses, i) == i < Len(clauses) /\ clauses[i].list = <<>> /\ clauses[i + 1].case

\* a case: it is skipped by what falls through to the first of its group
CaseClause(acc, s, path, i, first) ==
  LET skip == L(Append(path, first), "skip")
      fail == L(Append(path, i), "fail")
      c1 == IF acc.fail = NoLabel THEN acc.code ELSE Label(Goto(acc.code, "goto", skip), acc.fail)
      c2 == Op(Op(Op(c1, "dup", <<>>), "expr", Append(path, i)), "strict_eq", Append(path, i))
  IN  IF SharesNext(s.clauses, i) THEN [acc EXCEPT !.code = Goto(c2, "if_true", skip), !.fail = NoLabel]
      ELSE [acc EXCEPT !.code = LabelIf(Goto(c2, "if_false", fail), skip), !.fail = fail]

\* the default: a label that is named when the last case is known
DefaultClause(acc, path) ==
  LET l == L(path, "default")
      entered == IF acc.fail = NoLabel THEN [acc EXCEPT !.code = Goto(acc.code, "goto", l), !.fail = l] ELSE acc
  IN  [entered EXCEPT !.code = Label(@, l), !.default = Len(entered.code) + 1]

EmitSwitch(code, s, path, env, name) ==
  LET e == BlockEnv(name, L(path, "break"), NoLabel, 1)
      c0 == Op(Op(SetEvalRetUndefined(code), "expr", Append(path, 0)), "enter_scope", <<>>)
      first(i) == CHOOSE j \in 1..i : (\A k \in j..(i - 1) : SharesNext(s.clauses, k)) /\ (j = 1 \/ ~SharesNext(s.clauses, j - 1))
      clause(acc, i) ==
        LET new == IF s.clauses[i].case THEN CaseClause(acc, s, path, i, first(i)) ELSE DefaultClause(acc, path)
        IN  [new EXCEPT !.code = Stmts(@, s.clauses[i].list, Append(path, i), Append(env, e))]
      acc == FoldLeft(clause, [code |-> c0, fail |-> NoLabel, default |-> 0], [i \in DOMAIN s.clauses |-> i])
      c1 == IF acc.default = 0 THEN Label(acc.code, acc.fail) ELSE [acc.code EXCEPT ![acc.default].a = acc.fail]
  IN  Op(Op(Label(c1, L(path, "break")), "drop", <<>>), "leave_scope", <<>>)

\* the end of a block or a handler: the finally block runs with a value that is dropped
EnterFinally(code, path) ==
  IF Live(code)
  THEN LET c == Goto(Op(Op(code, "drop", <<>>), "undefined", <<>>), "gosub", L(path, "finally"))
       IN  Goto(Op(c, "drop", <<>>), "goto", L(path, "end"))
  ELSE code

\* in a finally block: a value and the address to return to lie on the stack
FinallyEntry(path) == BlockEnv("", NoLabel, NoLabel, 2)

\* the finally block, which changes the value of a script only when it does not end normally
EmitFinally(code, s, path, env) ==
  LET c0 == Label(code, L(path, "finally"))
      c1 == IF Eval THEN SetEvalRetUndefined(Op(c0, "save_ret", path)) ELSE c0
      c2 == EmitBlock(c1, s.finally.list, Append(path, 3), Append(env, FinallyEntry(path)))
      c3 == IF Eval THEN Op(c2, "restore_ret", path) ELSE c2
  IN  Label(Op(IF s.finally = NoBlock THEN c0 ELSE c3, "ret", <<>>), L(path, "end"))

\* the catch block: an exception in it executes the finally block and goes on
CatchBlock(code, s, path, env, e) ==
  LET c1 == Op(Label(Op(code, "enter_scope", <<>>), L(path, "catch")), "assign_catch", path)
      c2 == Op(Goto(c1, "catch", L(path, "catch2")), "enter_scope", <<>>)
      c3 == EmitBlock(c2, s.catch.list, Append(path, 2), Append(env, e))
      c4 == EnterFinally(Op(Op(c3, "leave_scope", <<>>), "leave_scope", <<>>), path)
  IN  Op(Goto(Label(c4, L(path, "catch2")), "gosub", L(path, "finally")), "throw", <<>>)

EmitTry(code, s, path, env) ==
  LET e == [BlockEnv("", NoLabel, NoLabel, 1) EXCEPT !.finally = L(path, "finally")]
      c0 == Goto(SetEvalRetUndefined(code), "catch", L(path, "catch"))
      c1 == EnterFinally(EmitBlock(c0, s.block.list, Append(path, 1), Append(env, e)), path)
      rethrow(c) == Op(Goto(Label(c, L(path, "catch")), "gosub", L(path, "finally")), "throw", <<>>)
  IN  EmitFinally(IF s.catch = NoBlock THEN rethrow(c1) ELSE CatchBlock(c1, s, path, env, e), s, path, env)

EmitLabelled(code, s, path, env) ==
  IF s.body.k \in Loops THEN Stmt(code, s.body, Append(path, 1), env, s.label)
  ELSE Label(Stmt(code, s.body, Append(path, 1),
                  Append(env, BlockEnv(s.label, L(path, "break"), NoLabel, 0)), ""), L(path, "break"))

EmitExpr(code, path) == Op(Op(code, "expr", path), IF Eval THEN "put_ret" ELSE "drop", <<>>)

Stmt(code, s, path, env, name) ==
  CASE s.k = "none" -> code
    [] s.k = "expr" -> EmitExpr(code, path)
    [] s.k = "throw" -> Op(Op(code, "expr", path), "throw", <<>>)
    [] s.k = "return" -> EmitReturn(IF s.value THEN Op(code, "expr", path) ELSE code, s.value, env)
    [] s.k = "break" -> EmitBreak(code, s.label, FALSE, env)
    [] s.k = "continue" -> EmitBreak(code, s.label, TRUE, env)
    [] s.k = "block" -> EmitBlock(code, s.list, path, env)
    [] s.k = "if" -> EmitIf(code, s, path, env)
    [] s.k = "while" -> EmitWhile(code, s, path, env, name)
    [] s.k = "do" -> EmitDo(code, s, path, env, name)
    [] s.k = "for" -> EmitFor(code, s, path, env, name)
    [] s.k \in {"forin", "forof"} -> EmitForInOf(code, s, path, env, name)
    [] s.k = "switch" -> EmitSwitch(code, s, path, env, name)
    [] s.k = "try" -> EmitTry(code, s, path, env)
    [] s.k = "label" -> EmitLabelled(code, s, path, env)

Stmts(code, list, path, env) ==
  FoldLeft(LAMBDA c, i : Stmt(c, list[i], Append(path, i), env, ""), code, [i \in DOMAIN list |-> i])

\* the end of a function returns when it is live; a script returns its value
Compile(s) ==
  LET code == Stmt(<<>>, s, <<1>>, <<>>, "")
  IN  IF Eval THEN EmitReturn(Op(code, "get_ret", <<>>), TRUE, <<>>)
      ELSE IF Live(code) THEN EmitReturn(code, FALSE, <<>>)
      ELSE code

\* where a jump goes
Target(code, l) == CHOOSE i \in DOMAIN code : code[i].op = "label" /\ code[i].a = l

-----------------------------------------------------------------------------
(* compute_stack_size.                                                     *)

\* pops and pushes of the opcode table
Popped ==
  [drop |-> 1, if_false |-> 1, if_true |-> 1, put_ret |-> 1, assign |-> 1, assign_catch |-> 1, strict_eq |-> 2, nip |-> 2, dup |-> 1,
   nip_catch |-> 2, iterator_close |-> 3, for_of_start |-> 1, for_in_start |-> 1, for_of_next |-> 3,
   for_in_next |-> 1, rot3r |-> 3, throw |-> 1, return |-> 1, ret |-> 1]
Pushed ==
  [expr |-> 1, cond |-> 1, undefined |-> 1, get_ret |-> 1, strict_eq |-> 1, nip |-> 1, nip_catch |-> 1, dup |-> 2,
   for_of_start |-> 3, for_in_start |-> 1, for_of_next |-> 5, for_in_next |-> 3, rot3r |-> 3, catch |-> 1]
In(f, o) == IF o \in DOMAIN f THEN f[o] ELSE 0

\* the catch that is innermost after an instruction removed what lies at a depth
Uncaught(code, tab, catch, depth) ==
  IF catch = 0 THEN 0
  ELSE LET l == tab[catch].level + (IF code[catch].op = "catch" THEN 0 ELSE 1)
       IN  IF depth = l THEN tab[catch].catch ELSE catch

\* the places reached from i; what is known there: the depth, the index of the innermost catch or 0
Successors(code, tab, i) ==
  LET o == code[i].op
      here == tab[i]
      n == here.level + In(Pushed, o) - In(Popped, o)
      catch == CASE o \in {"catch", "for_of_start"} -> i
                 [] o = "drop" -> Uncaught(code, tab, here.catch, n)
                 [] o = "nip" -> Uncaught(code, tab, here.catch, n - 1)
                 [] o = "iterator_close" -> Uncaught(code, tab, here.catch, n + 2)
                 [] OTHER -> here.catch
      left == here.catch
      leave == [level |-> tab[left].level + (IF code[left].op = "catch" THEN 0 ELSE 1) + 1, catch |-> tab[left].catch]
      to(l, level, c) == {<<Target(code, l), [level |-> level, catch |-> c]>>}
      fall == {<<i + 1, [level |-> n, catch |-> catch]>>}
  IN  CASE o \in Dead \ {"goto"} -> {}
        [] o = "goto" -> to(code[i].a, n, catch)
        [] o \in {"if_false", "if_true"} -> fall \cup to(code[i].a, n, catch)
        [] o = "gosub" -> fall \cup to(code[i].a, n + 1, catch)
        [] o = "catch" -> fall \cup to(code[i].a, n, here.catch)
        [] o = "nip_catch" -> {<<i + 1, leave>>}
        [] OTHER -> fall

Unknown == [level |-> -1, catch |-> -1]
Inconsistent == <<>>

RECURSIVE Explore(_, _, _)
Explore(code, tab, queue) ==
  IF queue = <<>> THEN tab
  ELSE LET next == Successors(code, tab, Head(queue))
           new == {x \in next : tab[x[1]] = Unknown}
           table == [i \in DOMAIN code |->
                       IF \E x \in new : x[1] = i THEN (CHOOSE x \in new : x[1] = i)[2] ELSE tab[i]]
       IN  IF \E x \in next : table[x[1]] # x[2] \/ x[2].level < 0 THEN Inconsistent
           ELSE Explore(code, table, Tail(queue) \o SetToSeq({x[1] : x \in new}))

\* the tables stack_level_tab and catch_pos_tab, or nothing when the code is refused
StackLevels(code) ==
  Explore(code, [i \in DOMAIN code |-> IF i = 1 THEN [level |-> 0, catch |-> 0] ELSE Unknown], <<1>>)

-----------------------------------------------------------------------------
(* Families of statements, for model checking: nested around the statements *)
(* that leave others.                                                       *)

\* a statement followed by one that has a value
Then(s) == Block(<<s, Expr>>)

\* statements around one
Around(s) ==
  { If(s, NoBlock), If(Expr, s), While(s), DoWhile(s), For(TRUE, TRUE, s), For(TRUE, FALSE, s), For(FALSE, TRUE, s),
    ForIn(s), ForOf(s), Labelled("a", s), Then(s), Block(<<Expr, s>>),
    Switch(<<Case(<<s>>), Default(<<>>), Case(<<Expr>>)>>), Switch(<<Case(<<>>), Case(<<s>>), Case(<<>>)>>),
    Switch(<<Default(<<s>>), Case(<<>>), Case(<<Expr>>)>>),
    Try(Block(<<s>>), Block(<<Expr>>), NoBlock), Try(Block(<<Expr>>), Block(<<s>>), NoBlock),
    Try(Block(<<s>>), NoBlock, Block(<<Expr>>)), Try(Block(<<Expr>>), NoBlock, Block(<<s>>)),
    Try(Block(<<Expr>>), Block(<<s>>), Block(<<Expr>>)) }

\* the ones that keep something on the stack
Deep(s) ==
  { ForOf(s), ForIn(s), Labelled("a", ForOf(s)), Try(Block(<<s>>), NoBlock, Block(<<Expr>>)),
    Try(Block(<<Expr>>), NoBlock, Block(<<s>>)), Try(Block(<<Expr>>), Block(<<s>>), Block(<<Expr>>)) }

ScriptLeaves == {Expr, Throw, Break(""), Continue(""), Break("a"), Continue("a")}
FunctionLeaves == ScriptLeaves \cup {Return(TRUE), Return(FALSE)}

RECURSIVE Valid(_, _, _, _, _)

\* jumps have a target: where a break or a continue without a label may stand,
\* the labels around a statement and those of loops. A break without a label in
\* a labelled statement, which leaves only that, is left out.
Valid(s, brk, cont, labels, loops) ==
  LET sub(x) == Valid(x, brk, cont, labels, loops)
      subs(list) == \A i \in DOMAIN list : sub(list[i])
  IN  CASE s.k = "break" -> IF s.label = "" THEN brk ELSE s.label \in labels
        [] s.k = "continue" -> IF s.label = "" THEN cont ELSE s.label \in loops
        [] s.k = "block" -> subs(s.list)
        [] s.k = "if" -> sub(s.then) /\ sub(s.else)
        [] s.k \in Loops -> Valid(s.body, TRUE, TRUE, labels, loops)
        [] s.k = "label" ->
             /\ s.label \notin labels
             /\ IF s.body.k \in Loops THEN Valid(s.body.body, TRUE, TRUE, labels \cup {s.label}, loops \cup {s.label})
                ELSE Valid(s.body, FALSE, cont, labels \cup {s.label}, loops)
        [] s.k = "switch" -> \A i \in DOMAIN s.clauses : \A j \in DOMAIN s.clauses[i].list :
                               Valid(s.clauses[i].list[j], TRUE, cont, labels, loops)
        [] s.k = "try" -> /\ subs(s.block.list)
                          /\ (s.catch # NoBlock => subs(s.catch.list))
                          /\ (s.finally # NoBlock => subs(s.finally.list))
        [] OTHER -> TRUE

Proper(S) == {s \in S : Valid(s, FALSE, FALSE, {}, {})}

Once(S) == UNION {Around(s) : s \in S}
Stacked(S) == UNION {Deep(s) : s \in S}
Nested(S) == Once(S) \cup Once(Once(S))
Layered(S) == Stacked(Stacked(Stacked(S \ {Expr, Return(FALSE), Break("")})))

\* the block, the handler and the finally block each leave the loops, or do not
Contests(S) ==
  {Labelled("a", ForOf(ForIn(Block(<<Try(Block(<<s>>), Block(<<h>>), Block(<<f>>)), Expr>>)))) :
      s \in S \ {Return(FALSE)}, h \in S \ {Return(FALSE)}, f \in S \ {Return(FALSE)}}

\* a function's statements have no value: what leaves them matters; a script's
\* value passes through every statement
Functions == Proper(Nested({Return(TRUE), Throw, Continue(""), Break("a")}) \cup Layered(FunctionLeaves) \cup Contests(FunctionLeaves))
Scripts == Proper(Nested({Expr, Throw, Break(""), Continue("a")}) \cup Layered({Throw, Break("a")}) \cup Contests({Expr, Throw, Break("a")}))
=============================================================================
