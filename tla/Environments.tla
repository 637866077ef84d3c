---------------------------- MODULE Environments ----------------------------
(***************************************************************************)
(* Programs that declare variables and close over them, and what the       *)
(* ECMAScript language gives them for a meaning: declarations make         *)
(* bindings in environments, a block, a call and every iteration of a loop *)
(* have environments of their own, and a function keeps the one it is      *)
(* created in. A program prints values and keeps functions, which are      *)
(* called when it ends. Nothing here is taken from an implementation.      *)
(***************************************************************************)
EXTENDS Integers, Sequences, SequencesExt, FiniteSets

CONSTANT MaxDepth   \* of nested calls: one more throws

ASSUME DepthAssumption == MaxDepth \in Nat \ {0}

\* expressions
NoExp == [k |-> "none"]
Num(n) == [k |-> "num", n |-> n]
Ref(x) == [k |-> "ref", x |-> x]
Fun(f) == [k |-> "fun", f |-> f]

\* a function: name ("" if it has none), parameters with their initializers, body
Code(name, params, body) == [name |-> name, params |-> params, body |-> body]
Param(x, e) == [x |-> x, e |-> e]

\* statements
Var(x, e) == [k |-> "var", x |-> x, e |-> e]
Let(x, e) == [k |-> "let", x |-> x, e |-> e]
Const(x, e) == [k |-> "const", x |-> x, e |-> e]
Set(x, e) == [k |-> "set", x |-> x, e |-> e]
Log(x) == [k |-> "log", x |-> x]
Keep(e) == [k |-> "keep", e |-> e]
Call(x, e) == [k |-> "call", x |-> x, e |-> e]
Throw(e) == [k |-> "throw", e |-> e]
Continue == [k |-> "continue"]
Block(list) == [k |-> "block", list |-> list]
Function(f) == [k |-> "function", f |-> f]
Try(list, x, handler) == [k |-> "try", list |-> list, x |-> x, handler |-> handler]
\* for (decl x = 0; x < 2; x++) { list } and for (decl x of [1, 2]) { list }
For(decl, x, list) == [k |-> "for", decl |-> decl, x |-> x, list |-> list]
ForOf(decl, x, list) == [k |-> "forof", decl |-> decl, x |-> x, list |-> list]

\* values
Number(n) == [t |-> "int", n |-> n]
Undefined == [t |-> "undefined"]
Uninitialized == [t |-> "uninitialized"]
SyntaxError == [t |-> "syntax"]
Error == [t |-> "error"]   \* a ReferenceError, a TypeError or a RangeError

-----------------------------------------------------------------------------
(* Names.                                                                  *)

Items(list) == {list[i] : i \in DOMAIN list}
ParamNames(f) == {p.x : p \in Items(f.params)}
HasExpressions(f) == \E p \in Items(f.params) : p.e # NoExp

LexNames(list) == {s.x : s \in {t \in Items(list) : t.k \in {"let", "const"}}}
FunNames(list) == {s.f.name : s \in {t \in Items(list) : t.k = "function"}}
BlockNames(list) == LexNames(list) \cup FunNames(list)

\* the statements nested in one, as lists
Nested(s) ==
  CASE s.k \in {"block", "for", "forof"} -> <<s.list>>
    [] s.k = "try" -> <<s.list, s.handler>>
    [] OTHER -> <<>>

HeadLet(s) == IF s.k \in {"for", "forof"} /\ s.decl # "var" THEN {s.x} ELSE {}

RECURSIVE VarNames(_), Hoisted(_, _)

\* VarDeclaredNames
VarNames(list) ==
  UNION {(IF s.k = "var" \/ (s.k \in {"for", "forof"} /\ s.decl = "var") THEN {s.x} ELSE {})
           \cup UNION {VarNames(l) : l \in Items(Nested(s))} : s \in Items(list)}

\* functions in blocks that have a var binding too (annex B.3.3.1), unless a
\* declaration between the block and the function hides it
Hoisted(list, hidden) ==
  UNION {UNION {(FunNames(l) \ (hidden \cup HeadLet(s)))
                  \cup Hoisted(l, hidden \cup HeadLet(s) \cup BlockNames(l)) : l \in Items(Nested(s))} : s \in Items(list)}

HiddenInBody(f) == ParamNames(f) \cup LexNames(f.body)

Twice(list, P(_)) == \E i, j \in DOMAIN list : i < j /\ P(list[i]) /\ P(list[j]) /\ list[i].x = list[j].x

Declares(s) == s.k \in {"let", "const"}

RECURSIVE EarlyError(_, _), EarlyErrors(_, _)

EarlyErrors(list, strict) ==
  \E s \in Items(list) :
    \/ \E l \in Items(Nested(s)) :
         \/ Twice(l, Declares)
         \/ LexNames(l) \cap FunNames(l) # {}
         \/ BlockNames(l) \cap VarNames(l) # {}
         \/ \E i, j \in DOMAIN l : i # j /\ l[i].k = "function" /\ l[j].k = "function" /\ l[i].f.name = l[j].f.name /\ strict
         \/ EarlyErrors(l, strict)
    \/ s.k \in {"for", "forof"} /\ HeadLet(s) \cap VarNames(s.list) # {}
    \/ s.k = "try" /\ s.x \in BlockNames(s.handler)
    \/ s.k = "function" /\ EarlyError(s.f, strict)
    \/ s.k \in {"var", "let", "const", "set", "keep", "call", "throw"} /\ s.e.k = "fun" /\ EarlyError(s.e.f, strict)

\* a program that does not run
EarlyError(f, strict) ==
  \/ Twice(f.body, Declares)
  \/ LexNames(f.body) \cap (VarNames(f.body) \cup FunNames(f.body) \cup ParamNames(f)) # {}
  \/ (strict \/ HasExpressions(f)) /\ Twice(f.params, LAMBDA p : TRUE)
  \/ \E p \in Items(f.params) : p.e.k = "fun" /\ EarlyError(p.e.f, strict)
  \/ EarlyErrors(f.body, strict)

-----------------------------------------------------------------------------
(* Environments. A state m has the environments, what was printed, the     *)
(* functions kept, the global variables and how the last statement ended.  *)

Binding(kind, v) == [kind |-> kind, v |-> v]
Bindings(names, kind, v) == [x \in names |-> Binding(kind, v)]
Merge(f, g) == [x \in DOMAIN f \cup DOMAIN g |-> IF x \in DOMAIN g THEN g[x] ELSE f[x]]

NewEnv(m, bindings, outer) == [m EXCEPT !.envs = Append(@, [b |-> bindings, outer |-> outer])]
Newest(m) == Len(m.envs)

RECURSIVE Holder(_, _, _)
Holder(m, env, x) == IF env = 0 \/ x \in DOMAIN m.envs[env].b THEN env ELSE Holder(m, m.envs[env].outer, x)

ThrowIn(m, v) == [m EXCEPT !.end = "throw", !.v = v]

GetBinding(m, env, x) ==
  LET h == Holder(m, env, x)
  IN  IF h = 0 THEN IF x \in DOMAIN m.globals THEN [m EXCEPT !.v = m.globals[x]] ELSE ThrowIn(m, Error)
      ELSE LET v == m.envs[h].b[x].v
           IN  IF v = Uninitialized THEN ThrowIn(m, Error) ELSE [m EXCEPT !.v = v]

Initialize(m, env, x, v) == [m EXCEPT !.envs[env].b[x].v = v]

\* SetMutableBinding
SetBinding(m, env, x, v, strict) ==
  LET h == Holder(m, env, x)
      b == m.envs[h].b[x]
  IN  IF h = 0 THEN IF strict /\ x \notin DOMAIN m.globals THEN ThrowIn(m, Error)
                    ELSE [m EXCEPT !.globals = Merge(@, [y \in {x} |-> v])]
      ELSE IF b.v = Uninitialized \/ b.kind = "const" \/ (b.kind = "name" /\ strict) THEN ThrowIn(m, Error)
      ELSE IF b.kind = "name" THEN m
      ELSE Initialize(m, h, x, v)

Closure(f, env) == [t |-> "function", f |-> f, env |-> env]

Evaluate(m, c, e) ==
  CASE e.k = "num" -> [m EXCEPT !.v = Number(e.n)]
    [] e.k = "none" -> [m EXCEPT !.v = Undefined]
    [] e.k = "ref" -> GetBinding(m, c.env, e.x)
    [] e.k = "fun" ->
         IF e.f.name = "" THEN [m EXCEPT !.v = Closure(e.f, c.env)]
         ELSE LET m1 == NewEnv(m, Bindings({e.f.name}, "name", Undefined), c.env)
                  v == Closure(e.f, Newest(m1))
              IN  [Initialize(m1, Newest(m1), e.f.name, v) EXCEPT !.v = v]

LetBindings(list) ==
  Merge(Bindings(LexNames(list), "let", Uninitialized),
        Bindings({s.x : s \in {t \in Items(list) : t.k = "const"}}, "const", Uninitialized))

\* the last function with a name is the one
RECURSIVE Instantiate(_, _, _, _)
Instantiate(m, list, env, scope) ==
  IF list = <<>> THEN m
  ELSE LET s == Head(list)
       IN  Instantiate(IF s.k # "function" THEN m ELSE Initialize(m, env, s.f.name, Closure(s.f, scope)), Tail(list), env, scope)

Shown(v) == IF v.t = "function" THEN [t |-> "function"] ELSE v

-----------------------------------------------------------------------------
(* Execution. A context c has the environments of the statement and of its *)
(* function's variables, the names that keep functions in blocks from      *)
(* having a variable, in and around the block, and whether it is a body.   *)

RECURSIVE Exec(_, _, _), ExecList(_, _, _), Iterate(_, _, _, _), Bind(_, _, _, _)

ExecList(m, c, list) ==
  IF list = <<>> \/ m.end # "normal" THEN m ELSE ExecList(Exec(m, c, Head(list)), c, Tail(list))

ExecBlock(m, c, list) ==
  LET m1 == NewEnv(m, Merge(LetBindings(list), Bindings(FunNames(list), "let", Undefined)), c.env)
      e == Newest(m1)
      c1 == [c EXCEPT !.env = e, !.body = FALSE, !.around = c.hidden, !.hidden = @ \cup BlockNames(list)]
  IN  ExecList(Instantiate(m1, list, e, e), c1, list)

\* the parameters of a call, in order
Bind(m, c, params, args) ==
  IF params = <<>> \/ m.end # "normal" THEN m
  ELSE LET p == Head(params)
           given == IF args = <<>> THEN Undefined ELSE Head(args)
           m1 == IF given = Undefined THEN Evaluate(m, c, p.e) ELSE [m EXCEPT !.v = given]
       IN  Bind(IF m1.end = "normal" THEN Initialize(m1, c.env, p.x, m1.v) ELSE m1, c, Tail(params), IF args = <<>> THEN <<>> ELSE Tail(args))

\* the environment of the variables, when the parameters have expressions
VarEnv(m, f, vars, penv) ==
  LET own(x) == IF x \in ParamNames(f) /\ x \notin FunNames(f.body) THEN m.envs[penv].b[x].v ELSE Undefined
  IN  IF HasExpressions(f) THEN NewEnv(m, [x \in vars |-> Binding("let", own(x))], penv)
      ELSE [m EXCEPT !.envs[penv].b = Merge(Bindings(vars, "let", Undefined), @)]

ExecBody(m, f, venv) ==
  LET c == [env |-> Newest(m), vars |-> venv, hidden |-> HiddenInBody(f), around |-> {}, body |-> TRUE]
  IN  [ExecList([Instantiate(m, f.body, venv, c.env) EXCEPT !.depth = @ + 1], c, f.body) EXCEPT !.depth = @ - 1]

WithLets(m, f) == ExecBody(NewEnv(m, LetBindings(f.body), Newest(m)), f, Newest(m))

\* when the parameters are bound
Instantiated(m, f, penv) ==
  LET vars == VarNames(f.body) \cup FunNames(f.body) \cup (IF m.strict THEN {} ELSE Hoisted(f.body, HiddenInBody(f)))
  IN  IF m.end # "normal" THEN m ELSE WithLets(VarEnv(m, f, vars, penv), f)

\* FunctionDeclarationInstantiation and the body
Invoke(m, fn, args) ==
  LET f == fn.f
      penv == Newest(m) + 1
      bindings == Bindings(ParamNames(f), "let", IF HasExpressions(f) THEN Uninitialized ELSE Undefined)
  IN  IF fn.t # "function" \/ m.depth = MaxDepth THEN ThrowIn(m, Error)
      ELSE Instantiated(Bind(NewEnv(m, bindings, fn.env), [env |-> penv], f.params, args), f, penv)

\* a loop goes on after a continue
Ended(m) == [m EXCEPT !.end = IF @ = "continue" THEN "normal" ELSE @]

CopyEnv(m, env) == NewEnv(m, m.envs[env].b, m.envs[env].outer)

\* an iteration of for (let x = 0; x < 2; x++): the increment, the test and the
\* body, with a copy of the variable for each
Increment(m, env, x) == SetBinding(m, env, x, Number(GetBinding(m, env, x).v.n + 1), TRUE)
GoOn(m, c, s) == IF m.end # "normal" THEN m ELSE Iterate(m, c, s, FALSE)
Test(m, c, s) == IF m.v.n >= 2 THEN m ELSE GoOn(Ended(ExecBlock(m, c, s.list)), c, s)
TestValue(m, c, s) == IF m.end # "normal" THEN m ELSE Test(GetBinding(m, c.env, s.x), c, s)
IterateIn(m, c, s, first) == TestValue(IF first THEN m ELSE Increment(m, c.env, s.x), c, s)

Iterate(m, c, s, first) ==
  IF s.decl = "var" THEN IterateIn(m, c, s, first)
  ELSE IterateIn(CopyEnv(m, c.env), [c EXCEPT !.env = Newest(m) + 1], s, first)

\* an iteration of for (let x of [1, 2])
Each(m, c, s, v) ==
  LET m1 == IF s.decl = "var" THEN SetBinding(m, c.env, s.x, v, TRUE)
            ELSE NewEnv(m, Bindings({s.x}, s.decl, v), c.env)
      c1 == IF s.decl = "var" THEN c ELSE [c EXCEPT !.env = Newest(m1)]
  IN  IF m.end # "normal" THEN m ELSE Ended(ExecBlock(m1, c1, s.list))

Assign(m, P(_, _)) == IF m.end = "normal" THEN P(m, m.v) ELSE m

\* a call, when the function and then the argument are evaluated
CallWith(a, fn, e) == IF a.end # "normal" THEN a ELSE Invoke(a, fn, IF e = NoExp THEN <<>> ELSE <<a.v>>)
CallOf(f, c, e) == IF f.end # "normal" THEN f ELSE CallWith(Evaluate(f, c, e), f.v, e)

\* the catch clause after the block
Handle(m, c, s) == ExecBlock(m, [c EXCEPT !.env = Newest(m)], s.handler)
Catch(m, c, s, depth) ==
  IF m.end # "throw" THEN m
  ELSE Handle(NewEnv([m EXCEPT !.end = "normal", !.depth = depth], Bindings({s.x}, "let", m.v), c.env), c, s)

Exec(m, c, s) ==
  CASE s.k = "var" ->
         IF s.e = NoExp THEN m
         ELSE Assign(Evaluate(m, c, s.e), LAMBDA n, v : SetBinding(n, c.env, s.x, v, m.strict))
    [] s.k \in {"let", "const"} ->
         Assign(Evaluate(m, c, s.e), LAMBDA n, v : Initialize(n, c.env, s.x, v))
    [] s.k = "set" ->
         Assign(Evaluate(m, c, s.e), LAMBDA n, v : SetBinding(n, c.env, s.x, v, m.strict))
    [] s.k = "log" ->
         Assign(GetBinding(m, c.env, s.x), LAMBDA n, v : [n EXCEPT !.out = Append(@, Shown(v))])
    [] s.k = "keep" ->
         Assign(Evaluate(m, c, s.e), LAMBDA n, v : [n EXCEPT !.kept = Append(@, v)])
    [] s.k = "call" -> CallOf(GetBinding(m, c.env, s.x), c, s.e)
    [] s.k = "throw" ->
         Assign(Evaluate(m, c, s.e), ThrowIn)
    [] s.k = "continue" -> [m EXCEPT !.end = "continue"]
    [] s.k = "block" -> ExecBlock(m, c, s.list)
    [] s.k = "function" ->
         IF c.body \/ m.strict \/ s.f.name \in c.around THEN m
         ELSE Initialize(m, c.vars, s.f.name, m.envs[c.env].b[s.f.name].v)
    [] s.k = "try" ->
         Catch(ExecBlock(m, c, s.list), c, s, m.depth)
    [] s.k = "for" ->
         Iterate(IF s.decl = "var" THEN SetBinding(m, c.env, s.x, Number(0), TRUE) ELSE NewEnv(m, Bindings({s.x}, "let", Number(0)), c.env),
                 IF s.decl = "var" THEN c ELSE [c EXCEPT !.env = Newest(m) + 1, !.hidden = @ \cup {s.x}], s, TRUE)
    [] s.k = "forof" ->
         LET c1 == IF s.decl = "var" THEN c ELSE [c EXCEPT !.hidden = @ \cup {s.x}]
         IN  Each(Each(m, c1, s, Number(1)), c1, s, Number(2))

RECURSIVE CallKept(_, _)

\* an exception that nothing catches is printed
Reported(m) == [m EXCEPT !.out = IF m.end = "throw" THEN Append(@, Shown(m.v)) ELSE @, !.depth = 0]

CallKept(m, i) ==
  IF i > Len(m.kept) THEN m ELSE CallKept(Reported(Invoke([m EXCEPT !.end = "normal"], m.kept[i], <<>>)), i + 1)

\* what a program, the body of a function, prints
Meaning(body, strict) ==
  LET m == [envs |-> <<>>, out |-> <<>>, kept |-> <<>>, globals |-> [x \in {} |-> Undefined], end |-> "normal",
            v |-> Undefined, depth |-> 0, strict |-> strict]
      f == Code("", <<>>, body)
  IN  IF EarlyError(f, strict) THEN <<SyntaxError>> ELSE CallKept(Reported(Invoke(m, Closure(f, 0), <<>>)), 1).out
=============================================================================
