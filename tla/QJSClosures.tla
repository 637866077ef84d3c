----------------------------- MODULE QJSClosures -----------------------------
(***************************************************************************)
(* How the parser declares variables in scopes, how resolve_variables      *)
(* turns their names into locals, arguments and references captured from   *)
(* the functions around, and how the interpreter shares, closes and keeps  *)
(* the captured variables. The programs are those of Environments, whose   *)
(* meaning they must have. Indices and scopes count from one.              *)
(***************************************************************************)
EXTENDS Environments, TLC

CONSTANTS Programs,   \* bodies of the function that is called
          Strict      \* whether they are strict code

ASSUME StrictAssumption == Strict \in BOOLEAN

VARIABLES
  program,
  functions,  \* its functions as they are compiled, or nothing when it is refused
  vm          \* the interpreter

vars == <<program, functions, vm>>

-----------------------------------------------------------------------------
(* JSFunctionDef. The variables of a scope are linked, the latest first,   *)
(* then come those of the scopes around.                                   *)

None == 0
ArgScopeEnd == -1
VarScope == 1
ArgScope == 2

\* js_new_function_def
NewDef(f, parent, level, isExpr) ==
  [f |-> f, parent |-> parent, parentScope |-> level, isExpr |-> isExpr, expressions |-> HasExpressions(f),
   vars |-> <<>>, args |-> <<>>, scopes |-> <<[parent |-> None, first |-> None]>>, level |-> VarScope, first |-> None,
   bodyScope |-> None, funcVar |-> None, code |-> <<>>, closure |-> <<>>, children |-> <<>>]

VarDef(x) ==
  [name |-> x, kind |-> "normal", lexical |-> FALSE, const |-> FALSE, scope |-> VarScope, next |-> None, pool |-> None, captured |-> FALSE]

\* the parser: all functions, the current one, labels, and whether it failed
Cur(p) == p.defs[p.cur]
WithCur(p, d) == [p EXCEPT !.defs[p.cur] = d]
Emit(p, o, a, b) == [p EXCEPT !.defs[p.cur].code = Append(@, [op |-> o, a |-> a, b |-> b])]
NewLabels(p, n) == [p EXCEPT !.labels = @ + n]
Failed(p) == [p EXCEPT !.failed = TRUE]

RECURSIVE FindInChain(_, _, _), FindLexicalDecl(_, _, _, _), IsChildScope(_, _, _), FirstLexicalVar(_, _)

\* the first variable from i on with a name
FindInChain(d, x, i) == IF i <= None \/ d.vars[i].name = x THEN i ELSE FindInChain(d, x, d.vars[i].next)

\* arguments are numbered behind the variables
ArgOffset == 100
IsArg(i) == i > ArgOffset

LastWith(list, P(_)) ==
  IF \E i \in DOMAIN list : P(list[i]) THEN CHOOSE i \in DOMAIN list : P(list[i]) /\ \A j \in DOMAIN list : P(list[j]) => j <= i
  ELSE None

FindArg(d, x) ==
  LET i == LastWith(d.args, LAMBDA a : a.name = x)
  IN  IF i = None THEN None ELSE i + ArgOffset

FindVar(d, x) ==
  LET i == LastWith(d.vars, LAMBDA v : v.name = x /\ v.scope = VarScope)
  IN  IF i = None THEN FindArg(d, x) ELSE i

IsChildScope(d, scope, parent) ==
  scope # None /\ (scope = parent \/ IsChildScope(d, d.scopes[scope].parent, parent))

\* a 'var' in the scope or a child of it: where it was declared first is its next
FindVarInChildScope(d, x, scope) ==
  \E i \in DOMAIN d.vars : d.vars[i].name = x /\ d.vars[i].scope = VarScope /\ IsChildScope(d, d.vars[i].next, scope)

FindLexicalDecl(d, x, i, checkCatch) ==
  IF i <= None \/ (d.vars[i].name = x /\ (d.vars[i].lexical \/ (d.vars[i].kind = "catch" /\ checkCatch))) THEN i
  ELSE FindLexicalDecl(d, x, d.vars[i].next, checkCatch)

PushScope(p) ==
  LET d == Cur(p)
      n == Len(d.scopes) + 1
  IN  Emit(WithCur(p, [d EXCEPT !.scopes = Append(@, [parent |-> d.level, first |-> d.first]), !.level = n]), "enter_scope", n, 0)

FirstLexicalVar(d, scope) ==
  IF scope = None THEN None
  ELSE IF d.scopes[scope].first > None THEN d.scopes[scope].first ELSE FirstLexicalVar(d, d.scopes[scope].parent)

PopScope(p) ==
  LET p1 == Emit(p, "leave_scope", Cur(p).level, 0)
      d == Cur(p1)
      up == d.scopes[d.level].parent
  IN  WithCur(p1, [d EXCEPT !.level = up, !.first = FirstLexicalVar(d, up)])

RECURSIVE CloseScopes(_, _, _)
CloseScopes(p, scope, stop) ==
  IF scope <= stop THEN p ELSE CloseScopes(Emit(p, "leave_scope", scope, 0), Cur(p).scopes[scope].parent, stop)

\* add_var: the variable is the last one
AddVar(d, x) == [d EXCEPT !.vars = Append(@, VarDef(x))]

AddScopeVar(d, x, kind) ==
  LET n == Len(d.vars) + 1
      v == [VarDef(x) EXCEPT !.kind = kind, !.scope = d.level, !.next = d.first, !.lexical = kind # "catch"]
  IN  [d EXCEPT !.vars = Append(@, v), !.scopes[d.level].first = n, !.first = n]

\* define_var, the lexical declarations that are errors
Redefines(d, x, type) ==
  LET i == FindLexicalDecl(d, x, d.first, TRUE)
  IN  \/ i > None /\ IF d.vars[i].scope = d.level THEN Strict \/ type # "function" \/ d.vars[i].kind # "function"
                     ELSE d.vars[i].kind = "catch" /\ d.vars[i].scope + 2 = d.level
      \/ type # "function" /\ d.level = d.bodyScope /\ FindArg(d, x) # None
      \/ FindVarInChildScope(d, x, d.level)

\* define_var: let, const and functions in blocks
DefineLexical(p, x, type) ==
  LET d == AddScopeVar(Cur(p), x, IF type = "function" THEN type ELSE "normal")
  IN  IF Redefines(Cur(p), x, type) THEN Failed(p)
      ELSE WithCur(p, [d EXCEPT !.vars[Len(d.vars)].const = type = "const"])

\* define_var: var
DefineVar(p, x) ==
  LET d == Cur(p)
  IN  IF FindLexicalDecl(d, x, d.first, FALSE) > None THEN Failed(p)
      ELSE IF FindVar(d, x) # None THEN p
      ELSE WithCur(p, [d EXCEPT !.vars = Append(@, [VarDef(x) EXCEPT !.next = d.level])])

Define(p, decl, x) == IF decl = "var" THEN DefineVar(p, x) ELSE DefineLexical(p, x, decl)

-----------------------------------------------------------------------------
(* The parser. Loops that a continue may leave for are kept with the scope *)
(* to close to.                                                            *)

RECURSIVE Stmt(_, _, _), Stmts(_, _, _), FunctionDecl(_, _, _), Params(_, _)

\* instructions that name a variable, from the scope the parser is in
GetVar(p, x) == Emit(p, "scope_get_var", x, Cur(p).level)
Put(p, x) == Emit(p, "scope_put_var", x, Cur(p).level)
PutInit(p, x) == Emit(p, "scope_put_var_init", x, Cur(p).level)
Declare(p, decl, x) == IF decl = "var" THEN Put(p, x) ELSE PutInit(p, x)
MakeRef(p, x, l) == Emit(p, "scope_make_ref", x, <<Cur(p).level, l>>)

\* instructions and labels without a second operand
Emit1(p, o, a) == Emit(p, o, a, 0)
LabelGoto(p, l, to) == Emit1(Emit1(p, "goto", to), "label", l)

\* expressions, except assignments
Expression(p, e) ==
  CASE e.k = "num" -> Emit(p, "push", Number(e.n), 0)
    [] e.k = "none" -> Emit(p, "push", Undefined, 0)
    [] e.k = "ref" -> GetVar(p, e.x)
    [] e.k = "fun" -> FunctionDecl(p, e.f, "expr")

\* x = e: the reference is made first (get_lvalue, put_lvalue)
Assignment(p, x, e) ==
  LET l == p.labels + 1
  IN  Emit(Expression(MakeRef(NewLabels(p, 1), x, l), e), "put_ref_value", x, l)

\* js_parse_var, when the name is defined
Initialized(p, s) ==
  IF s.k # "var" THEN PutInit(Expression(p, s.e), s.x)
  ELSE IF s.e = NoExp THEN p ELSE Assignment(p, s.x, s.e)

ParseVar(p, s) == Initialized(Define(p, s.k, s.x), s)

ParseBlock(p, list, loops) == IF list = <<>> THEN p ELSE PopScope(Stmts(PushScope(p), list, loops))

CloseTo(p, scope) == CloseScopes(p, Cur(p).level, scope)

\* emit_break for a continue
EmitContinue(p, loops) == Emit1(CloseTo(p, Last(loops).scope), "goto", Last(loops).label)

\* the for statement, from label l on: the declaration and the test, the body,
\* and the increment, which is moved behind the body
ForTest(p, s, l, outer) ==
  LET first == [k |-> s.decl, x |-> s.x, e |-> Num(0)]
  IN  Emit1(Emit1(GetVar(Emit1(CloseTo(ParseVar(PushScope(p), first), outer), "label", l + 1), s.x), "below", 2), "if_false", l + 2)

ForBody(p, s, l, loops) == ParseBlock(p, s.list, Append(loops, [label |-> l + 3, scope |-> Cur(p).level]))

ForStep(p, x, l) ==
  Emit(Emit1(Emit(MakeRef(Emit1(p, "label", l + 3), x, l + 1), "get_ref_value", x, Cur(p).level), "inc", 0), "put_ref_value", x, l + 1)

ParseFor(p, s, loops) ==
  LET outer == Cur(p).level
      l == p.labels
  IN  PopScope(LabelGoto(ForStep(CloseTo(ForBody(ForTest(NewLabels(p, 3), s, l, outer), s, l, loops), outer), s.x, l), l + 2, l + 1))

\* js_parse_for_in_of: the assignment to the variable is moved behind the expression
ForOfStart(p, s, l, outer) ==
  Declare(LabelGoto(Emit1(CloseTo(Define(PushScope(p), s.decl, s.x), outer), "for_of_start", <<Number(1), Number(2)>>), l + 1, l + 2), s.decl, s.x)

ParseForOf(p, s, loops) ==
  LET outer == Cur(p).level
      l == p.labels
      entry == [label |-> l + 2, scope |-> outer]
      Next1(q) == Emit1(Emit1(Emit1(q, "label", l + 2), "for_of_next", 0), "if_false", l + 1)
      Closed(q) == Emit1(Emit1(q, "drop", 0), "iterator_close", 0)
  IN  PopScope(Closed(Next1(CloseTo(ParseBlock(ForOfStart(NewLabels(p, 2), s, l, outer), s.list, Append(loops, entry)), outer))))

\* the catch clause: its variable has a scope, and so has what is around the block
CatchVar(p, x) == Put(WithCur(p, AddScopeVar(Cur(p), x, "catch")), x)
Handler(p, s, l, loops) ==
  PopScope(PopScope(ParseBlock(PushScope(Emit1(CatchVar(Emit1(PushScope(p), "label", l + 1), s.x), "catch", l + 2)), s.handler, loops)))

\* the try statement, without a finally block: no gosub is left to one
ParseTry(p, s, loops) ==
  LET l == p.labels
      Leave(q) == Emit1(Emit1(q, "drop", 0), "goto", l + 3)
      tried == ParseBlock(Emit1(NewLabels(p, 3), "catch", l + 1), s.list, loops)
  IN  Emit1(Emit1(Emit1(Leave(Handler(Leave(tried), s, l, loops)), "label", l + 2), "throw", 0), "label", l + 3)

\* js_parse_source_element and js_parse_statement_or_decl
Stmt(p, s, loops) ==
  CASE s.k \in {"var", "let", "const"} -> ParseVar(p, s)
    [] s.k = "set" -> Assignment(p, s.x, s.e)
    [] s.k = "log" -> Emit1(GetVar(p, s.x), "log", 0)
    [] s.k \in {"keep", "throw"} -> Emit1(Expression(p, s.e), s.k, 0)
    [] s.k = "call" /\ s.e = NoExp -> Emit1(GetVar(p, s.x), "call", 0)
    [] s.k = "call" /\ s.e # NoExp -> Emit1(Expression(GetVar(p, s.x), s.e), "call", 1)
    [] s.k = "continue" -> EmitContinue(p, loops)
    [] s.k = "block" -> ParseBlock(p, s.list, loops)
    [] s.k = "function" -> FunctionDecl(p, s.f, IF Cur(p).level = Cur(p).bodyScope THEN "statement" ELSE "var")
    [] s.k = "try" -> ParseTry(p, s, loops)
    [] s.k = "for" -> ParseFor(p, s, loops)
    [] s.k = "forof" -> ParseForOf(p, s, loops)

Stmts(p, list, loops) == IF list = <<>> \/ p.failed THEN p ELSE Stmts(Stmt(p, Head(list), loops), Tail(list), loops)

\* js_parse_check_duplicate_parameter
DuplicateParameter(d, x) == \E v \in Items(d.args) \cup Items(d.vars) : v.name = x

\* a parameter is an argument and, when there are expressions, a variable
AddParam(p, x) ==
  IF ~Cur(p).expressions THEN p
  ELSE IF DuplicateParameter(Cur(p), x) THEN Failed(p) ELSE DefineLexical(p, x, "let")

AddArg(p, x) ==
  IF p.failed THEN p ELSE WithCur(p, [Cur(p) EXCEPT !.args = Append(@, [name |-> x, pool |-> None, captured |-> FALSE])])

\* the argument, or the expression when it is undefined
ArgOr(p, n, e, l) ==
  Emit1(Emit1(Emit1(Expression(
    Emit1(Emit1(Emit1(Emit1(Emit1(NewLabels(p, 1), "get_arg", n), "dup", 0), "is_undefined", 0), "if_false", l), "drop", 0), e),
    "dup", 0), "put_arg", n), "label", l)

ParamValue(p, x, e) ==
  LET n == Len(Cur(p).args)
  IN  IF p.failed \/ ~Cur(p).expressions THEN p
      ELSE PutInit(IF e = NoExp THEN Emit1(p, "get_arg", n) ELSE ArgOr(p, n, e, p.labels + 1), x)

\* the parameters of js_parse_function_decl2
Params(p, params) ==
  LET x == Head(params).x
  IN  IF params = <<>> \/ p.failed THEN p
      ELSE Params(ParamValue(AddArg(AddParam(p, x), x), x, Head(params).e), Tail(params))

\* js_parse_function_check_names
DuplicateNames(d) == (Strict \/ d.expressions) /\ \E i, j \in DOMAIN d.args : i < j /\ d.args[i].name = d.args[j].name

\* the scope of the parameters has no parent
EnterParams(p) == IF Cur(p).expressions THEN PushScope(WithCur(p, [Cur(p) EXCEPT !.level = None])) ELSE p

LeaveParams(p) ==
  IF ~Cur(p).expressions THEN p
  ELSE Emit1(WithCur(p, [Cur(p) EXCEPT !.level = VarScope, !.first = Cur(p).scopes[VarScope].first]), "leave_scope", Cur(p).level)

EnterBody(p) == LET q == PushScope(p) IN WithCur(q, [Cur(q) EXCEPT !.bodyScope = Cur(q).level])

Statements(p, list) ==
  IF p.failed \/ DuplicateNames(Cur(p)) THEN Failed(p) ELSE Emit1(Stmts(p, list, <<>>), "return", 0)

\* js_parse_function_decl2, from the parameters to the end of the body
FunctionBody(p) ==
  LET f == Cur(p).f IN Statements(EnterBody(LeaveParams(Params(EnterParams(p), f.params))), f.body)

\* a function in a block has a variable of the function too (annex B)
CreatesFuncVar(d, x) ==
  ~Strict /\ FindLexicalDecl(d, x, d.first, FALSE) <= None /\ ~IsArg(FindVar(d, x))

\* a function in a block
DeclareInBlock(p, before, x, n) ==
  LET d == Cur(p)
      d1 == IF CreatesFuncVar(before, x) /\ FindVar(d, x) = None THEN [AddVar(d, x) EXCEPT !.vars[Len(d.vars) + 1].next = VarScope] ELSE d
      p1 == Emit(WithCur(p, d1), "fclosure", n, 0)
      p2 == IF CreatesFuncVar(before, x) THEN Emit(Emit(p1, "dup", 0, 0), "scope_put_var", x, VarScope) ELSE p1
  IN  Emit(p2, "drop", 0, 0)

\* the variable of a function of the body is set when the body is entered
DeclareInBody(p, x, n) ==
  LET p1 == DefineVar(p, x)
      i == FindVar(Cur(p1), x)
  IN  IF p1.failed THEN p1
      ELSE IF IsArg(i) THEN WithCur(p1, [Cur(p1) EXCEPT !.args[i - ArgOffset].pool = n])
      ELSE WithCur(p1, [Cur(p1) EXCEPT !.vars[i].pool = n])

\* js_new_function_def, and what is inside it
Inside(p, f, isExpr) ==
  LET n == Len(p.defs) + 1
      defs == [p.defs EXCEPT ![p.cur].children = Append(@, n)]
  IN  IF p.failed THEN p
      ELSE [FunctionBody([p EXCEPT !.defs = Append(defs, NewDef(f, p.cur, Cur(p).level, isExpr)), !.cur = n]) EXCEPT !.cur = p.cur]

\* the function is made where it stands, or is the value of a variable
Placed(p, before, x, type, n) ==
  LET variable == Len(before.vars) + 1
  IN  IF p.failed THEN p
      ELSE CASE type = "expr" -> Emit1(p, "fclosure", n)
             [] type = "var" -> DeclareInBlock(WithCur(p, [Cur(p) EXCEPT !.vars[variable].pool = n]), before, x, n)
             [] type = "statement" -> DeclareInBody(p, x, n)

\* js_parse_function_decl2
FunctionDecl(p, f, type) ==
  Placed(Inside(IF type = "var" THEN DefineLexical(p, f.name, "function") ELSE p, f, type = "expr"),
         Cur(p), f.name, type, Len(p.defs) + 1)

Parse(body) ==
  FunctionBody([defs |-> <<NewDef(Code("", <<>>, body), None, None, FALSE)>>, cur |-> 1, labels |-> 0, failed |-> FALSE])

-----------------------------------------------------------------------------
(* js_create_function: scopes linked again, then the functions inside, then *)
(* the names of the code.                                                  *)

LastIn(d, scope, below) == LET S == {i \in DOMAIN d.vars : i < below /\ d.vars[i].scope = scope}
                           IN  IF S = {} THEN None ELSE CHOOSE i \in S : \A j \in S : j <= i

RECURSIVE LinkedFirst(_, _)

\* the first variable of a scope, or that of the scope around an empty one
LinkedFirst(d, scope) ==
  LET i == LastIn(d, scope, Len(d.vars) + 1)
  IN  IF i # None THEN i
      ELSE IF scope = ArgScope /\ d.expressions THEN ArgScopeEnd
      ELSE IF scope <= ArgScope THEN None
      ELSE LinkedFirst(d, d.scopes[scope].parent)

\* the variable behind another
LinkedNext(d, i) ==
  LET scope == d.vars[i].scope
      j == LastIn(d, scope, i)
  IN  IF j # None THEN j
      ELSE IF scope = ArgScope /\ d.expressions THEN ArgScopeEnd
      ELSE IF scope <= ArgScope THEN None
      ELSE LinkedFirst(d, d.scopes[scope].parent)

Relinked(d) ==
  [d EXCEPT !.scopes = [s \in DOMAIN @ |-> [@[s] EXCEPT !.first = LinkedFirst(d, s)]],
            !.vars = [i \in DOMAIN @ |-> [@[i] EXCEPT !.next = LinkedNext(d, i)]]]

\* add_func_var: the variable with the function itself
WithFuncVar(d, x) ==
  IF d.funcVar # None THEN d
  ELSE [d EXCEPT !.vars = Append(@, [VarDef(x) EXCEPT !.kind = "name", !.const = Strict]), !.funcVar = Len(d.vars) + 1]

RECURSIVE ClosureVar(_, _, _, _), Capture(_, _, _, _, _), Resolved(_, _, _), ResolvedAll(_, _), Code2(_, _, _, _, _)

\* in a function between, the variable is one of its closure
Inherited(v) == [v EXCEPT !.local = FALSE]

\* get_closure_var2: the variable v of function i, in the closure of function n
\* and of those between
ClosureVar(defs, n, i, v) ==
  LET parent == defs[n].parent
      up == IF parent = i THEN [defs |-> defs, k |-> v.index] ELSE ClosureVar(defs, parent, i, v)
      u == [(IF parent = i THEN v ELSE Inherited(v)) EXCEPT !.index = up.k]
      list == up.defs[n].closure
      same == {k \in DOMAIN list : list[k].index = u.index /\ list[k].arg = u.arg /\ list[k].local = u.local}
  IN  IF same # {} THEN [defs |-> up.defs, k |-> CHOOSE k \in same : \A l \in same : k <= l]
      ELSE [defs |-> [up.defs EXCEPT ![n].closure = Append(@, u)], k |-> Len(list) + 1]

To(t, i, d, v) == [t |-> t, i |-> i, defs |-> d, v |-> v]

Captured(defs, n, i, v) == LET c == ClosureVar(defs, n, i, v) IN To("ref", c.k, c.defs, v)

CapturedArg(defs, n, i, j) ==
  Captured([defs EXCEPT ![i].args[j].captured = TRUE], n, i,
           [local |-> TRUE, arg |-> TRUE, index |-> j, const |-> FALSE, lexical |-> FALSE, kind |-> "normal"])

CapturedVar(defs, n, i, j) ==
  LET w == defs[i].vars[j]
  IN  Captured([defs EXCEPT ![i].vars[j].captured = TRUE], n, i,
               [local |-> TRUE, arg |-> FALSE, index |-> j, const |-> w.const, lexical |-> w.lexical, kind |-> w.kind])

\* a name in the functions around function n, from function i on
Capture(defs, n, i, scope, x) ==
  LET d == defs[i]
      j == FindInChain(d, x, d.scopes[scope].first)
      k == IF j = None THEN FindVar(d, x) ELSE j
  IN  IF i = None THEN To("global", 0, defs, VarDef(x))
      ELSE IF k > None THEN IF IsArg(k) THEN CapturedArg(defs, n, i, k - ArgOffset) ELSE CapturedVar(defs, n, i, k)
      ELSE IF d.isExpr /\ d.f.name = x
      THEN LET ds == [defs EXCEPT ![i] = WithFuncVar(d, x)] IN CapturedVar(ds, n, i, ds[i].funcVar)
      ELSE Capture(defs, n, d.parent, d.parentScope, x)

\* resolve_scope_var: where a name of function n is
Target(defs, n, x, scope) ==
  LET d == defs[n]
      j == FindInChain(d, x, d.scopes[scope].first)
      k == IF j = None THEN FindVar(d, x) ELSE j
      e == WithFuncVar(d, x)
  IN  IF IsArg(k) THEN To("arg", k - ArgOffset, defs, VarDef(x))
      ELSE IF k > None THEN To("loc", k, defs, d.vars[k])
      ELSE IF d.isExpr /\ d.f.name = x THEN To("loc", e.funcVar, [defs EXCEPT ![n] = e], e.vars[e.funcVar])
      ELSE Capture(defs, n, d.parent, d.parentScope, x)

Op(o, a) == [op |-> o, a |-> a, b |-> 0]

\* reads of lexical variables are checked
GetOp(to, x) ==
  CASE to.t = "arg" -> Op("get_arg", to.i)
    [] to.t = "loc" -> Op(IF to.v.lexical THEN "get_loc_check" ELSE "get_loc", to.i)
    [] to.t = "ref" -> Op(IF to.v.lexical THEN "get_var_ref_check" ELSE "get_var_ref", to.i)
    [] to.t = "global" -> Op("get_var", x)

\* and writes, except the one that initializes the variable
PutOp(to, x, init) ==
  CASE to.t = "arg" -> Op("put_arg", to.i)
    [] to.t = "loc" -> Op(IF to.v.lexical /\ ~init THEN "put_loc_check" ELSE "put_loc", to.i)
    [] to.t = "ref" -> Op(IF to.v.lexical /\ ~init THEN "put_var_ref_check" ELSE "put_var_ref", to.i)
    [] to.t = "global" -> Op("put_var", x)

ReadOnly(to) == to.v.const

\* what ends an assignment (optimize_scope_make_ref)
RefEnd(to, x) == IF to.v.kind = "name" THEN Op("drop", 0) ELSE PutOp(to, x, FALSE)

RECURSIVE ScopeVars(_, _, _)

\* the variables of a scope alone
ScopeVars(d, scope, i) == IF i <= None \/ d.vars[i].scope # scope THEN <<>> ELSE <<i>> \o ScopeVars(d, scope, d.vars[i].next)

\* instantiate_hoisted_definitions
Hoisting(d) ==
  LET arg(i) == IF d.args[i].pool = None THEN <<>> ELSE <<Op("fclosure", d.args[i].pool), Op("put_arg", i)>>
      loc(i) == IF d.vars[i].scope # VarScope \/ d.vars[i].pool = None THEN <<>>
                ELSE <<Op("fclosure", d.vars[i].pool), Op("put_loc", i)>>
  IN  FlattenSeq([i \in DOMAIN d.args |-> arg(i)]) \o FlattenSeq([i \in DOMAIN d.vars |-> loc(i)])

Entering(d, scope) ==
  LET S == ScopeVars(d, scope, d.scopes[scope].first)
      enter(i) == IF d.vars[i].kind = "function" THEN <<Op("fclosure", d.vars[i].pool), Op("put_loc", i)>>
                  ELSE <<Op("set_loc_uninitialized", i)>>
  IN  (IF scope = d.bodyScope THEN Hoisting(d) ELSE <<>>) \o FlattenSeq([i \in DOMAIN S |-> enter(S[i])])

\* Fault: no variable is closed
Leaving0(d, scope) == <<>>

Leaving(d, scope) ==
  LET S == SelectSeq(ScopeVars(d, scope, d.scopes[scope].first), LAMBDA i : d.vars[i].captured)
  IN  [i \in DOMAIN S |-> Op("close_loc", S[i])]

\* what an instruction becomes, with the target of the name in it. What ends an
\* assignment depends on what begins it, which is kept by its label.
Rewritten(defs, n, o, to, ends) ==
  LET is(ds, ops) == [defs |-> ds, ops |-> ops, ends |-> ends]
      error == <<Op("throw_error", 0)>>
      check == IF to.t = "global" /\ Strict THEN <<Op("check_var", o.a)>> ELSE <<>>
  IN  CASE o.op \in {"scope_get_var", "get_ref_value"} -> is(to.defs, <<GetOp(to, o.a)>>)
        [] o.op = "scope_put_var" -> is(to.defs, IF ReadOnly(to) THEN error ELSE <<PutOp(to, o.a, FALSE)>>)
        [] o.op = "scope_put_var_init" -> is(to.defs, <<PutOp(to, o.a, TRUE)>>)
        [] o.op = "scope_make_ref" ->
             [defs |-> to.defs, ops |-> IF ReadOnly(to) THEN error ELSE check,
              ends |-> [l \in DOMAIN ends \cup {o.b[2]} |-> IF l = o.b[2] THEN RefEnd(to, o.a) ELSE ends[l]]]
        [] o.op = "put_ref_value" -> is(defs, <<ends[o.b]>>)
        [] o.op = "enter_scope" -> is(defs, Entering(defs[n], o.a))
        [] o.op = "leave_scope" -> is(defs, Leaving(defs[n], o.a))
        [] OTHER -> is(defs, <<o>>)

Following(r, n, i, out) == Code2(r.defs, n, i + 1, r.ends, out \o r.ops)

\* resolve_variables, from instruction i on
Code2(defs, n, i, ends, out) ==
  LET o == defs[n].code[i]
      level == IF o.op = "scope_make_ref" THEN o.b[1] ELSE o.b
  IN  IF i > Len(defs[n].code) THEN [defs EXCEPT ![n].code = out]
      ELSE Following(Rewritten(defs, n, o, Target(defs, n, o.a, level), ends), n, i, out)

\* the start of a function (resolve_labels)
Prologue(d) ==
  IF d.funcVar = None THEN d ELSE [d EXCEPT !.code = <<Op("this_func", 0), Op("put_loc", d.funcVar)>> \o @]

ResolvedAll(defs, list) == IF list = <<>> THEN defs ELSE ResolvedAll(Resolved(defs, Head(list), 1), Tail(list))

\* js_create_function
Resolved(defs, n, first) ==
  LET d1 == [defs EXCEPT ![n] = Relinked(defs[n])]
      d2 == Code2(ResolvedAll(d1, d1[n].children), n, first, <<>>, <<>>)
  IN  [d2 EXCEPT ![n] = Prologue(d2[n])]

Compile(body) == LET p == Parse(body) IN IF p.failed THEN <<>> ELSE Resolved(p.defs, 1, 1)

-----------------------------------------------------------------------------
(* The interpreter. A reference to a variable of a frame is open; a        *)
(* detached one has the value.                                             *)
Top(m) == Last(m.frames)
WithTop(m, fr) == [m EXCEPT !.frames[Len(m.frames)] = fr]

NewFrame(fn, args) ==
  LET d == functions[fn.def]
  IN  [fn |-> fn, pc |-> 1, stack |-> <<>>, open |-> <<>>, vars |-> [i \in DOMAIN d.vars |-> Undefined],
       args |-> [i \in DOMAIN d.args |-> IF i \in DOMAIN args THEN args[i] ELSE Undefined]]

Slot(m, r) == LET fr == m.frames[r.frame] IN IF r.arg THEN fr.args[r.index] ELSE fr.vars[r.index]
Value(m, r) == IF m.refs[r].detached THEN m.refs[r].v ELSE Slot(m, m.refs[r])

SetValue(m, r, v) ==
  LET ref == m.refs[r]
  IN  IF ref.detached THEN [m EXCEPT !.refs[r].v = v]
      ELSE IF ref.arg THEN [m EXCEPT !.frames[ref.frame].args[ref.index] = v]
      ELSE [m EXCEPT !.frames[ref.frame].vars[ref.index] = v]

\* get_var_ref: the open reference to a variable
OpenRef(m, index, arg) ==
  LET S == {r \in Items(Top(m).open) : m.refs[r].index = index /\ m.refs[r].arg = arg}
  IN  IF S = {} THEN None ELSE CHOOSE r \in S : TRUE

RECURSIVE MakeRefs(_, _, _)

\* js_closure2, for the closure variables from i on
MakeRefs(m, closure, refs) ==
  IF Len(refs) = Len(closure) THEN [m |-> m, refs |-> refs]
  ELSE LET v == closure[Len(refs) + 1]
           r == OpenRef(m, v.index, v.arg)
           n == Len(m.refs) + 1
           new == [detached |-> FALSE, frame |-> Len(m.frames), index |-> v.index, arg |-> v.arg, v |-> Undefined]
           m1 == [m EXCEPT !.refs = Append(@, new), !.frames[Len(m.frames)].open = Append(@, n)]
       IN  IF ~v.local THEN MakeRefs(m, closure, Append(refs, Top(m).fn.refs[v.index]))
           ELSE IF r # None THEN MakeRefs(m, closure, Append(refs, r))
           ELSE MakeRefs(m1, closure, Append(refs, n))

Push(m, v) == WithTop(m, [Top(m) EXCEPT !.stack = Append(@, v), !.pc = @ + 1])
Pop(m) == WithTop(m, [Top(m) EXCEPT !.stack = Front(@), !.pc = @ + 1])
Skip(m) == WithTop(m, [Top(m) EXCEPT !.pc = @ + 1])
Tos(m) == Last(Top(m).stack)

\* js_closure
MakeClosure(m, n) ==
  LET c == MakeRefs(m, functions[n].closure, <<>>)
  IN  Push(c.m, [t |-> "function", def |-> n, refs |-> c.refs])

Detach(m, S) == [m EXCEPT !.refs = [r \in DOMAIN @ |-> IF r \in S THEN [@[r] EXCEPT !.detached = TRUE, !.v = Slot(m, m.refs[r])] ELSE @[r]]]

\* close_lexical_var
CloseLoc(m, index) ==
  LET S == {r \in Items(Top(m).open) : m.refs[r].index = index /\ ~m.refs[r].arg}
      m1 == Detach(m, S)
  IN  Skip(WithTop(m1, [Top(m1) EXCEPT !.open = SelectSeq(@, LAMBDA r : r \notin S)]))

\* close_var_refs
CloseVarRefs(m) == Detach(m, Items(Top(m).open))

LabelAt(m, l) == LET code == functions[Top(m).fn.def].code IN CHOOSE i \in DOMAIN code : code[i].op = "label" /\ code[i].a = l
Goto(m, l) == WithTop(m, [Top(m) EXCEPT !.pc = LabelAt(m, l)])

Return(m) == [CloseVarRefs(m) EXCEPT !.frames = Front(@)]

RECURSIVE Raise(_, _)

\* an exception goes to the innermost catch offset, through frames without one
Raise(m, v) ==
  LET fr == Top(m)
      C == {i \in DOMAIN fr.stack : fr.stack[i].t = "catch"}
      c == CHOOSE i \in C : \A j \in C : j <= i
  IN  IF m.frames = <<>> THEN [m EXCEPT !.out = Append(@, Shown(v))]
      ELSE IF C = {} THEN Raise(Return(m), v)
      ELSE Goto(WithTop(m, [fr EXCEPT !.stack = Append(SubSeq(@, 1, c - 1), v)]), fr.stack[c].l)

\* JS_CallInternal
Enter(m, fn, args) ==
  IF fn.t # "function" \/ Len(m.frames) = MaxDepth THEN Raise(m, Error)
  ELSE [m EXCEPT !.frames = Append(@, NewFrame(fn, args))]

CallOp(m, argc) ==
  LET s == Top(m).stack
      n == Len(s) - argc
      m1 == WithTop(m, [Top(m) EXCEPT !.stack = SubSeq(s, 1, n - 1), !.pc = @ + 1])
  IN  Enter(m1, s[n], SubSeq(s, n + 1, Len(s)))

Checked(m, v, n) == IF v = Uninitialized THEN Raise(m, Error) ELSE n

Execute(m, o) ==
  LET fr == Top(m)
      refs == fr.fn.refs
  IN  CASE o.op \in {"push"} -> Push(m, o.a)
        [] o.op = "drop" -> Pop(m)
        [] o.op = "dup" -> Push(m, Tos(m))
        [] o.op = "is_undefined" -> WithTop(m, [fr EXCEPT !.stack = Append(Front(@), Number(IF Tos(m) = Undefined THEN 1 ELSE 0)), !.pc = @ + 1])
        [] o.op = "below" -> WithTop(m, [fr EXCEPT !.stack = Append(Front(@), Number(IF Tos(m).n < o.a THEN 1 ELSE 0)), !.pc = @ + 1])
        [] o.op = "inc" -> WithTop(m, [fr EXCEPT !.stack = Append(Front(@), Number(Tos(m).n + 1)), !.pc = @ + 1])
        [] o.op = "get_loc" -> Push(m, fr.vars[o.a])
        [] o.op = "get_loc_check" -> Checked(m, fr.vars[o.a], Push(m, fr.vars[o.a]))
        [] o.op = "put_loc" -> Pop(WithTop(m, [fr EXCEPT !.vars[o.a] = Tos(m)]))
        [] o.op = "put_loc_check" -> Checked(m, fr.vars[o.a], Pop(WithTop(m, [fr EXCEPT !.vars[o.a] = Tos(m)])))
        [] o.op = "set_loc_uninitialized" -> Skip(WithTop(m, [fr EXCEPT !.vars[o.a] = Uninitialized]))
        [] o.op = "get_arg" -> Push(m, fr.args[o.a])
        [] o.op = "put_arg" -> Pop(WithTop(m, [fr EXCEPT !.args[o.a] = Tos(m)]))
        [] o.op = "get_var_ref" -> Push(m, Value(m, refs[o.a]))
        [] o.op = "get_var_ref_check" -> Checked(m, Value(m, refs[o.a]), Push(m, Value(m, refs[o.a])))
        [] o.op = "put_var_ref" -> Pop(SetValue(m, refs[o.a], Tos(m)))
        [] o.op = "put_var_ref_check" -> Checked(m, Value(m, refs[o.a]), Pop(SetValue(m, refs[o.a], Tos(m))))
        [] o.op = "get_var" -> IF o.a \in DOMAIN m.globals THEN Push(m, m.globals[o.a]) ELSE Raise(m, Error)
        [] o.op = "check_var" -> IF o.a \in DOMAIN m.globals THEN Skip(m) ELSE Raise(m, Error)
        [] o.op = "put_var" -> Pop([m EXCEPT !.globals = Merge(@, [x \in {o.a} |-> Tos(m)])])
        [] o.op = "throw_error" -> Raise(m, Error)
        [] o.op = "close_loc" -> CloseLoc(m, o.a)
        [] o.op = "fclosure" -> MakeClosure(m, o.a)
        [] o.op = "this_func" -> Push(m, fr.fn)
        [] o.op = "label" -> Skip(m)
        [] o.op = "goto" -> Goto(m, o.a)
        [] o.op = "if_false" -> IF Tos(m).n = 0 THEN Goto(Pop(m), o.a) ELSE Pop(m)
        [] o.op = "catch" -> Push(m, [t |-> "catch", l |-> o.a])
        [] o.op = "throw" -> Raise(m, Tos(m))
        [] o.op = "for_of_start" -> Push(m, [t |-> "iterator", rest |-> o.a])
        [] o.op = "for_of_next" ->
             LET rest == Tos(m).rest
                 done == rest = <<>>
                 it == [t |-> "iterator", rest |-> IF done THEN rest ELSE Tail(rest)]
             IN  WithTop(m, [fr EXCEPT !.stack = Front(@) \o <<it, IF done THEN Undefined ELSE Head(rest), Number(IF done THEN 1 ELSE 0)>>, !.pc = @ + 1])
        [] o.op = "iterator_close" -> Pop(m)
        [] o.op = "log" -> Pop([m EXCEPT !.out = Append(@, Shown(Tos(m)))])
        [] o.op = "keep" -> Pop([m EXCEPT !.kept = Append(@, Tos(m))])
        [] o.op = "call" -> CallOp(m, o.a)
        [] o.op = "return" -> Return(m)

\* the interpreter before it runs: a program is source first
Boot(stage) ==
  [frames |-> <<>>, refs |-> <<>>, out |-> <<>>, kept |-> <<>>, globals |-> [x \in {} |-> Undefined], called |-> 0, stage |-> stage]

-----------------------------------------------------------------------------

Init == program \in Programs /\ functions = <<>> /\ vm = Boot("source")

\* a program that is refused does not run
CompileProgram ==
  /\ vm.stage = "source"
  /\ functions' = Compile(program)
  /\ vm' = IF functions' # <<>> THEN [vm EXCEPT !.stage = "compiled"] ELSE [vm EXCEPT !.stage = "called", !.out = <<SyntaxError>>]
  /\ UNCHANGED program

\* the program is called, then the functions it kept
Start ==
  /\ vm.stage = "compiled"
  /\ vm' = Enter([vm EXCEPT !.stage = "called"], [t |-> "function", def |-> 1, refs |-> <<>>], <<>>)
  /\ UNCHANGED <<program, functions>>

Step ==
  /\ vm.frames # <<>>
  /\ vm' = Execute(vm, functions[Top(vm).fn.def].code[Top(vm).pc])
  /\ UNCHANGED <<program, functions>>

CallNext ==
  /\ vm.stage = "called" /\ vm.frames = <<>> /\ vm.called < Len(vm.kept)
  /\ vm' = Enter([vm EXCEPT !.called = @ + 1], vm.kept[vm.called + 1], <<>>)
  /\ UNCHANGED <<program, functions>>

Next == CompileProgram \/ Start \/ Step \/ CallNext

Spec == Init /\ [][Next]_vars

-----------------------------------------------------------------------------
(* Properties.                                                             *)

Done == vm.stage = "called" /\ vm.frames = <<>> /\ vm.called = Len(vm.kept)

\* A program prints what the language says: every name is the variable its
\* scope gives, closures of one environment share their variables and those of
\* different iterations or calls do not, and a variable used before it is
\* initialized is an error (resolve_scope_var, get_closure_var2, close_scopes,
\* close_lexical_var, close_var_refs).
SameOutput == Done => vm.out = Meaning(program, Strict)

\* A program is refused when the language says it has an error, and only then
\* (define_var, js_parse_function_check_names).
SameErrors == Done => (vm.out = <<SyntaxError>>) = EarlyError(Code("", <<>>, program), Strict)

\* A frame has one open reference for a variable, and every reference that is
\* not detached is to a frame that is still there (get_var_ref, close_var_refs).
OpenRefs ==
  \A r \in DOMAIN vm.refs :
    ~vm.refs[r].detached =>
      /\ vm.refs[r].frame \in DOMAIN vm.frames
      /\ \A q \in DOMAIN vm.refs :
           ~vm.refs[q].detached /\ vm.refs[q].frame = vm.refs[r].frame /\ vm.refs[q].index = vm.refs[r].index /\ vm.refs[q].arg = vm.refs[r].arg
             => q = r
=============================================================================
