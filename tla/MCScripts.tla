------------------------------ MODULE MCScripts ------------------------------
(* Families of short programs for QJSClosures, as sloppy and as strict      *)
(* code, and families of patterns for QJSRegExp: `on` says which.           *)
EXTENDS QJSClosures

CONSTANTS WordChars, Newlines, Lower   \* of RegExpPatterns

LowerCase == [c \in 1..4 |-> IF c = 4 THEN 1 ELSE c]

VARIABLES on, job, matcher, room, pc, cptr, capture, stack, states, status

regexpVars == <<job, matcher, room, pc, cptr, capture, stack, states, status>>

Shows(x) == Fun(Code("", <<>>, <<Log(x)>>))
Sets(x, n) == Fun(Code("", <<>>, <<Set(x, Num(n))>>))
Named(x, body) == Function(Code(x, <<>>, body))

\* ------ declarations in a body and in a block of it
Decls == {Var("x", NoExp), Var("x", Num(1)), Let("x", Num(2)), Const("x", Num(3)), Set("x", Num(4)), Log("x"), Named("x", <<>>)}

RECURSIVE Flat(_), Lists(_)

\* all statements, and all lists of statements, of a body
Flat(list) == FlattenSeq([i \in DOMAIN list |-> <<list[i]>> \o FlattenSeq([j \in DOMAIN Nested(list[i]) |-> Flat(Nested(list[i])[j])])])
Lists(list) == {list} \cup UNION {UNION {Lists(l) : l \in Items(Nested(s))} : s \in Items(list)}

DeclaredIn(s) ==
  IF s.k = "var" THEN s.x ELSE IF s.k = "function" THEN s.f.name
  ELSE IF s.k \in {"for", "forof"} /\ s.decl = "var" THEN s.x ELSE ""

\* a block has a var and declares the name again, and the name has another var
\* or function: where it is declared first is all the parser knows
Forgotten(body) ==
  \E l \in Lists(body) : \E x \in BlockNames(l) \cap VarNames(l) :
    LET all == Flat(body) IN Cardinality({i \in DOMAIN all : DeclaredIn(all[i]) = x}) > 1

\* a block sets a function and declares it after: its variable gets the function
Hidden(body) ==
  \E l \in Lists(body) : \E i, j \in DOMAIN l :
    i < j /\ l[i].k = "set" /\ l[j].k = "function" /\ l[j].f.name = l[i].x

Told(S) == {p \in S : ~Forgotten(p) /\ ~Hidden(p)}

Blocks == {<<a, Block(<<b, c>>), d>> : a \in Decls, b \in Decls, c \in Decls, d \in Decls}

Scopes == Told(Blocks)

\* ------ closures of a body, a block and a function between
Pool == {Keep(Shows("x")), Keep(Sets("x", 5)), Set("x", Num(6)), Let("x", Num(2)), Var("x", Num(1)), Log("x"),
         Keep(Fun(Code("", <<>>, <<Keep(Shows("x")), Set("x", Num(7))>>))),
         Keep(Fun(Code("x", <<>>, <<Set("x", Num(8)), Keep(Shows("x"))>>))),
         Keep(Fun(Code("", <<>>, <<Keep(Fun(Code("", <<>>, <<Keep(Shows("x")), Keep(Shows("y"))>>))), Var("y", Num(9))>>)))}

Sharing == Told({<<a, Block(<<b, c>>), d>> : a \in Pool, b \in Pool, c \in Pool, d \in Pool})

\* ------ loops
Steps == {Keep(Shows("x")), Keep(Sets("x", 1)), Set("x", Num(1)), Log("x"), Let("y", Ref("x")), Keep(Shows("y")), Set("y", Num(5))}
Bodies == {<<a, b>> : a \in Steps, b \in Steps} \cup {<<a, Block(<<b, c>>)>> : a \in Steps, b \in Steps, c \in Steps}
NotLooping(list) == \A s \in Items(list) : s # Set("x", Num(1)) /\ s # Keep(Sets("x", 1)) /\ (s.k = "block" => \A t \in Items(s.list) : t # Set("x", Num(1)))

Loops ==
  {<<ForOf(d, "x", b), Log("x")>> : d \in {"var", "let", "const"}, b \in Bodies}
    \cup {<<ForOf(d, "x", b \o <<Continue>>), Log("x")>> : d \in {"var", "let"}, b \in Bodies}
    \cup {<<For(d, "x", b), Log("x")>> : d \in {"var", "let"}, b \in {c \in Bodies : NotLooping(c)}}
    \cup {<<ForOf("let", "x", <<For("let", "y", <<a, Keep(Shows("x")), b>>)>>)>> : a \in {Keep(Shows("y")), Log("y")}, b \in {Set("x", Num(4)), Log("x")}}
    \cup {<<For("let", "y", <<ForOf("let", "x", <<a, Keep(Shows("y")), Continue>>), Keep(Shows("y"))>>)>> : a \in Steps \ {Let("y", Ref("x"))}}


\* ------ parameters
Inits == {NoExp, Num(1), Shows("x"), Sets("x", 2), Ref("x"), Ref("y")}
InBody == {Var("x", NoExp), Var("x", Num(5)), Named("x", <<>>), Let("x", Num(6)), Let("y", Num(7)), Call("x", NoExp), Call("y", NoExp)}
Two(e, g, body, a) == <<Function(Code("f", <<Param("x", e), Param("y", g)>>, body)), Call("f", a)>>
\* a closure of the parameters writes to one that the body has no variable for
Apart(e, g, body) == Sets("x", 2) \in {e, g} => "x" \in VarNames(body) \cup FunNames(body)

Parameters == {Two(t[1], t[2], <<t[3], t[4], Log("x"), Log("y")>>, t[5]) :
                  t \in {u \in Inits \X Inits \X InBody \X InBody \X {NoExp, Num(3)} : Apart(u[1], u[2], <<u[3], u[4]>>)}}
                \cup {<<Function(Code("f", <<Param("x", e), Param("x", g)>>, <<Log("x")>>)), Call("f", NoExp)>> : e \in {NoExp, Num(1)}, g \in {NoExp, Num(2)}}
                \cup {<<Function(Code("f", <<Param("x", NoExp)>>, <<a, Keep(Shows("x")), b, Log("x")>>)), Call("f", Num(3)), Call("f", Num(4))>> :
                        a \in InBody \cup {Set("x", Num(8)), Keep(Sets("x", 9))}, b \in InBody \cup {Set("x", Num(8))}}
                \cup {<<Var("z", Num(1)), Function(Code("f", <<Param("x", NoExp), Param("y", e)>>, <<a, b, Keep(Shows("z")), Log("z")>>)), Call("f", NoExp), Log("z")>> :
                        e \in {Ref("z"), Shows("z"), Sets("z", 2)}, a \in {Var("z", Num(3)), Let("z", Num(3)), Named("z", <<>>), Log("z")}, b \in {Call("y", NoExp), Log("y")}}

\* ------ functions in blocks, their names, and catch clauses
Inner == {Named("f", <<Log("x")>>), Let("f", Num(1)), Var("f", Num(2)), Log("f"), Call("f", NoExp), Set("f", Num(3)), Let("x", Num(4)), Keep(Ref("f"))}
Once == Inner \ {Keep(Ref("f"))}
Ends == {Log("f"), Call("f", NoExp), Let("f", Num(1))}
Uses ==
  {<<a, Block(<<b, c>>), d>> : a \in Ends \cup {Set("f", Num(3))}, b \in Inner, c \in Inner, d \in Ends}
    \cup {<<Try(<<Throw(Num(5)), a>>, "f", <<b, c>>), d>> : a \in {Var("f", Num(2)), Log("f")}, b \in Inner, c \in Inner, d \in Ends}
    \cup {<<ForOf(k, "f", <<Block(<<a, b>>)>>), Log("f")>> : k \in {"let", "var"}, a \in Inner, b \in Inner}
    \cup {<<Keep(Fun(Code("f", <<>>, <<a, b>>)))>> : a \in Once, b \in Once}
    \cup {<<Let("x", Num(6)), Keep(Fun(Code("f", <<Param("x", e)>>, <<a, Keep(Shows("f"))>>)))>> : e \in {NoExp, Ref("f"), Sets("f", 7)}, a \in Once}

Functions == Told(Uses)

-----------------------------------------------------------------------------
(* Regular expressions; in a behaviour where they run, no program does.     *)

Patterns == INSTANCE MCPatterns
Families == Patterns!Families

RegExp(f) == INSTANCE QJSRegExp WITH Regs <- Families[f].regs, Texts <- Families[f].texts, program <- matcher

Parked == job = <<>> /\ matcher = <<>> /\ room = 0 /\ pc = 0 /\ cptr = 0 /\ capture = <<>> /\ stack = <<>> /\ states = <<>> /\ status = "none"

-----------------------------------------------------------------------------

Sloppy == Scopes \cup Sharing \cup Loops \cup Parameters \cup Functions
StrictCode == INSTANCE QJSClosures WITH Strict <- TRUE, Programs <- Functions \cup Scopes

ASSUME MCScriptsAssumption == StrictCode!StrictAssumption

MCInit ==
  \/ on = "sloppy" /\ Init /\ Parked
  \/ on = "strict" /\ StrictCode!Init /\ Parked
  \/ /\ on \in DOMAIN Families /\ (\E f \in DOMAIN Families : on = f /\ RegExp(f)!Init)
     /\ program = <<>> /\ functions = <<>> /\ vm = Boot("called")

MCNext ==
  \/ on = "sloppy" /\ Next /\ UNCHANGED <<on, regexpVars>>
  \/ on = "strict" /\ StrictCode!Next /\ UNCHANGED <<on, regexpVars>>
  \/ on \in DOMAIN Families /\ RegExp("flags")!Next /\ UNCHANGED <<on, vars>>

MCSpec == MCInit /\ [][MCNext]_<<on, vars, regexpVars>>

-----------------------------------------------------------------------------
(* Programs.                                                               *)

\* A program prints what the language says: every name is the variable its
\* scope gives, closures of one environment share their variables and those of
\* different iterations or calls do not, and a variable used before it is
\* initialized is an error (resolve_scope_var, get_closure_var2, close_scopes,
\* close_lexical_var, close_var_refs).
AlwaysSameOutput == (on = "sloppy" => SameOutput) /\ (on = "strict" => StrictCode!SameOutput)

\* A program is refused when the language says it has an error, and only then
\* (define_var, js_parse_function_check_names).
AlwaysSameErrors == (on = "sloppy" => SameErrors) /\ (on = "strict" => StrictCode!SameErrors)

-----------------------------------------------------------------------------
(* Regular expressions.                                                    *)

\* The machine ends with the captures of the first match in the order of the
\* language, or without a match when there is none.
SameMatch == on \in DOMAIN Families => RegExp("flags")!SameMatch

\* The stack, and those of the saved states, never get beyond the size computed
\* from the code alone (compute_stack_size), for which memory is set aside.
StackFits == on \in DOMAIN Families => RegExp("flags")!StackFits

\* A match ends with the stack as it was at the start.
StackReleased == on \in DOMAIN Families => RegExp("flags")!StackReleased

\* No state is saved that is already there to go back to: an atom that consumes
\* nothing is not repeated for ever (re_need_check_advance, check_advance).
NothingTwice == on \in DOMAIN Families => RegExp("flags")!NothingTwice

-----------------------------------------------------------------------------
(* What the run checks, of each part.                                      *)

\* Names are the variables the language says they are.
SameVariables == AlwaysSameOutput /\ AlwaysSameErrors /\ OpenRefs

\* A match is the one the language says, found within the stack set aside.
SameMatches == SameMatch /\ StackFits /\ StackReleased /\ NothingTwice
=============================================================================
