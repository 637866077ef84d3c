------------------------------- MODULE MCCode -------------------------------
(* The compiled statements of functions and of scripts, families of them    *)
(* nested around the statements that leave others; and the operand stack    *)
(* under single instructions: each by itself, `on` says which. The          *)
(* constants of QJSStack are given in the configuration.                    *)
EXTENDS QJSStack

VARIABLES on, program, bytecode, levels, vm, lang

controlVars == <<program, bytecode, levels, vm, lang>>

\* the programs
Statements == INSTANCE QJSCompile WITH Eval <- FALSE
Functions == Statements!Functions
Scripts == Statements!Scripts

Function == INSTANCE QJSControl WITH Eval <- FALSE, CatchPattern <- FALSE, Programs <- Functions
Script == INSTANCE QJSControl WITH Eval <- TRUE, CatchPattern <- FALSE, Programs <- Scripts

ASSUME MCCodeAssumption ==
  /\ Function!EvalAssumption /\ Function!PatternAssumption
  /\ Script!EvalAssumption /\ Script!PatternAssumption

Parked == program = <<>> /\ bytecode = <<>> /\ levels = <<>> /\ vm = <<>> /\ lang = <<>>

\* deep stacks beside variables that hold nothing, and low ones beside any
Deep6 == loc' = loc /\ arg' = arg /\ given' = given
Low3 == Len(stack') <= 3 /\ rc'[3] = 0

MCInit ==
  /\ Init
  /\ \/ on = "function" /\ Function!Init
     \/ on = "script" /\ Script!Init
     \/ on \in {"operands", "variables"} /\ Parked
  /\ on # "variables" => arg = Plain /\ ~copied

MCNext ==
  \/ on = "function" /\ Function!Next /\ UNCHANGED <<on, vars>>
  \/ on = "script" /\ Script!Next /\ UNCHANGED <<on, vars>>
  \/ on = "operands" /\ Next /\ Deep6 /\ UNCHANGED <<on, controlVars>>
  \/ on = "variables" /\ Next /\ Low3 /\ UNCHANGED <<on, controlVars>>

MCSpec == MCInit /\ [][MCNext]_<<on, vars, controlVars>>

-----------------------------------------------------------------------------
(* What is checked, of whichever part runs.                                *)

\* The interpreter executing a compiled statement asks for the same expression,
\* condition or call of an iterator as the language's evaluation of it, and
\* returns or throws the same value: every finally block and every close of an
\* iterator is executed once, in order, and nothing else is
\* (js_parse_statement_or_decl, emit_break, emit_return, JS_CallInternal).
SameOutcome ==
  /\ on = "function" => Function!SameAsLanguage
  /\ on = "script" => Script!SameAsLanguage

\* Wherever the interpreter stops, the stack has the depth, and the innermost
\* catch offset the place, that compute_stack_size found for the instruction.
DepthsAsComputed ==
  /\ on = "function" => Function!StackAsComputed
  /\ on = "script" => Script!StackAsComputed

\* compute_stack_size accepts the code of every statement (ss_check).
AllAccepted ==
  /\ on = "function" => Function!CodeAccepted
  /\ on = "script" => Script!CodeAccepted

\* Statements do what the language says, on the stack computed for their code.
SameExecution == SameOutcome /\ DepthsAsComputed /\ AllAccepted
=============================================================================
