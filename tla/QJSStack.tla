------------------------------ MODULE QJSStack ------------------------------
(***************************************************************************)
(* The operand stack of JS_CallInternal and who owns what lies on it. An   *)
(* instruction is what it does to its operands: which are freed or given   *)
(* away, which are copied as they are or duplicated, and what the stack    *)
(* holds when it succeeds and at every place where it fails. An exception  *)
(* frees the stack down to a catch offset, closing the iterators it finds. *)
(* The functions the instructions call keep their own contract: whether    *)
(* they free an operand, also when they fail.                              *)
(***************************************************************************)
EXTENDS Integers, Sequences, SequencesExt, FiniteSets, TLC

CONSTANTS
  Tokens,    \* 1..n: heap values
  Slots,     \* the variables of the function: a local (8), an argument (9)
  MaxStack   \* bound of the model: the depth of the operand stack

ASSUME StackAssumption == Tokens = 1..Cardinality(Tokens) /\ Slots \subseteq {8, 9} /\ MaxStack \in Nat

\* what a slot holds when it is no heap value
Plain == 0      \* an integer, a boolean, undefined, null, JS_EXCEPTION
Handler == -1   \* the catch offset of OP_catch
IterMark == -2  \* the catch offset 0 of OP_for_of_start
Uninit == -3    \* JS_UNINITIALIZED
Marks == {Handler, IterMark}

\* sources: an operand i or a variable, Dup of one, or one of these
Loc == 8
Arg == 9
Dup(i) == -i
New == 101
New2 == 102
Mark(m) == 200 - m

VARIABLES
  mode,     \* "run" or "done"
  stack,
  loc,      \* a local variable
  arg,      \* an argument
  copied,   \* the arguments were copied into the frame (arg_allocated_size)
  given,    \* the caller's own argument, when they were
  exc,      \* rt->current_exception
  ret,      \* ret_val
  rc,       \* rc[t]: the reference count of a heap value, 0 when it is free
  level,    \* the depth compute_stack_size makes of the instructions so far
  catches   \* the places of the catch offsets it knows of, the outermost first

vars == <<mode, stack, loc, arg, copied, given, exc, ret, rc, level, catches>>

-----------------------------------------------------------------------------
(* Effects and instructions.                                               *)

E(out, freed) ==
  [out |-> out, freed |-> freed, plain |-> {}, put |-> <<>>, init |-> "any", jump |-> FALSE]
Ints(e, s) == [e EXCEPT !.plain = s]           \* only when these are no heap values
Put(e, slot, src) == [e EXCEPT !.put = <<slot, src>>]
If(e, i) == [e EXCEPT !.init = i]              \* only when the local is initialized, or not
Jump(e) == [e EXCEPT !.jump = TRUE]
I(n, oks, fails) == [n |-> n, oks |-> oks, fails |-> fails]
All(n) == [i \in 1..n |-> i]
Kept(n) == E(All(n), {})

Pushes(src) == I(0, {E(<<src>>, {})}, {})
\* a result is computed from the operands, which are then freed
Compute(n) == I(n, {E(<<New>>, 1..n)}, {Kept(n)})
\* nothing is left whether it succeeds or not
Consume(n) == I(n, {E(<<>>, 1..n)}, {E(<<>>, 1..n)})
Check(n) == I(n, {Kept(n)}, {Kept(n)})

PushInstrs ==
  [push_i32 |-> Pushes(Plain), push_const |-> Pushes(New), push_0 |-> Pushes(Plain),
   push_i8 |-> Pushes(Plain), push_i16 |-> Pushes(Plain), push_const8 |-> Pushes(New),
   push_empty_string |-> Pushes(New), push_atom_value |-> Pushes(New), undefined |-> Pushes(Plain),
   null |-> Pushes(Plain), push_false |-> Pushes(Plain), push_true |-> Pushes(Plain),
   push_this |-> I(0, {E(<<New>>, {})}, {E(<<>>, {})})]
  @@ [o \in {"fclosure", "fclosure8", "object", "special_object", "rest"} |->
        I(0, {E(<<New>>, {})}, {E(<<Plain>>, {})})]

ShuffleInstrs ==
  [drop |-> I(1, {E(<<>>, {1})}, {}),
   nip |-> I(2, {E(<<2>>, {1})}, {}),
   nip1 |-> I(3, {E(<<2, 3>>, {1})}, {}),
   nip1_nip1_nip1 |-> I(5, {E(<<4, 5>>, {1, 2, 3})}, {}),   \* what removes an iterator under an array
   dup |-> I(1, {E(<<1, Dup(1)>>, {})}, {}),
   dup1 |-> I(2, {E(<<1, Dup(1), 2>>, {})}, {}),
   dup2 |-> I(2, {E(<<1, 2, Dup(1), Dup(2)>>, {})}, {}),
   dup3 |-> I(3, {E(<<1, 2, 3, Dup(1), Dup(2), Dup(3)>>, {})}, {}),
   insert2 |-> I(2, {E(<<Dup(2), 1, 2>>, {})}, {}),
   insert3 |-> I(3, {E(<<Dup(3), 1, 2, 3>>, {})}, {}),
   insert4 |-> I(4, {E(<<Dup(4), 1, 2, 3, 4>>, {})}, {}),
   perm3 |-> I(3, {E(<<2, 1, 3>>, {})}, {}),
   perm4 |-> I(4, {E(<<3, 1, 2, 4>>, {})}, {}),
   perm5 |-> I(5, {E(<<4, 1, 2, 3, 5>>, {})}, {}),
   rot3l |-> I(3, {E(<<2, 3, 1>>, {})}, {}),
   rot4l |-> I(4, {E(<<2, 3, 4, 1>>, {})}, {}),
   rot5l |-> I(5, {E(<<2, 3, 4, 5, 1>>, {})}, {}),
   rot3r |-> I(3, {E(<<3, 1, 2>>, {})}, {}),
   swap |-> I(2, {E(<<2, 1>>, {})}, {}),
   swap2 |-> I(4, {E(<<3, 4, 1, 2>>, {})}, {})]

\* OP_array_from: the elements before the k-th are the array's, the k-th is freed
ArrayFrom(argc) ==
  I(argc, {E(<<New>>, 1..argc)},
    {E([i \in 1..argc |-> IF i <= k THEN Plain ELSE i], 1..k) : k \in 0..argc})

CallInstrs ==
  [call1 |-> Compute(2), call |-> Compute(1), call_constructor |-> Compute(2),
   call_method |-> Compute(3), array_from |-> ArrayFrom(2), apply |-> Compute(3)]

CheckInstrs ==
  [eval |-> Compute(2), apply_eval |-> Compute(2),
   check_ctor_return |-> I(1, {E(<<1, Plain>>, {})}, {Kept(1)}),
   check_ctor |-> Check(0), check_brand |-> Check(2),
   add_brand |-> I(2, {E(<<>>, {1, 2})}, {Kept(2)}),
   throw_error |-> I(0, {}, {Kept(0)}),
   regexp |-> I(2, {E(<<New>>, {1, 2}), E(<<Plain>>, {1, 2})}, {}),
   get_super |-> Compute(1), import |-> Compute(1)]

GlobalInstrs ==
  [check_var |-> I(0, {E(<<Plain>>, {})}, {Kept(0)}),
   get_var |-> I(0, {E(<<New>>, {})}, {Kept(0)}),
   put_var |-> Consume(1),
   put_var_strict |-> I(2, {Ints(E(<<>>, {2}), {1})}, {Ints(E(<<>>, {2}), {1}), Ints(Kept(2), {1})}),
   define_var |-> Check(0), check_define_var |-> Check(0),
   define_func |-> I(1, {E(<<>>, {1})}, {Kept(1)}),
   make_var_ref |-> I(0, {E(<<New, New2>>, {}), E(<<Plain, New>>, {})}, {Kept(0)}),
   delete_var |-> I(0, {E(<<Plain>>, {})}, {Kept(0)})]

\* OP_get_loc, OP_put_loc, OP_set_loc, their short forms, and those of OP_get_arg
SlotInstrs(v) ==
  [get |-> I(0, {E(<<Dup(v)>>, {})}, {}),
   put |-> I(1, {Put(E(<<>>, {v}), v, 1)}, {}),
   set |-> I(1, {Put(E(<<1>>, {v}), v, Dup(1))}, {})]

CheckedInstrs ==
  [set_loc_uninitialized |-> I(0, {Put(E(<<>>, {Loc}), Loc, Mark(Uninit))}, {}),
   get_loc_check |-> I(0, {If(E(<<Dup(Loc)>>, {}), "yes")}, {If(Kept(0), "no")}),
   put_loc_check |-> I(1, {If(Put(E(<<>>, {Loc}), Loc, 1), "yes")}, {If(Kept(1), "no")}),
   put_loc_check_init |-> I(1, {If(Put(E(<<>>, {Loc}), Loc, 1), "no")}, {If(Kept(1), "yes")}),
   make_loc_ref |-> I(0, {E(<<New, New2>>, {})}, {E(<<Plain>>, {}), E(<<New>>, {})})]

JumpInstrs ==
  [goto |-> Check(0),
   if_true |-> Consume(1),
   catch |-> I(0, {E(<<Mark(Handler)>>, {})}, {}),
   gosub |-> I(0, {Jump(E(<<Plain>>, {}))}, {}),
   ret |-> I(1, {Ints(E(<<>>, {}), {1})}, {Kept(1)})]

\* Fault: an iterator that is exhausted or has failed stays in its record
ForOfNext0(n) ==
  I(n, {E(All(n) \o <<New, Plain>>, {}), E(All(n) \o <<Plain, Plain>>, {1})}, {Kept(n)})

\* js_for_of_next: an iterator that has ended is replaced with undefined
ForOfNext(n) ==
  LET ended == [i \in 1..n |-> IF i = 1 THEN Plain ELSE i]
  IN  I(n, {E(All(n) \o <<New, Plain>>, {}), E(ended \o <<Plain, Plain>>, {1}),
            Ints(E(All(n) \o <<Plain, Plain>>, {}), {1})},
        {E(ended, {1})})

\* OP_iterator_close: the mark goes first, so that a failing return method is not called again
IteratorClose == I(3, {E(<<>>, {1, 2}), Ints(E(<<>>, {2}), {1})}, {E(<<1>>, {2})})

\* build_for_in_iterator takes the object over, also when it fails
ForInStart == I(1, {E(<<New>>, {1})}, {E(<<Plain>>, {1})})

\* js_for_in_next: a name and FALSE, or undefined and TRUE
ForInNext == I(1, {E(<<1, New, Plain>>, {}), E(<<1, Plain, Plain>>, {})}, {Kept(1)})

\* js_for_of_start: the iterator takes the place of the iterable before its next method is read
ForOfStart == I(1, {E(<<New, New2, Mark(IterMark)>>, {1})}, {Kept(1), E(<<New>>, {1})})

\* js_iterator_get_value_done
GetValueDone == I(1, {E(<<New, Plain>>, {1})}, {Kept(1)})

IterInstrs ==
  [for_in_start |-> ForInStart, for_in_next |-> ForInNext, for_of_start |-> ForOfStart,
   for_of_next |-> ForOfNext(3), for_of_next1 |-> ForOfNext(4),
   iterator_get_value_done |-> GetValueDone,
   iterator_check_object |-> Check(1),
   iterator_close |-> IteratorClose,
   iterator_next |-> I(4, {E(<<1, 2, 3, New>>, {4})}, {Kept(4)}),
   iterator_call |-> I(4, {E(<<1, 2, 3, New, Plain>>, {4}), E(<<1, 2, 3, 4, Plain>>, {})}, {Kept(4)})]

\* js_op_define_class: a class and its prototype for a parent and a function, or undefined twice
DefineClass == I(2, {E(<<New, New2>>, {1, 2})}, {E(<<Plain, Plain>>, {1, 2})})

FieldInstrs ==
  [get_length |-> Compute(1), get_field |-> Compute(1),
   get_field2 |-> I(1, {E(<<1, New>>, {})}, {Kept(1)}),
   put_field |-> Consume(2),
   private_symbol |-> I(0, {E(<<New>>, {})}, {Kept(0)}),
   get_private_field |-> I(2, {E(<<New>>, {1, 2})}, {E(<<Plain>>, {1, 2})}),
   put_private_field |-> Consume(3),
   define_private_field |-> I(3, {E(<<1>>, {2, 3})}, {E(<<1>>, {2, 3})}),
   define_field |-> I(2, {E(<<1>>, {2})}, {E(<<1>>, {2})}),
   set_name |-> Check(1), set_name_computed |-> Check(2)]

ClassInstrs ==
  [set_proto |-> I(2, {E(<<1>>, {2})}, {Kept(2)}),
   set_home_object |-> I(2, {Kept(2)}, {}),
   define_method |-> I(2, {E(<<1>>, {2})}, {E(<<1>>, {2})}),
   define_method_computed |-> I(3, {E(<<1>>, {2, 3})}, {Kept(3), E(<<1>>, {2, 3})}),
   define_class |-> DefineClass,
   define_class_computed |-> I(3, {E(<<1, New, New2>>, {2, 3})}, {E(<<1, Plain, Plain>>, {2, 3})})]

\* OP_get_array_el2
GetArrayEl2 == I(2, {E(<<1, New>>, {2})}, {E(<<1, Plain>>, {2})})

\* js_append_enumerate: the array and the position stay, the position is a new number
AppendEnumerate == I(3, {Ints(E(<<1, Plain>>, {3}), {2})}, {Kept(3)})

ElementInstrs ==
  [get_array_el |-> I(2, {E(<<New>>, {1, 2})}, {E(<<Plain>>, {1, 2})}),
   get_array_el2 |-> GetArrayEl2,
   get_ref_value |-> I(2, {E(<<1, 2, New>>, {})}, {Kept(2)}),
   get_super_value |-> Compute(3),
   put_array_el |-> Consume(3),
   put_ref_value |-> I(3, {E(<<>>, 1..3)}, {Kept(3), E(<<>>, 1..3)}),
   put_super_value |-> I(4, {E(<<>>, 1..4)}, {Kept(4), E(<<>>, 1..4)}),
   define_array_el |-> I(3, {E(<<1, 2>>, {3})}, {E(<<1, 2>>, {3})}),
   append |-> AppendEnumerate,
   copy_data_properties |-> Check(3)]

\* js_unary_arith_slow, also for OP_not: the operand is converted and freed, or undefined is left
UnarySlow == I(1, {E(<<New>>, {1}), E(<<Plain>>, {1}), Ints(E(<<Plain>>, {}), {1})}, {E(<<Plain>>, {1})})

\* js_post_inc_slow: the number is kept under the result; when the second step fails it stays
PostIncSlow ==
  I(1, {E(<<New, New2>>, {1}), E(<<Plain, Plain>>, {1})}, {E(<<Plain>>, {1}), E(<<New>>, {1})})

\* js_binary_arith_slow: whichever conversion fails, the other operand is freed too
BinaryArithSlow ==
  I(2, {E(<<New>>, {1, 2}), E(<<Plain>>, {1, 2})}, {E(<<Plain, Plain>>, {1, 2})})

\* OP_add: js_add_slow, or the concatenation of two strings, which leaves one slot when it fails
AddSlow ==
  I(2, {E(<<New>>, {1, 2}), E(<<Plain>>, {1, 2})},
    {E(<<Plain, Plain>>, {1, 2}), E(<<Plain>>, {1, 2})})

\* js_binary_logic_slow
LogicSlow == I(2, {E(<<New>>, {1, 2}), E(<<Plain>>, {1, 2})}, {E(<<Plain, Plain>>, {1, 2})})

\* js_shr_slow, whose result is a number
ShrSlow == I(2, {E(<<Plain>>, {1, 2})}, {E(<<Plain, Plain>>, {1, 2})})

\* js_relational_slow: both operands become primitives, then a boolean
RelationalSlow == I(2, {E(<<Plain>>, {1, 2})}, {E(<<Plain, Plain>>, {1, 2})})

\* js_eq_slow: only conversions, and the comparison of big numbers, can fail
EqSlow == I(2, {E(<<Plain>>, {1, 2})}, {E(<<Plain, Plain>>, {1, 2})})

\* js_operator_in and its kind: the operands are left for the exception when it fails
TestSlow == I(2, {E(<<Plain>>, {1, 2})}, {Kept(2)})

ArithInstrs ==
  [add |-> AddSlow] @@ [o \in {"sub", "mul", "div", "mod", "pow"} |-> BinaryArithSlow]

LogicInstrs ==
  [shr |-> ShrSlow] @@ [o \in {"shl", "sar", "and", "or", "xor"} |-> LogicSlow]
  @@ [o \in {"lt", "lte", "gt", "gte"} |-> RelationalSlow] @@ [o \in {"eq", "neq"} |-> EqSlow]
  @@ [o \in {"strict_eq", "strict_neq"} |-> I(2, {E(<<Plain>>, {1, 2})}, {})]
  @@ [o \in {"in", "private_in", "instanceof", "delete"} |-> TestSlow]

UnaryInstrs ==
  [o \in {"plus", "neg", "inc", "dec", "not"} |-> UnarySlow]
  @@ [post_inc |-> PostIncSlow, typeof |-> I(1, {E(<<New>>, {1})}, {}), lnot |-> I(1, {E(<<Plain>>, {1})}, {})]

\* OP_inc_loc and OP_add_loc work on a duplicate, which the slow path frees
LocArith ==
  [inc_loc |-> I(0, {Put(E(<<>>, {Loc}), Loc, New), Put(E(<<>>, {Loc}), Loc, Plain)}, {E(<<>>, {})}),
   add_loc |-> I(1, {Put(E(<<>>, {Loc, 1}), Loc, New), E(<<>>, {1})}, {E(<<>>, {1})})]

ConvertInstrs ==
  [o \in {"to_object", "to_propkey"} |-> I(1, {Kept(1), E(<<New>>, {1})}, {Kept(1)})]
  @@ [to_propkey2 |-> I(2, {Kept(2), E(<<1, New>>, {2})}, {Kept(2)})]
  @@ [o \in {"is_undefined_or_null", "is_undefined", "is_null", "typeof_is_undefined", "typeof_is_function"} |->
        I(1, {E(<<Plain>>, {1})}, {})]

\* the object has the name, or it is dropped
With(n, found, fails) ==
  I(n, {Jump(e) : e \in found} \cup {E(All(n - 1), {n})}, {Kept(n)} \cup fails)
WithInstrs ==
  [with_get_var |-> With(1, {E(<<New>>, {1})}, {}),
   with_put_var |-> With(2, {E(<<>>, {1, 2})}, {E(<<>>, {1, 2})}),
   with_delete_var |-> With(1, {E(<<Plain>>, {1})}, {}),
   with_make_ref |-> With(1, {E(<<1, New>>, {})}, {}),
   with_get_ref |-> With(1, {E(<<1, New>>, {})}, {}),
   with_get_ref_undef |-> With(1, {E(<<Plain, New>>, {1})}, {})]

Named(pre, s) == [o \in {pre \o "loc", pre \o "arg"} |->
                    IF o = pre \o "loc" THEN SlotInstrs(Loc)[s] ELSE SlotInstrs(Arg)[s]]
Instr == PushInstrs @@ ShuffleInstrs @@ CallInstrs @@ CheckInstrs @@ GlobalInstrs @@ CheckedInstrs @@ JumpInstrs
         @@ IterInstrs @@ FieldInstrs @@ ClassInstrs @@ ElementInstrs @@ ArithInstrs @@ LogicInstrs @@ UnaryInstrs @@ LocArith @@ ConvertInstrs
         @@ WithInstrs @@ Named("get_", "get") @@ Named("put_", "put") @@ Named("set_", "set")

-----------------------------------------------------------------------------
(* The opcode table: what each pops and pushes; calls pop arguments too.   *)

Rows(names, pop, push) == [o \in names |-> <<pop, push>>]

ShuffleInfo ==
  Rows({"drop"}, 1, 0) @@ Rows({"nip"}, 2, 1) @@ Rows({"nip1"}, 3, 2) @@ Rows({"nip1_nip1_nip1"}, 5, 2) @@ Rows({"dup"}, 1, 2)
  @@ Rows({"dup1", "insert2"}, 2, 3) @@ Rows({"dup2"}, 2, 4) @@ Rows({"dup3"}, 3, 6)
  @@ Rows({"insert3"}, 3, 4) @@ Rows({"insert4"}, 4, 5) @@ Rows({"perm3", "rot3l", "rot3r"}, 3, 3)
  @@ Rows({"perm4", "swap2", "rot4l"}, 4, 4) @@ Rows({"perm5", "rot5l"}, 5, 5) @@ Rows({"swap"}, 2, 2)

CallInfo ==
  Rows({"call_constructor", "apply_eval", "regexp", "call_method"}, 2, 1) @@ Rows({"call", "call1", "eval"}, 1, 1)
  @@ Rows({"array_from"}, 0, 1) @@ Rows({"apply"}, 3, 1) @@ Rows({"check_ctor_return"}, 1, 2)
  @@ Rows({"check_ctor", "throw_error"}, 0, 0) @@ Rows({"check_brand"}, 2, 2) @@ Rows({"add_brand"}, 2, 0)
  @@ Rows({"get_super", "import"}, 1, 1)
Args == [call_method |-> 1, call1 |-> 1, eval |-> 1, array_from |-> 2]

VarInfo ==
  Rows({"check_var", "get_var", "delete_var", "get_loc", "get_arg", "get_loc_check"}, 0, 1)
  @@ Rows({"put_var", "define_func", "put_loc", "put_arg", "put_loc_check", "put_loc_check_init", "add_loc"}, 1, 0)
  @@ Rows({"put_var_strict"}, 2, 0) @@ Rows({"set_loc", "set_arg"}, 1, 1)
  @@ Rows({"define_var", "check_define_var", "set_loc_uninitialized", "inc_loc"}, 0, 0)
  @@ Rows({"make_var_ref", "make_loc_ref"}, 0, 2)

PropInfo ==
  Rows({"get_length", "get_field", "set_name"}, 1, 1) @@ Rows({"get_field2"}, 1, 2) @@ Rows({"put_field"}, 2, 0)
  @@ Rows({"private_symbol"}, 0, 1) @@ Rows({"get_private_field", "define_field", "set_proto", "define_method", "get_array_el"}, 2, 1)
  @@ Rows({"put_private_field", "put_array_el", "put_ref_value"}, 3, 0)
  @@ Rows({"define_private_field", "define_method_computed", "get_super_value"}, 3, 1)
  @@ Rows({"set_name_computed", "set_home_object", "define_class", "get_array_el2"}, 2, 2)
  @@ Rows({"define_class_computed", "copy_data_properties"}, 3, 3) @@ Rows({"get_ref_value"}, 2, 3)
  @@ Rows({"put_super_value"}, 4, 0) @@ Rows({"define_array_el", "append"}, 3, 2)

FlowInfo ==
  Rows({"if_true", "ret"}, 1, 0) @@ Rows({"goto", "gosub"}, 0, 0) @@ Rows({"catch"}, 0, 1)
  @@ Rows({"for_in_start", "iterator_check_object"}, 1, 1) @@ Rows({"for_of_start", "for_in_next"}, 1, 3)
  @@ Rows({"for_of_next", "for_of_next1"}, 3, 5) @@ Rows({"iterator_get_value_done"}, 1, 2)
  @@ Rows({"iterator_close"}, 3, 0) @@ Rows({"iterator_next"}, 4, 4) @@ Rows({"iterator_call"}, 4, 5)

OperatorInfo ==
  Rows(DOMAIN ArithInstrs \cup DOMAIN LogicInstrs, 2, 1) @@ Rows(DOMAIN UnaryInstrs \ {"post_inc"}, 1, 1) @@ Rows({"post_inc"}, 1, 2)
WithInfo ==
  Rows({"with_get_var", "with_delete_var", "with_make_ref", "with_get_ref", "with_get_ref_undef"}, 1, 0)
  @@ Rows({"with_put_var"}, 2, 1)
Info ==
  Rows(DOMAIN PushInstrs, 0, 1) @@ ShuffleInfo @@ CallInfo @@ VarInfo @@ PropInfo @@ FlowInfo @@ WithInfo
  @@ OperatorInfo @@ Rows(DOMAIN ConvertInstrs \ {"to_propkey2"}, 1, 1) @@ Rows({"to_propkey2"}, 2, 2)

\* what compute_stack_size adds for the target of a jump
AtTarget ==
  [gosub |-> 1, with_get_var |-> 1, with_delete_var |-> 1, with_make_ref |-> 2, with_get_ref |-> 2,
   with_get_ref_undef |-> 2, with_put_var |-> -1]

LevelChange(o, e) ==
  LET args == IF o \in DOMAIN Args THEN Args[o] ELSE 0
  IN  Info[o][2] - Info[o][1] - args + (IF e.jump THEN AtTarget[o] ELSE 0)

\* the instructions after which compute_stack_size looks at the catch offsets
CatchOps == {"catch", "for_of_start", "drop", "nip", "nip1_nip1_nip1", "iterator_close"}

\* the catch offsets compute_stack_size knows of when the depth after o is n
CatchesAfter(o, n) ==
  LET gone(at) == catches # <<>> /\ Last(catches) = at
  IN  CASE o \in {"catch", "for_of_start"} -> Append(catches, n)
        [] o = "drop" /\ gone(n + 1) -> Front(catches)
        [] o = "nip" /\ gone(n) -> Front(catches)
        [] o = "nip1_nip1_nip1" /\ gone(n + 1) -> Front(catches)
        [] o = "iterator_close" /\ gone(n + 3) -> Front(catches)
        [] OTHER -> catches

-----------------------------------------------------------------------------
(* Running an instruction.                                                 *)

Free == {t \in Tokens : rc[t] = 0}
\* the k-th free value
Fresh(k) == CHOOSE t \in Free : Cardinality({u \in Free : u < t}) = k - 1
Heap(v) == v \in Tokens

\* the value of a source, when the operands are ops
Value(src, ops) ==
  LET at(i) == IF i = Loc THEN loc ELSE IF i = Arg THEN arg ELSE ops[i]
  IN  CASE src = Plain -> Plain
        [] src = New -> Fresh(1)
        [] src = New2 -> Fresh(2)
        [] src > 200 -> 200 - src
        [] src < 0 -> at(-src)
        [] OTHER -> at(src)

Count(t, seq) == Len(SelectSeq(seq, LAMBDA x : x = t))
Freed(r, vs) == [t \in Tokens |-> r[t] - Count(t, vs)]

\* the counts after an effect: duplicates and new values, then what is freed
RcAfter(e, ops) ==
  LET fresh(src) == src < 0 \/ src \in {New, New2}
      taken(t) == {i \in DOMAIN e.out : fresh(e.out[i]) /\ Value(e.out[i], ops) = t}
      stored(t) == IF e.put # <<>> THEN fresh(e.put[2]) /\ Value(e.put[2], ops) = t ELSE FALSE
      freed(t) == {i \in e.freed : Value(i, ops) = t}
  IN  [t \in Tokens |-> rc[t] + Cardinality(taken(t)) + (IF stored(t) THEN 1 ELSE 0) - Cardinality(freed(t))]

\* the operands that may be catch offsets
MarksIn(o) ==
  CASE o \in {"drop", "nip"} -> {1}
    [] o \in {"for_of_next", "for_of_next1", "iterator_close", "iterator_next", "iterator_call",
              "nip1_nip1_nip1"} -> {3}
    [] OTHER -> {}

\* every outcome of every instruction; instructions with the same outcomes are one here
Needs(e) == Cardinality(Range(e.out \o e.put) \cap {New, New2})
Outcome(o, e, ok) ==
  [n |-> Instr[o].n, e |-> e, ok |-> ok, new |-> Needs(e) + (IF ok THEN 0 ELSE 1), change |-> LevelChange(o, e), marks |-> MarksIn(o),
   op |-> IF o \in CatchOps THEN o ELSE "any"]
Uses(e) == Range(e.out \o e.put) \cap {Loc, Arg, Dup(Loc), Dup(Arg)}
Outcomes ==
  {x \in UNION {{Outcome(o, e, TRUE) : e \in Instr[o].oks} \cup {Outcome(o, e, FALSE) : e \in Instr[o].fails} :
                   o \in DOMAIN Instr} :
     /\ Uses(x.e) \subseteq Slots \cup {Dup(v) : v \in Slots}
     /\ x.e.init # "any" => Loc \in Slots}

Operands(n) == SubSeq(stack, Len(stack) - n + 1, Len(stack))

\* the next instruction can have this outcome
Applies(x) ==
  /\ Len(stack) >= x.n
  /\ Len(stack) - x.n + Len(x.e.out) <= MaxStack
  /\ LET ops == Operands(x.n)
     IN  /\ \A i \in x.e.plain : ~Heap(ops[i])
         /\ \A i \in DOMAIN ops : ops[i] \in Marks => i \in x.marks
         /\ 3 \in x.marks => ops[3] = IterMark \/ (x.op = "iterator_close" /\ ops[3] = Plain)
  /\ x.e.init = "yes" => loc # Uninit
  /\ x.e.init = "no" => loc = Uninit
  /\ Cardinality(Free) >= x.new

\* what an outcome leaves
Left(x) ==
  LET ops == Operands(x.n)
      e == x.e
  IN  [stack |-> SubSeq(stack, 1, Len(stack) - x.n) \o [i \in DOMAIN e.out |-> Value(e.out[i], ops)],
       loc |-> IF e.put # <<>> /\ e.put[1] = Loc THEN Value(e.put[2], ops) ELSE loc,
       arg |-> IF e.put # <<>> /\ e.put[1] = Arg THEN Value(e.put[2], ops) ELSE arg,
       rc |-> RcAfter(e, ops)]

\* what lies under the operand stack in the frame
Locals(l, a) == <<l>> \o (IF copied THEN <<a>> ELSE <<>>)

\* done: the locals and the stack are freed, and the arguments only when they were copied
Finish(r, left, value, thrown) ==
  /\ mode' = "done"
  /\ rc' = Freed(r, Locals(loc, arg) \o left)
  /\ stack' = <<>>
  /\ loc' = Plain
  /\ arg' = IF copied THEN Plain ELSE arg
  /\ ret' = value
  /\ exc' = thrown
  /\ UNCHANGED <<copied, given, level, catches>>

\* the innermost handler and what is freed on the way to it; an iterator found there is
\* closed, which cannot replace the exception, and freed as well
HandlerIn(s) ==
  LET at == {i \in DOMAIN s : s[i] = Handler}
      h == IF at = {} THEN 0 ELSE CHOOSE i \in at : \A k \in at : k <= i
  IN  [at |-> h, freed |-> SubSeq(s, h + 1, Len(s))]

\* the exception label, with thrown as the exception
Unwind(left, thrown, catchable) ==
  LET h == HandlerIn(left.stack)
  IN  IF catchable /\ h.at > 0
      THEN /\ stack' = Append(SubSeq(left.stack, 1, h.at - 1), thrown)
           /\ rc' = Freed(left.rc, h.freed)
           \* the label of OP_catch: the depth and the outer catches it had there
           /\ level' = h.at
           /\ catches' = SubSeq(catches, 1, Cardinality({i \in DOMAIN catches : catches[i] < h.at}))
           /\ loc' = left.loc
           /\ arg' = left.arg
           /\ exc' = Plain
           /\ UNCHANGED <<mode, copied, given, ret>>
      ELSE /\ mode' = "done"
           /\ rc' = Freed(left.rc, left.stack \o Locals(left.loc, left.arg))
           /\ stack' = <<>>
           /\ loc' = Plain
           /\ arg' = IF copied THEN Plain ELSE left.arg
           /\ exc' = thrown
           /\ ret' = Plain
           /\ UNCHANGED <<copied, given, level, catches>>

-----------------------------------------------------------------------------
(* The frame, the instructions that end it, and all others.                *)

\* the counts on entry: the caller owns its argument, and the frame its copy
Enter(given_, copied_) == [t \in Tokens |-> IF t = given_ THEN IF copied_ THEN 2 ELSE 1 ELSE 0]

Init ==
  /\ mode = "run"
  /\ stack = <<>>
  /\ loc = Plain
  /\ copied \in IF Arg \in Slots THEN BOOLEAN ELSE {FALSE}
  /\ \E given_ \in IF Arg \in Slots THEN {1, Plain} ELSE {Plain} :
       /\ rc = Enter(given_, copied)
       /\ arg = given_
       /\ given = IF copied THEN given_ ELSE Plain
  /\ exc = Plain
  /\ ret = Plain
  /\ level = 0
  /\ catches = <<>>

\* an instruction that succeeds
Run ==
  \E x \in Outcomes :
    /\ x.ok
    /\ Applies(x)
    /\ LET left == Left(x)
       IN  /\ stack' = left.stack
           /\ loc' = left.loc
           /\ arg' = left.arg
           /\ rc' = left.rc
    /\ level' = level + x.change
    /\ catches' = CatchesAfter(x.op, level + x.change)
    /\ UNCHANGED <<mode, copied, given, exc, ret>>

\* JS_Throw: the exception is a new value, thrown in the state the outcome leaves
Thrown(left) ==
  LET t == CHOOSE t \in Tokens : left.rc[t] = 0 /\ rc[t] = 0
  IN  [value |-> t, left |-> [left EXCEPT !.rc[t] = 1]]

\* an instruction that fails; an interrupt cannot be caught
Fail ==
  \E x \in Outcomes, catchable \in BOOLEAN :
    /\ ~x.ok
    /\ Applies(x)
    /\ LET y == Thrown(Left(x)) IN Unwind(y.left, y.value, catchable)

Here == [stack |-> stack, loc |-> loc, arg |-> arg, rc |-> rc]
Top == stack[Len(stack)]

\* OP_throw: the operand is the exception
Throw ==
  /\ stack # <<>>
  /\ Top \notin Marks
  /\ Unwind([Here EXCEPT !.stack = Front(stack)], Top, TRUE)

\* OP_return, OP_return_undef, and a tail call of what lies on the stack
Return ==
  \/ /\ stack # <<>>
     /\ Top \notin Marks
     /\ Finish(rc, Front(stack), Top, Plain)
  \/ Finish(rc, stack, Plain, Plain)
  \/ /\ stack # <<>>
     /\ Top \notin Marks
     /\ Free # {}
     /\ Finish([rc EXCEPT ![Fresh(1)] = 1], stack, Fresh(1), Plain)

\* OP_nip_catch: the stack is freed down to the innermost catch offset, which the value replaces
NipCatch(s) ==
  LET p == CHOOSE i \in DOMAIN s : s[i] \in Marks /\ \A k \in (i + 1)..Len(s) : s[k] \notin Marks
  IN  [stack |-> Append(SubSeq(s, 1, p - 1), s[Len(s)]), freed |-> SubSeq(s, p + 1, Len(s) - 1)]

LeaveCatch ==
  /\ catches # <<>>
  /\ Top \notin Marks
  /\ stack' = NipCatch(stack).stack
  /\ rc' = Freed(rc, NipCatch(stack).freed)
  /\ level' = Last(catches)
  /\ catches' = Front(catches)
  /\ UNCHANGED <<mode, loc, arg, copied, given, exc, ret>>

Next ==
  /\ mode = "run"
  /\ \/ Run
     \/ Fail
     \/ Throw
     \/ Return
     \/ LeaveCatch

Spec == Init /\ [][Next]_vars

-----------------------------------------------------------------------------
(* Properties.                                                             *)

Held == stack \o <<loc, arg, given, exc, ret>>

TypeOK ==
  /\ mode \in {"run", "done"}
  /\ \A i \in DOMAIN stack : stack[i] \in Tokens \cup {Plain, Uninit} \cup Marks
  /\ rc \in [Tokens -> 0..30]

\* Every reference count is the number of places that hold the value: no instruction and
\* no way out of one frees what is still held, or forgets what it held.
Counted == \A t \in Tokens : rc[t] = Count(t, Held)

\* The depth of the stack is the one compute_stack_size makes of the opcode table, also
\* where an exception enters a handler and where a return leaves a finally.
StackAsDeclared == mode = "run" => Len(stack) = level

\* The catch offsets on the stack are those compute_stack_size knows of: it assumes that
\* they are removed with some instructions only.
CatchesKnown ==
  mode = "run" => Range(catches) = {i \in DOMAIN stack : stack[i] \in Marks}

\* A frame that has ended leaves the caller's argument, a result or an exception, and
\* nothing else.
NothingLeft ==
  mode = "done" => /\ exc = Plain \/ ret = Plain
                   /\ \A t \in Tokens : rc[t] > 0 => t \in {exc, ret, given, arg}
                   /\ copied => arg = Plain

\* What a frame owns is on its stack or in its variables, at the depth and with
\* the handlers that the compiler computed.
StackSound == TypeOK /\ Counted /\ StackAsDeclared /\ CatchesKnown /\ NothingLeft
=============================================================================
