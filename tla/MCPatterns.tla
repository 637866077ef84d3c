----------------------------- MODULE MCPatterns -----------------------------
(* Patterns for QJSRegExp. The characters: 1 is a, 2 is -, 3 a newline, 4 A. *)
EXTENDS RegExpPatterns

a == Char(1)
b == Char(2)
Alone(k) == Terms(<<k>>)
Pair(x, y) == Terms(<<x, y>>)
Empty == Terms(<<>>)
Product(xs, ys, op(_, _)) ==
  [i \in 1..(Len(xs) * Len(ys)) |-> op(xs[((i - 1) \div Len(ys)) + 1], ys[((i - 1) % Len(ys)) + 1])]
Plain(k) == Flagged(k, {})

\* every quantifier: with bounds of its own for every branch of the compiler
Bounds == <<<<0, 0>>, <<0, 1>>, <<0, 2>>, <<0, Unlimited>>, <<1, 1>>, <<1, 2>>, <<1, Unlimited>>, <<2, 2>>, <<2, 3>>, <<2, Unlimited>>>>
AsGreedy(k, q) == Greedy(q[1], q[2], k)
AsLazy(k, q) == Lazy(q[1], q[2], k)

\* atoms with captures, which are set whenever the atom is matched, and without
Capturing ==
  <<Capture(1, Alone(a)), Capture(1, Alone(Greedy(0, Unlimited, a))), Capture(1, Either(<<Empty, Alone(a)>>)),
    Pair(Capture(1, Alone(a)), Capture(2, Alone(Lazy(0, 1, b)))), Look("ahead", Alone(Capture(1, Alone(a))))>>
Others ==
  <<a, Dot, Class(<<<<1, 1>>, <<3, 3>>>>), Either(<<Alone(a), Pair(a, b)>>), Pair(a, b), Pair(Boundary(FALSE), a),
    Pair(Greedy(0, 1, a), Greedy(0, 1, b))>>
\* atoms that consume something, for the quantifiers that are not greedy
Advancing == <<a, Capture(1, Alone(a)), Either(<<Alone(a), Pair(a, b)>>), Pair(Greedy(1, Unlimited, a), Greedy(0, 1, b))>>

Quantifiers == Product(Capturing \o Others, Bounds, AsGreedy) \o Product(Advancing, Bounds, AsLazy)
Tails == <<b, LineEnd>>
Referring == <<BackReference(1), Look("notAhead", Alone(BackReference(1)))>>
QuantifierList ==
  Product(Quantifiers, Tails, LAMBDA x, y : Plain(Pair(x, y)))
    \o Product(Product(Capturing, Bounds, AsGreedy), Referring, LAMBDA x, y : Plain(Pair(x, y)))

\* quantifiers in quantifiers
Inner == Product(<<a, Greedy(0, Unlimited, a)>>, <<<<0, 2>>, <<2, 3>>, <<0, Unlimited>>>>, LAMBDA k, q : AsGreedy(Capture(1, Alone(k)), q))
Middle == Product(Inner, <<Empty, b>>, Pair)
NestedList == Product(Middle, <<<<0, 2>>, <<2, 3>>, <<2, Unlimited>>>>, LAMBDA k, q : Plain(Pair(AsGreedy(k, q), LineEnd)))

\* looking behind
Behind ==
  <<Alone(a), Pair(Capture(1, Alone(Greedy(0, Unlimited, a))), b), Pair(Capture(1, Alone(a)), Greedy(0, 2, Dot)),
    Pair(BackReference(1), Capture(1, Alone(a))), Either(<<Pair(a, a), Pair(Capture(1, Alone(b)), LineStart)>>),
    Pair(Look("ahead", Alone(Dot)), Class(<<<<1, 2>>>>)), Pair(Greedy(1, 2, Either(<<Alone(a), Pair(b, a)>>)), LineStart)>>
Looking(k) == <<Look("behind", k), Look("notBehind", k)>>
BehindList ==
  Product(FlattenSeq([i \in DOMAIN Behind |-> Looking(Behind[i])]), <<Dot, Greedy(0, Unlimited, Dot)>>,
          LAMBDA x, y : Plain(Terms(<<y, x, LineEnd>>)))
    \o Product(FlattenSeq([i \in DOMAIN Behind |-> Looking(Behind[i])]), <<Dot, Greedy(0, Unlimited, Dot)>>,
          LAMBDA x, y : Plain(Terms(<<y, x, Dot>>)))

Firsts == <<LineStart, LineEnd, Boundary(FALSE), Boundary(TRUE), Dot, Greedy(0, Unlimited, Dot), Capture(1, Alone(a))>>
FlagList ==
  Product(Product(Firsts, <<a, Dot, LineEnd, Boundary(TRUE)>>, Pair), <<{}, {"sticky"}, {"multiline"}, {"dotAll"}, {"ignoreCase"}>>, Flagged)
    \o <<Flagged(Pair(Capture(1, Alone(Dot)), BackReference(1)), {"ignoreCase"}),
         Flagged(Pair(Capture(1, Alone(Dot)), Look("behind", Pair(BackReference(1), a))), {"ignoreCase"})>>

Few == {<<1>>, <<1, 1>>, <<1, 2, 1, 1>>, <<1, 1, 1, 1>>}
Lines == {<<1, 3>>, <<3, 1>>, <<1, 3, 2>>, <<1, 4>>, <<4, 1, 1>>, <<2, 3, 3>>, <<1, 2, 3>>}
Shorter == {<<>>, <<1>>, <<1, 1>>, <<1, 2>>, <<2, 1>>, <<1, 1, 1>>, <<1, 2, 1>>}

\* patterns, and the texts they are matched with
Families ==
  [quantifiers |-> [regs |-> ToSet(QuantifierList), texts |-> Few], nested |-> [regs |-> ToSet(NestedList), texts |-> Shorter],
   behind |-> [regs |-> ToSet(BehindList), texts |-> Few], flags |-> [regs |-> ToSet(FlagList), texts |-> Lines]]
==============================================================================
