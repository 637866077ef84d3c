---------------------------- MODULE RegExpPatterns ----------------------------
(***************************************************************************)
(* Regular expressions and what the language says they match. A pattern is *)
(* a tree; matching a node at a position gives every way to go on, in the  *)
(* order in which they are tried.                                          *)
(***************************************************************************)
EXTENDS Integers, Sequences, SequencesExt, FiniteSets, Folds

CONSTANTS
  WordChars,    \* the characters of words
  Newlines,     \* the line terminators
  Lower         \* for each character, the one it is compared as when case is ignored

Unlimited == 99
None == -1

\* nodes: the characters of a class are given as intervals
Node(t, a, b, ranges, kids) == [t |-> t, a |-> a, b |-> b, ranges |-> ranges, kids |-> kids]
Char(c) == Node("char", c, 0, <<>>, <<>>)
Dot == Node("dot", 0, 0, <<>>, <<>>)
Class(ranges) == Node("class", 0, 0, ranges, <<>>)
LineStart == Node("lineStart", 0, 0, <<>>, <<>>)
LineEnd == Node("lineEnd", 0, 0, <<>>, <<>>)
Boundary(not) == Node(IF not THEN "notBoundary" ELSE "boundary", 0, 0, <<>>, <<>>)
Capture(n, k) == Node("capture", n, 0, <<>>, <<k>>)
BackReference(n) == Node("back", n, 0, <<>>, <<>>)
Terms(kids) == Node("terms", 0, 0, <<>>, kids)
Either(kids) == Node("either", 0, 0, <<>>, kids)
Look(t, k) == Node(t, 0, 0, <<>>, <<k>>)
Greedy(min, max, k) == Node("greedy", min, max, <<>>, <<k>>)
Lazy(min, max, k) == Node("lazy", min, max, <<>>, <<k>>)

Looks == {"ahead", "notAhead", "behind", "notBehind"}
Negative == {"notAhead", "notBehind"}

RECURSIVE Captures(_)
Captures(k) == (IF k.t = "capture" THEN {k.a} ELSE {}) \cup UNION {Captures(k.kids[i]) : i \in DOMAIN k.kids}

InClass(c, ranges) == \E i \in DOMAIN ranges : c \in ranges[i][1]..ranges[i][2]

\* a regular expression: the pattern and its flags
Flagged(node, flags) == [node |-> node, flags |-> flags]

Unset == <<None, None>>
Unsets(n) == SubSeq(<<Unset, Unset, Unset, Unset>>, 1, n)
Least(S) == CHOOSE x \in S : \A y \in S : x <= y
Greatest(S) == CHOOSE x \in S : \A y \in S : y <= x

\* captures are numbered from left to right: those of a node are an interval
Forget(c, S) ==
  IF S = {} THEN c
  ELSE SubSeq(c, 1, Least(S) - 1) \o Unsets(Cardinality(S)) \o SubSeq(c, Greatest(S) + 1, Len(c))

-----------------------------------------------------------------------------
(* Matching. A state is an end position and the captured substrings.       *)

At(e, c) == [e |-> e, c |-> c]

IsNewline(text, i) == text[i] \in Newlines
IsWord(text, i) == i \in 1..Len(text) /\ text[i] \in WordChars

Canonical(c, flags) == IF "ignoreCase" \in flags THEN Lower[c] ELSE c

\* one character in the direction of matching
Step(text, x, back) == IF back THEN At(x.e - 1, x.c) ELSE At(x.e + 1, x.c)
Next1(text, x, back) == IF back THEN x.e ELSE x.e + 1
HasNext(text, x, back) == Next1(text, x, back) \in 1..Len(text)

\* lists of states
Only(condition, x) == IF condition THEN <<x>> ELSE <<>>
RECURSIVE Join(_)
Join(lists) ==
  LET half == Len(lists) \div 2
  IN  IF Len(lists) = 0 THEN <<>> ELSE IF Len(lists) = 1 THEN lists[1]
      ELSE Join(SubSeq(lists, 1, half)) \o Join(SubSeq(lists, half + 1, Len(lists)))
Each(xs, op(_)) == Join([i \in DOMAIN xs |-> op(xs[i])])

Assertion(t, text, e, flags) ==
  CASE t = "lineStart" -> e = 0 \/ ("multiline" \in flags /\ IsNewline(text, e))
    [] t = "lineEnd" -> e = Len(text) \/ ("multiline" \in flags /\ IsNewline(text, e + 1))
    [] t = "boundary" -> IsWord(text, e) # IsWord(text, e + 1)
    [] t = "notBoundary" -> IsWord(text, e) = IsWord(text, e + 1)

\* the captured substring again, before or after the position
Again(text, x, n, back, flags) ==
  LET c == x.c[n]
      len == c[2] - c[1]
      from == IF back THEN x.e - len ELSE x.e
  IN  IF c = Unset THEN <<x>>
      ELSE Only(from >= 0 /\ from + len <= Len(text)
                  /\ \A i \in 1..len : Canonical(text[c[1] + i], flags) = Canonical(text[from + i], flags),
                At(IF back THEN x.e - len ELSE x.e + len, x.c))

RECURSIVE Matches(_, _, _, _, _), Repeat(_, _, _, _, _, _, _), Sequence(_, _, _, _, _)

Sequence(kids, text, xs, back, flags) ==
  IF kids = <<>> THEN xs
  ELSE Sequence(Tail(kids), text, Each(xs, LAMBDA x : Matches(Head(kids), text, x, back, flags)), back, flags)

\* what is captured in the atom is forgotten before every repetition; one that
\* consumes nothing once the least number is reached does not count
Repeat(k, min, max, text, x, back, flags) ==
  LET forgotten == [x EXCEPT !.c = Forget(@, Captures(k))]
      once == SelectSeq(Matches(k.kids[1], text, forgotten, back, flags), LAMBDA y : min > 0 \/ y.e # x.e)
      more == Each(once, LAMBDA y : Repeat(k, IF min = 0 THEN 0 ELSE min - 1, IF max = Unlimited THEN max ELSE max - 1, text, y, back, flags))
  IN  IF max = 0 THEN <<x>>
      ELSE IF min > 0 THEN more
      ELSE IF k.t = "greedy" THEN Append(more, x) ELSE <<x>> \o more

Matches(k, text, x, back, flags) ==
  LET c == text[Next1(text, x, back)]
      one(test) == Only(HasNext(text, x, back) /\ test, Step(text, x, back))
  IN  CASE k.t = "char" -> one(Canonical(c, flags) = Canonical(k.a, flags))
        [] k.t = "dot" -> one("dotAll" \in flags \/ c \notin Newlines)
        [] k.t = "class" -> one(InClass(Canonical(c, flags), k.ranges))
        [] k.t \in {"lineStart", "lineEnd", "boundary", "notBoundary"} -> Only(Assertion(k.t, text, x.e, flags), x)
        [] k.t = "capture" ->
             Each(Matches(k.kids[1], text, x, back, flags),
                  LAMBDA y : <<[y EXCEPT !.c[k.a] = IF back THEN <<y.e, x.e>> ELSE <<x.e, y.e>>]>>)
        [] k.t = "back" -> Again(text, x, k.a, back, flags)
        [] k.t = "terms" -> Sequence(IF back THEN Reverse(k.kids) ELSE k.kids, text, <<x>>, back, flags)
        [] k.t = "either" -> Each(k.kids, LAMBDA kid : Matches(kid, text, x, back, flags))
        [] k.t \in Looks ->
             LET found == Matches(k.kids[1], text, x, k.t \in {"behind", "notBehind"}, flags)
             IN  IF k.t \in Negative THEN Only(found = <<>>, x)
                 ELSE IF found = <<>> THEN <<>> ELSE <<At(x.e, Head(found).c)>>
        [] k.t \in {"greedy", "lazy"} -> Repeat(k, k.a, k.b, text, x, back, flags)

\* the first position at which the pattern matches, and what it captures; the
\* whole match comes first
Exec(re, text, from) ==
  LET found(i) == Matches(re.node, text, At(i, Unsets(Cardinality(Captures(re.node)))), FALSE, re.flags)
      starts == {i \in IF "sticky" \in re.flags THEN {from} ELSE from..Len(text) : found(i) # <<>>}
      start == CHOOSE i \in starts : \A j \in starts : i <= j
      best == Head(found(start))
  IN  IF starts = {} THEN <<>>
      ELSE <<<<<<start, best.e>>>> \o best.c>>
=============================================================================
