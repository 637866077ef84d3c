----------------------------- MODULE MCObjects -----------------------------
(* The properties of objects: a proxy, and families of objects and         *)
(* operations on them; each by itself, `on` says which. The constants of    *)
(* QJSProxy are those of the configuration. Of the other objects the length *)
(* is the key 1000, and names follow it.                                    *)
EXTENDS QJSProxy, TLC

VARIABLES on, heap, objs, agree

objectVars == <<heap, objs, agree>>

Language == INSTANCE OrdinaryObjects WITH Indices <- {}, Names <- {}, Length <- 1000
AllOn == Language!AllOn
NoValue == Language!Undefined

Slot(k, kind, v, on_) == [key |-> k, kind |-> kind, v |-> v, get |-> 0, set |-> 0, on |-> on_]
Object(class, list, fast) ==
  [class |-> class, slots |-> list, fast |-> fast, values |-> <<>>, ext |-> TRUE, var |-> 1, small |-> FALSE, deleted |-> 0]

EmptyArray == Object("array", <<Slot(1000, "length", 0, {"W"})>>, TRUE)
Plain == Object("plain", <<>>, FALSE)
Arguments ==
  [Object("arguments", <<Slot(1000, "normal", 1, {"W", "C"}), Slot(0, "reference", NoValue, AllOn)>>, FALSE) EXCEPT !.small = TRUE]
\* a module that exports a variable named length
Namespace == [Object("namespace", <<Slot(1000, "reference", NoValue, {"W", "E"})>>, FALSE) EXCEPT !.ext = FALSE]
\* a function, whose prototype property is made on first use
Function == Object("plain", <<Slot(1001, "autoinit", 2, {"W"})>>, FALSE)

\* descriptors of data, with chosen fields, and some of accessors
Flags(S) == {<<has, set>> \in (SUBSET S) \X (SUBSET S) : set \subseteq has}
DescriptorsOf(V) ==
  {Language!Descriptor(f[1] \cup (IF v = NoValue THEN {} ELSE {"value"}), v, 0, 0, f[2]) :
      f \in Flags({"W", "C"}), v \in V \cup {NoValue}}
    \cup {Language!Descriptor({"get", "C"}, NoValue, 5, 0, set) : set \in {{}, {"C"}}}
    \cup {Language!Descriptor({"get"}, NoValue, 6, 0, {})}

\* the objects, each with its prototypes; the values, those in descriptors, the
\* objects with defined properties, those that are closed, the receivers of a set
Families ==
  [array |-> [indices |-> {0, 1}, names |-> {}, chain |-> [a |-> <<"a">>], initial |-> [a |-> EmptyArray], values |-> {1}, described |-> 0..3,
              defined |-> {"a"}, closable |-> {}, receivers |-> {<<"a", "a">>}, slots |-> 5],
   frozen |-> [indices |-> {0, 1}, names |-> {1001}, chain |-> [a |-> <<"a">>], initial |-> [a |-> EmptyArray], values |-> {1, 2}, described |-> {},
               defined |-> {}, closable |-> {"a"}, receivers |-> {<<"a", "a">>}, slots |-> 5],
   plain |-> [indices |-> {}, names |-> {1001, 1002}, chain |-> [o |-> <<"o">>], initial |-> [o |-> Function], values |-> {1}, described |-> {1},
              defined |-> {"o"}, closable |-> {"o"}, receivers |-> {<<"o", "o">>}, slots |-> 3],
   proto |-> [indices |-> {0}, names |-> {}, chain |-> [a |-> <<"a", "p">>, p |-> <<"p">>], initial |-> [a |-> EmptyArray, p |-> Plain],
              values |-> {1}, described |-> {1}, defined |-> {"p"}, closable |-> {"p"}, receivers |-> {<<"a", "a">>, <<"p", "p">>, <<"p", "a">>}, slots |-> 3],
   special |-> [indices |-> {0}, names |-> {}, chain |-> [g |-> <<"g">>, n |-> <<"n">>], initial |-> [g |-> Arguments, n |-> Namespace],
                values |-> {1}, described |-> {1}, defined |-> {"g", "n"}, closable |-> {"g"}, receivers |-> {<<"g", "g">>, <<"n", "n">>}, slots |-> 3]]

Of(f) == INSTANCE QJSObject WITH
  Indices <- f.indices, Names <- f.names, Length <- 1000, Chain <- f.chain, Initial <- f.initial,
  Values <- f.values, Descriptors <- DescriptorsOf(f.described),
  Defined <- f.defined, Closable <- f.closable, Receivers <- f.receivers, CompactAt <- 2, MaxSlots <- f.slots

ASSUME MCObjectsAssumption == \A f \in DOMAIN Families : Of(Families[f])!KeysAssumption

-----------------------------------------------------------------------------

Chosen == on \in DOMAIN Families

MCInit ==
  /\ Init
  /\ \/ on = "proxy" /\ Of(Families.array)!Init
     \/ on \in DOMAIN Families /\ proto = "p" /\ \E f \in DOMAIN Families : on = f /\ Of(Families[f])!Init

MCNext ==
  \/ on = "proxy" /\ Next /\ UNCHANGED <<on, objectVars>>
  \/ \E f \in DOMAIN Families : on = f /\ Of(Families[f])!Next /\ UNCHANGED <<on, vars>>

MCSpec == MCInit /\ [][MCNext]_<<on, vars, objectVars>>

-----------------------------------------------------------------------------
(* What is checked of the objects that are no proxies.                     *)

\* After any operations an object has the properties, attributes and values the
\* language gives it, whether it is a fast or a slow array, and a mapped
\* argument is the variable (JS_DefineProperty, JS_SetPropertyInternal,
\* delete_property, set_array_length, js_object_seal).
SameObjects == \E f \in DOMAIN Families : f = (IF Chosen THEN on ELSE "array") /\ Of(Families[f])!SameObjects

\* Every operation succeeds, is refused, reads a value, or calls a getter or
\* setter, when the language says so.
SameResults == agree

\* The keys are listed in the order of the language: indices by number, names in
\* the order they were made in, whatever was deleted and compacted between.
SameOrder == Chosen => \E f \in DOMAIN Families : on = f /\ Of(Families[f])!SameOrder

\* An object is reported sealed or frozen exactly when the language says so
\* (js_object_isSealed).
SameIntegrity == on = "plain" => Of(Families.plain)!SameIntegrity

\* No element lies at or after the length of an array.
ArraysWhole == on = "array" => Of(Families.array)!ArraysWhole

\* Objects, arrays, arguments and namespaces are those of the language.
SameAsLanguage == SameObjects /\ SameResults /\ SameOrder /\ SameIntegrity /\ ArraysWhole
=============================================================================
