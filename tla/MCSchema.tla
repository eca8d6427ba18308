------------------------------ MODULE MCSchema ------------------------------
(***************************************************************************)
(* Unions of up to three of the kinds below, the program's own, an integer *)
(* or null, among them.  Numbers are halves: Num(2) is 1.                  *)
(***************************************************************************)
EXTENDS Schema

Rule(key, n) == Set(NoRules, key, Num(n))
Two(key1, n1, key2, n2) == Set(Rule(key1, n1), key2, Num(n2))
Plain(kind) == Kind(kind, NoRules)

Kinds ==
    {Plain("null"), Plain("boolean"), Plain("any"),
     Kind("string", Two("minLength", 4, "maxLength", 4)),
     Kind("string", Two("minLength", 0, "maxLength", 0)),
     Kind("string", Set(NoRules, "pattern", Str("p"))),
     Kind("integer", Two("minimum", 2, "maximum", 6)),
     Kind("integer", Two("minimum", 0, "exclusiveMaximum", 2)),
     Kind("number", Two("exclusiveMinimum", 5, "multipleOf", 3)),
     Kind("const", Num(2)),
     Kind("array", Set(Rule("maxItems", 2), "items", Plain("integer"))),
     \* as the arguments of the terminal tool
     Kind("object", Set(
        RequiredProperty(
            RequiredProperty(NoRules, "x", Plain("string")),
            "y", Kind("union", <<Kind("integer", Two("minimum", 2, "maximum", 4)),
                                 Plain("null")>>)),
        "additionalProperties", Bool(FALSE))),
     Kind("object", Required(Rule("minProperties", 2), "x")),
     Kind("union", <<Kind("integer", Rule("minimum", 2)), Plain("null")>>),
     Kind("not", Plain("string")),
     Kind("anyOf", <<Plain("boolean"), Kind("string", Rule("minLength", 2))>>),
     Kind("allOf", <<Plain("number"), Kind("number", Rule("minimum", 1))>>),
     Kind("oneOf", <<Plain("integer"), Kind("number", Rule("minimum", 2))>>)}

MCUnions == UNION {[1 .. n -> Kinds] : n \in 1 .. 3}

MCInstances ==
    {Null, Bool(TRUE)} \cup {Num(n) : n \in -1 .. 7}
    \cup {Str(s) : s \in {"", "a", "ab", "abc"}}
    \cup {List(<<>>), List(<<Num(1)>>), List(<<Num(2)>>), List(<<Num(2), Null>>)}
    \cup {Obj(NoRules), Obj(Single("x", Str("a"))), Obj(Single("y", Null))}
    \cup {Obj(Single("x", x) @@ Single("y", y)) :
            x \in {Str("a"), Null}, y \in {Null, Num(4), Num(6)}}

MCMatches == {<<"p", "a">>, <<"p", "abc">>}
=============================================================================
