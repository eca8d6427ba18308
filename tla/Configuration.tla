--------------------------- MODULE Configuration ----------------------------
(***************************************************************************)
(* ciel-core/src/config.rs: the configuration file after TOML has parsed   *)
(* it.  Config::new replaces every table that has the one key "from-file"  *)
(* or "from-env" by the text it names; the rest of the program looks       *)
(* values up by paths in dotted notation, within a scope.                  *)
(*                                                                         *)
(* A key of a table is the sequence of the parts that its dots separate:   *)
(* a quoted key may have dots in it, and may be empty.  A scope or path is *)
(* a key, too, but what it leads to is looked up part by part.  A path     *)
(* part that selects an element of an array is left out: no path of the    *)
(* program has one.                                                        *)
(***************************************************************************)
EXTENDS Naturals, Sequences

CONSTANTS
    Externals,  \* the texts of files and of the environment, by their names
    Values,     \* the values of the configurations, with all their parts
    Depth       \* how deep the tables and arrays of a value go

Text(t) == [kind |-> "text", text |-> t]
Number == [kind |-> "number"]
Flag == [kind |-> "flag"]
Array(items) == [kind |-> "array", items |-> items]
Table(fields) == [kind |-> "table", fields |-> fields]
Error == [kind |-> "error"]

Parts(value) ==
    IF value.kind = "array" THEN {value.items[i] : i \in DOMAIN value.items}
    ELSE IF value.kind = "table" THEN {value.fields[k] : k \in DOMAIN value.fields}
    ELSE {}

(* What is parsed from a file is finite.                                   *)
ASSUME ValuesAssumption ==
    /\ Depth \in [Values -> Nat]
    /\ \A value \in Values :
        /\ value.kind = "table" => DOMAIN value.fields \subseteq Seq(STRING)
        /\ \A part \in Parts(value) : part \in Values /\ Depth[part] < Depth[value]

Sources == {"from-file", "from-env"}
Directive(source, name) == Table([k \in {<<source>>} |-> Text(name)])

-----------------------------------------------------------------------------
(* resolve: external[source][name] is the text of that name, if it exists. *)

IsDirective(value) ==
    /\ value.kind = "table"
    /\ \E source \in Sources : DOMAIN value.fields = {<<source>>}

Fetch(external, value) ==
    LET source == CHOOSE s \in Sources : DOMAIN value.fields = {<<s>>}
        name == value.fields[<<source>>]
    IN IF name.kind = "text" /\ name.text \in DOMAIN external[source]
       THEN Text(external[source][name.text])
       ELSE Error

(* A value, when its parts resolve to resolved.                            *)
Resolution(external, resolved, value) ==
    LET items == [i \in DOMAIN value.items |-> resolved[value.items[i]]]
        fields == [k \in DOMAIN value.fields |-> resolved[value.fields[k]]]
    IN IF IsDirective(value) THEN Fetch(external, value)
       ELSE IF \E part \in Parts(value) : resolved[part] = Error THEN Error
       ELSE IF value.kind = "array" THEN Array(items)
       ELSE IF value.kind = "table" THEN Table(fields)
       ELSE value

Resolve(external, value) ==
    LET resolved[v \in Values] == Resolution(external, resolved, v)
    IN resolved[value]

-----------------------------------------------------------------------------
(* scoped and read_value.                                                  *)

(* Mutant of Scoped: the scope replaces the one there was.                 *)
ScopedAnew(scope, name) == name

Scoped(scope, name) == scope \o name

(* The part of a value; an empty part is passed over.                      *)
Into(value, part) ==
    IF part = "" THEN value
    ELSE IF value.kind = "table" /\ <<part>> \in DOMAIN value.fields
         THEN value.fields[<<part>>]
         ELSE Error

LookUp(values, scope, path) ==
    LET parts == scope \o path
        reached[i \in 0 .. Len(parts)] ==
            IF i = 0 THEN values ELSE Into(reached[i - 1], parts[i])
    IN reached[Len(parts)]
=============================================================================
