------------------------------- MODULE Schema -------------------------------
(***************************************************************************)
(* ciel-core/src/schema.rs and schema/json.rs: how the schema of a tool's  *)
(* arguments becomes a JSON Schema.  A union has no keyword of its own: it *)
(* is written as one map, into which those of its variants are merged in   *)
(* turn (add_json_fields, merge_json_maps).  Here the variants of a union  *)
(* are merged a step at a time, for every union of Unions.                 *)
(*                                                                         *)
(* A JSON value is [is |-> its type, of |-> its content].  Numbers are     *)
(* counted in halves, so that some are not integers.  A kind of schema is  *)
(* [kind |-> ..., of |-> ...] with its rules as a function from their JSON *)
(* keywords, or its value, or its variants.  Titles and descriptions,      *)
(* which allow and forbid nothing, are left out.                           *)
(***************************************************************************)
EXTENDS Integers, SequencesExt

CONSTANTS
    Unions,      \* the unions to write: sequences of kinds
    Instances,   \* the JSON values to validate
    Matches      \* pairs of a pattern or format and a text it matches

VARIABLES
    variants,    \* the variants of the union
    done,        \* how many of them have been merged
    map          \* what they have been merged into

vars == <<variants, done, map>>

-----------------------------------------------------------------------------
(* JSON values and kinds.                                                  *)

Null == [is |-> "null", of |-> <<>>]
Bool(b) == [is |-> "boolean", of |-> b]
Num(n) == [is |-> "number", of |-> n]
Str(s) == [is |-> "string", of |-> s]
List(s) == [is |-> "array", of |-> s]
Obj(f) == [is |-> "object", of |-> f]

Kind(name, of) == [kind |-> name, of |-> of]
Typed == {"string", "number", "integer", "boolean", "null", "object", "array"}

(* The builders of rules: a setter replaces, properties are added.         *)
Single(key, value) == [k \in {key} |-> value]
NoRules == <<>>
Get(rules, key, default) == IF key \in DOMAIN rules THEN rules[key] ELSE default
Set(rules, key, value) == Single(key, value) @@ rules

Property(rules, name, kind) ==
    Set(rules, "properties", Single(name, kind) @@ Get(rules, "properties", NoRules))
Required(rules, name) ==
    Set(rules, "required", List(Append(Get(rules, "required", List(<<>>)).of, Str(name))))
RequiredProperty(rules, name, kind) == Required(Property(rules, name, kind), name)

Lengths == [string |-> <<"minLength", "maxLength">>,
            array |-> <<"minItems", "maxItems">>,
            object |-> <<"minProperties", "maxProperties">>]
Minimums == {Lengths[t][1] : t \in DOMAIN Lengths} \cup {"minimum", "exclusiveMinimum"}
Maximums == {Lengths[t][2] : t \in DOMAIN Lengths} \cup {"maximum", "exclusiveMaximum"}

-----------------------------------------------------------------------------
(* merge_json_maps.                                                        *)

Items(value) == IF value.is = "array" THEN value.of ELSE <<value>>

AppendNew(old, new) ==
    FoldLeft(LAMBDA kept, item : IF Contains(kept, item) THEN kept
                                 ELSE Append(kept, item), old, new)

(* Mutant of MergeTypes: a union has the type of its last variant.         *)
MergeTypesLast(old, new) == new

MergeTypes(old, new) ==
    LET types == AppendNew(Items(old), Items(new))
    IN IF Len(types) = 1 THEN types[1] ELSE List(types)

(* Mutant of Tightest: the bound that allows more is kept.                 *)
Loosest(key, old, new) ==
    IF (key \in Minimums) = (new.of < old.of) THEN new ELSE old

Tightest(key, old, new) ==
    IF \/ key \in Minimums /\ new.of > old.of
       \/ key \in Maximums /\ new.of < old.of
    THEN new ELSE old

RECURSIVE Merge(_, _)
MergeValue(key, old, new) ==
    CASE key = "type" -> MergeTypes(old, new)
      [] key \in Minimums \cup Maximums ->
            IF old.is = "number" /\ new.is = "number" THEN Tightest(key, old, new) ELSE old
      [] key \notin {"type"} \cup Minimums \cup Maximums ->
            IF old.is # new.is THEN new
            ELSE CASE old.is = "object" -> Obj(Merge(old.of, new.of))
                   [] old.is = "array" -> List(AppendNew(old.of, new.of))
                   [] OTHER -> new

Merge(target, source) ==
    [k \in DOMAIN target \cup DOMAIN source |->
        CASE k \notin DOMAIN source -> target[k]
          [] k \notin DOMAIN target -> source[k]
          [] OTHER -> MergeValue(k, target[k], source[k])]

-----------------------------------------------------------------------------
(* add_json_fields.                                                        *)

RECURSIVE Fields(_)
ToJson(kind) == Obj(Fields(kind))

(* What has not been set, and no properties, and none required, is left    *)
(* out.                                                                    *)
RuleFields(rules) ==
    [k \in DOMAIN rules |->
        CASE k = "items" -> ToJson(rules[k])
          [] k = "properties" -> Obj([name \in DOMAIN rules[k] |-> ToJson(rules[k][name])])
          [] OTHER -> rules[k]]

Schemas(kinds) == List([i \in DOMAIN kinds |-> ToJson(kinds[i])])

Fields(kind) ==
    CASE kind.kind \in Typed ->
            Single("type", Str(kind.kind)) @@ RuleFields(kind.of)
      [] kind.kind \in {"anyOf", "allOf", "oneOf"} -> Single(kind.kind, Schemas(kind.of))
      [] kind.kind = "const" -> Single("const", kind.of)
      [] kind.kind = "not" -> Single("not", ToJson(kind.of))
      [] kind.kind = "union" ->
            FoldLeft(LAMBDA merged, variant : Merge(merged, Fields(variant)), <<>>, kind.of)
      [] kind.kind = "any" -> <<>>

Init ==
    /\ variants \in Unions
    /\ done = 0
    /\ map = <<>>

MergeVariant ==
    /\ done < Len(variants)
    /\ done' = done + 1
    /\ map' = Merge(map, Fields(variants[done + 1]))
    /\ UNCHANGED variants

Next == MergeVariant

Spec == Init /\ [][Next]_vars

-----------------------------------------------------------------------------
(* What a JSON Schema allows.                                              *)

IsOf(value, type) ==
    IF type = "integer" THEN value.is = "number" /\ value.of % 2 = 0 ELSE value.is = type

Size(value) == IF value.is = "object" THEN Cardinality(DOMAIN value.of) ELSE Len(value.of)

RECURSIVE Valid(_, _)
Follows(schema, key, value) ==
    LET rule == schema[key]
        Number == value.is = "number"
        Bounds(type, pos) == type = value.is /\ Lengths[type][pos] = key
    IN
    /\ key = "type" => \E i \in DOMAIN Items(rule) : IsOf(value, Items(rule)[i].of)
    /\ key = "const" => value = rule
    /\ \A t \in DOMAIN Lengths :
        /\ Bounds(t, 1) => 2 * Size(value) >= rule.of
        /\ Bounds(t, 2) => 2 * Size(value) <= rule.of
    /\ key = "minimum" /\ Number => value.of >= rule.of
    /\ key = "maximum" /\ Number => value.of <= rule.of
    /\ key = "exclusiveMinimum" /\ Number => value.of > rule.of
    /\ key = "exclusiveMaximum" /\ Number => value.of < rule.of
    /\ key = "multipleOf" /\ Number => value.of % rule.of = 0
    /\ key \in {"pattern", "format"} /\ value.is = "string" =>
        <<rule.of, value.of>> \in Matches
    /\ key = "items" /\ value.is = "array" =>
        \A i \in DOMAIN value.of : Valid(rule.of, value.of[i])
    /\ key = "properties" /\ value.is = "object" =>
        \A name \in DOMAIN value.of \cap DOMAIN rule.of :
            Valid(rule.of[name].of, value.of[name])
    /\ key = "required" /\ value.is = "object" =>
        \A i \in DOMAIN rule.of : rule.of[i].of \in DOMAIN value.of
    /\ key = "additionalProperties" /\ value.is = "object" /\ ~rule.of =>
        "properties" \in DOMAIN schema /\ DOMAIN value.of \subseteq DOMAIN schema["properties"].of
    /\ key = "anyOf" => \E i \in DOMAIN rule.of : Valid(rule.of[i].of, value)
    /\ key = "allOf" => \A i \in DOMAIN rule.of : Valid(rule.of[i].of, value)
    /\ key = "oneOf" =>
        Cardinality({i \in DOMAIN rule.of : Valid(rule.of[i].of, value)}) = 1
    /\ key = "not" => ~Valid(rule.of, value)

Valid(schema, value) == \A key \in DOMAIN schema : Follows(schema, key, value)

-----------------------------------------------------------------------------
(* Properties, of the variants that have been merged.                      *)

Merged == 1 .. done
Allowed(value) == \E i \in Merged : Valid(Fields(variants[i]), value)

Shared == UNION {DOMAIN Fields(variants[i]) \cap DOMAIN Fields(variants[j]) :
                    <<i, j>> \in {p \in Merged \X Merged : p[1] < p[2]}}

(* Keywords of which a merged one asks for all the variants ask for.       *)
Combined == Minimums \cup Maximums \cup {"type", "required"}

(* json.rs:181-255: what a union allows is allowed by one of its variants, *)
(* if no keyword of theirs was overwritten or merged from within: a tool   *)
(* is not called with an argument that none of them describes.             *)
Sound ==
    done > 0 /\ Shared \subseteq Combined =>
        \A value \in Instances : Valid(map, value) => Allowed(value)

(* Types that have no value in common, and there is a type.                *)
Separate ==
    LET kind(i) == variants[i].kind IN
    /\ \A i \in Merged : kind(i) \in Typed
    /\ \A i, j \in Merged : i # j =>
        kind(i) # kind(j) /\ {kind(i), kind(j)} # {"integer", "number"}

(* terminal.rs:61-68, json.rs:71-77: a union of separate types with no     *)
(* keyword in common allows what they allow, no more and no less.          *)
Exact ==
    done > 0 /\ Separate /\ Shared \subseteq {"type"} =>
        \A value \in Instances : Valid(map, value) <=> Allowed(value)
=============================================================================
