-------------------------- MODULE StructuredOutput --------------------------
(***************************************************************************)
(* execution/structured_output_processor.go: an object or array asked for  *)
(* with one call that carries a JSON schema, instead of field by field.    *)
(*                                                                         *)
(* Definitions have the form of module Conversion, and so does a schema:   *)
(* a function from paths to what it says there.  A text is what it holds   *)
(* as JSON and the fence around it.                                        *)
(***************************************************************************)
EXTENDS Integers, Sequences

\* Types the schema does not know (map, byte, vector) are asked for as strings.
SchemaType(def) ==
    IF def.plain.type \in {"object", "array", "number", "integer", "boolean"} THEN def.plain.type ELSE "string"

Schema(type, instruction) ==
    [type |-> type, description |-> IF instruction = "" THEN <<>> ELSE <<instruction>>, required |-> {}, additional |-> TRUE]

Property(p, q) == Len(q) = Len(p) + 1 /\ SubSeq(q, 1, Len(p)) = p /\ q[Len(q)][1] = "properties"

\* Every property is required, and no other is allowed, when there is a map of properties.
objectToSchema(def, p) ==
    [Schema("object", def[p].plain.instruction) EXCEPT
        !.required = {q \in DOMAIN def : Property(p, q)}, !.additional = ~def[p].properties]

ToSchema(def, p) ==
    IF SchemaType(def[p]) = "object" THEN objectToSchema(def, p) ELSE Schema(SchemaType(def[p]), def[p].plain.instruction)

\* The recursion goes on with the properties of an object and the items of an array.
SchemaPaths(def) ==
    {p \in DOMAIN def : \A i \in DOMAIN p :
        <<SchemaType(def[SubSeq(p, 1, i - 1)]), p[i][1]>> \in {<<"object", "properties">>, <<"array", "items">>}}

\* arrayToSchema: items without a definition are strings.
ItemsOf(p) == Append(p, <<"items">>)
BareItems(def) == {ItemsOf(p) : p \in {q \in SchemaPaths(def) : SchemaType(def[q]) = "array" /\ ItemsOf(q) \notin DOMAIN def}}

DefinitionToJSONSchema(def) ==
    [p \in SchemaPaths(def) \cup BareItems(def) |-> IF p \in SchemaPaths(def) THEN ToSchema(def, p) ELSE Schema("string", "")]

\* processField takes this way only with objects and arrays.
IsStructured(def, asked) == asked /\ def.plain.type \in {"object", "array"}

\* A fence is taken off, then the JSON has to be of the definition's type; null is
\* accepted as a nil map or slice.  <<>> is an error.
parseStructuredResponse(text, def) ==
    IF text.json \in {def.plain.type, "null"} THEN <<text.json>> ELSE <<>>

\* Process: on any error, whether of the context size or not, the field is decomposed.
StructuredProcess(def, error, content, text) ==
    IF error # "" \/ content = <<>> \/ parseStructuredResponse(text, def) = <<>> THEN "decompose" ELSE "value"
=============================================================================
