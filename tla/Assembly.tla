------------------------------ MODULE Assembly ------------------------------
(***************************************************************************)
(* What becomes of generated values: ResolveFieldPath finds what a prompt  *)
(* may quote (execution/field_path_resolver.go), the request of a field    *)
(* quotes it (primitive_processor.go), and PathBasedAssembler puts the     *)
(* results together (assembly/path_based_assembler.go).                    *)
(*                                                                         *)
(* A value is a leaf, a map or a list; a path is a sequence of keys.  An   *)
(* optional value is a sequence of at most one element.                    *)
(***************************************************************************)
EXTENDS Naturals, Sequences, SequencesExt

Leaf(v) == [is |-> "leaf", of |-> v]
MapOf(f) == [is |-> "map", of |-> f]
ListOf(s) == [is |-> "list", of |-> s]
IsMap(v) == v.is = "map"

EmptyMap == [k \in {} |-> 0]
Put(f, k, v) == [x \in DOMAIN f \cup {k} |-> IF x = k THEN v ELSE f[x]]

-----------------------------------------------------------------------------
(* Paths into generated values. *)

\* The part of every item of a list that has it.
PartOfItems(items, part) ==
    LET Parts[i \in 0 .. Len(items)] ==
          IF i = 0 THEN <<>>
          ELSE IF IsMap(items[i]) /\ part \in DOMAIN items[i].of
               THEN Append(Parts[i - 1], items[i].of[part]) ELSE Parts[i - 1]
    IN  Parts[Len(items)]

\* The i-th key of a path: into a map, or, with the last key, into all items of a list.
Down(value, path, i) ==
    CASE IsMap(value) -> IF path[i] \in DOMAIN value.of THEN <<value.of[path[i]]>> ELSE <<>>
      [] value.is = "list" ->
           LET parts == PartOfItems(value.of, path[i])
           IN  IF i = Len(path) /\ parts # <<>> THEN <<ListOf(parts)>> ELSE <<>>
      [] OTHER -> <<>>

ResolveFieldPath(path, generatedValues) ==
    LET Found[i \in 1 .. Len(path)] ==
          IF i = 1
          THEN IF path[1] \in DOMAIN generatedValues THEN <<generatedValues[path[1]]>> ELSE <<>>
          ELSE IF Found[i - 1] = <<>> THEN <<>> ELSE Down(Found[i - 1][1], path, i)
    IN  Found[Len(path)]

\* buildRequestPieces, buildVectorRequest, StructuredOutputProcessor.Process: the selected
\* values that exist are quoted after the prompt, a path that leads nowhere is left out.
Quoted(selectFields, generatedValues) ==
    LET exists == {p \in selectFields : ResolveFieldPath(p, generatedValues) # <<>>}
    IN  [p \in exists |-> ResolveFieldPath(p, generatedValues)[1]]

-----------------------------------------------------------------------------
(* Assembly of results, each a path and a value. *)

\* setNestedValue: the map found at the end of each prefix of the path, made where it is
\* missing; an optional value, <<>> when something else is in the way.
Parents(root, path) ==
    LET Map[i \in 1 .. Len(path)] ==
          IF i = 1 THEN <<root>>
          ELSE IF Map[i - 1] = <<>> THEN <<>>
          ELSE LET here == Map[i - 1][1]
                   key == path[i - 1]
               IN  IF key \notin DOMAIN here THEN <<EmptyMap>>
                   ELSE IF IsMap(here[key]) THEN <<here[key].of>> ELSE <<>>
    IN  Map

\* Mutant of setNestedValue: the walk to the parent goes one key too far.
setNestedValueTooFar(root, path, value) ==
    <<Put(root, Last(path), MapOf([k \in {Last(path)} |-> value]))>>

setNestedValue(root, path, value) ==
    LET maps == Parents(root, path)
        n == Len(path)
        Rebuilt[i \in 1 .. n] ==
            Put(maps[i][1], path[i], IF i = n THEN value ELSE MapOf(Rebuilt[i + 1]))
    IN  IF maps[n] = <<>> THEN <<>> ELSE <<Rebuilt[1]>>

\* Assemble: a result of the root has its key for a path; the first conflict is an error,
\* which loses the whole object.
Assemble(results) ==
    LET Root[i \in 0 .. Len(results)] ==
          IF i = 0 THEN <<EmptyMap>>
          ELSE IF Root[i - 1] = <<>> THEN <<>>
          ELSE setNestedValue(Root[i - 1][1], results[i].path, results[i].value)
    IN  Root[Len(results)]
=============================================================================
