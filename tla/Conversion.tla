----------------------------- MODULE Conversion -----------------------------
(***************************************************************************)
(* converison/*.go: a definition in the form of jsonSchema and in the form *)
(* of the protobuf messages.  A definition is a tree, a function from the  *)
(* paths of its nodes to the nodes.  A path is the sequence of the parts   *)
(* that lead to a node from the root <<>>: <<"properties", key>>,          *)
(* <<"items">>, <<"hashMap">>, and <<part, i>> for Logic and Then of       *)
(* branch i of the decision point or of the point that ends the loop.      *)
(*                                                                         *)
(* In a node an optional part is a sequence of at most one element; a      *)
(* protobuf string or integer that is not set is "" or 0.  Fields that     *)
(* both forms have with the same type (type, instruction, model, order,    *)
(* selected fields, stream, priority) are one record, plain.               *)
(***************************************************************************)
EXTENDS Integers, Sequences

CONSTANTS
    IntBits,     \* width of a protobuf int32
    Definitions, \* definitions a program builds with the Go types
    Messages     \* definitions a client of another language sends

\* int32(v): v in two's complement of IntBits bits.
Half == 2^(IntBits - 1)
Int32(v) == ((v + Half) % (2 * Half)) - Half

\* A part that is nil stays nil.
Opt(Convert(_), x) == [i \in DOMAIN x |-> Convert(x[i])]
MapValues(Convert(_), f) == [k \in DOMAIN f |-> Convert(f[k])]

(* Parts without a definition inside; the model's names on the left or right. *)

\* ChunkingStrategy and ExtraBody, which both forms have, are set in neither direction.
convertSpeechToText(x) ==
    [model |-> x.model, audio |-> x.audio, language |-> x.language, format |-> x.format,
     toString |-> x.toString, toCaptions |-> x.toCaptions, chunking |-> "", extraBody |-> <<>>]
convertTextToSpeech(x) ==
    [model |-> x.model, voice |-> x.voice, stringToAudio |-> x.stringToAudio, format |-> x.format]
convertImage(x) == [model |-> x.model, size |-> x.size]
convertSendImage(x) == [imagesData |-> x.imagesData]
ConvertFocus(x) == [prompt |-> x.prompt, fields |-> x.fields, keepOriginal |-> x.keepOriginal]

\* Maps of values, nil or not, here without lists and maps inside: a Go number of any kind
\* becomes a double, and a double that is none, when it is read, a string.
GoNumbers == {"float64", "float32", "int", "int32", "int64"}
NotFinite == {<<"NaN">>, <<"Infinity">>, <<"-Infinity">>}
NewValue(v) == IF v.kind \in GoNumbers THEN [kind |-> "number", of |-> v.of] ELSE v
AsInterface(v) ==
    IF v.kind = "number" THEN [kind |-> IF v.of \in NotFinite THEN "string" ELSE "float64", of |-> v.of] ELSE v

\* A value without a protobuf form is an error, and the message nil; a nil map becomes an
\* empty message, and a nil message an empty map.
Unsupported(m) == \E i \in DOMAIN m : \E k \in DOMAIN m[i] : m[i][k].kind = "other"
ConvertMapToStruct(m) ==
    IF Unsupported(m) THEN <<>> ELSE <<IF m = <<>> THEN <<>> ELSE MapValues(NewValue, m[1])>>
ConvertStructToMap(s) == <<IF s = <<>> THEN <<>> ELSE MapValues(AsInterface, s[1])>>

\* The error of the body's conversion is ignored.
ConvertProtoToRequestFormat(x) ==
    [url |-> x.url, method |-> x.method, headers |-> x.headers, body |-> ConvertStructToMap(x.body),
     authorization |-> x.authorization, requireFields |-> x.requireFields]
ConvertModelToProtoRequestFormat(x) ==
    [url |-> x.url, method |-> x.method, headers |-> x.headers, body |-> ConvertMapToStruct(x.body),
     authorization |-> x.authorization, requireFields |-> x.requireFields]

\* Mutant of convertModelCondition: a string is printed, too.
convertModelConditionPrinting(c) ==
    [field |-> c.field, operator |-> c.operator, fieldPath |-> c.fieldPath,
     value |-> [kind |-> "string", of |-> <<"printed">> \o c.value.of]]

\* Values of a condition: a Go number of any kind becomes a double, strings and
\* Booleans stay, anything else is printed; an unset oneof is nil.
convertModelCondition(c) ==
    LET kind == c.value.kind
    IN  [field |-> c.field, operator |-> c.operator, fieldPath |-> c.fieldPath,
         value |-> CASE kind \in GoNumbers -> [c.value EXCEPT !.kind = "number"]
                     [] kind \in {"string", "bool", "nil"} -> c.value
                     [] OTHER -> [kind |-> "string", of |-> <<"printed">> \o c.value.of]]

convertProtoCondition(c) ==
    [field |-> c.field, operator |-> c.operator, fieldPath |-> c.fieldPath,
     value |-> IF c.value.kind = "number" THEN [c.value EXCEPT !.kind = "float64"] ELSE c.value]

convertProtoScoreScale(x) == [min |-> x.min, max |-> x.max]
convertModelScoreScale(x) == [min |-> Int32(x.min), max |-> Int32(x.max)]

convertProtoScoringDimension(x) ==
    [description |-> x.description, scale |-> Opt(convertProtoScoreScale, x.scale), type |-> x.type, weight |-> x.weight]
convertModelScoringDimension(x) ==
    [description |-> x.description, scale |-> Opt(convertModelScoreScale, x.scale), type |-> x.type, weight |-> x.weight]

convertProtoScoringCriteria(x) ==
    [dimensions |-> MapValues(convertProtoScoringDimension, x.dimensions), model |-> x.model, method |-> x.method]
convertModelScoringCriteria(x) ==
    [dimensions |-> MapValues(convertModelScoringDimension, x.dimensions), model |-> x.model, method |-> x.method]

\* Epistemic is a value in the model and a message in the protobuf form.
convertProtoEpistemicValidation(x) ==
    IF x = <<>> THEN [active |-> FALSE, judges |-> 0] ELSE [active |-> x[1].active, judges |-> x[1].judges]
convertModelEpistemicValidation(x) == <<[active |-> x.active, judges |-> Int32(x.judges)]>>

\* A seed of 0 means no seed on the wire.  Fields that are copied here and treated alike by
\* every adapter are one value: passed are the penalties, the log probabilities and the
\* reasoning effort, and unread are Stop, Stream, User, Store and Metadata.
convertProtoModelConfig(x) ==
    [temperature |-> x.temperature, topP |-> x.topP, passed |-> x.passed, unread |-> x.unread, maxTokens |-> x.maxTokens, n |-> x.n, topLogProbs |-> x.topLogProbs,
     logitBias |-> x.logitBias, seed |-> IF x.seed = 0 THEN <<>> ELSE <<x.seed>>,
     kwargs |-> IF x.kwargs = <<>> THEN <<>> ELSE ConvertStructToMap(x.kwargs)]
convertModelModelConfig(x) ==
    [temperature |-> x.temperature, topP |-> x.topP, passed |-> x.passed, unread |-> x.unread, maxTokens |-> Int32(x.maxTokens), n |-> Int32(x.n), topLogProbs |-> Int32(x.topLogProbs),
     logitBias |-> MapValues(Int32, x.logitBias), seed |-> IF x.seed = <<>> THEN 0 ELSE Int32(x.seed[1]),
     kwargs |-> IF x.kwargs = <<>> THEN <<>> ELSE ConvertMapToStruct(x.kwargs)]

getStringPointer(s) == IF s = "" THEN <<>> ELSE <<s>>
stringOf(p) == IF p = <<>> THEN "" ELSE p[1]

(* The parts that hold definitions, and the nodes of a tree.  The definitions inside are *)
(* nodes of their own.                                                                    *)

ConvertHashMap(x) == [keyInstruction |-> x.keyInstruction]

convertProtoConditionalBranch(x) ==
    [name |-> x.name, conditions |-> Opt(convertProtoCondition, x.conditions), priority |-> x.priority]
convertModelConditionalBranch(x) ==
    [name |-> x.name, conditions |-> Opt(convertModelCondition, x.conditions), priority |-> Int32(x.priority)]

convertProtoDecisionPoint(x) ==
    [name |-> x.name, prompt |-> x.prompt, branches |-> Opt(convertProtoConditionalBranch, x.branches), strategy |-> x.strategy]
convertModelDecisionPoint(x) ==
    [name |-> x.name, prompt |-> x.prompt, branches |-> Opt(convertModelConditionalBranch, x.branches), strategy |-> x.strategy]

convertProtoRecursiveLoop(x) ==
    [maxIterations |-> x.maxIterations, selection |-> x.selection, feedback |-> x.feedback,
     termination |-> Opt(convertProtoDecisionPoint, x.termination), includePrevious |-> x.includePrevious]
convertModelRecursiveLoop(x) ==
    [maxIterations |-> Int32(x.maxIterations), selection |-> x.selection, feedback |-> x.feedback,
     termination |-> Opt(convertModelDecisionPoint, x.termination), includePrevious |-> x.includePrevious]

\* The map of properties is made, also when there was none.  StructuredOutput, which both
\* forms have, is set in neither direction.
ModelNode(d) ==
    [plain |-> d.plain, properties |-> TRUE, hashMap |-> Opt(ConvertHashMap, d.hashMap),
     systemPrompt |-> getStringPointer(d.systemPrompt), overridePrompt |-> getStringPointer(d.overridePrompt),
     focus |-> Opt(ConvertFocus, d.focus), req |-> Opt(ConvertProtoToRequestFormat, d.req),
     speechToText |-> Opt(convertSpeechToText, d.speechToText),
     textToSpeech |-> Opt(convertTextToSpeech, d.textToSpeech),
     image |-> Opt(convertImage, d.image), sendImage |-> Opt(convertSendImage, d.sendImage),
     decision |-> Opt(convertProtoDecisionPoint, d.decision),
     scoring |-> Opt(convertProtoScoringCriteria, d.scoring),
     loop |-> Opt(convertProtoRecursiveLoop, d.loop),
     epistemic |-> convertProtoEpistemicValidation(d.epistemic),
     config |-> Opt(convertProtoModelConfig, d.config), structuredOutput |-> FALSE]

ProtoNode(d) ==
    [plain |-> d.plain, properties |-> TRUE, hashMap |-> Opt(ConvertHashMap, d.hashMap),
     systemPrompt |-> stringOf(d.systemPrompt), overridePrompt |-> stringOf(d.overridePrompt),
     focus |-> Opt(ConvertFocus, d.focus), req |-> Opt(ConvertModelToProtoRequestFormat, d.req),
     speechToText |-> Opt(convertSpeechToText, d.speechToText),
     textToSpeech |-> Opt(convertTextToSpeech, d.textToSpeech),
     image |-> Opt(convertImage, d.image), sendImage |-> Opt(convertSendImage, d.sendImage),
     decision |-> Opt(convertModelDecisionPoint, d.decision),
     scoring |-> Opt(convertModelScoringCriteria, d.scoring),
     loop |-> Opt(convertModelRecursiveLoop, d.loop),
     epistemic |-> convertModelEpistemicValidation(d.epistemic),
     config |-> Opt(convertModelModelConfig, d.config), structuredOutput |-> FALSE]

\* The recursion: the nodes that the calls for the given parts lead to.
Reached(d, parts) == {p \in DOMAIN d : \A i \in DOMAIN p : p[i][1] \in parts}

ConvertProtoToModel(d) ==
    [p \in Reached(d, {"properties", "items", "hashMap", "decision.logic", "decision.then", "loop.logic", "loop.then"}) |->
        ModelNode(d[p])]
ConvertModelToProto(d) ==
    [p \in Reached(d, {"properties", "items", "hashMap", "decision.logic", "decision.then", "loop.logic", "loop.then"}) |->
        ProtoNode(d[p])]

(* Messages and their reception. *)

\* Every branch of a point has its Then, which convertProtoConditionalBranch dereferences.
ThensOf(d, p, part, point) ==
    \A i \in DOMAIN point : \A j \in DOMAIN point[i].branches : Append(p, <<part, j>>) \in DOMAIN d
HasThens(d) ==
    \A p \in DOMAIN d :
        /\ ThensOf(d, p, "decision.then", d[p].decision)
        /\ \A i \in DOMAIN d[p].loop : ThensOf(d, p, "loop.then", d[p].loop[i].termination)

-----------------------------------------------------------------------------
(* What the Go types and the protobuf messages say of a definition. *)

NodeFields ==
    {"plain", "properties", "hashMap", "systemPrompt", "overridePrompt", "focus", "req", "speechToText", "textToSpeech",
     "image", "sendImage", "decision", "scoring", "loop", "epistemic", "config", "structuredOutput"}
Parts == {"properties", "items", "hashMap", "decision.logic", "decision.then", "loop.logic", "loop.then"}

\* Values of a condition: kinds of Go ("other" is any type that is not listed) and of the oneof.
GoKinds == {"float64", "float32", "int", "int32", "int64", "string", "bool", "nil", "other"}
WireKinds == {"number", "string", "bool", "nil"}
Int32s == -Half .. Half - 1

HasFields(x, names) == x = [n \in names |-> x[n]]
List(x) == Len(x) \in Nat /\ HasFields(x, 1 .. Len(x))
Optional(x) == List(x) /\ Len(x) <= 1
OptionalPart(x, names) == Optional(x) /\ \A i \in DOMAIN x : HasFields(x[i], names)

IsCondition(c, kinds) ==
    /\ HasFields(c, {"field", "operator", "fieldPath", "value"})
    /\ HasFields(c.value, {"kind", "of"}) /\ c.value.kind \in kinds
IsBranch(b, ints, kinds) ==
    /\ HasFields(b, {"name", "conditions", "priority"}) /\ b.priority \in ints
    /\ List(b.conditions) /\ \A i \in DOMAIN b.conditions : IsCondition(b.conditions[i], kinds)
IsPoint(x, ints, kinds) ==
    /\ HasFields(x, {"name", "prompt", "branches", "strategy"})
    /\ List(x.branches) /\ \A i \in DOMAIN x.branches : IsBranch(x.branches[i], ints, kinds)
IsLoop(x, ints, kinds) ==
    /\ HasFields(x, {"maxIterations", "selection", "feedback", "termination", "includePrevious"})
    /\ x.maxIterations \in ints
    /\ Optional(x.termination) /\ \A i \in DOMAIN x.termination : IsPoint(x.termination[i], ints, kinds)
IsScale(x, ints) == HasFields(x, {"min", "max"}) /\ x.min \in ints /\ x.max \in ints
IsDimension(x, ints) ==
    /\ HasFields(x, {"description", "scale", "type", "weight"})
    /\ Optional(x.scale) /\ \A i \in DOMAIN x.scale : IsScale(x.scale[i], ints)
IsScoring(x, ints) ==
    /\ HasFields(x, {"dimensions", "model", "method"})
    /\ HasFields(x.dimensions, DOMAIN x.dimensions)
    /\ \A k \in DOMAIN x.dimensions : IsDimension(x.dimensions[k], ints)
IsMap(m, kinds) ==
    /\ Optional(m)
    /\ \A i \in DOMAIN m :
         /\ HasFields(m[i], DOMAIN m[i])
         /\ \A k \in DOMAIN m[i] : HasFields(m[i][k], {"kind", "of"}) /\ m[i][k].kind \in kinds
IsConfig(x, ints, kinds) ==
    /\ HasFields(x, {"temperature", "topP", "passed", "unread", "maxTokens", "n", "topLogProbs", "logitBias", "seed", "kwargs"})
    /\ x.maxTokens \in ints /\ x.n \in ints /\ x.topLogProbs \in ints
    /\ x.logitBias \in [DOMAIN x.logitBias -> ints]
    /\ IsMap(x.kwargs, kinds)
IsModelConfig(x) == IsConfig(x, Int, GoKinds) /\ Optional(x.seed) /\ \A i \in DOMAIN x.seed : x.seed[i] \in Int
IsProtoConfig(x) == IsConfig(x, Int32s, WireKinds) /\ x.seed \in Int32s
IsEpistemic(x, ints) == HasFields(x, {"active", "judges"}) /\ x.judges \in ints

\* What the two forms have in common; ints and kinds are the ones of the form.
IsNode(d, ints, kinds) ==
    /\ HasFields(d, NodeFields)
    /\ OptionalPart(d.hashMap, {"keyInstruction"})
    /\ OptionalPart(d.focus, {"prompt", "fields", "keepOriginal"})
    /\ OptionalPart(d.req, {"url", "method", "headers", "body", "authorization", "requireFields"})
    /\ \A i \in DOMAIN d.req : IsMap(d.req[i].body, kinds)
    /\ OptionalPart(d.speechToText,
           {"model", "audio", "language", "format", "toString", "toCaptions", "chunking", "extraBody"})
    /\ OptionalPart(d.textToSpeech, {"model", "voice", "stringToAudio", "format"})
    /\ OptionalPart(d.image, {"model", "size"})
    /\ OptionalPart(d.sendImage, {"imagesData"}) /\ \A i \in DOMAIN d.sendImage : List(d.sendImage[i].imagesData)
    /\ Optional(d.decision) /\ \A i \in DOMAIN d.decision : IsPoint(d.decision[i], ints, kinds)
    /\ Optional(d.scoring) /\ \A i \in DOMAIN d.scoring : IsScoring(d.scoring[i], ints)
    /\ Optional(d.loop) /\ \A i \in DOMAIN d.loop : IsLoop(d.loop[i], ints, kinds)

IsModelNode(d) ==
    /\ IsNode(d, Int, GoKinds)
    /\ Optional(d.systemPrompt) /\ Optional(d.overridePrompt)
    /\ IsEpistemic(d.epistemic, Int)
    /\ Optional(d.config) /\ \A i \in DOMAIN d.config : IsModelConfig(d.config[i])
IsProtoNode(d) ==
    /\ IsNode(d, Int32s, WireKinds)
    /\ Optional(d.epistemic) /\ \A i \in DOMAIN d.epistemic : IsEpistemic(d.epistemic[i], Int32s)
    /\ Optional(d.config) /\ \A i \in DOMAIN d.config : IsProtoConfig(d.config[i])

\* What lies inside a node is reached through it.
IsTree(d) ==
    /\ HasFields(d, DOMAIN d) /\ <<>> \in DOMAIN d
    /\ \A p \in DOMAIN d : List(p) /\ \A i \in DOMAIN p : p[i][1] \in Parts /\ SubSeq(p, 1, i - 1) \in DOMAIN d

\* Then is a value in Go and cannot be missing there.  (That a power of two is a positive
\* number is a fact the provers do not know.)
ASSUME ConversionAssumption ==
    /\ IntBits \in Nat \ {0} /\ Half \in Nat \ {0}
    /\ \A d \in Definitions : IsTree(d) /\ HasThens(d) /\ \A p \in DOMAIN d : IsModelNode(d[p])
    /\ \A w \in Messages : IsTree(w) /\ \A p \in DOMAIN w : IsProtoNode(w[p])
-----------------------------------------------------------------------------
VARIABLES
    stage,      \* "built", "wire", "received" or "panic"
    origin,     \* the definition it started from, and who made it
    form,       \* the definition in its present form
    accepted    \* definitions the server has received, in order

conversionVars == <<stage, origin, form, accepted>>

ConversionInit ==
    /\ \/ \E d \in Definitions : origin = [by |-> "go", def |-> d] /\ stage = "built"
       \/ \E w \in Messages : origin = [by |-> "client", def |-> w] /\ stage = "wire"
    /\ form = origin.def
    /\ accepted = <<>>

\* A definition in Go types is sent, the first time or after having been received.
Send ==
    /\ stage \in {"built", "received"} /\ Len(accepted) < 2
    /\ form' = ConvertModelToProto(form)
    /\ stage' = "wire"
    /\ UNCHANGED <<origin, accepted>>

\* DefaultRequestConverter.Convert: the service receives a message.
Receive ==
    /\ stage = "wire"
    /\ IF HasThens(form)
         THEN /\ form' = ConvertProtoToModel(form)
              /\ stage' = "received"
              /\ accepted' = Append(accepted, form')
         ELSE stage' = "panic" /\ UNCHANGED <<form, accepted>>
    /\ UNCHANGED origin

ConversionNext == Send \/ Receive
-----------------------------------------------------------------------------
(* Properties *)

\* Reference: what a definition is known to lose on its way, part by part.
NormalPrompt(p) == IF p = <<"">> THEN <<>> ELSE p
NormalValue(v) ==
    IF v.kind \in {"float32", "int", "int32", "int64"} THEN [v EXCEPT !.kind = "float64"]
    ELSE IF v.kind = "other" THEN [kind |-> "string", of |-> <<"printed">> \o v.of] ELSE v
NormalCondition(c) == [c EXCEPT !.value = NormalValue(c.value)]
NormalBranch(b) ==
    [name |-> b.name, conditions |-> Opt(NormalCondition, b.conditions), priority |-> Int32(b.priority)]
NormalPoint(x) == [x EXCEPT !.branches = Opt(NormalBranch, x.branches)]
NormalLoop(x) ==
    [maxIterations |-> Int32(x.maxIterations), selection |-> x.selection, feedback |-> x.feedback,
     termination |-> Opt(NormalPoint, x.termination), includePrevious |-> x.includePrevious]
NormalScale(x) == [min |-> Int32(x.min), max |-> Int32(x.max)]
NormalDimension(x) == [x EXCEPT !.scale = Opt(NormalScale, x.scale)]
NormalScoring(x) == [x EXCEPT !.dimensions = MapValues(NormalDimension, x.dimensions)]
NormalMember(v) ==
    IF v.kind \in GoNumbers THEN [kind |-> IF v.of \in NotFinite THEN "string" ELSE "float64", of |-> v.of] ELSE v
NormalMap(m) == <<IF m = <<>> \/ Unsupported(m) THEN <<>> ELSE MapValues(NormalMember, m[1])>>
NormalRequest(x) ==
    [url |-> x.url, method |-> x.method, headers |-> x.headers, body |-> NormalMap(x.body),
     authorization |-> x.authorization, requireFields |-> x.requireFields]
NormalSeed(s) == IF s = <<>> \/ Int32(s[1]) = 0 THEN <<>> ELSE <<Int32(s[1])>>
NormalConfig(x) ==
    [temperature |-> x.temperature, topP |-> x.topP, passed |-> x.passed, unread |-> x.unread, maxTokens |-> Int32(x.maxTokens), n |-> Int32(x.n), topLogProbs |-> Int32(x.topLogProbs),
     logitBias |-> MapValues(Int32, x.logitBias), seed |-> NormalSeed(x.seed),
     kwargs |-> IF x.kwargs = <<>> THEN <<>> ELSE IF Unsupported(x.kwargs) THEN <<>> ELSE NormalMap(x.kwargs)]
NormalSpeech(x) ==
    [model |-> x.model, audio |-> x.audio, language |-> x.language, format |-> x.format,
     toString |-> x.toString, toCaptions |-> x.toCaptions, chunking |-> "", extraBody |-> <<>>]
NormalNode(d) ==
    [plain |-> d.plain, properties |-> TRUE, hashMap |-> d.hashMap,
     systemPrompt |-> NormalPrompt(d.systemPrompt), overridePrompt |-> NormalPrompt(d.overridePrompt),
     focus |-> d.focus, req |-> Opt(NormalRequest, d.req), speechToText |-> Opt(NormalSpeech, d.speechToText),
     textToSpeech |-> d.textToSpeech, image |-> d.image, sendImage |-> d.sendImage,
     decision |-> Opt(NormalPoint, d.decision), scoring |-> Opt(NormalScoring, d.scoring),
     loop |-> Opt(NormalLoop, d.loop), config |-> Opt(NormalConfig, d.config),
     epistemic |-> [active |-> d.epistemic.active, judges |-> Int32(d.epistemic.judges)], structuredOutput |-> FALSE]
Normal(d) == [p \in DOMAIN d |-> NormalNode(d[p])]

\* A definition built in Go arrives as it was, except for what the wire cannot tell
\* apart (an empty prompt, a seed of 0, the kind of a number, no map of properties, no body of a
\* request), integers cut to 32 bits, StructuredOutput, the chunking of speech, and a body or
\* template arguments with a value that has no protobuf form, which are dropped whole: the two
\* halves of every conversion agree on every field, and follow the same parts.
ArrivesNormal ==
    stage = "received" /\ origin.by = "go" => accepted[1] = Normal(origin.def)

\* What is lost is lost the first time: a definition that was received and is sent on
\* is received unchanged.
SecondTripFaithful == Len(accepted) = 2 => accepted[1] = accepted[2]

\* What ConvertModelToProto makes can always be received; only a message from
\* elsewhere, with a branch that has no Then, makes convertProtoConditionalBranch panic.
OwnMessagesReceived == stage = "panic" => origin.by = "client" /\ ~HasThens(origin.def)
=============================================================================
