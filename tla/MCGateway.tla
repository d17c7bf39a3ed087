----------------------------- MODULE MCGateway ----------------------------
(* Definitions with every part set, with none, and with boundary values, nested in each *)
(* of the places that hold a definition; integers have 4 bits on the wire.              *)
EXTENDS Gateway

Bare(plain) ==
    [plain |-> [instruction |-> plain, type |-> "string", model |-> "m"], properties |-> FALSE, hashMap |-> <<>>,
     systemPrompt |-> <<>>, overridePrompt |-> <<>>, focus |-> <<>>, req |-> <<>>,
     speechToText |-> <<>>, textToSpeech |-> <<>>, image |-> <<>>, sendImage |-> <<>>,
     decision |-> <<>>, scoring |-> <<>>, loop |-> <<>>,
     epistemic |-> [active |-> FALSE, judges |-> 0], config |-> <<>>, structuredOutput |-> FALSE]

Point(value, priority) ==
    [name |-> "point", prompt |-> "ask", strategy |-> "score",
     branches |-> <<[name |-> "b", priority |-> priority,
                     conditions |-> <<[field |-> "f", operator |-> "gt", fieldPath |-> "p", value |-> value]>>]>>]

Picture == [bytes |-> "i", kind |-> "image/png"]

\* Trees: a single node, and a tree put into a part of the root of another.
Leaf(node) == [p \in {<<>>} |-> node]
Put(tree, place, part) ==
    [p \in DOMAIN tree \cup {<<place>> \o q : q \in DOMAIN part} |-> IF p \in DOMAIN tree THEN tree[p] ELSE part[Tail(p)]]

Three == [kind |-> "int", of |-> <<"3">>]
FullNode(value, seed, int, prompt) ==
    [Bare("leaf") EXCEPT
        !.systemPrompt = prompt, !.overridePrompt = prompt, !.structuredOutput = TRUE,
        !.focus = <<[prompt |-> "fp", fields |-> <<"a", "b">>, keepOriginal |-> TRUE]>>,
        !.req = <<[url |-> "u", method |-> "GET", headers |-> "h",
                   body |-> IF seed = <<>> THEN <<>> ELSE <<[k \in {"a", "b"} |-> IF k = "a" THEN value ELSE Three]>>,
                   authorization |-> "auth", requireFields |-> <<"r">>]>>,
        !.speechToText = <<[model |-> "m1", audio |-> "au", language |-> "en", toString |-> TRUE,
                            toCaptions |-> FALSE, format |-> "srt", chunking |-> "auto", extraBody |-> <<"x">>]>>,
        !.textToSpeech = <<[model |-> "m2", voice |-> "v", stringToAudio |-> "s", format |-> "mp3"]>>,
        !.image = <<[model |-> "m3", size |-> "1024"]>>,
        !.sendImage = <<[imagesData |-> <<Picture, [bytes |-> "j", kind |-> "text"]>>]>>,
        !.decision = <<Point(value, int)>>,
        !.scoring = <<[model |-> "judge", method |-> "minimum", dimensions |->
                       [d \in {"d"} |-> [description |-> "x", type |-> "numeric", weight |-> "half",
                                         scale |-> <<[min |-> 0, max |-> int]>>]]]>>,
        !.loop = <<[maxIterations |-> int, selection |-> "highest", feedback |-> "again",
                    includePrevious |-> TRUE, termination |-> <<Point(value, 1)>>]>>,
        !.epistemic = [active |-> TRUE, judges |-> int],
        !.config = <<[temperature |-> 7, topP |-> 0, passed |-> "penalties", unread |-> "stop", maxTokens |-> int, n |-> 1, topLogProbs |-> int,
                      logitBias |-> [k \in {"tok"} |-> int], seed |-> seed, kwargs |-> <<[k \in {"think"} |-> value]>>]>>]

WithBranches(node) ==
    Put(Put(Put(Leaf(node), <<"decision.then", 1>>, Leaf(Bare("then"))), <<"decision.logic", 1>>, Leaf(Bare("logic"))),
        <<"loop.then", 1>>, Leaf(Bare("stop")))

Values == {[kind |-> k, of |-> <<"3">>] : k \in {"float64", "int", "string", "bool", "other", "nil"}}
          \cup {[kind |-> "float64", of |-> <<"NaN">>]}
Samples == {WithBranches(FullNode(v, s, i, p)) :
              v \in Values, s \in {<<>>, <<0>>, <<5>>, <<16>>}, i \in {7, 8, -9}, p \in {<<>>, <<"">>, <<"p">>}}
OneNode == FullNode([kind |-> "int", of |-> <<"3">>], <<5>>, 7, <<"p">>)
One == WithBranches(OneNode)
Vector == Leaf([Bare("leaf") EXCEPT !.plain.type = "vector"])
OldModel == WithBranches([OneNode EXCEPT !.plain.model = "gpt-4-0613"])
Object(plain) == Leaf([Bare(plain) EXCEPT !.plain.type = "object", !.properties = TRUE])
Array(plain) == Leaf([Bare(plain) EXCEPT !.plain.type = "array"])
Inner == Put(Object("inner"), <<"properties", "n">>, WithBranches([OneNode EXCEPT !.plain.type = "number"]))
Several == Put(Array("several"), <<"items">>, Leaf([Bare("item") EXCEPT !.plain.type = "object"]))

MCDefinitions ==
    Samples \cup {Leaf(Bare("leaf")), Vector, OldModel}
    \cup {Put(Put(Object("root"), <<"properties", "x">>, One), <<"properties", "y">>, One),
          Put(Array("root"), <<"items">>, Inner), Put(Object("root"), <<"properties", "z">>, Array("bare")),
          Put(Put(Object(""), <<"properties", "x">>, Inner), <<"properties", "y">>, Several),
          Put(Leaf([Bare("root") EXCEPT !.hashMap = <<[keyInstruction |-> "keys"]>>]), <<"hashMap">>, One),
          Put(Leaf([Bare("root") EXCEPT !.decision = <<Point([kind |-> "int", of |-> <<"1">>], 2)>>]),
              <<"decision.then", 1>>, One)}

Asking == Leaf([ProtoNode(Bare("leaf")) EXCEPT !.structuredOutput = TRUE])
Unfinished == Leaf([Asking[<<>>] EXCEPT !.decision = <<Point([kind |-> "number", of |-> <<"1">>], 0)>>])
MCMessages ==
    {Asking, Unfinished, Put(Leaf([Asking[<<>>] EXCEPT !.epistemic = <<>>]), <<"items">>, Unfinished),
     Put(Leaf([Asking[<<>>] EXCEPT !.hashMap = <<[keyInstruction |-> "keys"]>>]), <<"hashMap">>, Unfinished)}

\* Situations: every provider, prompts and structured output for all definitions; every environment
\* for a vector, a definition with images and one for a model that takes none.
Url(n, e) == [host |-> "h", base |-> n, endpoint |-> e]
Env(provider, url, batchProvider, batchURL) ==
    [provider |-> provider, apiURL |-> url, seed |-> <<3>>, key |-> "k", batchKey |-> "",
     batchProvider |-> batchProvider, batchBaseURL |-> <<>>, batchAPIURL |-> batchURL]
Situation(env, prompt, system, structured) ==
    [env |-> env, prompt |-> prompt, systemPrompt |-> system, structured |-> structured]
MCUsual ==
    {Situation(Env(p, <<Url(20, "chat")>>, "", <<>>), "ask", "be brief", TRUE) : p \in {"local", "openai", "gemini"}}
MCSituations ==
    MCUsual
    \cup {Situation([Env("local", <<Url(9, "none")>>, "", <<>>) EXCEPT !.seed = <<>>], "", "", FALSE)}
    \cup {Situation(Env(p, u, bp, bu), "ask", "", FALSE) :
             p \in {"", "local", "openai", "gemini", "other"},
             u \in {<<>>, <<Url(9, "none")>>, <<Url(20, "completions")>>, <<Url(20, "chat")>>},
             bp \in {"", "local", "gemini"}, bu \in {<<>>, <<Url(30, "chat")>>}}
MCVaried == {Vector, One, OldModel}

Reply(status, says, parses, candidates) ==
    [status |-> status, says |-> says, parses |-> parses, candidates |-> candidates, embedding |-> <<"v">>,
     text |-> [fence |-> "", json |-> "invalid"]]
OneText == <<[texts |-> <<"a">>, finish |-> "STOP"]>>
MCReplies ==
    {[Reply(200, {}, TRUE, OneText) EXCEPT !.text = [fence |-> f, json |-> j]] :
        f \in {"", "json", "plain"}, j \in {"object", "array", "null", "invalid"}} \cup
    {Reply(200, {}, TRUE, <<>>), Reply(200, {}, FALSE, <<>>),
     Reply(200, {}, TRUE, <<[texts |-> <<"a", "b">>, finish |-> "SAFETY"], [texts |-> <<"c">>, finish |-> "STOP"]>>)}
    \cup {Reply(s, t, FALSE, <<>>) : s \in {400, 429, 500, 503}, t \in {{}, {"Service Unavailable"}}}
    \cup {Reply(0, {t}, FALSE, <<>>) : t \in {"EOF", "connection reset by peer", "context deadline exceeded"}}
=============================================================================
