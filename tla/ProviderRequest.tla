--------------------------- MODULE ProviderRequest ---------------------------
(***************************************************************************)
(* From a job to the HTTP request of a provider and from its answer to a   *)
(* result or a classified error: requestManagement, clientManager,         *)
(* backoff/errorClassifer.go, and the settings of client/initialise_batch. *)
(*                                                                         *)
(* The definition of a job has the form of a node of module Conversion: an *)
(* adapter looks at no other.  An optional value is a sequence of at most  *)
(* one element.  A URL is its host, its length up to the endpoint and the  *)
(* endpoint; an error text is the set of the phrases in it that Classify   *)
(* looks for.                                                              *)
(***************************************************************************)
EXTENDS Integers, Sequences, SequencesExt

CONSTANTS
    Panic,   \* an index out of range
    Hosts    \* the hosts of URLs in the environment

EndpointLength == [chat |-> 17, completions |-> 12, embeddings |-> 11, none |-> 0]
URLs == [host : Hosts, base : Nat, endpoint : DOMAIN EndpointLength]
Length(url) == url.base + EndpointLength[url.endpoint]

-----------------------------------------------------------------------------
(* Requests in the form of OpenAI. *)

\* Contents that are not recognised as an image are sent as one.
detectMimeType(image) == IF image.kind \in {"image/png", "image/gif"} THEN image.kind ELSE "image/jpeg"
toBase64DataURL(image) == [mime |-> detectMimeType(image), base64 |-> image.bytes]

TextPart(text) == [type |-> "text", text |-> text]
ImagePart(image) == [type |-> "image_url", url |-> toBase64DataURL(image)]
Message(role, content, parts) == [role |-> role, content |-> content, parts |-> parts]
promptWriter(prompt) == Message("user", "", <<TextPart(prompt)>>)

TextOnlyModels == {"gpt-3.5-turbo-0613", "gpt-4-0613"}
ImagesOf(def) ==
    IF def.sendImage = <<>> \/ def.plain.model \in TextOnlyModels THEN <<>> ELSE def.sendImage[1].imagesData

\* The seed of the definition, else LLM_SEED, else a fixed number.
SeedOf(def, env) ==
    IF def.config # <<>> /\ def.config[1].seed # <<>> THEN def.config[1].seed[1]
    ELSE IF env.seed # <<>> THEN env.seed[1] ELSE 51635473

\* Without a ModelConfig.
DefaultConfig == [temperature |-> 1, topP |-> 1, passed |-> "default", topLogProbs |-> 0, maxTokens |-> 0, kwargs |-> <<>>]

\* Stop, N, LogitBias, Stream, User, Store and Metadata of the ModelConfig are not read, and
\* MaxTokens, which the request has besides MaxCompletionTokens, is not set.
BuildRequest(inputs, env) ==
    LET def == inputs.def
        system == IF inputs.systemPrompt = "" THEN <<>> ELSE <<Message("system", inputs.systemPrompt, <<>>)>>
        images == ImagesOf(def)
        user == IF images = <<>> THEN <<Message("user", inputs.prompt, <<>>)>>
                ELSE <<promptWriter(inputs.prompt)>>
                     \o [i \in DOMAIN images |-> Message("user", "", <<ImagePart(images[i])>>)]
        config == IF def.config = <<>> THEN DefaultConfig ELSE def.config[1]
    IN  [messages |-> system \o user, model |-> def.plain.model,
         temperature |-> config.temperature, topP |-> config.topP, passed |-> config.passed,
         topLogProbs |-> config.topLogProbs, kwargs |-> config.kwargs,
         maxCompletionTokens |-> config.maxTokens, maxTokens |-> 0, seed |-> SeedOf(def, env),
         responseFormat |-> inputs.responseSchema]

BuildEmbeddingRequest(inputs) == [model |-> inputs.def.plain.model, input |-> inputs.prompt]

-----------------------------------------------------------------------------
(* The Gemini form. *)

\* The base64 data and the type are cut out of the data URL.
GeminiPart(part) ==
    IF part.type = "text" THEN [text |-> part.text]
    ELSE [inline_data |-> part.url.base64, mime_type |-> part.url.mime]

GeminiContent(message) ==
    [role |-> IF message.role \in {"assistant", "model"} THEN "model" ELSE "user",
     parts |-> (IF message.content = "" THEN <<>> ELSE <<[text |-> message.content]>>)
               \o [i \in DOMAIN message.parts |-> GeminiPart(message.parts[i])]]

Positive(n) == IF n > 0 THEN <<n>> ELSE <<>>

\* A message without parts is left out.  Of the settings only these are passed on, and
\* MaxTokens is never set.
convertToGeminiFormat(req) ==
    [contents |-> FlattenSeq([i \in DOMAIN req.messages |->
                     LET content == GeminiContent(req.messages[i])
                     IN  IF content.parts = <<>> THEN <<>> ELSE <<content>>]),
     model |-> req.model, temperature |-> Positive(req.temperature), topP |-> Positive(req.topP),
     maxOutputTokens |-> Positive(req.maxTokens),
     responseSchema |-> req.responseFormat]

convertToGeminiEmbeddingFormat(req) == [model |-> req.model, text |-> req.input]

FinishReason(reason) ==
    CASE reason = "MAX_TOKENS" -> "length"
      [] reason = "SAFETY" -> "content_filter"
      [] OTHER -> "stop"

\* The texts of the first candidate; without one an empty text and no finish reason.
convertFromGeminiFormat(reply) ==
    IF reply.candidates = <<>> THEN [content |-> <<>>, finish |-> ""]
    ELSE [content |-> reply.candidates[1].texts, finish |-> FinishReason(reply.candidates[1].finish)]

\* An answer without values is an empty embedding, not an error.
convertFromGeminiEmbeddingFormat(reply) == [content |-> reply.embedding, finish |-> ""]

-----------------------------------------------------------------------------
(* The adapters: what each sends, and what it makes of the answer. *)

\* Any provider but the three, and a local one without a URL, is an error.
NewClientAdapter(provider, env) ==
    CASE provider \in {"openai", "gemini"} -> provider
      [] provider = "local" /\ env.apiURL # <<>> -> "local"
      [] OTHER -> "error"
NewClientAdapterFromEnv(env) ==
    IF env.provider # "" THEN NewClientAdapter(env.provider, env)
    ELSE IF env.apiURL # <<>> THEN NewClientAdapter("local", env) ELSE "error"

\* Mutant of EmbeddingURL: the shorter ending is cut.
EmbeddingURLShort(url) ==
    CASE url.endpoint = "chat" -> [url EXCEPT !.base = Length(url) - EndpointLength["completions"], !.endpoint = "embeddings"]
      [] OTHER -> url

\* The last 17 characters are compared, and cut off also when only the last 12 match.
EmbeddingURL(url) ==
    IF Length(url) < EndpointLength["chat"] THEN Panic
    ELSE IF url.endpoint \in {"chat", "completions"}
      THEN [url EXCEPT !.base = Length(url) - EndpointLength["chat"], !.endpoint = "embeddings"]
    ELSE url

GeminiURL == [host |-> "gemini", base |-> 48, endpoint |-> "none"]
OpenAIURL == [host |-> "openai", base |-> 25, endpoint |-> "none"]

ASSUME PanicAssumption == Panic \notin URLs /\ Panic # GeminiURL /\ Panic # OpenAIURL

IsEmbedding(inputs) == inputs.def.plain.type = "vector"

LocalProcess(inputs, env) ==
    IF IsEmbedding(inputs)
      THEN [url |-> EmbeddingURL(env.apiURL[1]), body |-> BuildEmbeddingRequest(inputs)]
      ELSE [url |-> env.apiURL[1], body |-> BuildRequest(inputs, env)]
OpenAIProcess(inputs, env) ==
    [url |-> OpenAIURL, body |-> IF IsEmbedding(inputs) THEN BuildEmbeddingRequest(inputs) ELSE BuildRequest(inputs, env)]
GeminiProcess(inputs, env) ==
    [url |-> GeminiURL,
     body |-> IF IsEmbedding(inputs) THEN convertToGeminiEmbeddingFormat(BuildEmbeddingRequest(inputs))
              ELSE convertToGeminiFormat(BuildRequest(inputs, env))]

Process(adapter, inputs, env) ==
    CASE adapter = "local" -> LocalProcess(inputs, env)
      [] adapter = "openai" -> OpenAIProcess(inputs, env)
      [] OTHER -> GeminiProcess(inputs, env)

\* Status 0 is a call that fails; its text says why.  Every adapter prints the status
\* and the body; the OpenAI library also prints the name of the status.
Number(status) == IF status = 429 THEN {"429"} ELSE {}
LocalError(reply) == reply.says \cup Number(reply.status)
GeminiError(reply) == IF reply.status = 429 THEN Number(429) ELSE reply.says \cup Number(reply.status)
OpenAIError(reply) ==
    reply.says \cup Number(reply.status)
    \cup (CASE reply.status = 500 -> {"Internal Server Error"}
            [] reply.status = 503 -> {"Service Unavailable"}
            [] OTHER -> {})
ErrorText(adapter, reply) ==
    CASE adapter = "local" -> LocalError(reply)
      [] adapter = "openai" -> OpenAIError(reply)
      [] OTHER -> GeminiError(reply)

TransientErrors ==
    {"client connection lost", "Service Unavailable", "Internal Server Error", "context deadline exceeded",
     "connection reset by peer", "broken pipe", "unexpected EOF"}

\* Mutant of Classify: the lists are looked through before the 429.
ClassifyListsFirst(text) ==
    IF "EOF" \in text \/ text \cap TransientErrors # {} THEN "transient"
    ELSE IF "429" \in text THEN "ratelimit" ELSE "permanent"

\* No adapter makes a RateLimitError or the phrases of requestConverter.go: what is left
\* of the tests is io.EOF, a 429 anywhere in the text, and the list of passing errors.
Classify(text) ==
    IF "EOF" \in text THEN "transient"
    ELSE IF "429" \in text THEN "ratelimit"
    ELSE IF text \cap TransientErrors # {} THEN "transient" ELSE "permanent"

\* What Process returns: a result, or an error by its class.
JobResult(adapter, inputs, reply) ==
    IF reply.status # 200 \/ ~reply.parses
      THEN [error |-> Classify(ErrorText(adapter, reply)), content |-> <<>>, finish |-> ""]
    ELSE LET answer == IF IsEmbedding(inputs) THEN convertFromGeminiEmbeddingFormat(reply)
                       ELSE IF adapter = "gemini" THEN convertFromGeminiFormat(reply)
                       ELSE IF reply.candidates = <<>> THEN [content |-> <<>>, finish |-> ""]
                       ELSE [content |-> reply.candidates[1].texts, finish |-> reply.candidates[1].finish]
         IN  [error |-> "", content |-> answer.content, finish |-> answer.finish]

-----------------------------------------------------------------------------
(* The batch client of the same process. *)

extractBaseURL(url) == [url EXCEPT !.endpoint = "none"]

\* <<>> is an error: Gemini and unknown providers.  Without any provider it is OpenAI,
\* whatever LLM_API_URL says.
determineBaseURL(env) ==
    LET provider == IF env.batchProvider = "" THEN env.provider ELSE env.batchProvider
        localURL == IF env.apiURL = <<>> THEN [host |-> "localhost", base |-> 25, endpoint |-> "none"] ELSE extractBaseURL(env.apiURL[1])
    IN  IF env.batchBaseURL # <<>> THEN env.batchBaseURL
        ELSE IF env.batchAPIURL # <<>> THEN <<extractBaseURL(env.batchAPIURL[1])>>
        ELSE CASE provider \in {"openai", ""} -> <<OpenAIURL>>
               [] provider = "local" -> <<localURL>>
               [] OTHER -> <<>>

\* init: without settings there is no batch client and batching stays off.
BatchAiClient(env) ==
    IF determineBaseURL(env) = <<>> THEN <<>>
    ELSE <<[baseURL |-> determineBaseURL(env)[1],
            apiKey |-> IF env.batchKey # "" THEN env.batchKey ELSE env.key]>>
=============================================================================
