------------------------------ MODULE Gateway ------------------------------
(***************************************************************************)
(* A definition from its gRPC message to a provider and back: it is        *)
(* received (Conversion), a job with it is processed by the adapter the    *)
(* environment asks for, and the provider's answer becomes the result      *)
(* (ProviderRequest), with a schema when the field is to be structured     *)
(* (StructuredOutput).  Both ends are conversions of other people's data,  *)
(* and a field lost at either is lost for good.                            *)
(***************************************************************************)
EXTENDS Conversion, ProviderRequest, StructuredOutput

CONSTANTS
    Situations,  \* an environment, the prompts of a job, whether it is to be structured
    Usual,       \* the situations every definition is tried in
    Varied,      \* the definitions tried in all of them
    Replies      \* what providers answer

\* Variables of the environment are set or not.  io.EOF is an error of the transport.
ASSUME GatewayAssumption ==
    /\ Usual \subseteq Situations /\ Varied \subseteq Definitions
    /\ \A s \in Situations :
         /\ Optional(s.env.apiURL) /\ \A i \in DOMAIN s.env.apiURL : s.env.apiURL[i] \in URLs
    /\ \A r \in Replies : r.status # 0 => "EOF" \notin r.says

VARIABLES
    job,      \* the situation
    sent,     \* the HTTP request, once there is one
    reply,    \* the provider's answer
    result    \* what Process returned

gatewayVars == <<conversionVars, job, sent, reply, result>>

GatewayInit ==
    /\ ConversionInit
    /\ job \in IF origin.def \in Varied THEN Situations ELSE Usual
    /\ sent = <<>> /\ reply = <<>> /\ result = <<>>

Adapter == NewClientAdapterFromEnv(job.env)
Root == accepted[1][<<>>]
Inputs ==
    [def |-> Root, prompt |-> job.prompt, systemPrompt |-> job.systemPrompt,
     responseSchema |-> IF IsStructured(Root, job.structured)
                          THEN <<DefinitionToJSONSchema(accepted[1])>> ELSE <<>>]

\* Without an adapter the process does not start.  An index out of range in an adapter
\* ends it: no caller of Process recovers.
Ask ==
    LET request == Process(Adapter, Inputs, job.env)
    IN  /\ stage = "received" /\ Len(accepted) = 1 /\ Adapter # "error"
        /\ stage' = IF request.url = Panic THEN "crash" ELSE "asked"
        /\ sent' = <<request>>
        /\ UNCHANGED <<origin, form, accepted, job, reply, result>>

Answer(r) ==
    /\ stage = "asked"
    /\ stage' = "answered"
    /\ reply' = <<r>>
    /\ LET done == JobResult(Adapter, Inputs, r)
       IN  result' = <<[error |-> done.error, content |-> done.content, finish |-> done.finish,
                        then |-> IF IsStructured(Root, job.structured)
                                   THEN StructuredProcess(Root, done.error, done.content, r.text)
                                   ELSE "parse"]>>
    /\ UNCHANGED <<origin, form, accepted, job, sent>>

GatewayNext ==
    \/ ConversionNext /\ UNCHANGED <<job, sent, reply, result>>
    \/ Ask
    \/ \E r \in Replies : Answer(r)

GatewaySpec == GatewayInit /\ [][GatewayNext]_gatewayVars
-----------------------------------------------------------------------------
(* Properties *)

Asked == stage \in {"asked", "answered"}
Wanted(d) == IF d.sendImage = <<>> \/ d.plain.model \in TextOnlyModels THEN <<>> ELSE d.sendImage[1].imagesData

\* What the provider reads in a request, in order; empty texts say nothing.
Text(text) == IF text = "" THEN <<>> ELSE <<<<"text", text>>>>
OpenAIItem(part) == IF part.type = "text" THEN Text(part.text) ELSE <<<<"image", part.url.base64, part.url.mime>>>>
GeminiItem(part) == IF "text" \in DOMAIN part THEN Text(part.text) ELSE <<<<"image", part.inline_data, part.mime_type>>>>
OpenAIReads(m) == Text(m.content) \o FlattenSeq([i \in DOMAIN m.parts |-> OpenAIItem(m.parts[i])])
GeminiReads(c) == FlattenSeq([i \in DOMAIN c.parts |-> GeminiItem(c.parts[i])])
ItemsRead(body) ==
    IF Adapter = "gemini" THEN FlattenSeq([i \in DOMAIN body.contents |-> GeminiReads(body.contents[i])])
    ELSE FlattenSeq([i \in DOMAIN body.messages |-> OpenAIReads(body.messages[i])])

\* The provider reads the system prompt, the prompt and the client's images, each once
\* and in this order, whichever adapter sends them and however they came.
EverythingAsked ==
    Asked /\ ~IsEmbedding(Inputs) =>
        LET images == Wanted(origin.def[<<>>])
        IN  ItemsRead(sent[1].body) =
                Text(job.systemPrompt) \o Text(job.prompt)
                \o [i \in DOMAIN images |-> <<"image", images[i].bytes, detectMimeType(images[i])>>]

\* The schema of a structured output reaches every provider.  Of the settings of a definition
\* Gemini gets the temperature and TopP, when they are positive; the others get these, the
\* penalties, log probabilities, reasoning effort, template arguments and the token limit as
\* they have arrived, and the seed unless it is 0 in 32 bits.  What BuildRequest does not read
\* reaches nobody (README, known disagreements).
SettingsSent ==
    Asked /\ ~IsEmbedding(Inputs) /\ origin.by = "go" =>
        LET body == sent[1].body
            config == origin.def[<<>>].config
            arrived == NormalConfig(config[1])
        IN  /\ (IF Adapter = "gemini" THEN body.responseSchema ELSE body.responseFormat) = Inputs.responseSchema
            /\ Adapter = "gemini" /\ config # <<>> =>
                 body.temperature = Positive(config[1].temperature) /\ body.topP = Positive(config[1].topP)
            /\ Adapter # "gemini" /\ config # <<>> =>
                 /\ body.temperature = config[1].temperature /\ body.topP = config[1].topP
                 /\ body.passed = config[1].passed
                 /\ body.topLogProbs = arrived.topLogProbs /\ body.kwargs = arrived.kwargs
                 /\ body.maxCompletionTokens = arrived.maxTokens
                 /\ arrived.seed # <<>> => body.seed = arrived.seed[1]

\* The value a definition stands for when it is made field by field: its types by path.
Decomposed(def) == [p \in SchemaPaths(def) |-> SchemaType(def[p])]

\* JSON schema, as a provider reads it.
Satisfies(value, schema) ==
    \A p \in DOMAIN value :
        IF p \in DOMAIN schema THEN value[p] = schema[p].type /\ schema[p].required \subseteq DOMAIN value
        ELSE SubSeq(p, 1, Len(p) - 1) \in DOMAIN schema => schema[SubSeq(p, 1, Len(p) - 1)].additional

Without(value, key) == [p \in {q \in DOMAIN value : q = <<>> \/ q[1] # key} |-> value[p]]

\* One structured call asks for the same value as the decomposition it replaces: what the
\* client's definition stands for satisfies the schema that arrives at the provider, what
\* lacks one of its properties does not.  (Maps, vectors and bytes inside are asked for as
\* strings.)
SchemaAsksForAll ==
    Asked /\ Inputs.responseSchema # <<>> =>
        LET body == sent[1].body
            schema == (IF Adapter = "gemini" THEN body.responseSchema ELSE body.responseFormat)[1]
            value == Decomposed(origin.def)
        IN  /\ Satisfies(value, schema)
            /\ \A p \in DOMAIN value : Len(p) = 1 /\ value[<<>>] = "object" => ~Satisfies(Without(value, p[1]), schema)

\* A 429 is recognised from every adapter, whatever else the provider's text says, and so
\* makes the workers pause (Backoff) and the throughput manager change the model.
RateLimitSeen ==
    stage = "answered" /\ reply[1].status = 429 => result[1].error = "ratelimit"

\* An embedding goes to the host and path of LLM_API_URL, except when the URL ends in a
\* bare /completions (five characters too many are cut off); processEmbedding panics only
\* with a URL shorter than /chat/completions.
EmbeddingsGoHome ==
    LET url == job.env.apiURL[1]
    IN  /\ stage = "crash" => Adapter = "local" /\ Length(url) < 17
        /\ Asked /\ Adapter = "local" /\ url.endpoint # "completions" =>
             sent[1].url.host = url.host /\ sent[1].url.base = url.base

\* With LLM_PROVIDER set and no variable of their own, batches go where the calls go, or
\* there is no batch client.
BatchSameProvider ==
    LET env == job.env
    IN  Asked /\ env.provider # "" /\ env.batchProvider = "" /\ env.batchBaseURL = <<>> /\ env.batchAPIURL = <<>> =>
            \A i \in DOMAIN BatchAiClient(env) : BatchAiClient(env)[i].baseURL.host = sent[1].url.host

\* Definitions travel faithfully: they arrive in a form that further trips leave alone, and
\* no message of the server's own makes fails to arrive.
ConversionsFaithful == ArrivesNormal /\ SecondTripFaithful /\ OwnMessagesReceived

\* A request to a provider holds what the job asks for, the settings of the definition and a
\* schema with every property, and goes where the environment says, in a batch or not.
RequestsFaithful ==
    /\ EverythingAsked
    /\ SettingsSent
    /\ SchemaAsksForAll
    /\ EmbeddingsGoHome
    /\ BatchSameProvider
=============================================================================
