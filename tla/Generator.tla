----------------------------- MODULE Generator -----------------------------
(***************************************************************************)
(* application/default_generator.go and plugin_registry.go: the phases of  *)
(* Generate, and the sync.Pool of service/objectGen.go that hands          *)
(* generators to requests.  What the field processor delivers is in        *)
(* FieldProcessor; here a generation comes out whole or in part.           *)
(***************************************************************************)
EXTENDS Integers, FiniteSets

CONSTANTS
    Requests,
    CacheKey,   \* prompt and root instruction of a request, generateCacheKey
    Plugins     \* registered kinds: "pre", "post", "validator", "cache"

NoGenerator == "no generator"
Nobody == "nobody"

ASSUME GeneratorAssumption ==
    /\ IsFiniteSet(Requests) /\ NoGenerator \notin Requests /\ Nobody \notin Requests
    /\ Plugins \subseteq {"pre", "post", "validator", "cache"}

VARIABLES
    gpc,           \* phase of the generation of a request
    ended,         \* the request's context has ended
    hasSchema,     \* the body has a definition
    gen,           \* generator in use; a generator is named after the request that made it
    pool,          \* generatorCache: how many times each generator is in it
    pluginCache,   \* the cache plugin, by key
    result         \* outcome of Generate

generatorVars == <<gpc, ended, hasSchema, gen, pool, pluginCache, result>>

NoResult == [of |-> Nobody, whole |-> FALSE]
Results == [of : Requests, whole : BOOLEAN]
Arrived(r) == gpc[r] \notin {"absent", "idle"}
Registered(kind) == kind \in Plugins

GeneratorInit(coming) ==
    /\ gpc = [r \in Requests |-> IF r \in coming THEN "idle" ELSE "absent"]
    /\ ended = [r \in Requests |-> FALSE]
    /\ hasSchema = [r \in Requests |-> TRUE]
    /\ gen = [r \in Requests |-> NoGenerator]
    /\ pool = [r \in Requests |-> 0]
    /\ pluginCache = [k \in {CacheKey[r] : r \in Requests} |-> NoResult]
    /\ result = [r \in Requests |-> NoResult]

\* The client goes away, or the 300 seconds of the middleware or of Generate pass.
EndContext(r) ==
    /\ ~ended[r]
    /\ gpc[r] \in {"pre", "fields", "post"}
    /\ ended' = [ended EXCEPT ![r] = TRUE]
    /\ UNCHANGED <<gpc, hasSchema, gen, pool, pluginCache, result>>

\* getGenerator finds a generator in the pool.
TakePooled(r) ==
    /\ gpc[r] = "get"
    /\ \E g \in Requests :
        /\ pool[g] > 0
        /\ gen' = [gen EXCEPT ![r] = g]
        /\ pool' = [pool EXCEPT ![g] = @ - 1]
    /\ gpc' = [gpc EXCEPT ![r] = "pre"]
    /\ UNCHANGED <<ended, hasSchema, pluginCache, result>>

\* It finds none (a sync.Pool may miss what it holds) and puts the one it makes
\* into the pool before returning it.
TakeNew(r) ==
    /\ gpc[r] = "get"
    /\ gen' = [gen EXCEPT ![r] = r]
    /\ pool' = [pool EXCEPT ![r] = @ + 1]
    /\ gpc' = [gpc EXCEPT ![r] = "pre"]
    /\ UNCHANGED <<ended, hasSchema, pluginCache, result>>

\* The gRPC service makes a generator of its own for every call.
MakeOwn(r) ==
    /\ gpc[r] = "make"
    /\ gpc' = [gpc EXCEPT ![r] = "pre"]
    /\ UNCHANGED <<ended, hasSchema, gen, pool, pluginCache, result>>

\* Mutant of ReturnGenerator: the generator is put back and stays in use.
ReturnGeneratorTwice(r) ==
    /\ pool' = IF gen[r] = NoGenerator THEN pool ELSE [pool EXCEPT ![gen[r]] = @ + 2]
    /\ gen' = [gen EXCEPT ![r] = NoGenerator]

\* returnGenerator, deferred by processObjectGenRequest: it also runs in a panic.
ReturnGenerator(r) ==
    /\ pool' = IF gen[r] = NoGenerator THEN pool ELSE [pool EXCEPT ![gen[r]] = @ + 1]
    /\ gen' = [gen EXCEPT ![r] = NoGenerator]

\* Phases 1 and 2: pre-processors, then the cache.  The key reads the schema, so
\* a request without one panics here, cache plugin or not.
PreProcess(r) ==
    /\ gpc[r] = "pre"
    /\ \/ Registered("pre") /\ gpc' = [gpc EXCEPT ![r] = "error"] /\ UNCHANGED result
       \/ ~hasSchema[r] /\ gpc' = [gpc EXCEPT ![r] = "panic"] /\ UNCHANGED result
       \/ /\ hasSchema[r]
          /\ LET cached == pluginCache[CacheKey[r]]
             IN  IF Registered("cache") /\ cached # NoResult
                   THEN /\ gpc' = [gpc EXCEPT ![r] = "ok"]
                        /\ result' = [result EXCEPT ![r] = cached]
                   ELSE gpc' = [gpc EXCEPT ![r] = "fields"] /\ UNCHANGED result
    /\ UNCHANGED <<ended, hasSchema, gen, pool, pluginCache>>

\* Phase 3: with a context that ends, the results stop short (a part is assembled)
\* or one more batch arrives (a timeout error).  The assembler leaves out the
\* fields that failed, so a part may be all there is in time, too.
ProcessFields(r) ==
    /\ gpc[r] = "fields"
    /\ \/ \E whole \in {FALSE, ~ended[r]} :
            /\ result' = [result EXCEPT ![r] = [of |-> r, whole |-> whole]]
            /\ gpc' = [gpc EXCEPT ![r] = "post"]
       \/ /\ ended[r]
          /\ gpc' = [gpc EXCEPT ![r] = "error"]
          /\ UNCHANGED result
    /\ UNCHANGED <<ended, hasSchema, gen, pool, pluginCache>>

\* What CacheResult leaves in the cache plugin.
CacheResult(r) ==
    IF Registered("cache") THEN [pluginCache EXCEPT ![CacheKey[r]] = result[r]] ELSE pluginCache

\* Phases 4 to 6.  A post-processor or a validator that returns an error ends the
\* generation; what a validator finds wrong with the result does not, because
\* ApplyValidation then returns its nil error.
PostProcess(r) ==
    /\ gpc[r] = "post"
    /\ \/ /\ Registered("post") \/ Registered("validator")
          /\ gpc' = [gpc EXCEPT ![r] = "error"]
          /\ result' = [result EXCEPT ![r] = NoResult]
          /\ UNCHANGED pluginCache
       \/ /\ gpc' = [gpc EXCEPT ![r] = "ok"]
          /\ pluginCache' = CacheResult(r)
          /\ UNCHANGED result
    /\ UNCHANGED <<ended, hasSchema, gen, pool>>

\* One step of Generate.
GenerateStep(r) ==
    \/ TakePooled(r)
    \/ TakeNew(r)
    \/ MakeOwn(r)
    \/ PreProcess(r)
    \/ ProcessFields(r)
    \/ PostProcess(r)

GeneratorTypeOK ==
    /\ gpc \in [Requests -> {"absent", "idle", "get", "make", "pre", "fields", "post", "ok", "error", "panic", "done"}]
    /\ ended \in [Requests -> BOOLEAN]
    /\ hasSchema \in [Requests -> BOOLEAN]
    /\ gen \in [Requests -> Requests \cup {NoGenerator}]
    /\ pool \in [Requests -> Nat]
    /\ pluginCache \in [{CacheKey[r] : r \in Requests} -> Results \cup {NoResult}]
    /\ result \in [Requests -> Results \cup {NoResult}]
=============================================================================
