------------------------------ MODULE Serving ------------------------------
(***************************************************************************)
(* service/objectGen.go, objectGenQueue.go, getObjectQueued.go and         *)
(* grpcService/generateObjectV2.go over the generator of Generator: the    *)
(* synchronous handlers, the queued one, whose result waits in Redis until *)
(* a poll takes it, and the poll.  The process can die and be started      *)
(* again; Redis outlives it.                                               *)
(***************************************************************************)
EXTENDS Generator

CONSTANTS
    Kind,         \* "sync", "queued" or "grpc"
    Pollers,      \* clients that poll
    Target,       \* the queued request whose id a client has
    CacheActive,  \* CACHE_ACTIVE
    Expiring,     \* CACHE_TTL_SECONDS is positive
    MaxCrashes,   \* bound on restarts
    Scenarios     \* sets of requests that come together

ASSUME ServingAssumption ==
    /\ Kind \in [Requests -> {"sync", "queued", "grpc"}]
    /\ Target \in [Pollers -> {r \in Requests : Kind[r] = "queued"}]
    /\ CacheActive \in BOOLEAN /\ Expiring \in BOOLEAN
    /\ MaxCrashes \in Nat
    /\ Scenarios \subseteq SUBSET Requests

VARIABLES
    reply,      \* status of the answer to a request, "none" before it is sent
    served,     \* result in that answer
    redis,      \* results by id; an id is that of the request
    expired,    \* ids whose entry reached its time to live
    poll,       \* state of a client's poll
    fetched,    \* what its poll read from Redis
    crashes     \* times the process died

servingVars == <<reply, served, redis, expired, poll, fetched, crashes>>
vars == <<generatorVars, servingVars>>

ServingInit(coming) ==
    /\ GeneratorInit(coming)
    /\ reply = [r \in Requests |-> "none"]
    /\ served = [r \in Requests |-> NoResult]
    /\ redis = [r \in Requests |-> NoResult]
    /\ expired = {}
    /\ poll = [p \in Pollers |-> "idle"]
    /\ fetched = [p \in Pollers |-> NoResult]
    /\ crashes = 0

Answer(r, status) == reply' = [reply EXCEPT ![r] = status]

\* An id that cannot exist before its request has been accepted.
CanAsk(p) == reply[Target[p]] = "202"

\* ObjectGenHandler up to processObjectGenRequest; ValidatePassword and the gRPC
\* interceptor turn a request away in the same manner as a body that does not decode.
ObjectGenHandler(r) ==
    /\ Kind[r] = "sync" /\ gpc[r] = "idle"
    /\ \/ /\ gpc' = [gpc EXCEPT ![r] = "done"]
          /\ \/ Answer(r, "408") /\ ended' = [ended EXCEPT ![r] = TRUE]
             \/ \E status \in {"400", "401"} : Answer(r, status) /\ UNCHANGED ended
          /\ UNCHANGED hasSchema
       \/ /\ \E b \in BOOLEAN : hasSchema' = [hasSchema EXCEPT ![r] = b]
          /\ gpc' = [gpc EXCEPT ![r] = "get"]
          /\ UNCHANGED <<ended, reply>>
    /\ UNCHANGED <<gen, pool, pluginCache, result, served, redis, expired, poll, fetched, crashes>>

\* ObjectGenQueded: the generation starts on a goroutine, with a context that
\* nobody ends, before the id is sent.  The definition is not looked at.
ObjectGenQueded(r) ==
    /\ Kind[r] = "queued" /\ gpc[r] = "idle"
    /\ IF CacheActive
         THEN \/ /\ \E status \in {"400", "401"} : Answer(r, status)
                 /\ gpc' = [gpc EXCEPT ![r] = "done"]
                 /\ UNCHANGED hasSchema
              \/ /\ \E b \in BOOLEAN : hasSchema' = [hasSchema EXCEPT ![r] = b]
                 /\ gpc' = [gpc EXCEPT ![r] = "get"]
                 /\ UNCHANGED reply
         ELSE /\ Answer(r, "503")
              /\ gpc' = [gpc EXCEPT ![r] = "done"]
              /\ UNCHANGED hasSchema
    /\ UNCHANGED <<ended, gen, pool, pluginCache, result, served, redis, expired, poll, fetched, crashes>>

\* The rest of ObjectGenQueded: the id goes to the client.
Accept(r) ==
    /\ Kind[r] = "queued" /\ Arrived(r) /\ reply[r] = "none"
    /\ Answer(r, "202")
    /\ UNCHANGED <<generatorVars, served, redis, expired, poll, fetched, crashes>>

\* GenerateObjectV2 up to the generation: a request without a definition is an error.
GenerateObjectV2(r) ==
    /\ Kind[r] = "grpc" /\ gpc[r] = "idle"
    /\ \/ Answer(r, "error") /\ gpc' = [gpc EXCEPT ![r] = "done"]
       \/ gpc' = [gpc EXCEPT ![r] = "make"] /\ UNCHANGED reply
    /\ UNCHANGED <<ended, hasSchema, gen, pool, pluginCache, result, served, redis, expired, poll, fetched, crashes>>

\* The end of ObjectGenHandler.  A panic is turned into a 500 by the Recoverer;
\* an error is reported as "context ran out" exactly when the context has not ended.
RespondSync(r) ==
    /\ Kind[r] = "sync" /\ gpc[r] \in {"ok", "error", "panic"}
    /\ IF gpc[r] = "ok"
         THEN Answer(r, "200") /\ served' = [served EXCEPT ![r] = result[r]]
         ELSE Answer(r, "500") /\ UNCHANGED served
    /\ ReturnGenerator(r)
    /\ gpc' = [gpc EXCEPT ![r] = "done"]
    /\ UNCHANGED <<ended, hasSchema, pluginCache, result, redis, expired, poll, fetched, crashes>>

\* The end of GenerateObjectV2.  BuildResponse fails on a value that has no
\* protobuf form.
RespondGrpc(r) ==
    /\ Kind[r] = "grpc" /\ gpc[r] \in {"ok", "error"}
    /\ \/ /\ gpc[r] = "ok"
          /\ Answer(r, "200")
          /\ served' = [served EXCEPT ![r] = result[r]]
       \/ Answer(r, "error") /\ UNCHANGED served
    /\ gpc' = [gpc EXCEPT ![r] = "done"]
    /\ UNCHANGED <<ended, hasSchema, gen, pool, pluginCache, result, redis, expired, poll, fetched, crashes>>

\* The end of the queued goroutine: a failure is logged and nothing is stored; the
\* Set itself may fail.
StoreQueued(r) ==
    /\ Kind[r] = "queued" /\ gpc[r] \in {"ok", "error"}
    /\ \/ gpc[r] = "ok" /\ redis' = [redis EXCEPT ![r] = result[r]]
       \/ UNCHANGED redis
    /\ ReturnGenerator(r)
    /\ gpc' = [gpc EXCEPT ![r] = "done"]
    /\ UNCHANGED <<ended, hasSchema, pluginCache, result, reply, served, expired, poll, fetched, crashes>>

\* Mutant of Get: a poll takes the entry away as it reads it.
GetTaking(p) ==
    /\ CanAsk(p) /\ poll[p] = "idle"
    /\ redis[Target[p]] # NoResult
    /\ redis' = [redis EXCEPT ![Target[p]] = NoResult]
    /\ poll' = [poll EXCEPT ![p] = "read"]
    /\ UNCHANGED <<generatorVars, reply, served, fetched, expired, crashes>>

\* GetObjectQueued reads.  Without an entry (204) or when Redis fails (500) the client
\* polls again, which changes nothing here.
Get(p) ==
    /\ CanAsk(p) /\ poll[p] = "idle"
    /\ redis[Target[p]] # NoResult
    /\ fetched' = [fetched EXCEPT ![p] = redis[Target[p]]]
    /\ poll' = [poll EXCEPT ![p] = "read"]
    /\ UNCHANGED <<generatorVars, reply, served, redis, expired, crashes>>

\* It deletes what it read, or fails to, and writes it to the client either way.
DeleteAndWrite(p) ==
    /\ poll[p] = "read"
    /\ \/ redis' = [redis EXCEPT ![Target[p]] = NoResult]
       \/ UNCHANGED redis
    /\ poll' = [poll EXCEPT ![p] = "done"]
    /\ UNCHANGED <<generatorVars, reply, served, expired, fetched, crashes>>

\* Redis drops an entry whose time to live has passed.
Expire(r) ==
    /\ Expiring /\ redis[r] # NoResult
    /\ redis' = [redis EXCEPT ![r] = NoResult]
    /\ expired' = expired \cup {r}
    /\ UNCHANGED <<generatorVars, reply, served, poll, fetched, crashes>>

\* A panic on the queued goroutine, which nothing recovers, ends the process; the
\* supervisor starts it again.  Generations, the pool and answers under way are
\* lost, Redis is not.
Crash ==
    /\ \E r \in Requests : Kind[r] = "queued" /\ gpc[r] = "panic"
    /\ crashes < MaxCrashes
    /\ crashes' = crashes + 1
    /\ gpc' = [r \in Requests |-> IF Arrived(r) THEN "done" ELSE gpc[r]]
    /\ gen' = [r \in Requests |-> NoGenerator]
    /\ pool' = [r \in Requests |-> 0]
    /\ pluginCache' = [k \in DOMAIN pluginCache |-> NoResult]
    /\ reply' = [r \in Requests |-> IF Arrived(r) /\ reply[r] = "none" THEN "lost" ELSE reply[r]]
    /\ poll' = [p \in Pollers |-> IF poll[p] = "read" THEN "lost" ELSE poll[p]]
    /\ UNCHANGED <<ended, hasSchema, result, served, redis, expired, fetched>>

ServingStep(r) ==
    \/ ObjectGenHandler(r)
    \/ ObjectGenQueded(r)
    \/ Accept(r)
    \/ GenerateObjectV2(r)
    \/ RespondSync(r)
    \/ RespondGrpc(r)
    \/ StoreQueued(r)
    \/ GenerateStep(r) /\ UNCHANGED servingVars

PollStep(p) == Get(p) \/ DeleteAndWrite(p)

ServingNext ==
    \/ \E r \in Requests : ServingStep(r) \/ Expire(r)
    \/ \E r \in Requests : Kind[r] # "queued" /\ EndContext(r) /\ UNCHANGED servingVars
    \/ \E p \in Pollers : PollStep(p)
    \/ Crash

ServingFairness ==
    /\ \A r \in Requests : WF_vars(ServingStep(r))
    /\ \A p \in Pollers : WF_vars(PollStep(p))
    /\ WF_vars(Crash)
-----------------------------------------------------------------------------
(* Properties *)

\* Every variable of the handlers, of Redis and of the polls has its type.
TypeOK ==
    /\ GeneratorTypeOK
    /\ reply \in [Requests -> {"none", "200", "202", "400", "401", "408", "500", "503", "error", "lost"}]
    /\ served \in [Requests -> Results \cup {NoResult}]
    /\ redis \in [Requests -> Results \cup {NoResult}]
    /\ expired \subseteq Requests
    /\ poll \in [Pollers -> {"idle", "read", "done", "lost"}]
    /\ fetched \in [Pollers -> Results \cup {NoResult}]
    /\ crashes \in 0 .. MaxCrashes

Users(g) == {r \in Requests : gen[r] = g}

\* getGenerator puts a new generator into the pool while it is in use and it is put
\* there again at the end: two requests may share a generator, but never three.
SharedByTwoAtMost == \A g \in Requests : pool[g] + Cardinality(Users(g)) <= 2

\* What a client gets, in an answer or by a poll, was generated for a request with
\* the prompt and root instruction of its own.
OwnAnswer ==
    /\ \A r \in Requests : served[r] # NoResult => CacheKey[served[r].of] = CacheKey[r]
    /\ \A p \in Pollers : poll[p] \in {"read", "done"} => CacheKey[fetched[p].of] = CacheKey[Target[p]]

\* A result that has reached Redis leaves it only by its time to live or after a
\* poll has read it, also when two polls or a restart come in between.
StoredUntilRead ==
    [][\A r \in Requests :
          redis[r] # NoResult /\ redis'[r] = NoResult
            => r \in expired' \/ \E p \in Pollers : Target[p] = r /\ fetched[p] = redis[r]]_vars

\* Every request that came in is answered, unless the process died with it.
Answered == \A r \in Requests : Arrived(r) ~> (reply[r] # "none")

\* A result that has been stored, and whose id the client knows, reaches a client,
\* expires, or is lost with the process in the middle of an answer.
StoredIsServed ==
    \A p \in Pollers :
        (CanAsk(p) /\ redis[Target[p]] # NoResult)
          ~> \/ poll[p] \in {"done", "lost"}
             \/ Target[p] \in expired
             \/ \E q \in Pollers : Target[q] = Target[p] /\ poll[q] \in {"done", "lost"}

\* A pooled generator is shared by two requests at most, and a client gets an answer that
\* was generated for a request like its own.
ServingInv ==
    /\ TypeOK
    /\ SharedByTwoAtMost
    /\ OwnAnswer

\* A stored result stays until a poll has read it and reaches a client, and every request
\* is answered, through restarts, failed deletions and two polls at once.
StorageSound == StoredUntilRead /\ StoredIsServed /\ Answered
=============================================================================
