----------------------------- MODULE ModelCalls -----------------------------
(***************************************************************************)
(* A field's call of the model, from PrimitiveProcessor.Process through    *)
(* OpenAIProvider.Generate and DefaultJobEntryPoint.SubmitJob to the       *)
(* DirectJobSubmitter: the choice of a model, the permit of a shard, the   *)
(* request, the retries after an error and the retries after an empty      *)
(* answer.  Each call runs in a goroutine of its own; the throughput       *)
(* manager, the semaphores and the definitions are shared.                 *)
(***************************************************************************)
EXTENDS ThroughputManager, DirectSubmitter

CONSTANTS
    DefOf,          \* the Definition a call works for; the items of an array share one
    Strings,        \* calls for a string or a vector, the types whose answer can be empty
    Throughput,     \* THROUGHPUT_MANAGER = "true"
    DefaultModel,   \* the provider's default, also what a Definition names here
    MaxRetries,     \* retries of Generate after an error (3 in the code)
    EmptyRetries    \* retries of generateValue after an empty answer (3 in the code)

ASSUME CallAssumption ==
    /\ DefaultModel \notin Models /\ NoModel \notin Models \cup {DefaultModel}
    /\ Strings \subseteq Calls
    /\ Throughput \in BOOLEAN
    /\ MaxRetries \in Nat /\ EmptyRetries \in Nat

VARIABLES
    pc,         \* where a call stands
    model,      \* the local variable model of Generate
    defModel,   \* Definition.Model, written by SubmitJob and read when the request is built
    sent,       \* the model the last request named
    last,       \* how the last request ended
    retry,      \* retries made by this Generate
    attempt,    \* empty answers generateValue has retried
    asked,      \* requests sent
    waited,     \* how long GetModelForRequestWithWait has waited
    slept,      \* calls whose timer has run out
    overwritten \* history: models others wrote into a call's Definition after it wrote its own
                \* and before it read it

callVars == <<pc, model, defModel, sent, last, retry, attempt, asked, waited, slept, overwritten>>
vars == <<limited, submitVars, callVars>>

Defs == {DefOf[c] : c \in Calls}

Init ==
    /\ NewDefaultThroughputManager
    /\ NewDirectJobSubmitter
    /\ pc = [c \in Calls |-> "start"]
    /\ model = [c \in Calls |-> DefaultModel]
    /\ defModel = [d \in Defs |-> DefaultModel]
    /\ sent = [c \in Calls |-> NoModel]
    /\ last = [c \in Calls |-> "none"]
    /\ retry = [c \in Calls |-> 0]
    /\ attempt = [c \in Calls |-> 0]
    /\ asked = [c \in Calls |-> 0]
    /\ waited = [c \in Calls |-> 0]
    /\ slept = {}
    /\ overwritten = [c \in Calls |-> {}]

Goto(c, p) == pc' = [pc EXCEPT ![c] = p]

\* Process: an ended context is refused before anything is generated.
Process(c) ==
    /\ pc[c] = "start"
    /\ Goto(c, IF c \in ended THEN "error" ELSE "generate")
    /\ UNCHANGED <<limited, submitVars, model, defModel, sent, last, retry, attempt, asked, waited, slept, overwritten>>

\* Generate: the model of the Definition, or the throughput manager's choice.
Generate(c) ==
    /\ pc[c] = "generate"
    /\ model' = [model EXCEPT ![c] = IF Throughput THEN NoModel ELSE defModel[DefOf[c]]]
    /\ retry' = [retry EXCEPT ![c] = 0]
    /\ Goto(c, IF Throughput THEN "choose" ELSE "submit")
    /\ UNCHANGED <<limited, submitVars, defModel, sent, last, attempt, asked, waited, slept, overwritten>>

-----------------------------------------------------------------------------
(* GetModelForRequestWithWait, for a first request and for a retry.          *)

\* A first choice that fails falls back to the default; a retry keeps its model.
Choose(c, m) ==
    model' = [model EXCEPT ![c] = IF m # NoModel THEN m
                                  ELSE IF @ = NoModel THEN DefaultModel ELSE @]

\* The check before the wait and the checks of the polling loop.
Check(c) ==
    /\ pc[c] = "choose" \/ (pc[c] = "poll" /\ c \in slept)
    /\ \/ /\ \E m \in Models : GetAvailableModel(m) /\ Choose(c, m)
          /\ Goto(c, "submit")
          /\ UNCHANGED waited
       \/ /\ Available = {}
          /\ Goto(c, "test")
          /\ waited' = [waited EXCEPT ![c] = IF pc[c] = "choose" THEN 0 ELSE @]
          /\ UNCHANGED <<limited, model>>
    /\ slept' = slept \ {c}
    /\ UNCHANGED <<submitVars, defModel, sent, last, retry, attempt, asked, overwritten>>

\* The test of the polling loop: sleep again, or force a choice.
Test(c) ==
    /\ pc[c] = "test"
    /\ Goto(c, IF waited[c] < MaxWait THEN "poll" ELSE "forced")
    /\ UNCHANGED <<limited, submitVars, model, defModel, sent, last, retry, attempt, asked, waited, slept, overwritten>>

ForceChoice(c) ==
    /\ pc[c] = "forced"
    /\ \E m \in Models \cup {NoModel} : GetModelWithShortestCooldown(m) /\ Choose(c, m)
    /\ Goto(c, "submit")
    /\ UNCHANGED <<submitVars, defModel, sent, last, retry, attempt, asked, waited, slept, overwritten>>

-----------------------------------------------------------------------------
(* SubmitJob of the entry point and of the direct submitter.                 *)

\* What c writes, it writes over what the calls with the same Definition have not read yet.
Overwritten(c) ==
    [d \in Calls |-> IF d = c THEN {}
                     ELSE IF DefOf[d] = DefOf[c] /\ pc[d] \in {"acquire", "request"}
                     THEN overwritten[d] \cup {model[c]} ELSE overwritten[d]]

\* Mutant of SubmitJob: the model of the first submission stays in the Definition.
SubmitJobFirstModel(c) ==
    /\ pc[c] = "submit"
    /\ defModel' = [defModel EXCEPT ![DefOf[c]] = IF @ = DefaultModel THEN model[c] ELSE @]
    /\ \/ c \in ended /\ Refuse(c) /\ Goto(c, "failed") /\ last' = [last EXCEPT ![c] = "error"]
       \/ c \notin ended /\ Enter(c) /\ Goto(c, "acquire") /\ last' = [last EXCEPT ![c] = "none"]
    /\ sent' = [sent EXCEPT ![c] = NoModel]
    /\ overwritten' = Overwritten(c)
    /\ UNCHANGED <<limited, model, retry, attempt, asked, waited, slept>>

\* The model is written into the Definition the call was given; then Acquire.
SubmitJob(c) ==
    /\ pc[c] = "submit"
    /\ defModel' = [defModel EXCEPT ![DefOf[c]] = model[c]]
    /\ \/ c \in ended /\ Refuse(c) /\ Goto(c, "failed") /\ last' = [last EXCEPT ![c] = "error"]
       \/ c \notin ended /\ Enter(c) /\ Goto(c, "acquire") /\ last' = [last EXCEPT ![c] = "none"]
    /\ sent' = [sent EXCEPT ![c] = NoModel]
    /\ overwritten' = Overwritten(c)
    /\ UNCHANGED <<limited, model, retry, attempt, asked, waited, slept>>

\* Mutant of Acquired: the permit granted to a cancelled caller is kept.
AcquiredKeeping(c) ==
    /\ pc[c] = "acquire"
    /\ \/ c \in ended /\ c \in holders /\ UNCHANGED submitVars
          /\ Goto(c, "failed") /\ last' = [last EXCEPT ![c] = "error"]
       \/ c \in ended /\ Withdraw(c) /\ Goto(c, "failed") /\ last' = [last EXCEPT ![c] = "error"]
       \/ c \in holders \ ended /\ Goto(c, "request") /\ UNCHANGED <<submitVars, last>>
    /\ UNCHANGED <<limited, model, defModel, sent, retry, attempt, asked, waited, slept, overwritten>>

\* Acquire returns: a caller cancelled meanwhile gives a granted permit back.
Acquired(c) ==
    /\ pc[c] = "acquire"
    /\ \/ /\ c \in ended
          /\ (c \in holders /\ Release(c)) \/ Withdraw(c)
          /\ Goto(c, "failed")
          /\ last' = [last EXCEPT ![c] = "error"]
       \/ /\ c \in holders \ ended
          /\ Goto(c, "request")
          /\ UNCHANGED <<submitVars, last>>
    /\ UNCHANGED <<limited, model, defModel, sent, retry, attempt, asked, waited, slept, overwritten>>

\* The request is built from the Definition as it is now, and sent.
Request(c) ==
    /\ pc[c] = "request"
    /\ sent' = [sent EXCEPT ![c] = defModel[DefOf[c]]]
    /\ asked' = [asked EXCEPT ![c] = @ + 1]
    /\ Goto(c, "inflight")
    /\ UNCHANGED <<limited, submitVars, model, defModel, last, retry, attempt, waited, slept, overwritten>>

\* The provider answers with text, with blank text, with 429 or with another error,
\* a response without choices included; the deferred Release runs.
Answer(c) ==
    /\ pc[c] = "inflight"
    /\ Release(c)
    /\ \E a \in {"text", "empty", "429", "error"} :
         /\ last' = [last EXCEPT ![c] = a]
         /\ Goto(c, IF a \in {"429", "error"} THEN "failed" ELSE "answered")
    /\ UNCHANGED <<limited, model, defModel, sent, retry, attempt, asked, waited, slept, overwritten>>

-----------------------------------------------------------------------------
(* What Generate and generateValue do with the answer.                       *)

\* Mutant of Failed: the error is charged to some model, whichever was used.
FailedChargingOther(c) ==
    /\ pc[c] = "failed"
    /\ \E m \in Models : ReportRateLimitError(m)
    /\ Goto(c, IF retry[c] < MaxRetries THEN "backoff" ELSE "error")
    /\ UNCHANGED <<submitVars, model, defModel, sent, last, retry, attempt, asked, waited, slept, overwritten>>

\* A 429 is charged to the model Generate believes it used; then a retry, whether or
\* not the context has ended, until there are no more.
Failed(c) ==
    /\ pc[c] = "failed"
    /\ IF last[c] = "429" /\ Throughput THEN ReportRateLimitError(model[c]) ELSE UNCHANGED limited
    /\ Goto(c, IF retry[c] < MaxRetries THEN "backoff" ELSE "error")
    /\ UNCHANGED <<submitVars, model, defModel, sent, last, retry, attempt, asked, waited, slept, overwritten>>

\* After the backoff a rate-limited call asks for another model.
Backoff(c) ==
    /\ pc[c] = "backoff" /\ c \in slept
    /\ retry' = [retry EXCEPT ![c] = @ + 1]
    /\ Goto(c, IF last[c] = "429" /\ Throughput THEN "choose" ELSE "submit")
    /\ slept' = slept \ {c}
    /\ UNCHANGED <<limited, submitVars, model, defModel, sent, last, attempt, asked, waited, overwritten>>

\* isEmptyResponse: blank text counts for a string only; as a number it parses to 0.
IsEmptyResponse(c) == last[c] = "empty" /\ c \in Strings

\* generateValue: an empty answer is asked for again while attempts are left.
Answered(c) ==
    /\ pc[c] = "answered"
    /\ Goto(c, IF IsEmptyResponse(c) /\ attempt[c] < EmptyRetries THEN "again" ELSE "value")
    /\ UNCHANGED <<limited, submitVars, model, defModel, sent, last, retry, attempt, asked, waited, slept, overwritten>>

Again(c) ==
    /\ pc[c] = "again" /\ c \in slept
    /\ attempt' = [attempt EXCEPT ![c] = @ + 1]
    /\ slept' = slept \ {c}
    /\ Goto(c, "generate")
    /\ UNCHANGED <<limited, submitVars, model, defModel, sent, last, retry, asked, waited, overwritten>>

-----------------------------------------------------------------------------
Asleep == {c \in Calls : pc[c] \in {"poll", "backoff", "again"}}
Waiting == {c \in Calls : pc[c] \in {"poll", "test"}}

\* An interval passes: cooldowns run and timers fire.
Tick ==
    /\ Elapse
    /\ waited' = [c \in Calls |-> IF c \in Waiting /\ waited[c] < MaxWait THEN waited[c] + 1 ELSE waited[c]]
    /\ slept' = slept \cup Asleep
    /\ UNCHANGED <<submitVars, pc, model, defModel, sent, last, retry, attempt, asked, overwritten>>

\* The deadline of the request, or the client going away.
End(c) ==
    /\ c \notin ended /\ pc[c] \notin {"value", "error"}
    /\ ended' = ended \cup {c}
    /\ UNCHANGED <<limited, permits, waiters, turn, shardOf, holders, callVars>>

Step(c) ==
    \/ Process(c) \/ Generate(c) \/ Check(c) \/ Test(c) \/ ForceChoice(c)
    \/ SubmitJob(c) \/ Acquired(c) \/ Request(c) \/ Answer(c)
    \/ Failed(c) \/ Backoff(c) \/ Answered(c) \/ Again(c)

Next == Tick \/ \E c \in Calls : Step(c) \/ End(c)

Spec == Init /\ [][Next]_vars

\* Goroutines run, clocks advance, and the HTTP client's timeout answers every request.
FairSpec == Spec /\ WF_vars(Tick) /\ \A c \in Calls : WF_vars(Step(c))

-----------------------------------------------------------------------------
CallStates == {"start", "generate", "choose", "test", "poll", "forced", "submit", "acquire",
               "request", "inflight", "failed", "backoff", "answered", "again", "value", "error"}

\* The values the variables range over.
TypeOK ==
    /\ ThroughputTypeOK /\ SubmitterTypeOK
    /\ pc \in [Calls -> CallStates]
    /\ model \in [Calls -> Models \cup {DefaultModel, NoModel}]
    /\ defModel \in [Defs -> Models \cup {DefaultModel}]
    /\ sent \in [Calls -> Models \cup {DefaultModel, NoModel}]
    /\ last \in [Calls -> {"none", "text", "empty", "429", "error"}]
    /\ retry \in [Calls -> 0 .. MaxRetries]
    /\ attempt \in [Calls -> 0 .. EmptyRetries]
    /\ asked \in [Calls -> Nat]
    /\ waited \in [Calls -> 0 .. MaxWait]
    /\ slept \subseteq Asleep
    /\ overwritten \in [Calls -> SUBSET (Models \cup {DefaultModel})]

\* No permit is lost or invented on any way out of a call: free permits and holders add
\* up to the capacity of every shard, and a caller holds one only from Acquire to its answer.
PermitsAccounted ==
    /\ \A s \in AdapterShards :
         permits[s] + Cardinality({c \in holders : shardOf[c] = s}) = ShardCapacity
    /\ \A c \in holders : pc[c] \in {"acquire", "request", "inflight"}

\* A permit is never idle while a caller sleeps in Acquire.
NoIdlePermit == \A s \in AdapterShards : waiters[s] # <<>> => permits[s] = 0

\* The request names the model its caller chose, also after it waited for a permit, unless
\* another call has written the Definition meanwhile, as items of an array may; then it
\* names a model that such a call wrote.
SendsChosenModel ==
    \A c \in Calls : pc[c] = "inflight" =>
        sent[c] \in IF overwritten[c] = {} THEN {model[c]} ELSE overwritten[c]

\* A model starts to cool down only for a 429 that a request naming it received, or one for
\* which it was chosen and whose Definition another call has written meanwhile.
ChargedToSender ==
    [][\A m \in Models :
          limited[m] = Free /\ limited'[m] = 0
              => \E c \in Calls :
                    /\ pc[c] = "failed" /\ last[c] = "429"
                    /\ sent[c] = m \/ (model[c] = m /\ overwritten[c] # {})]_vars

\* A model that is still cooling down is handed out only to a caller that has polled
\* for the whole of maxWaitForModel.
CoolingOnlyAfterWait ==
    [][\A m \in Models :
          Cooling(m) /\ limited'[m] = Free
              => \E c \in Calls : model'[c] = m /\ pc[c] = "forced" /\ waited[c] = MaxWait]_vars

\* A field receives an empty value only when every attempt was answered with one, and no
\* field costs more requests than the two nested retry loops allow.
EmptyOnlyAtLast ==
    \A c \in Calls :
        /\ pc[c] = "value" /\ IsEmptyResponse(c) => attempt[c] = EmptyRetries
        /\ asked[c] <= (attempt[c] * (MaxRetries + 1)) + retry[c] + 1

\* Every call returns, whatever the provider answers and whoever waits for a permit.
CallReturns == \A c \in Calls : <>(pc[c] \in {"value", "error"})

\* The permits of the shards: all are accounted for on every way out of SubmitJob, and
\* none is idle while a caller sleeps.
CallInv ==
    /\ TypeOK
    /\ PermitsAccounted
    /\ NoIdlePermit

\* The retries: each request names the model its caller chose, or the one that was written over
\* it, and the two nested loops are bounded and give an empty answer only at the end of the
\* outer one.
RetriesSound == SendsChosenModel /\ EmptyOnlyAtLast

\* The cooldowns: begun only for a 429 to a request that named the model or was meant for it,
\* and cut short only for a caller that has waited as long as it may.
CooldownsSound == ChargedToSender /\ CoolingOnlyAfterWait
=============================================================================
