-------------------------- MODULE ModelCallsProofs --------------------------
(***************************************************************************)
(* Proofs about ModelCalls, for any number of calls, shards, permits,      *)
(* models and retries.  The inductive invariant comes in three layers: the *)
(* loops of a call (its own variables and the throughput manager), the     *)
(* semaphores of the shards, and the model a request names.                *)
(***************************************************************************)
EXTENDS ModelCalls, FiniteSetTheorems, SequenceTheorems, TLAPS

-----------------------------------------------------------------------------
(* The loops of a call *)

LoopTypeOK ==
    /\ ThroughputTypeOK
    /\ pc \in [Calls -> CallStates]
    /\ model \in [Calls -> Models \cup {DefaultModel, NoModel}]
    /\ defModel \in [Defs -> Models \cup {DefaultModel}]
    /\ sent \in [Calls -> Models \cup {DefaultModel, NoModel}]
    /\ last \in [Calls -> {"none", "text", "empty", "429", "error"}]
    /\ retry \in [Calls -> 0 .. MaxRetries]
    /\ attempt \in [Calls -> 0 .. EmptyRetries]
    /\ asked \in [Calls -> Nat]
    /\ waited \in [Calls -> 0 .. MaxWait]
    /\ slept \subseteq Asleep
    /\ overwritten \in [Calls -> SUBSET (Models \cup {DefaultModel})]

Choosing == {"choose", "test", "poll", "forced"}
Submitting == {"submit", "acquire", "request"}

\* The requests a call may have sent when it has made a attempts and r retries.
Budget(c) ==
    (attempt[c] * (MaxRetries + 1))
        + (IF pc[c] \in {"start", "generate"} THEN 0
           ELSE IF pc[c] \in Choosing \cup Submitting THEN retry[c] ELSE retry[c] + 1)

\* Where the counters of the two loops stand when a call is at each of their places.
Loop(c) ==
    /\ pc[c] \notin Choosing => model[c] # NoModel
    /\ pc[c] = "forced" => waited[c] = MaxWait
    /\ pc[c] = "backoff" => retry[c] < MaxRetries
    /\ pc[c] = "again" => attempt[c] < EmptyRetries
    /\ pc[c] = "start" => retry[c] = 0
    /\ pc[c] = "value" /\ IsEmptyResponse(c) => attempt[c] = EmptyRetries
    /\ asked[c] <= Budget(c)

Loops == \A c \in Calls : Loop(c)

LoopInv == LoopTypeOK /\ Loops

\* A call begins with nothing sent.
LEMMA LoopStarts == Init => LoopInv
<1> SUFFICES ASSUME Init PROVE LoopInv
  OBVIOUS
<1>1. ThroughputTypeOK
  BY ThroughputAssumption DEF Init, NewDefaultThroughputManager, ThroughputTypeOK, Free, MaxAge
<1>2. LoopTypeOK
  BY <1>1, CallAssumption, ThroughputAssumption DEF Init, LoopTypeOK, CallStates
<1>3. \A c \in Calls : Budget(c) = 0
  BY CallAssumption DEF Init, Budget
<1>4. Loops
  BY <1>3, CallAssumption DEF Init, Loops, Loop, Choosing
<1>5. QED BY <1>2, <1>4 DEF LoopInv

\* A round of the outer loop is worth one request and the retries of Generate.
LEMMA OneMoreAttempt ==
    ASSUME NEW a \in Nat, NEW m \in Nat
    PROVE  /\ a * (m + 1) \in Nat
           /\ (a + 1) * (m + 1) = (a * (m + 1)) + m + 1
OBVIOUS

\* A step of a call c that leaves the other calls' own variables alone.
Alone(c) ==
    \A d \in Calls : d # c => /\ pc'[d] = pc[d] /\ model'[d] = model[d] /\ last'[d] = last[d]
                              /\ retry'[d] = retry[d] /\ attempt'[d] = attempt[d]
                              /\ asked'[d] = asked[d] /\ waited'[d] = waited[d]

\* A step of one call keeps the loops of all others within their bounds.
LEMMA LoopFrame ==
    ASSUME NEW c \in Calls, Loops, Loop(c)', Alone(c)
    PROVE  Loops'
BY DEF Loops, Loop, Budget, IsEmptyResponse, Alone

\* A sleeper's timer is gone once it has moved on.
LEMMA SleptFrame ==
    ASSUME LoopTypeOK, NEW c \in Calls, NEW to, pc' = [pc EXCEPT ![c] = to],
           slept' \subseteq slept, c \notin slept' \/ pc[c] \notin {"poll", "backoff", "again"}
    PROVE  slept' \subseteq Asleep'
BY DEF LoopTypeOK, Asleep

\* The throughput manager's operations.
LEMMA ThroughputKeeps ==
    ASSUME ThroughputTypeOK,
           \/ Elapse \/ UNCHANGED limited
           \/ \E m \in Models : Reset(m) \/ ReportRateLimitError(m)
    PROVE  ThroughputTypeOK'
<1> USE ThroughputAssumption DEF ThroughputTypeOK, Free, MaxAge
<1>1. CASE Elapse
  BY <1>1 DEF Elapse
<1>2. ASSUME NEW m \in Models, Reset(m) \/ ReportRateLimitError(m) PROVE ThroughputTypeOK'
  BY <1>2 DEF Reset, ReportRateLimitError
<1>3. QED BY <1>1, <1>2

\* The choice of a model yields one.
LEMMA ChoiceKeeps ==
    ASSUME LoopTypeOK, NEW c \in Calls, NEW m \in Models \cup {NoModel}, Choose(c, m)
    PROVE  /\ model' \in [Calls -> Models \cup {DefaultModel, NoModel}]
           /\ model'[c] # NoModel
           /\ m \in Models => model'[c] = m
           /\ \A d \in Calls : d # c => model'[d] = model[d]
BY CallAssumption DEF LoopTypeOK, Choose

\* Every step of a call keeps its loops.
LEMMA LoopStep ==
    ASSUME LoopInv, NEW c \in Calls, Step(c)
    PROVE  LoopInv'
<1> USE CallAssumption, ThroughputAssumption
<1>0. LoopTypeOK /\ Loops /\ Loop(c) /\ ThroughputTypeOK
  BY DEF LoopInv, Loops, LoopTypeOK
<1>a. /\ retry[c] \in 0 .. MaxRetries /\ attempt[c] \in Nat /\ asked[c] \in Nat
      /\ attempt[c] * (MaxRetries + 1) \in Nat
      /\ (attempt[c] + 1) * (MaxRetries + 1) = (attempt[c] * (MaxRetries + 1)) + MaxRetries + 1
  BY <1>0, OneMoreAttempt DEF LoopTypeOK
<1>1. CASE Process(c)
  <2>1. \E to \in {"error", "generate"} : pc' = [pc EXCEPT ![c] = to]
    BY <1>1 DEF Process, Goto
  <2>2. /\ pc[c] = "start"
        /\ UNCHANGED <<limited, model, defModel, sent, last, retry, attempt, asked, waited, slept, overwritten>>
    BY <1>1 DEF Process
  <2>3. LoopTypeOK'
    <3>1. slept' \subseteq Asleep'
      BY <1>0, <2>1, <2>2, SleptFrame
    <3>2. ThroughputTypeOK'
      BY <1>0, <2>1, <2>2, ThroughputKeeps
    <3>3. QED BY <1>0, <2>1, <2>2, <3>1, <3>2 DEF LoopTypeOK, CallStates
  <2>4. Loop(c)' /\ Alone(c)
    BY <1>0, <1>a, <2>1, <2>2 DEF LoopTypeOK, Loop, Budget, Choosing, Submitting, IsEmptyResponse, Alone
  <2>5. QED BY <1>0, <2>3, <2>4, LoopFrame DEF LoopInv
<1>2. CASE Generate(c)
  <2>1. \E to \in {"choose", "submit"} :
           /\ pc' = [pc EXCEPT ![c] = to]
           /\ \E m \in Models \cup {DefaultModel, NoModel} :
                /\ model' = [model EXCEPT ![c] = m]
                /\ to = "submit" => m # NoModel
    <3>1. defModel[DefOf[c]] \in Models \cup {DefaultModel}
      BY <1>0 DEF LoopTypeOK, Defs
    <3>2. QED BY <1>2, <3>1 DEF Generate, Goto
  <2>2. /\ pc[c] = "generate" /\ retry' = [retry EXCEPT ![c] = 0]
        /\ UNCHANGED <<limited, defModel, sent, last, attempt, asked, waited, slept, overwritten>>
    BY <1>2 DEF Generate
  <2>3. LoopTypeOK'
    <3>1. slept' \subseteq Asleep'
      BY <1>0, <2>1, <2>2, SleptFrame
    <3>2. ThroughputTypeOK'
      BY <1>0, <2>1, <2>2, ThroughputKeeps
    <3>3. QED BY <1>0, <2>1, <2>2, <3>1, <3>2 DEF LoopTypeOK, CallStates
  <2>4. Loop(c)' /\ Alone(c)
    BY <1>0, <1>a, <2>1, <2>2 DEF LoopTypeOK, Loop, Budget, Choosing, Submitting, IsEmptyResponse, Alone
  <2>5. QED BY <1>0, <2>3, <2>4, LoopFrame DEF LoopInv
<1>3. CASE Check(c)
  <2>1. /\ pc[c] \in {"choose", "poll"} /\ slept' = slept \ {c}
        /\ UNCHANGED <<defModel, sent, last, retry, attempt, asked, overwritten>>
    BY <1>3 DEF Check
  <2>2. CASE \E m \in Models : GetAvailableModel(m) /\ Choose(c, m) /\ Goto(c, "submit") /\ UNCHANGED waited
    <3>1. PICK m \in Models : Reset(m) /\ Choose(c, m)
      BY <2>2 DEF GetAvailableModel
    <3>2. pc' = [pc EXCEPT ![c] = "submit"] /\ UNCHANGED waited
      BY <2>2 DEF Goto
    <3>3. /\ model' \in [Calls -> Models \cup {DefaultModel, NoModel}]
          /\ model'[c] # NoModel /\ \A d \in Calls : d # c => model'[d] = model[d]
      BY <1>0, <3>1, ChoiceKeeps
    <3>4. LoopTypeOK'
      <4>1. slept' \subseteq Asleep'
        BY <1>0, <2>1, <3>1, <3>2, <3>3, SleptFrame
      <4>2. ThroughputTypeOK'
        BY <1>0, <2>1, <3>1, <3>2, <3>3, ThroughputKeeps
      <4>3. QED BY <1>0, <2>1, <3>1, <3>2, <3>3, <4>1, <4>2 DEF LoopTypeOK, CallStates
    <3>5. Loop(c)' /\ Alone(c)
      BY <1>0, <1>a, <2>1, <3>2, <3>3 DEF LoopTypeOK, Loop, Budget, Choosing, Submitting, IsEmptyResponse, Alone
    <3>6. QED BY <1>0, <3>4, <3>5, LoopFrame DEF LoopInv
  <2>3. CASE Goto(c, "test") /\ waited' = [waited EXCEPT ![c] = IF pc[c] = "choose" THEN 0 ELSE @]
             /\ UNCHANGED <<limited, model>>
    <3>1. pc' = [pc EXCEPT ![c] = "test"] /\ waited' \in [Calls -> 0 .. MaxWait]
          /\ \A d \in Calls : d # c => waited'[d] = waited[d]
      BY <1>0, <2>3 DEF Goto, LoopTypeOK
    <3>2. LoopTypeOK'
      <4>1. slept' \subseteq Asleep'
        BY <1>0, <2>1, <2>3, <3>1, SleptFrame
      <4>2. ThroughputTypeOK'
        BY <1>0, <2>1, <2>3, <3>1, ThroughputKeeps
      <4>3. QED BY <1>0, <2>1, <2>3, <3>1, <4>1, <4>2 DEF LoopTypeOK, CallStates
    <3>3. Loop(c)' /\ Alone(c)
      BY <1>0, <1>a, <2>1, <2>3, <3>1 DEF LoopTypeOK, Loop, Budget, Choosing, Submitting, IsEmptyResponse, Alone
    <3>4. QED BY <1>0, <3>2, <3>3, LoopFrame DEF LoopInv
  <2>4. QED BY <1>3, <2>2, <2>3 DEF Check
<1>4. CASE Test(c)
  <2>1. pc' = [pc EXCEPT ![c] = IF waited[c] < MaxWait THEN "poll" ELSE "forced"]
    BY <1>4 DEF Test, Goto
  <2>2. /\ pc[c] = "test"
        /\ UNCHANGED <<limited, model, defModel, sent, last, retry, attempt, asked, waited, slept, overwritten>>
    BY <1>4 DEF Test
  <2>3. LoopTypeOK'
    <3>1. slept' \subseteq Asleep'
      BY <1>0, <2>1, <2>2, SleptFrame
    <3>2. ThroughputTypeOK'
      BY <1>0, <2>1, <2>2, ThroughputKeeps
    <3>3. QED BY <1>0, <2>1, <2>2, <3>1, <3>2 DEF LoopTypeOK, CallStates
  <2>4. Loop(c)' /\ Alone(c)
    BY <1>0, <1>a, <2>1, <2>2 DEF LoopTypeOK, Loop, Budget, Choosing, Submitting, IsEmptyResponse, Alone
  <2>5. QED BY <1>0, <2>3, <2>4, LoopFrame DEF LoopInv
<1>5. CASE ForceChoice(c)
  <2>1. PICK m \in Models \cup {NoModel} : GetModelWithShortestCooldown(m) /\ Choose(c, m)
    BY <1>5 DEF ForceChoice
  <2>2. /\ pc[c] = "forced" /\ pc' = [pc EXCEPT ![c] = "submit"]
        /\ UNCHANGED <<defModel, sent, last, retry, attempt, asked, waited, slept, overwritten>>
    BY <1>5 DEF ForceChoice, Goto
  <2>3. /\ model' \in [Calls -> Models \cup {DefaultModel, NoModel}]
        /\ model'[c] # NoModel /\ \A d \in Calls : d # c => model'[d] = model[d]
    BY <1>0, <2>1, ChoiceKeeps
  <2>4. UNCHANGED limited \/ \E n \in Models : Reset(n)
    BY <2>1 DEF GetModelWithShortestCooldown
  <2>5. LoopTypeOK'
    <3>1. slept' \subseteq Asleep'
      BY <1>0, <2>2, <2>3, <2>4, SleptFrame
    <3>2. ThroughputTypeOK'
      BY <1>0, <2>2, <2>3, <2>4, ThroughputKeeps
    <3>3. QED BY <1>0, <2>2, <2>3, <2>4, <3>1, <3>2 DEF LoopTypeOK, CallStates
  <2>6. Loop(c)' /\ Alone(c)
    BY <1>0, <1>a, <2>2, <2>3 DEF LoopTypeOK, Loop, Budget, Choosing, Submitting, IsEmptyResponse, Alone
  <2>7. QED BY <1>0, <2>5, <2>6, LoopFrame DEF LoopInv
<1>6. CASE SubmitJob(c)
  <2>1. /\ pc[c] = "submit" /\ defModel' = [defModel EXCEPT ![DefOf[c]] = model[c]]
        /\ sent' = [sent EXCEPT ![c] = NoModel]
        /\ overwritten' = Overwritten(c)
        /\ UNCHANGED <<limited, model, retry, attempt, asked, waited, slept>>
    BY <1>6 DEF SubmitJob
  <2>2. \E to \in {"failed", "acquire"} : pc' = [pc EXCEPT ![c] = to]
    BY <1>6 DEF SubmitJob, Goto
  <2>3. \E a \in {"error", "none"} : last' = [last EXCEPT ![c] = a]
    BY <1>6 DEF SubmitJob
  <2>4. model[c] \in Models \cup {DefaultModel}
    BY <1>0, <2>1 DEF LoopTypeOK, Loop, Choosing
  <2>5. LoopTypeOK'
    <3>1. slept' \subseteq Asleep'
      BY <1>0, <2>1, <2>2, <2>3, <2>4, SleptFrame
    <3>2. ThroughputTypeOK'
      BY <1>0, <2>1, <2>2, <2>3, <2>4, ThroughputKeeps
    <3>3. defModel' \in [Defs -> Models \cup {DefaultModel}]
      BY <1>0, <2>1, <2>4 DEF LoopTypeOK
    <3>4. pc' \in [Calls -> CallStates] /\ last' \in [Calls -> {"none", "text", "empty", "429", "error"}]
      BY <1>0, <2>2, <2>3 DEF LoopTypeOK, CallStates
    <3>5. overwritten' \in [Calls -> SUBSET (Models \cup {DefaultModel})]
      BY <1>0, <2>1, <2>4 DEF LoopTypeOK, Overwritten
    <3>6. QED BY <1>0, <2>1, <3>1, <3>2, <3>3, <3>4, <3>5 DEF LoopTypeOK
  <2>6. Loop(c)' /\ Alone(c)
    BY <1>0, <1>a, <2>1, <2>2, <2>3 DEF LoopTypeOK, Loop, Budget, Choosing, Submitting, IsEmptyResponse, Alone
  <2>7. QED BY <1>0, <2>5, <2>6, LoopFrame DEF LoopInv
<1>7. CASE Acquired(c)
  <2>1. /\ pc[c] = "acquire"
        /\ UNCHANGED <<limited, model, defModel, sent, retry, attempt, asked, waited, slept, overwritten>>
    BY <1>7 DEF Acquired
  <2>2. \E to \in {"failed", "request"} : pc' = [pc EXCEPT ![c] = to]
    BY <1>7 DEF Acquired, Goto
  <2>3. last' = last \/ last' = [last EXCEPT ![c] = "error"]
    BY <1>7 DEF Acquired
  <2>4. LoopTypeOK'
    <3>1. slept' \subseteq Asleep'
      BY <1>0, <2>1, <2>2, <2>3, SleptFrame
    <3>2. ThroughputTypeOK'
      BY <1>0, <2>1, <2>2, <2>3, ThroughputKeeps
    <3>3. QED BY <1>0, <2>1, <2>2, <2>3, <3>1, <3>2 DEF LoopTypeOK, CallStates
  <2>5. Loop(c)' /\ Alone(c)
    BY <1>0, <1>a, <2>1, <2>2, <2>3 DEF LoopTypeOK, Loop, Budget, Choosing, Submitting, IsEmptyResponse, Alone
  <2>6. QED BY <1>0, <2>4, <2>5, LoopFrame DEF LoopInv
<1>8. CASE Request(c)
  <2>1. /\ pc[c] = "request" /\ pc' = [pc EXCEPT ![c] = "inflight"]
        /\ sent' = [sent EXCEPT ![c] = defModel[DefOf[c]]]
        /\ asked' = [asked EXCEPT ![c] = @ + 1]
        /\ UNCHANGED <<limited, model, defModel, last, retry, attempt, waited, slept, overwritten>>
    BY <1>8 DEF Request, Goto
  <2>2. defModel[DefOf[c]] \in Models \cup {DefaultModel}
    BY <1>0 DEF LoopTypeOK, Defs
  <2>3. LoopTypeOK'
    <3>1. slept' \subseteq Asleep'
      BY <1>0, <2>1, <2>2, SleptFrame
    <3>2. ThroughputTypeOK'
      BY <1>0, <2>1, <2>2, ThroughputKeeps
    <3>3. QED BY <1>0, <2>1, <2>2, <3>1, <3>2 DEF LoopTypeOK, CallStates
  <2>4. Loop(c)' /\ Alone(c)
    BY <1>0, <1>a, <2>1 DEF LoopTypeOK, Loop, Budget, Choosing, Submitting, IsEmptyResponse, Alone
  <2>5. QED BY <1>0, <2>3, <2>4, LoopFrame DEF LoopInv
<1>9. CASE Answer(c)
  <2>1. \E a \in {"text", "empty", "429", "error"}, to \in {"failed", "answered"} :
           last' = [last EXCEPT ![c] = a] /\ pc' = [pc EXCEPT ![c] = to]
    BY <1>9 DEF Answer, Goto
  <2>2. /\ pc[c] = "inflight"
        /\ UNCHANGED <<limited, model, defModel, sent, retry, attempt, asked, waited, slept, overwritten>>
    BY <1>9 DEF Answer
  <2>3. LoopTypeOK'
    <3>1. slept' \subseteq Asleep'
      BY <1>0, <2>1, <2>2, SleptFrame
    <3>2. ThroughputTypeOK'
      BY <1>0, <2>1, <2>2, ThroughputKeeps
    <3>3. QED BY <1>0, <2>1, <2>2, <3>1, <3>2 DEF LoopTypeOK, CallStates
  <2>4. Loop(c)' /\ Alone(c)
    BY <1>0, <1>a, <2>1, <2>2 DEF LoopTypeOK, Loop, Budget, Choosing, Submitting, IsEmptyResponse, Alone
  <2>5. QED BY <1>0, <2>3, <2>4, LoopFrame DEF LoopInv
<1>10. CASE Failed(c)
  <2>1. pc' = [pc EXCEPT ![c] = IF retry[c] < MaxRetries THEN "backoff" ELSE "error"]
    BY <1>10 DEF Failed, Goto
  <2>2. /\ pc[c] = "failed"
        /\ UNCHANGED <<model, defModel, sent, last, retry, attempt, asked, waited, slept, overwritten>>
    BY <1>10 DEF Failed
  <2>3. UNCHANGED limited \/ \E m \in Models : ReportRateLimitError(m)
    BY <1>10 DEF Failed, ReportRateLimitError
  <2>4. LoopTypeOK'
    <3>1. slept' \subseteq Asleep'
      BY <1>0, <2>1, <2>2, <2>3, SleptFrame
    <3>2. ThroughputTypeOK'
      BY <1>0, <2>1, <2>2, <2>3, ThroughputKeeps
    <3>3. QED BY <1>0, <2>1, <2>2, <2>3, <3>1, <3>2 DEF LoopTypeOK, CallStates
  <2>5. Loop(c)' /\ Alone(c)
    BY <1>0, <1>a, <2>1, <2>2 DEF LoopTypeOK, Loop, Budget, Choosing, Submitting, IsEmptyResponse, Alone
  <2>6. QED BY <1>0, <2>4, <2>5, LoopFrame DEF LoopInv
<1>11. CASE Backoff(c)
  <2>1. \E to \in {"choose", "submit"} : pc' = [pc EXCEPT ![c] = to]
    BY <1>11 DEF Backoff, Goto
  <2>2. /\ pc[c] = "backoff" /\ slept' = slept \ {c}
        /\ retry' = [retry EXCEPT ![c] = @ + 1]
        /\ UNCHANGED <<limited, model, defModel, sent, last, attempt, asked, waited, overwritten>>
    BY <1>11 DEF Backoff
  <2>3. LoopTypeOK'
    <3>1. slept' \subseteq Asleep'
      BY <1>0, <2>1, <2>2, SleptFrame
    <3>2. ThroughputTypeOK'
      BY <1>0, <2>1, <2>2, ThroughputKeeps
    <3>3. QED BY <1>0, <2>1, <2>2, <3>1, <3>2 DEF LoopTypeOK, CallStates, Loop
  <2>4. Loop(c)' /\ Alone(c)
    BY <1>0, <1>a, <2>1, <2>2 DEF LoopTypeOK, Loop, Budget, Choosing, Submitting, IsEmptyResponse, Alone
  <2>5. QED BY <1>0, <2>3, <2>4, LoopFrame DEF LoopInv
<1>12. CASE Answered(c)
  <2>1. pc' = [pc EXCEPT ![c] = IF IsEmptyResponse(c) /\ attempt[c] < EmptyRetries THEN "again" ELSE "value"]
    BY <1>12 DEF Answered, Goto
  <2>2. /\ pc[c] = "answered"
        /\ UNCHANGED <<limited, model, defModel, sent, last, retry, attempt, asked, waited, slept, overwritten>>
    BY <1>12 DEF Answered
  <2>3. LoopTypeOK'
    <3>1. slept' \subseteq Asleep'
      BY <1>0, <2>1, <2>2, SleptFrame
    <3>2. ThroughputTypeOK'
      BY <1>0, <2>1, <2>2, ThroughputKeeps
    <3>3. QED BY <1>0, <2>1, <2>2, <3>1, <3>2 DEF LoopTypeOK, CallStates
  <2>4. Loop(c)' /\ Alone(c)
    BY <1>0, <1>a, <2>1, <2>2 DEF LoopTypeOK, Loop, Budget, Choosing, Submitting, IsEmptyResponse, Alone
  <2>5. QED BY <1>0, <2>3, <2>4, LoopFrame DEF LoopInv
<1>13. CASE Again(c)
  <2>1. /\ pc[c] = "again" /\ pc' = [pc EXCEPT ![c] = "generate"] /\ slept' = slept \ {c}
        /\ attempt' = [attempt EXCEPT ![c] = @ + 1]
        /\ UNCHANGED <<limited, model, defModel, sent, last, retry, asked, waited, overwritten>>
    BY <1>13 DEF Again, Goto
  <2>2. LoopTypeOK'
    <3>1. slept' \subseteq Asleep'
      BY <1>0, <2>1, SleptFrame
    <3>2. ThroughputTypeOK'
      BY <1>0, <2>1, ThroughputKeeps
    <3>3. QED BY <1>0, <2>1, <3>1, <3>2 DEF LoopTypeOK, CallStates, Loop
  <2>3. Loop(c)' /\ Alone(c)
    BY <1>0, <1>a, <2>1 DEF LoopTypeOK, Loop, Budget, Choosing, Submitting, IsEmptyResponse, Alone
  <2>4. QED BY <1>0, <2>2, <2>3, LoopFrame DEF LoopInv
<1>14. QED BY <1>1, <1>2, <1>3, <1>4, <1>5, <1>6, <1>7, <1>8, <1>9, <1>10, <1>11, <1>12, <1>13 DEF Step

\* Time and an ended context leave the loops where they are.
LEMMA LoopNext == LoopInv /\ [Next]_vars => LoopInv'
<1> SUFFICES ASSUME LoopInv, [Next]_vars PROVE LoopInv'
  OBVIOUS
<1> USE CallAssumption, ThroughputAssumption
<1>1. CASE Tick
  <2>1. /\ UNCHANGED <<pc, model, defModel, sent, last, retry, attempt, asked, overwritten>>
        /\ slept' = slept \cup Asleep
    BY <1>1 DEF Tick
  <2>2. waited' \in [Calls -> 0 .. MaxWait] /\ \A c \in Calls : waited[c] = MaxWait => waited'[c] = waited[c]
    BY <1>1 DEF Tick, LoopInv, LoopTypeOK
  <2>3. ThroughputTypeOK'
    BY <1>1, ThroughputKeeps DEF Tick, LoopInv, LoopTypeOK
  <2>4. LoopTypeOK'
    BY <2>1, <2>2, <2>3 DEF LoopInv, LoopTypeOK, Asleep
  <2>5. Loops'
    BY <2>1, <2>2 DEF LoopInv, Loops, Loop, Budget, IsEmptyResponse
  <2>6. QED BY <2>4, <2>5 DEF LoopInv
<1>2. ASSUME UNCHANGED <<limited, callVars>> PROVE LoopInv'
  BY <1>2 DEF callVars, LoopInv, LoopTypeOK, ThroughputTypeOK, Asleep, Loops, Loop, Budget, IsEmptyResponse
<1>3. ASSUME NEW c \in Calls, End(c) PROVE LoopInv'
  BY <1>2, <1>3 DEF End
<1>4. CASE UNCHANGED vars
  BY <1>2, <1>4 DEF vars
<1>5. QED BY <1>1, <1>3, <1>4, LoopStep DEF Next

\* The counters of the two retry loops of Generate stay within their bounds.
LEMMA LoopInvariance == Spec => []LoopInv
BY LoopStarts, LoopNext, PTL DEF Spec

-----------------------------------------------------------------------------
(* The permits of the shards *)

ShardTypeOK ==
    /\ permits \in [AdapterShards -> Nat]
    /\ waiters \in [AdapterShards -> Seq(Calls)]
    /\ turn \in AdapterShards
    /\ shardOf \in [Calls -> AdapterShards]
    /\ holders \subseteq Calls /\ ended \subseteq Calls

\* A caller asleep in Acquire stands once in the queue of its shard and has no permit; a
\* caller that has a permit is between Acquire and its answer.
Queues ==
    /\ \A s \in AdapterShards : \A i \in DOMAIN waiters[s] :
          LET c == waiters[s][i]
          IN  /\ pc[c] = "acquire" /\ shardOf[c] = s /\ c \notin holders
              /\ \A k \in DOMAIN waiters[s] : waiters[s][k] = c => k = i
    /\ \A c \in Calls : pc[c] \in {"request", "inflight"} => c \in holders

HoldersOf(s) == {c \in holders : shardOf[c] = s}

PermitInv == ShardTypeOK /\ PermitsAccounted /\ NoIdlePermit /\ Queues

\* The shape of the submitter.
LEMMA ShardShape ==
    /\ ShardCapacity \in Nat
    /\ \A t \in AdapterShards : (t + 1) % NumShards \in AdapterShards
<1>1. ShardCapacity \in Nat
  BY SubmitterAssumption DEF ShardCapacity
<1>2. \A t \in AdapterShards : (t + 1) % NumShards \in AdapterShards
  BY SubmitterAssumption DEF AdapterShards
<1>3. QED BY <1>1, <1>2

\* All permits are free at first.
LEMMA PermitStarts == Init => PermitInv
<1> SUFFICES ASSUME Init PROVE PermitInv
  OBVIOUS
<1>1. ShardTypeOK
  BY ShardShape, SubmitterAssumption DEF Init, NewDirectJobSubmitter, ShardTypeOK, AdapterShards
<1>2. PermitsAccounted
  <2>1. \A s : {c \in holders : shardOf[c] = s} = {}
    BY DEF Init, NewDirectJobSubmitter
  <2>2. QED BY <2>1, ShardShape, FS_EmptySet DEF Init, NewDirectJobSubmitter, PermitsAccounted
<1>3. NoIdlePermit /\ Queues
  BY DEF Init, NewDirectJobSubmitter, NoIdlePermit, Queues
<1>4. QED BY <1>1, <1>2, <1>3 DEF PermitInv

\* Holders can be counted.
LEMMA HoldersFinite ==
    ASSUME ShardTypeOK, NEW s
    PROVE  IsFiniteSet(HoldersOf(s)) /\ Cardinality(HoldersOf(s)) \in Nat
BY SubmitterAssumption, FS_Subset, FS_CardinalityType DEF ShardTypeOK, HoldersOf

\* Taking an element out of a queue leaves the others where they are or one place further on.
LEMMA RemoveAtProperties ==
    ASSUME NEW S, NEW q \in Seq(S), NEW i \in DOMAIN q
    PROVE  /\ RemoveAt(q, i) \in Seq(S)
           /\ \A k \in DOMAIN RemoveAt(q, i) :
                /\ k \in Int
                /\ (IF k < i THEN k ELSE k + 1) \in DOMAIN q
                /\ RemoveAt(q, i)[k] = q[IF k < i THEN k ELSE k + 1]
<1>1. Len(q) \in Nat /\ DOMAIN q = 1 .. Len(q) /\ i \in 1 .. Len(q)
  BY LenProperties
<1> DEFINE front == SubSeq(q, 1, i - 1)
           back == SubSeq(q, i + 1, Len(q))
<1>2. /\ front \in Seq(S) /\ Len(front) = i - 1
      /\ \A k \in 1 .. i - 1 : front[k] = q[k]
  BY <1>1, SubSeqProperties
<1>3. /\ back \in Seq(S) /\ Len(back) = Len(q) - i
      /\ \A k \in 1 .. Len(q) - i : back[k] = q[i + k]
  BY <1>1, SubSeqProperties
<1>4. RemoveAt(q, i) = front \o back
  BY DEF RemoveAt
<1> HIDE DEF front, back
<1>5. /\ front \o back \in Seq(S) /\ Len(front \o back) = Len(front) + Len(back)
      /\ \A k \in 1 .. Len(front) + Len(back) :
            (front \o back)[k] = IF k <= Len(front) THEN front[k] ELSE back[k - Len(front)]
  BY <1>2, <1>3, ConcatProperties
<1> DEFINE rest == front \o back
           from(k) == IF k < i THEN k ELSE k + 1
<1>6. DOMAIN rest = 1 .. Len(q) - 1
  <2>1. Len(rest) = Len(q) - 1
    BY <1>1, <1>2, <1>3, <1>5
  <2>2. DOMAIN rest = 1 .. Len(rest)
    BY <1>5, LenProperties
  <2>3. QED BY <2>1, <2>2
<1>7. ASSUME NEW k \in 1 .. Len(q) - 1
      PROVE  k \in Int /\ from(k) \in 1 .. Len(q) /\ rest[k] = q[from(k)]
  <2>0. k \in 1 .. Len(front) + Len(back) /\ k \in Int /\ i \in Int /\ from(k) \in 1 .. Len(q)
    BY <1>1, <1>2, <1>3
  <2>1. CASE k < i
    <3>1. k <= Len(front) /\ k \in 1 .. i - 1
      BY <1>1, <1>2, <2>0, <2>1
    <3>2. rest[k] = front[k]
      BY <1>5, <2>0, <3>1
    <3>3. QED BY <1>2, <2>0, <2>1, <3>1, <3>2
  <2>2. CASE ~(k < i)
    <3>1. ~(k <= Len(front)) /\ Len(front) = i - 1
      BY <1>1, <1>2, <2>0, <2>2
    <3>2. rest[k] = back[k - (i - 1)]
      BY <1>5, <2>0, <3>1
    <3>3. k - (i - 1) \in 1 .. Len(q) - i /\ i + (k - (i - 1)) = k + 1
      BY <1>1, <2>0, <2>2
    <3>4. back[k - (i - 1)] = q[k + 1]
      BY <1>3, <3>3
    <3>5. QED BY <2>0, <2>2, <3>2, <3>4
  <2>3. QED BY <2>1, <2>2
<1> HIDE DEF rest
<1>8. RemoveAt(q, i) = rest /\ rest \in Seq(S)
  BY <1>4, <1>5 DEF rest
<1>9. QED BY <1>1, <1>6, <1>7, <1>8

\* A step that touches no permit and no queue: the callers in a queue and the holders of a
\* permit stay where they are, or a holder moves on within SubmitJob.
LEMMA PermitFrame ==
    ASSUME PermitInv, UNCHANGED <<permits, waiters, holders>>,
           turn' \in AdapterShards, ended' \subseteq Calls,
           shardOf' \in [Calls -> AdapterShards],
           \A c \in Calls :
              /\ c \in holders => pc'[c] \in {"acquire", "request", "inflight"} /\ shardOf'[c] = shardOf[c]
              /\ c \notin holders /\ pc[c] = "acquire" => pc'[c] = "acquire" /\ shardOf'[c] = shardOf[c]
              /\ pc'[c] \in {"request", "inflight"} => c \in holders
    PROVE  PermitInv'
<1>0. waiters \in [AdapterShards -> Seq(Calls)] /\ holders \subseteq Calls
  BY DEF PermitInv, ShardTypeOK
<1>1. ShardTypeOK' /\ NoIdlePermit'
  BY DEF PermitInv, ShardTypeOK, NoIdlePermit
<1>2. \A s : HoldersOf(s)' = HoldersOf(s)
  BY <1>0 DEF HoldersOf
<1>3. PermitsAccounted'
  BY <1>0, <1>2 DEF PermitInv, PermitsAccounted, HoldersOf
<1>4. \A s \in AdapterShards : \A i \in DOMAIN waiters[s] : waiters[s][i] \in Calls
  BY <1>0
<1>5. Queues'
  BY <1>4 DEF PermitInv, Queues
<1>6. QED BY <1>1, <1>3, <1>5 DEF PermitInv

\* The fast path of Acquire, or a place at the end of the queue.
LEMMA EnterKeeps ==
    ASSUME PermitInv, NEW c \in Calls, pc[c] = "submit", Enter(c),
           pc'[c] = "acquire", \A d \in Calls : d # c => pc'[d] = pc[d]
    PROVE  PermitInv'
<1>0. /\ permits \in [AdapterShards -> Nat] /\ waiters \in [AdapterShards -> Seq(Calls)]
      /\ shardOf \in [Calls -> AdapterShards] /\ holders \subseteq Calls
  BY DEF PermitInv, ShardTypeOK
<1>a. \A t \in AdapterShards : permits[t] + Cardinality(HoldersOf(t)) = ShardCapacity
  BY DEF PermitInv, PermitsAccounted, HoldersOf
<1>1. PICK s \in AdapterShards :
         /\ turn' = s /\ shardOf' = [shardOf EXCEPT ![c] = s] /\ ended' = ended
         /\ IF permits[s] > 0 /\ waiters[s] = <<>>
            THEN /\ permits' = [permits EXCEPT ![s] = @ - 1]
                 /\ holders' = holders \cup {c} /\ UNCHANGED waiters
            ELSE /\ waiters' = [waiters EXCEPT ![s] = Append(@, c)]
                 /\ UNCHANGED <<permits, holders>>
  <2>1. (turn + 1) % NumShards \in AdapterShards
    BY ShardShape DEF PermitInv, ShardTypeOK
  <2>2. QED BY <2>1 DEF Enter
<1>2. c \notin holders
  BY DEF PermitInv, PermitsAccounted
<1>3. \A t \in AdapterShards : \A i \in DOMAIN waiters[t] : waiters[t][i] \in Calls /\ waiters[t][i] # c
  BY <1>0 DEF PermitInv, Queues
<1>4. shardOf'[c] = s /\ \A d \in Calls : d # c => shardOf'[d] = shardOf[d]
  BY <1>0, <1>1
<1>5. CASE permits[s] > 0 /\ waiters[s] = <<>>
  <2>1. permits' = [permits EXCEPT ![s] = @ - 1] /\ holders' = holders \cup {c} /\ waiters' = waiters
    BY <1>1, <1>5
  <2>2. /\ permits'[s] = permits[s] - 1 /\ permits[s] \in Nat \ {0}
        /\ \A t \in AdapterShards : t # s => permits'[t] = permits[t]
    BY <1>0, <1>5, <2>1
  <2>3. ShardTypeOK'
    BY <1>0, <1>1, <1>4, <2>1, <2>2 DEF PermitInv, ShardTypeOK
  <2>4. HoldersOf(s)' = HoldersOf(s) \cup {c} /\ c \notin HoldersOf(s)
    BY <1>0, <1>2, <1>4, <2>1 DEF HoldersOf
  <2>5. \A t \in AdapterShards : t # s => HoldersOf(t)' = HoldersOf(t)
    BY <1>0, <1>2, <1>4, <2>1 DEF HoldersOf
  <2>6. Cardinality(HoldersOf(s)') = Cardinality(HoldersOf(s)) + 1 /\ Cardinality(HoldersOf(s)) \in Nat
    BY <2>4, HoldersFinite, FS_AddElement DEF PermitInv
  <2>7. \A t \in AdapterShards : permits'[t] + Cardinality(HoldersOf(t)') = ShardCapacity
    BY <1>a, <2>2, <2>5, <2>6, ShardShape
  <2>8. PermitsAccounted'
    BY <1>0, <2>1, <2>7 DEF PermitInv, PermitsAccounted, HoldersOf
  <2>9. NoIdlePermit'
    BY <1>5, <2>1, <2>2 DEF PermitInv, NoIdlePermit
  <2>10. Queues'
    BY <1>3, <1>4, <2>1 DEF PermitInv, Queues
  <2>11. QED BY <2>3, <2>8, <2>9, <2>10 DEF PermitInv
<1>6. CASE ~(permits[s] > 0 /\ waiters[s] = <<>>)
  <2>1. waiters' = [waiters EXCEPT ![s] = Append(@, c)] /\ permits' = permits /\ holders' = holders
    BY <1>1, <1>6
  <2>2. permits[s] = 0
    BY <1>0, <1>6 DEF PermitInv, NoIdlePermit
  <2>3. waiters'[s] = Append(waiters[s], c) /\ \A t \in AdapterShards : t # s => waiters'[t] = waiters[t]
    BY <1>0, <2>1
  <2>4. ShardTypeOK'
    BY <1>0, <1>1, <2>1 DEF PermitInv, ShardTypeOK
  <2>5. \A t : HoldersOf(t)' = HoldersOf(t)
    BY <1>0, <1>2, <1>4, <2>1 DEF HoldersOf
  <2>6. PermitsAccounted'
    BY <1>0, <1>2, <2>1, <2>5 DEF PermitInv, PermitsAccounted, HoldersOf
  <2>7. NoIdlePermit'
    BY <2>1, <2>2, <2>3 DEF PermitInv, NoIdlePermit
  <2>8. /\ waiters[s] \in Seq(Calls) /\ Len(waiters[s]) \in Nat
        /\ DOMAIN waiters[s] = 1 .. Len(waiters[s])
        /\ DOMAIN waiters'[s] = 1 .. Len(waiters[s]) + 1
        /\ waiters'[s][Len(waiters[s]) + 1] = c
        /\ \A i \in DOMAIN waiters[s] : waiters'[s][i] = waiters[s][i]
    BY <1>0, <2>3
  <2>9. ASSUME NEW t \in AdapterShards, NEW i \in DOMAIN waiters'[t]
        PROVE  LET d == waiters'[t][i]
               IN  /\ pc'[d] = "acquire" /\ shardOf'[d] = t /\ d \notin holders
                   /\ \A k \in DOMAIN waiters'[t] : waiters'[t][k] = d => k = i
    <3>1. CASE t # s
      BY <1>3, <1>4, <2>3, <3>1 DEF PermitInv, Queues
    <3>2. CASE t = s /\ i \in DOMAIN waiters[s]
      BY <1>3, <1>4, <2>8, <3>2, SMTT(40) DEF PermitInv, Queues
    <3>3. CASE t = s /\ i = Len(waiters[s]) + 1
      BY <1>2, <1>3, <1>4, <2>8, <3>3, SMTT(40)
    <3>4. QED BY <2>8, <3>1, <3>2, <3>3
  <2>10. Queues'
    BY <2>1, <2>9 DEF PermitInv, Queues
  <2>11. QED BY <2>4, <2>6, <2>7, <2>10 DEF PermitInv
<1>7. QED BY <1>5, <1>6

\* Release gives the permit to the oldest waiter of the shard, or makes it free.
LEMMA ReleaseKeeps ==
    ASSUME PermitInv, NEW c \in holders, Release(c),
           pc'[c] \notin {"acquire", "request", "inflight"}, \A d \in Calls : d # c => pc'[d] = pc[d]
    PROVE  PermitInv'
<1>0. /\ permits \in [AdapterShards -> Nat] /\ waiters \in [AdapterShards -> Seq(Calls)]
      /\ shardOf \in [Calls -> AdapterShards] /\ holders \subseteq Calls /\ c \in Calls
  BY DEF PermitInv, ShardTypeOK
<1>a. \A t \in AdapterShards : permits[t] + Cardinality(HoldersOf(t)) = ShardCapacity
  BY DEF PermitInv, PermitsAccounted, HoldersOf
<1>1. PICK s \in AdapterShards : s = shardOf[c]
  BY <1>0
<1>2. UNCHANGED <<turn, shardOf, ended>>
  BY DEF Release
<1>3. \A t \in AdapterShards : \A i \in DOMAIN waiters[t] : waiters[t][i] \in Calls /\ waiters[t][i] # c
  BY <1>0 DEF PermitInv, Queues
<1>4. CASE waiters[s] = <<>>
  <2>1. permits' = [permits EXCEPT ![s] = @ + 1] /\ holders' = holders \ {c} /\ waiters' = waiters
    BY <1>1, <1>4 DEF Release
  <2>2. /\ permits'[s] = permits[s] + 1 /\ permits[s] \in Nat
        /\ \A t \in AdapterShards : t # s => permits'[t] = permits[t]
    BY <1>0, <2>1
  <2>3. ShardTypeOK'
    BY <1>0, <1>2, <2>1 DEF PermitInv, ShardTypeOK
  <2>4. HoldersOf(s)' = HoldersOf(s) \ {c} /\ c \in HoldersOf(s)
    BY <1>1, <1>2, <2>1 DEF HoldersOf
  <2>5. \A t \in AdapterShards : t # s => HoldersOf(t)' = HoldersOf(t)
    BY <1>1, <1>2, <2>1 DEF HoldersOf
  <2>6. Cardinality(HoldersOf(s)') = Cardinality(HoldersOf(s)) - 1 /\ Cardinality(HoldersOf(s)) \in Nat
    BY <2>4, HoldersFinite, FS_RemoveElement DEF PermitInv
  <2>7. \A t \in AdapterShards : permits'[t] + Cardinality(HoldersOf(t)') = ShardCapacity
    BY <1>a, <2>2, <2>5, <2>6, ShardShape
  <2>8. PermitsAccounted'
    BY <1>0, <2>1, <2>7 DEF PermitInv, PermitsAccounted, HoldersOf
  <2>9. NoIdlePermit'
    BY <1>4, <2>1, <2>2 DEF PermitInv, NoIdlePermit
  <2>10. Queues'
    BY <1>2, <1>3, <2>1 DEF PermitInv, Queues
  <2>11. QED BY <2>3, <2>8, <2>9, <2>10 DEF PermitInv
<1>5. CASE waiters[s] # <<>>
  <2>0. PICK h : h = Head(waiters[s])
    OBVIOUS
  <2>1. /\ holders' = (holders \ {c}) \cup {h}
        /\ waiters' = [waiters EXCEPT ![s] = Tail(@)] /\ permits' = permits
    BY <1>1, <1>5, <2>0 DEF Release
  <2>2. /\ waiters[s] \in Seq(Calls) /\ 1 \in DOMAIN waiters[s] /\ h = waiters[s][1]
        /\ \A i \in DOMAIN Tail(waiters[s]) :
             i \in Nat \ {0} /\ i + 1 \in DOMAIN waiters[s] /\ Tail(waiters[s])[i] = waiters[s][i + 1]
    BY <1>0, <1>5, <2>0, SMTT(40)
  <2>3. /\ h \in Calls /\ h # c /\ h \notin holders /\ shardOf[h] = s /\ pc[h] = "acquire"
        /\ \A k \in DOMAIN waiters[s] : waiters[s][k] = h => k = 1
    BY <1>3, <2>2 DEF PermitInv, Queues
  <2>4. waiters'[s] = Tail(waiters[s]) /\ \A t \in AdapterShards : t # s => waiters'[t] = waiters[t]
    BY <1>0, <2>1
  <2>5. ShardTypeOK'
    BY <1>0, <1>2, <1>5, <2>1, <2>3 DEF PermitInv, ShardTypeOK
  <2>6. HoldersOf(s)' = (HoldersOf(s) \ {c}) \cup {h} /\ c \in HoldersOf(s) /\ h \notin HoldersOf(s)
    BY <1>1, <1>2, <2>1, <2>3 DEF HoldersOf
  <2>7. \A t \in AdapterShards : t # s => HoldersOf(t)' = HoldersOf(t)
    BY <1>1, <1>2, <2>1, <2>3 DEF HoldersOf
  <2>8. Cardinality(HoldersOf(s)') = Cardinality(HoldersOf(s))
    <3>1. IsFiniteSet(HoldersOf(s)) /\ Cardinality(HoldersOf(s)) \in Nat
      BY HoldersFinite DEF PermitInv
    <3>2. IsFiniteSet(HoldersOf(s) \ {c}) /\ Cardinality(HoldersOf(s) \ {c}) = Cardinality(HoldersOf(s)) - 1
      BY <2>6, <3>1, FS_RemoveElement
    <3>3. h \notin HoldersOf(s) \ {c}
      BY <2>6
    <3>4. Cardinality((HoldersOf(s) \ {c}) \cup {h}) = Cardinality(HoldersOf(s) \ {c}) + 1
      BY <3>2, <3>3, FS_AddElement
    <3>5. QED BY <2>6, <3>1, <3>2, <3>4
  <2>9. \A t \in AdapterShards : permits'[t] + Cardinality(HoldersOf(t)') = ShardCapacity
    BY <1>a, <2>1, <2>7, <2>8
  <2>10. PermitsAccounted'
    BY <1>0, <2>1, <2>3, <2>9 DEF PermitInv, PermitsAccounted, HoldersOf
  <2>11. NoIdlePermit'
    BY <1>5, <2>1, <2>4 DEF PermitInv, NoIdlePermit
  <2>12. ASSUME NEW t \in AdapterShards, NEW i \in DOMAIN waiters'[t]
         PROVE  LET d == waiters'[t][i]
                IN  /\ pc'[d] = "acquire" /\ shardOf'[d] = t /\ d \notin holders'
                    /\ \A k \in DOMAIN waiters'[t] : waiters'[t][k] = d => k = i
    <3>1. CASE t # s
      BY <1>2, <1>3, <2>1, <2>3, <2>4, <3>1 DEF PermitInv, Queues
    <3>2. CASE t = s
      <4>1. waiters'[s][i] = waiters[s][i + 1] /\ i + 1 \in DOMAIN waiters[s] /\ i \in Nat \ {0}
        BY <2>2, <2>4, <3>2
      <4>2. \A k \in DOMAIN waiters'[s] : waiters'[s][k] = waiters'[s][i] => k = i
        BY <2>2, <2>4, <4>1 DEF PermitInv, Queues
      <4>3. waiters[s][i + 1] # h
        BY <2>3, <4>1
      <4>4. QED BY <1>2, <1>3, <2>1, <3>2, <4>1, <4>2, <4>3 DEF PermitInv, Queues
    <3>3. QED BY <3>1, <3>2
  <2>13. Queues'
    BY <1>0, <2>1, <2>12, ZenonT(40) DEF PermitInv, Queues
  <2>14. QED BY <2>5, <2>10, <2>11, <2>13 DEF PermitInv
<1>6. QED BY <1>4, <1>5

\* A caller that gives up leaves the queue and the permits as they were.
LEMMA WithdrawKeeps ==
    ASSUME PermitInv, NEW c \in Calls, Withdraw(c),
           pc'[c] \notin {"acquire", "request", "inflight"}, \A d \in Calls : d # c => pc'[d] = pc[d]
    PROVE  PermitInv'
<1>0. /\ permits \in [AdapterShards -> Nat] /\ waiters \in [AdapterShards -> Seq(Calls)]
      /\ shardOf \in [Calls -> AdapterShards] /\ holders \subseteq Calls
  BY DEF PermitInv, ShardTypeOK
<1>1. PICK s \in AdapterShards : s = shardOf[c]
  BY <1>0
<1>2. PICK i \in DOMAIN waiters[s] :
         waiters[s][i] = c /\ waiters' = [waiters EXCEPT ![s] = RemoveAt(@, i)]
  BY <1>1 DEF Withdraw
<1>3. UNCHANGED <<permits, turn, shardOf, holders, ended>>
  BY DEF Withdraw
<1>4. /\ RemoveAt(waiters[s], i) \in Seq(Calls) /\ i \in Int
      /\ \A k \in DOMAIN RemoveAt(waiters[s], i) :
           /\ k \in Int
           /\ (IF k < i THEN k ELSE k + 1) \in DOMAIN waiters[s]
           /\ RemoveAt(waiters[s], i)[k] = waiters[s][IF k < i THEN k ELSE k + 1]
  <2>1. waiters[s] \in Seq(Calls)
    BY <1>0
  <2>2. QED BY <2>1, RemoveAtProperties
<1>5. waiters'[s] = RemoveAt(waiters[s], i) /\ \A t \in AdapterShards : t # s => waiters'[t] = waiters[t]
  BY <1>0, <1>2
<1>6. c \notin holders /\ \A k \in DOMAIN waiters[s] : waiters[s][k] = c => k = i
  BY <1>2 DEF PermitInv, Queues
<1>7. ShardTypeOK'
  BY <1>0, <1>2, <1>3, <1>4 DEF PermitInv, ShardTypeOK
<1>8. PermitsAccounted'
  <2>1. \A t : HoldersOf(t)' = HoldersOf(t)
    BY <1>3 DEF HoldersOf
  <2>2. QED BY <1>0, <1>3, <1>6, <2>1 DEF PermitInv, PermitsAccounted, HoldersOf
<1>9. NoIdlePermit'
  <2>1. waiters[s] # <<>>
    BY <1>2
  <2>2. QED BY <1>3, <1>5, <2>1 DEF PermitInv, NoIdlePermit
<1>10. ASSUME NEW t \in AdapterShards, NEW k \in DOMAIN waiters'[t]
       PROVE  LET d == waiters'[t][k]
              IN  /\ pc'[d] = "acquire" /\ shardOf[d] = t /\ d \notin holders
                  /\ \A l \in DOMAIN waiters'[t] : waiters'[t][l] = d => l = k
  <2>1. CASE t # s
    <3>1. waiters[t][k] \in Calls /\ shardOf[waiters[t][k]] = t
      BY <1>0, <1>5, <2>1 DEF PermitInv, Queues
    <3>2. waiters[t][k] # c
      BY <1>1, <2>1, <3>1
    <3>3. QED BY <1>5, <2>1, <3>1, <3>2 DEF PermitInv, Queues
  <2>2. CASE t = s
    <3> DEFINE from(l) == IF l < i THEN l ELSE l + 1
    <3>1. \A l \in DOMAIN waiters'[s] :
             l \in Int /\ from(l) \in DOMAIN waiters[s] /\ waiters'[s][l] = waiters[s][from(l)] /\ from(l) # i
      BY <1>4, <1>5
    <3>2. \A l \in DOMAIN waiters'[s] : from(l) = from(k) => l = k
      BY <1>4, <2>2, <3>1
    <3> HIDE DEF from
    <3>3. waiters'[s][k] # c /\ waiters'[s][k] \in Calls
      BY <1>0, <1>6, <2>2, <3>1
    <3>4. \A l \in DOMAIN waiters'[s] : waiters'[s][l] = waiters'[s][k] => l = k
      BY <2>2, <3>1, <3>2 DEF PermitInv, Queues
    <3>5. QED BY <2>2, <3>1, <3>3, <3>4 DEF PermitInv, Queues
  <2>3. QED BY <2>1, <2>2
<1>11. Queues'
  BY <1>0, <1>3, <1>10 DEF PermitInv, Queues
<1>12. QED BY <1>7, <1>8, <1>9, <1>11 DEF PermitInv

\* Every step of a call keeps the permits.
LEMMA PermitStep ==
    ASSUME LoopTypeOK, PermitInv, NEW c \in Calls, Step(c)
    PROVE  PermitInv'
<1>0. pc \in [Calls -> CallStates] /\ turn \in AdapterShards /\ shardOf \in [Calls -> AdapterShards]
      /\ ended \subseteq Calls
  BY DEF LoopTypeOK, PermitInv, ShardTypeOK
<1>1. ASSUME NEW to, pc' = [pc EXCEPT ![c] = to], UNCHANGED submitVars,
             \/ pc[c] \notin {"acquire", "request", "inflight"} /\ to \notin {"request", "inflight"}
             \/ c \in holders /\ to \in {"request", "inflight"}
      PROVE  PermitInv'
  <2>1. pc'[c] = to /\ \A d \in Calls : d # c => pc'[d] = pc[d]
    BY <1>0, <1>1
  <2>2. UNCHANGED <<permits, waiters, turn, shardOf, holders, ended>>
    BY <1>1 DEF submitVars
  <2>3. \A d \in holders : d \in Calls /\ pc[d] \in {"acquire", "request", "inflight"}
    BY DEF PermitInv, PermitsAccounted, ShardTypeOK
  <2>4. \A d \in Calls : pc[d] \in {"request", "inflight"} => d \in holders
    BY DEF PermitInv, Queues
  <2>5. QED BY <1>0, <1>1, <2>1, <2>2, <2>3, <2>4, PermitFrame
<1>2. CASE Process(c)
  BY <1>1, <1>2 DEF Process, Goto
<1>3. CASE Generate(c)
  BY <1>1, <1>3 DEF Generate, Goto
<1>4. CASE Check(c)
  BY <1>1, <1>4 DEF Check, Goto
<1>5. CASE Test(c)
  BY <1>1, <1>5 DEF Test, Goto
<1>6. CASE ForceChoice(c)
  BY <1>1, <1>6 DEF ForceChoice, Goto
<1>7. CASE SubmitJob(c)
  <2>1. pc[c] = "submit" /\ ((Refuse(c) /\ Goto(c, "failed")) \/ (Enter(c) /\ Goto(c, "acquire")))
    BY <1>7 DEF SubmitJob
  <2>2. CASE Refuse(c) /\ Goto(c, "failed")
    <3>1. pc'[c] = "failed" /\ \A d \in Calls : d # c => pc'[d] = pc[d]
      BY <1>0, <2>2 DEF Goto
    <3>2. /\ turn' \in AdapterShards /\ shardOf' = [shardOf EXCEPT ![c] = turn']
          /\ UNCHANGED <<permits, waiters, holders, ended>>
      BY <1>0, <2>2, ShardShape DEF Refuse
    <3>3. shardOf' \in [Calls -> AdapterShards] /\ \A d \in Calls : d # c => shardOf'[d] = shardOf[d]
      BY <1>0, <3>2
    <3>4. c \notin holders /\ \A d \in holders : d \in Calls /\ pc[d] \in {"acquire", "request", "inflight"}
      BY <2>1 DEF PermitInv, PermitsAccounted, ShardTypeOK
    <3>5. \A d \in Calls : pc[d] \in {"request", "inflight"} => d \in holders
      BY DEF PermitInv, Queues
    <3>6. QED BY <1>0, <2>1, <3>1, <3>2, <3>3, <3>4, <3>5, PermitFrame
  <2>3. CASE Enter(c) /\ Goto(c, "acquire")
    <3>1. pc'[c] = "acquire" /\ \A d \in Calls : d # c => pc'[d] = pc[d]
      BY <1>0, <2>3 DEF Goto
    <3>2. QED BY <2>1, <2>3, <3>1, EnterKeeps
  <2>4. QED BY <2>1, <2>2, <2>3
<1>8. CASE Acquired(c)
  <2>1. CASE c \in holders /\ Release(c) /\ Goto(c, "failed")
    <3>1. pc'[c] = "failed" /\ \A d \in Calls : d # c => pc'[d] = pc[d]
      BY <1>0, <2>1 DEF Goto
    <3>2. QED BY <2>1, <3>1, ReleaseKeeps
  <2>2. CASE Withdraw(c) /\ Goto(c, "failed")
    <3>1. pc'[c] = "failed" /\ \A d \in Calls : d # c => pc'[d] = pc[d]
      BY <1>0, <2>2 DEF Goto
    <3>2. QED BY <2>2, <3>1, WithdrawKeeps
  <2>3. CASE c \in holders /\ Goto(c, "request") /\ UNCHANGED submitVars
    BY <1>1, <2>3 DEF Goto
  <2>4. QED BY <1>8, <2>1, <2>2, <2>3 DEF Acquired
<1>9. CASE Request(c)
  <2>1. pc[c] = "request" /\ pc' = [pc EXCEPT ![c] = "inflight"] /\ UNCHANGED submitVars
    BY <1>9 DEF Request, Goto
  <2>2. c \in holders
    BY <2>1 DEF PermitInv, Queues
  <2>3. QED BY <1>1, <2>1, <2>2
<1>10. CASE Answer(c)
  <2>1. /\ pc[c] = "inflight" /\ Release(c)
        /\ \E to \in {"failed", "answered"} : pc' = [pc EXCEPT ![c] = to]
    BY <1>10 DEF Answer, Goto
  <2>2. c \in holders
    BY <2>1 DEF PermitInv, Queues
  <2>3. pc'[c] \in {"failed", "answered"} /\ \A d \in Calls : d # c => pc'[d] = pc[d]
    BY <1>0, <2>1
  <2>4. QED BY <2>1, <2>2, <2>3, ReleaseKeeps
<1>11. CASE Failed(c)
  BY <1>1, <1>11 DEF Failed, Goto
<1>12. CASE Backoff(c)
  BY <1>1, <1>12 DEF Backoff, Goto
<1>13. CASE Answered(c)
  BY <1>1, <1>13 DEF Answered, Goto
<1>14. CASE Again(c)
  BY <1>1, <1>14 DEF Again, Goto
<1>15. QED BY <1>2, <1>3, <1>4, <1>5, <1>6, <1>7, <1>8, <1>9, <1>10, <1>11, <1>12, <1>13, <1>14 DEF Step

\* And so does every other step.
LEMMA PermitNext == LoopTypeOK /\ PermitInv /\ [Next]_vars => PermitInv'
<1> SUFFICES ASSUME LoopTypeOK, PermitInv, [Next]_vars PROVE PermitInv'
  OBVIOUS
<1>1. ASSUME UNCHANGED <<permits, waiters, turn, shardOf, holders, pc>>, ended' \subseteq Calls PROVE PermitInv'
  <2>1. turn \in AdapterShards /\ shardOf \in [Calls -> AdapterShards] /\ holders \subseteq Calls
    BY DEF PermitInv, ShardTypeOK
  <2>2. \A d \in holders : pc[d] \in {"acquire", "request", "inflight"}
    BY DEF PermitInv, PermitsAccounted
  <2>3. \A d \in Calls : pc[d] \in {"request", "inflight"} => d \in holders
    BY DEF PermitInv, Queues
  <2>4. QED BY <1>1, <2>1, <2>2, <2>3, PermitFrame
<1>2. ended \subseteq Calls
  BY DEF PermitInv, ShardTypeOK
<1>3. CASE Tick
  BY <1>1, <1>2, <1>3 DEF Tick, submitVars
<1>4. ASSUME NEW c \in Calls, End(c) PROVE PermitInv'
  BY <1>1, <1>2, <1>4 DEF End, callVars
<1>5. CASE UNCHANGED vars
  BY <1>1, <1>2, <1>5 DEF vars, submitVars, callVars
<1>6. QED BY <1>3, <1>4, <1>5, PermitStep DEF Next

\* Every permit of a shard of the direct submitter is accounted for.
LEMMA PermitInvariance == Spec => []PermitInv
<1>1. LoopInv => LoopTypeOK
  BY DEF LoopInv
<1>2. QED BY <1>1, PermitStarts, PermitNext, LoopInvariance, PTL DEF Spec

\* For any number of calls, shards and permits: every permit is free or has one holder,
\* on every way out of SubmitJob, and none is free while a caller sleeps in Acquire.
THEOREM PermitsKept == Spec => []CallInv
<1>1. LoopInv /\ PermitInv => CallInv
  <2> SUFFICES ASSUME LoopInv, PermitInv PROVE CallInv
    OBVIOUS
  <2>1. \A s \in AdapterShards : permits[s] \in 0 .. ShardCapacity
    <3>1. SUFFICES ASSUME NEW s \in AdapterShards PROVE permits[s] \in 0 .. ShardCapacity
      OBVIOUS
    <3>2. Cardinality(HoldersOf(s)) \in Nat /\ permits[s] \in Nat
      BY HoldersFinite DEF PermitInv, ShardTypeOK
    <3>3. permits[s] + Cardinality(HoldersOf(s)) = ShardCapacity
      BY DEF PermitInv, PermitsAccounted, HoldersOf
    <3>4. QED BY <3>2, <3>3, ShardShape
  <2>2. SubmitterTypeOK
    BY <2>1 DEF PermitInv, ShardTypeOK, SubmitterTypeOK
  <2>3. TypeOK
    BY <2>2 DEF LoopInv, LoopTypeOK, TypeOK
  <2>4. QED BY <2>3 DEF CallInv, PermitInv
<1>2. QED BY <1>1, LoopInvariance, PermitInvariance, PTL

\* The two nested loops are bounded, whatever the provider answers, and an empty value is
\* given only when the outer loop has been used up.
THEOREM LoopsBounded == Spec => []EmptyOnlyAtLast
<1>1. LoopInv => EmptyOnlyAtLast
  <2> SUFFICES ASSUME LoopInv, NEW c \in Calls
               PROVE  /\ pc[c] = "value" /\ IsEmptyResponse(c) => attempt[c] = EmptyRetries
                      /\ asked[c] <= (attempt[c] * (MaxRetries + 1)) + retry[c] + 1
    BY DEF EmptyOnlyAtLast
  <2>1. Loop(c) /\ retry[c] \in 0 .. MaxRetries /\ attempt[c] \in Nat /\ asked[c] \in Nat
    BY CallAssumption DEF LoopInv, Loops, LoopTypeOK
  <2>2. attempt[c] * (MaxRetries + 1) \in Nat
    BY <2>1, CallAssumption, OneMoreAttempt
  <2>3. QED BY <2>1, <2>2, CallAssumption DEF Loop, Budget
<1>2. QED BY <1>1, LoopInvariance, PTL

\* A cooldown is cut short only for a caller that has polled for all of maxWaitForModel.
THEOREM CooldownsKept == Spec => CoolingOnlyAfterWait
<1>1. LoopInv /\ [Next]_vars =>
        [\A m \in Models :
            Cooling(m) /\ limited'[m] = Free
              => \E c \in Calls : model'[c] = m /\ pc[c] = "forced" /\ waited[c] = MaxWait]_vars
  <2> SUFFICES ASSUME LoopInv, Next, NEW m \in Models, Cooling(m), limited'[m] = Free
               PROVE  \E c \in Calls : model'[c] = m /\ pc[c] = "forced" /\ waited[c] = MaxWait
    BY DEF Cooling
  <2>1. limited \in [Models -> Free .. MaxAge] /\ limited[m] # Free
    BY DEF LoopInv, LoopTypeOK, ThroughputTypeOK, Cooling
  <2>2. ~UNCHANGED limited
    BY <2>1
  <2>3. ~Elapse
    BY <2>1, ThroughputAssumption DEF Elapse, Free, MaxAge
  <2>4. \A n \in Models : Reset(n) => n = m
    BY <2>1 DEF Reset
  <2>5. PICK c \in Calls : Step(c)
    BY <2>2, <2>3 DEF Next, Tick, End
  <2>6. ~Check(c)
    BY <2>2, <2>4 DEF Check, GetAvailableModel, Available
  <2>7. ~Failed(c)
    BY <2>1 DEF Failed, ReportRateLimitError, Free
  <2>8. ForceChoice(c)
    BY <2>2, <2>5, <2>6, <2>7 DEF Step, Process, Generate, Test, SubmitJob, Acquired, Request, Answer,
                                  Backoff, Answered, Again
  <2>9. PICK n \in Models \cup {NoModel} : GetModelWithShortestCooldown(n) /\ Choose(c, n)
    BY <2>8 DEF ForceChoice
  <2>10. n = m
    BY <2>2, <2>4, <2>9 DEF GetModelWithShortestCooldown
  <2>11. model'[c] = m
    BY <2>9, <2>10, ChoiceKeeps DEF LoopInv
  <2>12. pc[c] = "forced" /\ waited[c] = MaxWait
    BY <2>8 DEF ForceChoice, LoopInv, Loops, Loop
  <2>13. QED BY <2>11, <2>12
<1>2. QED BY <1>1, LoopInvariance, PTL DEF Spec, CoolingOnlyAfterWait

-----------------------------------------------------------------------------
(* The model a request names, also when calls share a Definition *)

\* What the Definition of a call can hold from SubmitJob to its request.
MayName(c) == IF overwritten[c] = {} THEN {model[c]} ELSE overwritten[c]

\* The Definition holds what SubmitJob wrote, or what another call has written since, until
\* the request is built; and a 429 is an answer to that request.
Named(c) ==
    /\ pc[c] \in {"acquire", "request"} => defModel[DefOf[c]] \in MayName(c)
    /\ pc[c] = "inflight" => sent[c] \in MayName(c)
    /\ pc[c] = "failed" /\ last[c] = "429" => sent[c] \in MayName(c)

Names == \A c \in Calls : Named(c)

\* Every step of a call keeps the names of all.
LEMMA NamesStep ==
    ASSUME LoopInv, Names, NEW c \in Calls, Step(c)
    PROVE  Names'
<1>0. /\ pc \in [Calls -> CallStates]
      /\ model \in [Calls -> Models \cup {DefaultModel, NoModel}]
      /\ defModel \in [Defs -> Models \cup {DefaultModel}]
      /\ sent \in [Calls -> Models \cup {DefaultModel, NoModel}]
      /\ last \in [Calls -> {"none", "text", "empty", "429", "error"}]
      /\ overwritten \in [Calls -> SUBSET (Models \cup {DefaultModel})]
      /\ \A d \in Calls : DefOf[d] \in Defs
  BY DEF LoopInv, LoopTypeOK, Defs
<1>1. ASSUME NEW to, pc' = [pc EXCEPT ![c] = to], Named(c)', defModel' = defModel, overwritten' = overwritten,
             \A d \in Calls : d # c => model'[d] = model[d] /\ sent'[d] = sent[d] /\ last'[d] = last[d]
      PROVE  Names'
  <2>1. \A d \in Calls : d # c => pc'[d] = pc[d]
    BY <1>0, <1>1
  <2>2. QED BY <1>1, <2>1 DEF Names, Named, MayName
<1>2. CASE Process(c) \/ Test(c) \/ Answered(c)
  <2>1. /\ \E to \in {"error", "generate", "poll", "forced", "again", "value"} : pc' = [pc EXCEPT ![c] = to]
        /\ UNCHANGED <<model, sent, last, defModel, overwritten>>
    BY <1>2 DEF Process, Test, Answered, Goto
  <2>2. QED BY <1>0, <1>1, <2>1 DEF Named
<1>3. CASE Generate(c)
  <2>1. /\ \E to \in {"choose", "submit"} : pc' = [pc EXCEPT ![c] = to]
        /\ \E m : model' = [model EXCEPT ![c] = m]
        /\ UNCHANGED <<sent, last, defModel, overwritten>>
    BY <1>3 DEF Generate, Goto
  <2>2. QED BY <1>0, <1>1, <2>1 DEF Named
<1>4. CASE Check(c) \/ ForceChoice(c)
  <2>1. /\ \E to \in {"submit", "test"} : pc' = [pc EXCEPT ![c] = to]
        /\ model' = model \/ \E m : model' = [model EXCEPT ![c] = m]
        /\ UNCHANGED <<sent, last, defModel, overwritten>>
    BY <1>4 DEF Check, ForceChoice, Goto, Choose
  <2>2. QED BY <1>0, <1>1, <2>1 DEF Named
<1>5. CASE SubmitJob(c)
  <2>1. /\ \/ pc' = [pc EXCEPT ![c] = "acquire"]
           \/ pc' = [pc EXCEPT ![c] = "failed"] /\ last' = [last EXCEPT ![c] = "error"]
        /\ \E a : last' = [last EXCEPT ![c] = a]
        /\ defModel' = [defModel EXCEPT ![DefOf[c]] = model[c]]
        /\ sent' = [sent EXCEPT ![c] = NoModel] /\ model' = model /\ overwritten' = Overwritten(c)
    BY <1>5 DEF SubmitJob, Goto
  <2>2. defModel'[DefOf[c]] = model[c] /\ overwritten'[c] = {} /\ MayName(c)' = {model[c]}
    BY <1>0, <2>1 DEF Overwritten, MayName
  <2>3. Named(c)'
    BY <1>0, <2>1, <2>2 DEF Named
  <2>4. ASSUME NEW d \in Calls, d # c PROVE Named(d)'
    <3>1. pc'[d] = pc[d] /\ model'[d] = model[d] /\ sent'[d] = sent[d] /\ last'[d] = last[d] /\ Named(d)
      BY <1>0, <2>1, <2>4 DEF Names
    <3>2. CASE DefOf[d] = DefOf[c] /\ pc[d] \in {"acquire", "request"}
      <4>1. overwritten'[d] = overwritten[d] \cup {model[c]}
        BY <2>1, <2>4, <3>2 DEF Overwritten
      <4>2. model[c] \in MayName(d)'
        BY <4>1 DEF MayName
      <4>3. defModel'[DefOf[d]] \in MayName(d)'
        BY <2>2, <3>2, <4>2
      <4>4. QED BY <3>1, <3>2, <4>3 DEF Named
    <3>3. CASE ~(DefOf[d] = DefOf[c] /\ pc[d] \in {"acquire", "request"})
      <4>1. overwritten'[d] = overwritten[d]
        BY <2>1, <2>4, <3>3 DEF Overwritten
      <4>2. MayName(d)' = MayName(d)
        BY <3>1, <4>1 DEF MayName
      <4>3. pc[d] \in {"acquire", "request"} => defModel'[DefOf[d]] = defModel[DefOf[d]]
        BY <1>0, <2>1, <3>3
      <4>4. QED BY <3>1, <4>2, <4>3 DEF Named
    <3>4. QED BY <3>2, <3>3
  <2>5. QED BY <2>3, <2>4 DEF Names
<1>6. CASE Acquired(c)
  <2>1. /\ pc[c] = "acquire"
        /\ \/ pc' = [pc EXCEPT ![c] = "failed"] /\ last' = [last EXCEPT ![c] = "error"]
           \/ pc' = [pc EXCEPT ![c] = "request"] /\ last' = last
        /\ UNCHANGED <<model, sent, defModel, overwritten>>
    BY <1>6 DEF Acquired, Goto
  <2>2. QED BY <1>0, <1>1, <2>1 DEF Names, Named, MayName
<1>7. CASE Request(c)
  <2>1. /\ pc[c] = "request" /\ pc' = [pc EXCEPT ![c] = "inflight"]
        /\ sent' = [sent EXCEPT ![c] = defModel[DefOf[c]]]
        /\ UNCHANGED <<model, last, defModel, overwritten>>
    BY <1>7 DEF Request, Goto
  <2>2. QED BY <1>0, <1>1, <2>1 DEF Names, Named, MayName
<1>8. CASE Answer(c)
  <2>1. /\ pc[c] = "inflight"
        /\ \E to \in {"failed", "answered"} : pc' = [pc EXCEPT ![c] = to]
        /\ \E a : last' = [last EXCEPT ![c] = a]
        /\ UNCHANGED <<model, sent, defModel, overwritten>>
    BY <1>8 DEF Answer, Goto
  <2>2. QED BY <1>0, <1>1, <2>1 DEF Names, Named, MayName
<1>9. CASE Failed(c) \/ Backoff(c) \/ Again(c)
  <2>1. /\ \E to \in {"backoff", "error", "choose", "submit", "generate"} : pc' = [pc EXCEPT ![c] = to]
        /\ UNCHANGED <<model, sent, last, defModel, overwritten>>
    BY <1>9 DEF Failed, Backoff, Again, Goto
  <2>2. QED BY <1>0, <1>1, <2>1 DEF Named
<1>10. QED BY <1>2, <1>3, <1>4, <1>5, <1>6, <1>7, <1>8, <1>9 DEF Step

\* A call finds in its Definition what it wrote there, or what was written over it.
LEMMA NamesInvariance == Spec => []Names
<1>1. Init => Names
  BY DEF Init, Names, Named
<1>2. LoopInv /\ Names /\ [Next]_vars => Names'
  <2> SUFFICES ASSUME LoopInv, Names, [Next]_vars PROVE Names'
    OBVIOUS
  <2>1. ASSUME UNCHANGED <<pc, model, defModel, sent, last, overwritten>> PROVE Names'
    BY <2>1 DEF Names, Named, MayName
  <2>2. ASSUME NEW c \in Calls, Step(c) PROVE Names'
    BY <2>2, NamesStep
  <2>3. QED BY <2>1, <2>2 DEF Next, Tick, End, vars, callVars
<1>3. QED BY <1>1, <1>2, LoopInvariance, PTL DEF Spec

\* For any calls, whichever of them share a Definition: a request names the model that
\* Generate chose, however long the call has waited for a permit, unless another call wrote
\* the Definition in the meantime; then it names a model such a call wrote.
THEOREM RetriesKept == Spec => []RetriesSound
<1>1. Names => SendsChosenModel
  BY DEF Names, Named, MayName, SendsChosenModel
<1>2. QED BY <1>1, NamesInvariance, LoopsBounded, PTL DEF RetriesSound

\* For any calls, whichever of them share a Definition: the throughput manager puts a model
\* on cooldown only for a 429 of a request that named it, or that was meant to and had its
\* Definition written over, and hands it out early only as a last resort.
THEOREM CooldownsCharged == Spec => CooldownsSound
<1>1. LoopInv /\ Names /\ [Next]_vars =>
        [\A m \in Models :
            limited[m] = Free /\ limited'[m] = 0
              => \E c \in Calls :
                    /\ pc[c] = "failed" /\ last[c] = "429"
                    /\ sent[c] = m \/ (model[c] = m /\ overwritten[c] # {})]_vars
  <2> SUFFICES ASSUME LoopInv, Names, Next, NEW m \in Models, limited[m] = Free, limited'[m] = 0
               PROVE  \E c \in Calls :
                         /\ pc[c] = "failed" /\ last[c] = "429"
                         /\ sent[c] = m \/ (model[c] = m /\ overwritten[c] # {})
    OBVIOUS
  <2>1. limited \in [Models -> Free .. MaxAge]
    BY DEF LoopInv, LoopTypeOK, ThroughputTypeOK
  <2>2. ~UNCHANGED limited /\ ~Elapse /\ \A n \in Models : ~Reset(n)
    BY <2>1 DEF Elapse, Reset, Free
  <2>3. PICK c \in Calls : Step(c)
    BY <2>2 DEF Next, Tick, End
  <2>4. ~Check(c) /\ ~ForceChoice(c)
    BY <2>2 DEF Check, ForceChoice, GetAvailableModel, GetModelWithShortestCooldown
  <2>5. Failed(c)
    BY <2>2, <2>3, <2>4 DEF Step, Process, Generate, Test, SubmitJob, Acquired, Request, Answer,
                            Backoff, Answered, Again
  <2>6. pc[c] = "failed" /\ last[c] = "429" /\ ReportRateLimitError(model[c])
    BY <2>2, <2>5 DEF Failed
  <2>7. model[c] = m
    BY <2>1, <2>2, <2>6 DEF ReportRateLimitError, Free
  <2>8. sent[c] \in MayName(c)
    BY <2>6 DEF Names, Named
  <2>9. QED BY <2>6, <2>7, <2>8 DEF MayName
<1>2. Spec => ChargedToSender
  BY <1>1, LoopInvariance, NamesInvariance, PTL DEF Spec, ChargedToSender
<1>3. QED BY <1>2, CooldownsKept, PTL DEF CooldownsSound
=============================================================================
