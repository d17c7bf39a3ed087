----------------------------- MODULE Streaming -----------------------------
(***************************************************************************)
(* application/streaming_generator.go and streamComplete of                *)
(* grpcService/streamGenerateObjectV2.go: a goroutine turns the results of *)
(* the field processor into chunks on a bounded channel and the handler    *)
(* sends, for every chunk, all the data so far.  The goroutine runs under  *)
(* a background context and is not told when the handler has returned.     *)
(***************************************************************************)
EXTENDS Integers, Sequences

CONSTANTS
    Streams,
    FieldResults,   \* results of a request: [id, key, present]; keys of nested fields may repeat
    ChannelCap      \* capacity of out, 100 in the code

FinalChunk == [id |-> 0, key |-> "", present |-> FALSE]

ASSUME StreamingAssumption ==
    /\ \A f \in FieldResults : f.present \in BOOLEAN
    /\ FinalChunk \notin FieldResults
    /\ ChannelCap \in Nat \ {0}

VARIABLES
    spc,         \* the handler
    ppc,         \* the generator's goroutine
    pending,     \* results the field processor still has to deliver
    out,         \* the channel
    closed,      \* it is closed
    delivered,   \* results that were put on the channel
    acc,         \* accumulatedData: results by key
    shown        \* keys in the last message that was sent

streamVars == <<spc, ppc, pending, out, closed, delivered, acc, shown>>

Keys == {f.key : f \in FieldResults}
KeysOf(data) == {f.key : f \in data}

StreamInit(streaming) ==
    /\ spc = [s \in Streams |-> IF streaming THEN "idle" ELSE "absent"]
    /\ ppc = [s \in Streams |-> "idle"]
    /\ pending = [s \in Streams |-> FieldResults]
    /\ out = [s \in Streams |-> <<>>]
    /\ closed = [s \in Streams |-> FALSE]
    /\ delivered = [s \in Streams |-> {}]
    /\ acc = [s \in Streams |-> {}]
    /\ shown = [s \in Streams |-> {}]

\* The handler turns away a request without a definition, and one with a field
\* marked Stream, for which the factory has no generator; otherwise the goroutine
\* of GenerateStream starts.
StreamGeneratedObjectsV2(s) ==
    /\ spc[s] = "idle"
    /\ \/ spc' = [spc EXCEPT ![s] = "failed"] /\ UNCHANGED ppc
       \/ spc' = [spc EXCEPT ![s] = "receive"] /\ ppc' = [ppc EXCEPT ![s] = "pre"]
    /\ UNCHANGED <<pending, out, closed, delivered, acc, shown>>

\* A pre-processor that fails closes the channel without a final chunk.
PreProcessStream(s) ==
    /\ ppc[s] = "pre"
    /\ \/ ppc' = [ppc EXCEPT ![s] = "fields"]
       \/ ppc' = [ppc EXCEPT ![s] = "close"]
    /\ UNCHANGED <<spc, pending, out, closed, delivered, acc, shown>>

\* A result becomes a chunk once there is room.
SendChunk(s) ==
    /\ ppc[s] = "fields" /\ Len(out[s]) < ChannelCap
    /\ \E f \in pending[s] :
        /\ out' = [out EXCEPT ![s] = Append(@, f)]
        /\ pending' = [pending EXCEPT ![s] = @ \ {f}]
        /\ delivered' = [delivered EXCEPT ![s] = @ \cup {f}]
    /\ UNCHANGED <<spc, ppc, closed, acc, shown>>

\* A field that fails has no result.
FieldFails(s) ==
    /\ ppc[s] = "fields"
    /\ \E f \in pending[s] : pending' = [pending EXCEPT ![s] = @ \ {f}]
    /\ UNCHANGED <<spc, ppc, out, closed, delivered, acc, shown>>

\* Mutant of SendFinal: the final chunk does not wait for the results.
SendFinalEarly(s) ==
    /\ ppc[s] = "fields" /\ Len(out[s]) < ChannelCap
    /\ out' = [out EXCEPT ![s] = <<FinalChunk>> \o @]
    /\ ppc' = [ppc EXCEPT ![s] = "close"]
    /\ UNCHANGED <<spc, pending, closed, delivered, acc, shown>>

\* The final chunk, once the results are exhausted.
SendFinal(s) ==
    /\ ppc[s] = "fields" /\ pending[s] = {} /\ Len(out[s]) < ChannelCap
    /\ out' = [out EXCEPT ![s] = Append(@, FinalChunk)]
    /\ ppc' = [ppc EXCEPT ![s] = "close"]
    /\ UNCHANGED <<spc, pending, closed, delivered, acc, shown>>

\* The deferred close.
CloseOut(s) ==
    /\ ppc[s] = "close"
    /\ closed' = [closed EXCEPT ![s] = TRUE]
    /\ ppc' = [ppc EXCEPT ![s] = "done"]
    /\ UNCHANGED <<spc, pending, out, delivered, acc, shown>>

\* accumulatedData after a chunk: a result without a value is not entered, one whose
\* key is there replaces it.
Accumulate(data, chunk) ==
    IF chunk.present THEN {f \in data : f.key # chunk.key} \cup {chunk} ELSE data

\* One turn of streamComplete: take a chunk, enter it, send everything so far.  The
\* data may have no protobuf form and the client may be gone; then the handler returns.
Forward(s) ==
    /\ spc[s] = "receive" /\ out[s] # <<>>
    /\ out' = [out EXCEPT ![s] = Tail(@)]
    /\ acc' = [acc EXCEPT ![s] = Accumulate(@, Head(out[s]))]
    /\ \/ /\ shown' = [shown EXCEPT ![s] = KeysOf(acc'[s])]
          /\ spc' = [spc EXCEPT ![s] = IF Head(out[s]) = FinalChunk THEN "complete" ELSE "receive"]
       \/ /\ spc' = [spc EXCEPT ![s] = "failed"]
          /\ UNCHANGED shown
    /\ UNCHANGED <<ppc, pending, closed, delivered>>

\* Mutant of Drained: an empty channel is taken for a closed one.
DrainedEarly(s) ==
    /\ spc[s] = "receive" /\ out[s] = <<>>
    /\ spc' = [spc EXCEPT ![s] = "complete"]
    /\ UNCHANGED <<ppc, pending, out, closed, delivered, acc, shown>>

\* The channel is closed and drained.
Drained(s) ==
    /\ spc[s] = "receive" /\ out[s] = <<>> /\ closed[s]
    /\ spc' = [spc EXCEPT ![s] = "complete"]
    /\ UNCHANGED <<ppc, pending, out, closed, delivered, acc, shown>>

\* The message with status Completed.
Complete(s) ==
    /\ spc[s] = "complete"
    /\ \/ /\ shown' = [shown EXCEPT ![s] = KeysOf(acc[s])]
          /\ spc' = [spc EXCEPT ![s] = "ok"]
       \/ /\ spc' = [spc EXCEPT ![s] = "failed"]
          /\ UNCHANGED shown
    /\ UNCHANGED <<ppc, pending, out, closed, delivered, acc>>

HandlerStep(s) == StreamGeneratedObjectsV2(s) \/ Forward(s) \/ Drained(s) \/ Complete(s)
ProducerStep(s) == PreProcessStream(s) \/ SendChunk(s) \/ FieldFails(s) \/ SendFinal(s) \/ CloseOut(s)

StreamNext == \E s \in Streams : HandlerStep(s) \/ ProducerStep(s)

\* Two goroutines.  A stream runs under a background context: no deadline ends a field, but
\* none of its jobs is abandoned either, so its results come (ReturnsUnlessAbandoned of
\* FieldProcessor) as long as every call of the provider returns.
StreamFairness ==
    \A s \in Streams : WF_streamVars(HandlerStep(s)) /\ WF_streamVars(ProducerStep(s))
-----------------------------------------------------------------------------
(* Properties *)

\* Every variable of a stream has its type, and the channel keeps to its capacity.
StreamTypeOK ==
    /\ spc \in [Streams -> {"absent", "idle", "receive", "complete", "ok", "failed"}]
    /\ ppc \in [Streams -> {"idle", "pre", "fields", "close", "done"}]
    /\ pending \in [Streams -> SUBSET FieldResults]
    /\ out \in [Streams -> Seq(FieldResults \cup {FinalChunk})]
    /\ \A s \in Streams : Len(out[s]) <= ChannelCap
    /\ closed \in [Streams -> BOOLEAN]
    /\ delivered \in [Streams -> SUBSET FieldResults]
    /\ acc \in [Streams -> SUBSET FieldResults]
    /\ shown \in [Streams -> SUBSET Keys]

\* When the stream ends with Completed the client has been shown every key the
\* generator put on the channel with a value, and the generator has put the last
\* one there: streamComplete leaves on the final chunk or the closed channel only.
CompletedShowsAll ==
    \A s \in Streams : spc[s] = "ok" =>
        shown[s] = {f.key : f \in {d \in delivered[s] : d.present}}

\* A key that a message showed is in every later message: streamComplete sends all
\* the data accumulated so far.
ShownGrows == [][\A s \in Streams : shown[s] \subseteq shown'[s]]_streamVars

\* The handler returns.
StreamReturns == \A s \in Streams : (spc[s] = "receive") ~> (spc[s] \in {"ok", "failed"})

\* After a stream that was served to its end, the generator's goroutine ends, too.
\* (After one that failed it may wait on the full channel for ever.)
ProducerEndsIfServed == \A s \in Streams : (spc[s] = "ok") ~> (ppc[s] = "done")

\* The channel keeps to its capacity, and a stream that ends with Completed has shown all.
StreamInv == StreamTypeOK /\ CompletedShowsAll

\* What was shown stays shown, the handler returns, and after a stream that was served to
\* its end so does the generator's goroutine.
StreamEnds == ShownGrows /\ StreamReturns /\ ProducerEndsIfServed
=============================================================================
