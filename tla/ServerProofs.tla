---------------------------- MODULE ServerProofs ----------------------------
(***************************************************************************)
(* Proofs about the handlers of Server, for any number of requests,        *)
(* clients and streams, any capacity of a stream's channel and any number  *)
(* of restarts: first the streams, then the generator pool, the answers    *)
(* and the stored results.                                                 *)
(***************************************************************************)
EXTENDS Server, FiniteSetTheorems, SequenceTheorems, TLAPS

-----------------------------------------------------------------------------
(* Streams *)

PresentKeys(data) == {f.key : f \in {d \in data : d.present}}
Queued(s) == {out[s][i] : i \in DOMAIN out[s]}

\* What was put on the channel with a value is shown, accumulated or still queued; a
\* message shows nothing that was not accumulated.
StreamKeeps ==
    \A s \in Streams :
        /\ KeysOf(acc[s]) \cup PresentKeys(Queued(s)) = PresentKeys(delivered[s])
        /\ shown[s] \subseteq KeysOf(acc[s])

\* Nothing follows the final chunk, and nothing is left once the handler has seen it or
\* the closed channel.
StreamOrder ==
    \A s \in Streams :
        /\ spc[s] \in {"absent", "idle"} => ppc[s] = "idle"
        /\ closed[s] => ppc[s] = "done"
        /\ \A i \in DOMAIN out[s] :
             out[s][i] = FinalChunk => i = Len(out[s]) /\ ppc[s] \in {"close", "done"}
        /\ spc[s] \in {"complete", "ok"} => out[s] = <<>> /\ ppc[s] \in {"close", "done"}
        /\ spc[s] = "ok" => shown[s] = KeysOf(acc[s])

StreamIInv == StreamTypeOK /\ StreamKeeps /\ StreamOrder

\* A stream begins with an empty channel and nothing shown.
LEMMA StreamStarts == ASSUME NEW streaming, StreamInit(streaming) PROVE StreamIInv
<1> USE StreamingAssumption
<1>1. StreamTypeOK
  BY DEF StreamInit, StreamTypeOK
<1>2. StreamKeeps /\ StreamOrder
  BY DEF StreamInit, StreamKeeps, StreamOrder, KeysOf, PresentKeys, Queued
<1>3. QED BY <1>1, <1>2 DEF StreamIInv

\* An Append adds its element to what is queued, a Tail takes the head away.
LEMMA QueuedAppend ==
    ASSUME NEW S, NEW q \in Seq(S), NEW e \in S
    PROVE  /\ Append(q, e) \in Seq(S)
           /\ Len(Append(q, e)) = Len(q) + 1
           /\ {Append(q, e)[i] : i \in DOMAIN Append(q, e)} = {q[i] : i \in DOMAIN q} \cup {e}
<1>1. /\ Append(q, e) \in Seq(S)
      /\ Len(Append(q, e)) = Len(q) + 1
      /\ \A i \in 1 .. Len(q) : Append(q, e)[i] = q[i]
      /\ Append(q, e)[Len(q) + 1] = e
  BY AppendProperties
<1>2. DOMAIN q = 1 .. Len(q) /\ DOMAIN Append(q, e) = 1 .. Len(q) + 1 /\ Len(q) \in Nat
  BY <1>1, LenProperties
<1>3. \A i \in 1 .. Len(q) + 1 : i \in 1 .. Len(q) \/ i = Len(q) + 1
  BY <1>2
<1>4. QED BY <1>1, <1>2, <1>3

\* What is left of a channel after a receive.
LEMMA QueuedTail ==
    ASSUME NEW S, NEW q \in Seq(S), q # <<>>
    PROVE  /\ Tail(q) \in Seq(S) /\ Head(q) \in S
           /\ Len(Tail(q)) = Len(q) - 1
           /\ \A i \in DOMAIN Tail(q) : i + 1 \in DOMAIN q /\ Tail(q)[i] = q[i + 1]
           /\ {q[i] : i \in DOMAIN q} = {Tail(q)[i] : i \in DOMAIN Tail(q)} \cup {Head(q)}
<1>1. /\ Tail(q) \in Seq(S) /\ Head(q) \in S /\ Head(q) = q[1]
      /\ Len(Tail(q)) = Len(q) - 1
      /\ \A i \in 1 .. Len(q) - 1 : Tail(q)[i] = q[i + 1]
  BY HeadTailProperties
<1>2. DOMAIN q = 1 .. Len(q) /\ DOMAIN Tail(q) = 1 .. Len(q) - 1 /\ Len(q) \in Nat \ {0}
  BY <1>1, LenProperties, EmptySeq
<1>3. \A i \in 1 .. Len(q) : i = 1 \/ (i - 1 \in 1 .. Len(q) - 1 /\ (i - 1) + 1 = i)
  BY <1>2
<1>4. \A i \in 1 .. Len(q) - 1 : i + 1 \in 1 .. Len(q)
  BY <1>2
<1>5. 1 \in 1 .. Len(q)
  BY <1>2
<1>6. \A i \in 1 .. Len(q) : q[i] = Head(q) \/ \E k \in 1 .. Len(q) - 1 : q[i] = Tail(q)[k]
  BY <1>1, <1>3
<1>7. {q[i] : i \in 1 .. Len(q)} = {Tail(q)[i] : i \in 1 .. Len(q) - 1} \cup {Head(q)}
  BY <1>1, <1>4, <1>5, <1>6
<1>8. QED BY <1>1, <1>2, <1>4, <1>7

\* What is kept does not depend on where the goroutine and the handler are.
LEMMA KeepsFrame ==
    ASSUME StreamKeeps, UNCHANGED <<out, acc, delivered, shown>>
    PROVE  StreamKeeps'
BY SMTT(40) DEF StreamKeeps, KeysOf, PresentKeys, Queued

\* The steps of the generator's goroutine.
LEMMA ProducerKeeps ==
    ASSUME StreamIInv, NEW s \in Streams, ProducerStep(s)
    PROVE  StreamIInv' /\ shown' = shown
<1> DEFINE Chunks == FieldResults \cup {FinalChunk}
<1>0. StreamTypeOK /\ StreamKeeps /\ StreamOrder
  BY DEF StreamIInv
<1>1. out[s] \in Seq(Chunks) /\ Len(out[s]) \in Nat /\ DOMAIN out[s] = 1 .. Len(out[s])
  BY <1>0 DEF StreamTypeOK
<1>2. CASE PreProcessStream(s)
  <2>1. StreamTypeOK' /\ shown' = shown
    BY <1>0, <1>2 DEF PreProcessStream, StreamTypeOK
  <2>2. StreamKeeps'
    BY <1>0, <1>2, KeepsFrame DEF PreProcessStream
  <2>3. StreamOrder'
    BY <1>0, <1>2 DEF PreProcessStream, StreamTypeOK, StreamOrder, KeysOf
  <2>4. QED BY <2>1, <2>2, <2>3 DEF StreamIInv
<1>3. CASE SendChunk(s)
  <2>1. PICK f \in pending[s] :
           /\ out' = [out EXCEPT ![s] = Append(@, f)]
           /\ pending' = [pending EXCEPT ![s] = @ \ {f}]
           /\ delivered' = [delivered EXCEPT ![s] = @ \cup {f}]
    BY <1>3 DEF SendChunk
  <2>2. /\ ppc[s] = "fields" /\ Len(out[s]) < ChannelCap
        /\ UNCHANGED <<spc, ppc, closed, acc, shown>>
    BY <1>3 DEF SendChunk
  <2>3. f \in FieldResults /\ f \in Chunks /\ f # FinalChunk
    BY <1>0, <2>1, StreamingAssumption DEF StreamTypeOK
  <2>4. /\ Append(out[s], f) \in Seq(Chunks)
        /\ Len(Append(out[s], f)) = Len(out[s]) + 1
        /\ {Append(out[s], f)[i] : i \in DOMAIN Append(out[s], f)} = Queued(s) \cup {f}
    <3> DEFINE q == out[s]
    <3>1. q \in Seq(Chunks) /\ f \in Chunks
      BY <1>1, <2>3
    <3> HIDE DEF q, Chunks
    <3>2. /\ Append(q, f) \in Seq(Chunks)
          /\ Len(Append(q, f)) = Len(q) + 1
          /\ {Append(q, f)[i] : i \in DOMAIN Append(q, f)} = {q[i] : i \in DOMAIN q} \cup {f}
      BY <3>1, QueuedAppend
    <3>3. QED BY <3>2 DEF q, Queued
  <2>5. StreamTypeOK'
    BY <1>0, <1>1, <2>1, <2>2, <2>3, <2>4, StreamingAssumption DEF StreamTypeOK
  <2>6. out'[s] = Append(out[s], f) /\ \A t \in Streams : t # s => out'[t] = out[t]
    BY <1>0, <2>1 DEF StreamTypeOK
  <2>7. Queued(s)' = Queued(s) \cup {f} /\ \A t \in Streams : t # s => Queued(t)' = Queued(t)
    BY <2>4, <2>6 DEF Queued
  <2>8. /\ delivered'[s] = delivered[s] \cup {f}
        /\ \A t \in Streams : t # s => delivered'[t] = delivered[t]
    BY <1>0, <2>1 DEF StreamTypeOK
  <2>9. \A S : PresentKeys(S \cup {f}) = PresentKeys(S) \cup PresentKeys({f})
    BY DEF PresentKeys
  <2>10. StreamKeeps'
    BY <1>0, <2>2, <2>7, <2>8, <2>9 DEF StreamKeeps
  <2>11. \A i \in DOMAIN out[s] : out[s][i] # FinalChunk
    BY <1>0, <2>2 DEF StreamOrder
  <2>12. \A i \in DOMAIN out'[s] : out'[s][i] # FinalChunk
    BY <2>3, <2>4, <2>6, <2>11 DEF Queued
  <2>13. StreamOrder'
    BY <1>0, <2>2, <2>6, <2>12 DEF StreamOrder
  <2>14. QED BY <2>2, <2>5, <2>10, <2>13 DEF StreamIInv
<1>4. CASE FieldFails(s)
  <2>1. StreamTypeOK' /\ shown' = shown
    BY <1>0, <1>4 DEF FieldFails, StreamTypeOK
  <2>2. StreamKeeps'
    BY <1>0, <1>4, KeepsFrame DEF FieldFails
  <2>3. StreamOrder'
    BY <1>0, <1>4 DEF FieldFails, StreamTypeOK, StreamOrder, KeysOf
  <2>4. QED BY <2>1, <2>2, <2>3 DEF StreamIInv
<1>5. CASE SendFinal(s)
  <2>1. /\ ppc[s] = "fields" /\ Len(out[s]) < ChannelCap
        /\ out' = [out EXCEPT ![s] = Append(@, FinalChunk)]
        /\ ppc' = [ppc EXCEPT ![s] = "close"]
        /\ UNCHANGED <<spc, pending, closed, delivered, acc, shown>>
    BY <1>5 DEF SendFinal
  <2>2. /\ Append(out[s], FinalChunk) \in Seq(Chunks)
        /\ Len(Append(out[s], FinalChunk)) = Len(out[s]) + 1
        /\ {Append(out[s], FinalChunk)[i] : i \in DOMAIN Append(out[s], FinalChunk)}
               = Queued(s) \cup {FinalChunk}
    <3> DEFINE q == out[s]
    <3>1. q \in Seq(Chunks) /\ FinalChunk \in Chunks
      BY <1>1
    <3> HIDE DEF q, Chunks
    <3>2. /\ Append(q, FinalChunk) \in Seq(Chunks)
          /\ Len(Append(q, FinalChunk)) = Len(q) + 1
          /\ {Append(q, FinalChunk)[i] : i \in DOMAIN Append(q, FinalChunk)} = {q[i] : i \in DOMAIN q} \cup {FinalChunk}
      BY <3>1, QueuedAppend
    <3>3. QED BY <3>2 DEF q, Queued
  <2>3. StreamTypeOK'
    BY <1>0, <1>1, <2>1, <2>2, StreamingAssumption DEF StreamTypeOK
  <2>4. out'[s] = Append(out[s], FinalChunk) /\ \A t \in Streams : t # s => out'[t] = out[t]
    BY <1>0, <2>1 DEF StreamTypeOK
  <2>5. /\ Queued(s)' = Queued(s) \cup {FinalChunk}
        /\ \A t \in Streams : t # s => Queued(t)' = Queued(t)
    BY <2>2, <2>4 DEF Queued
  <2>6. FinalChunk.present = FALSE
    BY DEF FinalChunk
  <2>7. \A S : PresentKeys(S \cup {FinalChunk}) = PresentKeys(S)
    BY <2>6 DEF PresentKeys
  <2>8. StreamKeeps'
    BY <1>0, <2>1, <2>5, <2>7 DEF StreamKeeps
  <2>9. \A i \in DOMAIN out[s] : out[s][i] # FinalChunk
    BY <1>0, <2>1 DEF StreamOrder
  <2>10. /\ \A i \in 1 .. Len(out[s]) : Append(out[s], FinalChunk)[i] = out[s][i]
         /\ DOMAIN Append(out[s], FinalChunk) = 1 .. Len(out[s]) + 1
    BY <1>1
  <2>11. \A i \in DOMAIN out'[s] : out'[s][i] = FinalChunk => i = Len(out'[s])
    BY <1>1, <2>2, <2>4, <2>9, <2>10
  <2>12. spc[s] \notin {"complete", "ok"} /\ ~closed[s]
    BY <1>0, <2>1 DEF StreamOrder
  <2>13. /\ ppc'[s] = "close"
         /\ \A t \in Streams : t # s => ppc'[t] = ppc[t]
    BY <1>0, <2>1 DEF StreamTypeOK
  <2>14. StreamOrder'
    BY <1>0, <2>1, <2>4, <2>11, <2>12, <2>13 DEF StreamOrder
  <2>15. QED BY <2>1, <2>3, <2>8, <2>14 DEF StreamIInv
<1>6. CASE CloseOut(s)
  <2>1. StreamTypeOK' /\ shown' = shown
    BY <1>0, <1>6 DEF CloseOut, StreamTypeOK
  <2>2. StreamKeeps'
    BY <1>0, <1>6, KeepsFrame DEF CloseOut
  <2>3. StreamOrder'
    BY <1>0, <1>6 DEF CloseOut, StreamTypeOK, StreamOrder, KeysOf
  <2>4. QED BY <2>1, <2>2, <2>3 DEF StreamIInv
<1>7. QED BY <1>2, <1>3, <1>4, <1>5, <1>6 DEF ProducerStep

\* The steps of streamComplete.
LEMMA HandlerKeeps ==
    ASSUME StreamIInv, NEW s \in Streams, HandlerStep(s)
    PROVE  StreamIInv' /\ \A t \in Streams : shown[t] \subseteq shown'[t]
<1> DEFINE Chunks == FieldResults \cup {FinalChunk}
<1>0. StreamTypeOK /\ StreamKeeps /\ StreamOrder
  BY DEF StreamIInv
<1>1. CASE StreamGeneratedObjectsV2(s)
  <2>1. StreamTypeOK' /\ shown' = shown
    BY <1>0, <1>1 DEF StreamGeneratedObjectsV2, StreamTypeOK
  <2>2. StreamKeeps'
    BY <1>0, <1>1, KeepsFrame DEF StreamGeneratedObjectsV2
  <2>3. /\ spc[s] = "idle" /\ spc'[s] \in {"receive", "failed"}
        /\ \A t \in Streams : t # s => spc'[t] = spc[t] /\ ppc'[t] = ppc[t]
        /\ UNCHANGED <<out, closed, acc, shown>>
    BY <1>0, <1>1 DEF StreamGeneratedObjectsV2, StreamTypeOK
  <2>4. /\ ~closed[s]
        /\ \A i \in DOMAIN out[s] : out[s][i] # FinalChunk
    BY <1>0, <2>3 DEF StreamOrder
  <2>5. StreamOrder'
    BY <1>0, <2>3, <2>4 DEF StreamOrder, KeysOf
  <2>6. QED BY <2>1, <2>2, <2>5 DEF StreamIInv
<1>2. CASE Forward(s)
  <2> DEFINE head == Head(out[s])
  <2>1. /\ spc[s] = "receive" /\ out[s] # <<>>
        /\ out' = [out EXCEPT ![s] = Tail(@)]
        /\ acc' = [acc EXCEPT ![s] = Accumulate(@, head)]
        /\ UNCHANGED <<ppc, pending, closed, delivered>>
    BY <1>2 DEF Forward
  <2>2. \/ /\ shown' = [shown EXCEPT ![s] = KeysOf(acc'[s])]
           /\ spc' = [spc EXCEPT ![s] = IF head = FinalChunk THEN "complete" ELSE "receive"]
        \/ spc' = [spc EXCEPT ![s] = "failed"] /\ UNCHANGED shown
    BY <1>2 DEF Forward
  <2>3. out[s] \in Seq(Chunks) /\ Len(out[s]) \in Nat \ {0} /\ DOMAIN out[s] = 1 .. Len(out[s])
    BY <1>0, <2>1 DEF StreamTypeOK
  <2>4. /\ Tail(out[s]) \in Seq(Chunks) /\ head \in Chunks
        /\ Len(Tail(out[s])) = Len(out[s]) - 1
        /\ \A i \in DOMAIN Tail(out[s]) :
             i + 1 \in DOMAIN out[s] /\ Tail(out[s])[i] = out[s][i + 1]
        /\ Queued(s) = {Tail(out[s])[i] : i \in DOMAIN Tail(out[s])} \cup {head}
    BY <2>1, <2>3, QueuedTail DEF Queued
  <2>5. head = out[s][1]
    BY <2>1, <2>3
  <2>6. head.present \in BOOLEAN /\ (head.present => head \in FieldResults)
    <3>1. FinalChunk.present = FALSE
      BY DEF FinalChunk
    <3>2. CASE head \in FieldResults
      BY <3>2, StreamingAssumption
    <3>3. CASE head = FinalChunk
      BY <3>1, <3>3
    <3>4. QED BY <2>4, <3>2, <3>3
  <2> HIDE DEF head
  <2>7. acc[s] \subseteq FieldResults /\ acc'[s] = Accumulate(acc[s], head)
    BY <1>0, <2>1 DEF StreamTypeOK
  <2>8. acc'[s] \subseteq FieldResults
    BY <2>6, <2>7 DEF Accumulate
  <2>9. KeysOf(acc'[s]) = KeysOf(acc[s]) \cup PresentKeys({head})
    BY <2>6, <2>7 DEF Accumulate, KeysOf, PresentKeys
  <2>10. KeysOf(acc'[s]) \subseteq Keys
    BY <2>8 DEF KeysOf, Keys
  <2>11. \A t \in Streams : t # s => out'[t] = out[t] /\ acc'[t] = acc[t]
    BY <1>0, <2>1 DEF StreamTypeOK
  <2>12. out'[s] = Tail(out[s])
    BY <1>0, <2>1 DEF StreamTypeOK
  <2>13. \A t \in Streams : shown'[t] = shown[t] \/ (t = s /\ shown'[s] = KeysOf(acc'[s]))
    <3> DEFINE data == KeysOf(acc'[s])
    <3> HIDE DEF data
    <3>1. shown' = [shown EXCEPT ![s] = data] \/ shown' = shown
      BY <2>2 DEF data
    <3>2. shown \in [Streams -> SUBSET Keys]
      BY <1>0 DEF StreamTypeOK
    <3>3. \A t \in Streams : shown'[t] = shown[t] \/ (t = s /\ shown'[s] = data)
      BY <3>1, <3>2
    <3>4. QED BY <3>3 DEF data
  <2>14. StreamTypeOK'
    <3>1. acc' \in [Streams -> SUBSET FieldResults]
      BY <1>0, <2>1, <2>7, <2>8 DEF StreamTypeOK
    <3>2. out' \in [Streams -> Seq(Chunks)]
      BY <1>0, <2>1, <2>4 DEF StreamTypeOK
    <3>3. \A t \in Streams : Len(out'[t]) <= ChannelCap
      <4>1. \A t \in Streams : Len(out[t]) <= ChannelCap
        BY <1>0 DEF StreamTypeOK
      <4>2. Len(out'[s]) = Len(out[s]) - 1
        BY <2>4, <2>12
      <4>3. QED BY <2>3, <2>11, <4>1, <4>2, StreamingAssumption
    <3>4. shown' \in [Streams -> SUBSET Keys]
      BY <1>0, <2>2, <2>10 DEF StreamTypeOK
    <3>5. spc' \in [Streams -> {"absent", "idle", "receive", "complete", "ok", "failed"}]
      BY <1>0, <2>2 DEF StreamTypeOK
    <3>6. QED BY <1>0, <2>1, <3>1, <3>2, <3>3, <3>4, <3>5 DEF StreamTypeOK
  <2>15. /\ Queued(s) = Queued(s)' \cup {head}
         /\ \A t \in Streams : t # s => Queued(t)' = Queued(t)
    <3>1. Queued(s)' = {Tail(out[s])[i] : i \in DOMAIN Tail(out[s])}
      BY <2>12 DEF Queued
    <3>2. \A t \in Streams : t # s => Queued(t)' = Queued(t)
      BY <2>11 DEF Queued
    <3>3. QED BY <2>4, <3>1, <3>2
  <2>16. PresentKeys(Queued(s)) = PresentKeys(Queued(s)') \cup PresentKeys({head})
    BY <2>15 DEF PresentKeys
  <2>17. ASSUME NEW t \in Streams
         PROVE  /\ KeysOf(acc'[t]) \cup PresentKeys(Queued(t)') = PresentKeys(delivered'[t])
                /\ shown'[t] \subseteq KeysOf(acc'[t])
    <3>1. CASE t = s
      BY <1>0, <2>1, <2>9, <2>13, <2>16, <3>1 DEF StreamKeeps
    <3>2. CASE t # s
      BY <1>0, <2>1, <2>11, <2>13, <2>15, <3>2 DEF StreamKeeps
    <3>3. QED BY <3>1, <3>2
  <2>18. StreamKeeps'
    BY <2>17 DEF StreamKeeps, KeysOf
  <2>19. head = FinalChunk => Len(out[s]) = 1 /\ ppc[s] \in {"close", "done"}
    <3>1. 1 \in DOMAIN out[s]
      BY <2>3
    <3>2. QED BY <1>0, <2>5, <3>1 DEF StreamOrder
  <2>20. Len(out[s]) = 1 => Tail(out[s]) = <<>>
    BY <2>4, EmptySeq
  <2>21. \A i \in DOMAIN Tail(out[s]) :
            Tail(out[s])[i] = FinalChunk => i = Len(Tail(out[s])) /\ ppc[s] \in {"close", "done"}
    <3>1. ASSUME NEW i \in DOMAIN Tail(out[s]), Tail(out[s])[i] = FinalChunk
          PROVE  i = Len(Tail(out[s])) /\ ppc[s] \in {"close", "done"}
      <4>1. i + 1 = Len(out[s]) /\ ppc[s] \in {"close", "done"}
        BY <1>0, <2>4, <3>1 DEF StreamOrder
      <4>2. i \in Int
        BY <2>3, <2>4
      <4>3. QED BY <2>3, <2>4, <4>1, <4>2
    <3>2. QED BY <3>1
  <2>22. /\ spc'[s] \in {"receive", "complete", "failed"}
         /\ spc'[s] = "complete" => head = FinalChunk
         /\ \A t \in Streams : t # s => spc'[t] = spc[t] /\ shown'[t] = shown[t]
    BY <1>0, <2>2 DEF StreamTypeOK
  <2>23. StreamOrder'
    BY <1>0, <2>1, <2>11, <2>12, <2>19, <2>20, <2>21, <2>22, ZenonT(40) DEF StreamOrder
  <2>24. \A t \in Streams : shown[t] \subseteq shown'[t]
    BY <1>0, <2>9, <2>13 DEF StreamKeeps
  <2>25. QED BY <2>14, <2>18, <2>23, <2>24 DEF StreamIInv
<1>3. CASE Drained(s)
  <2>1. StreamTypeOK' /\ shown' = shown
    BY <1>0, <1>3 DEF Drained, StreamTypeOK
  <2>2. StreamKeeps'
    BY <1>0, <1>3, KeepsFrame DEF Drained
  <2>3. StreamOrder'
    BY <1>0, <1>3 DEF Drained, StreamTypeOK, StreamOrder, KeysOf
  <2>4. QED BY <2>1, <2>2, <2>3 DEF StreamIInv
<1>4. CASE Complete(s)
  <2>1. KeysOf(acc[s]) \subseteq Keys
    BY <1>0 DEF StreamTypeOK, KeysOf, Keys
  <2>2. /\ spc[s] = "complete"
        /\ \A t \in Streams : t # s => spc'[t] = spc[t] /\ shown'[t] = shown[t]
        /\ \/ shown'[s] = KeysOf(acc[s]) /\ spc'[s] = "ok"
           \/ shown'[s] = shown[s] /\ spc'[s] = "failed"
        /\ UNCHANGED <<ppc, pending, out, closed, delivered, acc>>
    BY <1>0, <1>4 DEF Complete, StreamTypeOK
  <2>3. StreamTypeOK'
    BY <1>0, <1>4, <2>1, ZenonT(40) DEF Complete, StreamTypeOK
  <2>4. \A t \in Streams : Queued(t)' = Queued(t) /\ KeysOf(acc[t])' = KeysOf(acc[t])
    BY <2>2 DEF Queued, KeysOf
  <2>5. StreamKeeps'
    BY <1>0, <2>2, <2>4 DEF StreamKeeps
  <2>6. StreamOrder'
    BY <1>0, <2>2, <2>4 DEF StreamOrder
  <2>7. \A t \in Streams : shown[t] \subseteq shown'[t]
    BY <1>0, <2>2 DEF StreamKeeps
  <2>8. QED BY <2>3, <2>5, <2>6, <2>7 DEF StreamIInv
<1>5. QED BY <1>1, <1>2, <1>3, <1>4 DEF HandlerStep

\* Every step of the server keeps the invariant of the streams and what was shown.
LEMMA StreamsKept ==
    ASSUME StreamIInv, [Next]_serverVars
    PROVE  StreamIInv' /\ \A s \in Streams : shown[s] \subseteq shown'[s]
<1>1. CASE StreamNext
  BY <1>1, ProducerKeeps, HandlerKeeps DEF StreamNext
<1>2. CASE UNCHANGED streamVars
  <2>1. StreamTypeOK' /\ StreamOrder' /\ shown' = shown
    BY <1>2 DEF StreamIInv, StreamTypeOK, StreamOrder, KeysOf, streamVars
  <2>2. StreamKeeps'
    BY <1>2, KeepsFrame DEF StreamIInv, streamVars
  <2>3. QED BY <2>1, <2>2 DEF StreamIInv
<1>3. QED BY <1>1, <1>2 DEF Next, serverVars

\* The streams of the server, beside whatever HTTP requests there are.
LEMMA StreamInvariance == Spec => []StreamIInv
<1>1. Init => StreamIInv
  BY StreamStarts DEF Init
<1>2. StreamIInv /\ [Next]_serverVars => StreamIInv'
  BY StreamsKept
<1>3. QED BY <1>1, <1>2, PTL DEF Spec

\* A stream that ends with Completed has shown every key that was generated, and its
\* channel keeps to its capacity.
THEOREM StreamsComplete == Spec => []StreamInv
<1>1. StreamIInv => CompletedShowsAll
  BY DEF StreamIInv, StreamKeeps, StreamOrder, CompletedShowsAll, PresentKeys, Queued
<1>2. StreamIInv => StreamInv
  BY <1>1 DEF StreamIInv, StreamInv
<1>3. QED BY <1>2, StreamInvariance, PTL

\* streamComplete never takes back a key it has shown.
THEOREM StreamsGrow == Spec => ShownGrows
<1>1. StreamIInv /\ [Next]_serverVars => [\A s \in Streams : shown[s] \subseteq shown'[s]]_streamVars
  BY StreamsKept
<1>2. QED BY <1>1, StreamInvariance, PTL DEF Spec, ShownGrows

-----------------------------------------------------------------------------
(* Requests: the generator pool, the answers and the stored results *)

Working == {"pre", "fields", "post", "ok", "error", "panic"}
Fresh == {"absent", "idle", "get", "make"}

\* A generator is in use only while a generation works, and nobody has seen the
\* generator of a request that has not taken one; the gRPC service uses no pool.
Lending ==
    \A r \in Requests :
        /\ gen[r] # NoGenerator => gpc[r] \in Working
        /\ gpc[r] \in Fresh => pool[r] = 0 /\ Users(r) = {}
        /\ Kind[r] = "grpc" => gen[r] = NoGenerator /\ gpc[r] # "get"

\* Results carry the cache key of the request they are kept for.
KeysAgree ==
    /\ \A r \in Requests : result[r] # NoResult => CacheKey[result[r].of] = CacheKey[r]
    /\ \A r \in Requests : redis[r] # NoResult => CacheKey[redis[r].of] = CacheKey[r]
    /\ \A k \in DOMAIN pluginCache : pluginCache[k] # NoResult => CacheKey[pluginCache[k].of] = k

\* A result is stored once, when its generation is over, and a poll that has read it
\* finds the same one or none.
StoredOnce ==
    /\ \A r \in Requests : redis[r] # NoResult => gpc[r] = "done"
    /\ \A p \in Pollers : poll[p] = "read" =>
          gpc[Target[p]] = "done" /\ redis[Target[p]] \in {NoResult, fetched[p]}

ServingIInv == TypeOK /\ Lending /\ SharedByTwoAtMost /\ KeysAgree /\ OwnAnswer /\ StoredOnce

\* A server begins with nothing lent, cached, stored or answered.
LEMMA ServingStarts == ASSUME NEW coming, ServingInit(coming) PROVE ServingIInv
<1>1. TypeOK
  BY ServingAssumption DEF ServingInit, GeneratorInit, TypeOK, GeneratorTypeOK
<1>2. gen = [r \in Requests |-> NoGenerator] /\ pool = [r \in Requests |-> 0]
  BY DEF ServingInit, GeneratorInit
<1>3. \A r \in Requests : Users(r) = {}
  BY <1>2, GeneratorAssumption DEF Users
<1>4. Lending
  BY <1>2, <1>3 DEF ServingInit, GeneratorInit, Lending
<1>5. SharedByTwoAtMost
  BY <1>2, <1>3, FS_EmptySet DEF SharedByTwoAtMost
<1>6. KeysAgree /\ OwnAnswer /\ StoredOnce
  BY DEF ServingInit, GeneratorInit, KeysAgree, OwnAnswer, StoredOnce
<1>7. QED BY <1>1, <1>4, <1>5, <1>6 DEF ServingIInv

\* Every step of a handler, of Generate, of a poll, of Redis and a crash is well typed.
LEMMA TypesKept == ASSUME TypeOK, ServingNext PROVE TypeOK'
<1> USE DEF TypeOK, GeneratorTypeOK
<1>1. ASSUME NEW r \in Requests, ServingStep(r) PROVE TypeOK'
  <2>1. CASE ObjectGenHandler(r)
    <3>1. ended' \in [Requests -> BOOLEAN] /\ hasSchema' \in [Requests -> BOOLEAN]
      BY <2>1 DEF ObjectGenHandler
    <3>2. gpc' = [gpc EXCEPT ![r] = "done"] \/ gpc' = [gpc EXCEPT ![r] = "get"]
      BY <2>1 DEF ObjectGenHandler
    <3>3. reply' = reply \/ \E status \in {"400", "401", "408"} : reply' = [reply EXCEPT ![r] = status]
      BY <2>1 DEF ObjectGenHandler, Answer
    <3>4. UNCHANGED <<gen, pool, pluginCache, result, served, redis, expired, poll, fetched, crashes>>
      BY <2>1 DEF ObjectGenHandler
    <3>5. QED BY <3>1, <3>2, <3>3, <3>4
  <2>2. CASE ObjectGenQueded(r)
    BY <2>2 DEF ObjectGenQueded, Answer
  <2>3. CASE Accept(r)
    BY <2>3 DEF Accept, Answer, generatorVars
  <2>4. CASE GenerateObjectV2(r)
    BY <2>4 DEF GenerateObjectV2, Answer
  <2>5. ASSUME ReturnGenerator(r)
        PROVE  gen' \in [Requests -> Requests \cup {NoGenerator}] /\ pool' \in [Requests -> Nat]
    BY <2>5 DEF ReturnGenerator
  <2>6. CASE RespondSync(r)
    BY <2>5, <2>6 DEF RespondSync, Answer
  <2>7. CASE RespondGrpc(r)
    BY <2>7 DEF RespondGrpc, Answer
  <2>8. CASE StoreQueued(r)
    BY <2>5, <2>8 DEF StoreQueued
  <2>9. CASE GenerateStep(r) /\ UNCHANGED servingVars
    <3> USE <2>9 DEF servingVars
    <3>1. CASE TakePooled(r)
      BY <3>1 DEF TakePooled
    <3>2. CASE TakeNew(r)
      BY <3>2 DEF TakeNew
    <3>3. CASE MakeOwn(r)
      BY <3>3 DEF MakeOwn
    <3>4. CASE PreProcess(r)
      BY <3>4 DEF PreProcess
    <3>5. CASE ProcessFields(r)
      <4>1. \E o \in Results \cup {NoResult} : result' = [result EXCEPT ![r] = o]
        <5>1. ASSUME NEW whole \in {FALSE, ~ended[r]} PROVE [of |-> r, whole |-> whole] \in Results
          BY DEF Results
        <5>2. ASSUME result' = result PROVE result' = [result EXCEPT ![r] = result[r]]
          BY <5>2
        <5>3. QED BY <3>5, <5>1, <5>2 DEF ProcessFields
      <4>2. result' \in [Requests -> Results \cup {NoResult}]
        BY <4>1
      <4>3. QED BY <3>5, <4>2 DEF ProcessFields
    <3>6. CASE PostProcess(r)
      BY <3>6 DEF PostProcess, CacheResult
    <3>7. QED BY <3>1, <3>2, <3>3, <3>4, <3>5, <3>6 DEF GenerateStep
  <2>10. QED BY <1>1, <2>1, <2>2, <2>3, <2>4, <2>6, <2>7, <2>8, <2>9 DEF ServingStep
<1>2. ASSUME NEW r \in Requests, Expire(r) PROVE TypeOK'
  BY <1>2 DEF Expire, generatorVars
<1>3. ASSUME NEW r \in Requests, EndContext(r), UNCHANGED servingVars PROVE TypeOK'
  BY <1>3 DEF EndContext, servingVars
<1>4. ASSUME NEW p \in Pollers, PollStep(p) PROVE TypeOK'
  <2>1. Target[p] \in Requests
    BY ServingAssumption
  <2>2. QED BY <1>4, <2>1 DEF PollStep, Get, DeleteAndWrite, generatorVars
<1>5. CASE Crash
  BY <1>5, ServingAssumption DEF Crash
<1>6. QED BY <1>1, <1>2, <1>3, <1>4, <1>5 DEF ServingNext

\* The users of a generator can be counted.
LEMMA UsersFinite ==
    ASSUME NEW g
    PROVE  IsFiniteSet(Users(g)) /\ Cardinality(Users(g)) \in Nat
BY GeneratorAssumption, FS_Subset, FS_CardinalityType DEF Users

\* A step that leaves the pool and the generators in use alone, and moves requests only
\* within the phases in which they may have a generator or past the end without one.
LEMMA LendingFrame ==
    ASSUME Lending, SharedByTwoAtMost, UNCHANGED <<gen, pool>>,
           \A r \in Requests :
              /\ gen[r] # NoGenerator => gpc'[r] \in Working
              /\ gpc'[r] \in Fresh => gpc[r] \in Fresh
              /\ Kind[r] = "grpc" => gpc'[r] # "get"
    PROVE  Lending' /\ SharedByTwoAtMost'
<1>1. \A g : Users(g)' = Users(g)
  BY DEF Users
<1>2. SharedByTwoAtMost'
  BY <1>1 DEF SharedByTwoAtMost
<1>3. Lending'
  BY <1>1 DEF Lending, Fresh
<1>4. QED BY <1>2, <1>3

\* The steps of getGenerator and returnGenerator.
LEMMA TakePooledLends ==
    ASSUME TypeOK, Lending, SharedByTwoAtMost, NEW r \in Requests, TakePooled(r)
    PROVE  Lending' /\ SharedByTwoAtMost'
<1>1. PICK g \in Requests :
         pool[g] > 0 /\ gen' = [gen EXCEPT ![r] = g] /\ pool' = [pool EXCEPT ![g] = @ - 1]
  BY DEF TakePooled
<1>2. gpc[r] = "get" /\ gpc' = [gpc EXCEPT ![r] = "pre"]
  BY DEF TakePooled
<1>3. gen[r] = NoGenerator /\ Kind[r] # "grpc" /\ gpc[g] \notin Fresh
  BY <1>1, <1>2 DEF Lending, Working, Fresh
<1>4. /\ gen \in [Requests -> Requests \cup {NoGenerator}] /\ pool \in [Requests -> Nat]
      /\ gpc \in [Requests -> {gpc[q] : q \in Requests}]
  BY DEF TypeOK, GeneratorTypeOK
<1>5. r \notin Users(g) /\ Users(g)' = Users(g) \cup {r}
  BY <1>1, <1>3, <1>4, GeneratorAssumption DEF Users
<1>6. \A h \in Requests : h # g => Users(h)' = Users(h) /\ pool'[h] = pool[h]
  BY <1>1, <1>3, <1>4, GeneratorAssumption DEF Users
<1>7. Cardinality(Users(g)') = Cardinality(Users(g)) + 1
  BY <1>5, UsersFinite, FS_AddElement
<1>8. pool'[g] = pool[g] - 1
  BY <1>1, <1>4
<1>9. SharedByTwoAtMost'
  BY <1>4, <1>6, <1>7, <1>8, UsersFinite DEF SharedByTwoAtMost
<1>10. \A q \in Requests : q # r => gpc'[q] = gpc[q] /\ gen'[q] = gen[q]
  BY <1>1, <1>2, <1>4
<1>11. gpc'[r] = "pre" /\ gen'[r] = g
  BY <1>1, <1>2, <1>4
<1>12. Lending'
  BY <1>3, <1>6, <1>10, <1>11 DEF Lending, Working, Fresh
<1>13. QED BY <1>9, <1>12

\* The pool is empty and makes a generator: nobody else has it.
LEMMA TakeNewLends ==
    ASSUME TypeOK, Lending, SharedByTwoAtMost, NEW r \in Requests, TakeNew(r)
    PROVE  Lending' /\ SharedByTwoAtMost'
<1>1. /\ gpc[r] = "get" /\ gpc' = [gpc EXCEPT ![r] = "pre"]
      /\ gen' = [gen EXCEPT ![r] = r] /\ pool' = [pool EXCEPT ![r] = @ + 1]
  BY DEF TakeNew
<1>2. gen[r] = NoGenerator /\ Kind[r] # "grpc" /\ pool[r] = 0 /\ Users(r) = {}
  BY <1>1 DEF Lending, Working, Fresh
<1>3. /\ gen \in [Requests -> Requests \cup {NoGenerator}] /\ pool \in [Requests -> Nat]
      /\ gpc \in [Requests -> {gpc[q] : q \in Requests}]
  BY DEF TypeOK, GeneratorTypeOK
<1>4. Users(r)' = {r}
  BY <1>1, <1>2, <1>3 DEF Users
<1>5. \A h \in Requests : h # r => Users(h)' = Users(h) /\ pool'[h] = pool[h]
  BY <1>1, <1>2, <1>3, GeneratorAssumption DEF Users
<1>6. Cardinality(Users(r)') = 1 /\ pool'[r] = 1
  <2>1. pool'[r] = 1
    BY <1>1, <1>2, <1>3
  <2>2. QED BY <1>4, <2>1, FS_Singleton
<1>7. SharedByTwoAtMost'
  BY <1>5, <1>6 DEF SharedByTwoAtMost
<1>8. \A q \in Requests : q # r => gpc'[q] = gpc[q] /\ gen'[q] = gen[q]
  BY <1>1, <1>3
<1>9. gpc'[r] = "pre" /\ gen'[r] = r
  BY <1>1, <1>3
<1>10. Lending'
  BY <1>2, <1>5, <1>8, <1>9 DEF Lending, Working, Fresh
<1>11. QED BY <1>7, <1>10

\* A handler puts its generator back, perhaps for a second time.
LEMMA ReturnLends ==
    ASSUME TypeOK, Lending, SharedByTwoAtMost, NEW r \in Requests, ReturnGenerator(r),
           gpc[r] \in Working, gpc' = [gpc EXCEPT ![r] = "done"]
    PROVE  Lending' /\ SharedByTwoAtMost'
<1>1. /\ gen \in [Requests -> Requests \cup {NoGenerator}] /\ pool \in [Requests -> Nat]
      /\ gpc \in [Requests -> {gpc[q] : q \in Requests}]
  BY DEF TypeOK, GeneratorTypeOK
<1>2. gen' = [gen EXCEPT ![r] = NoGenerator]
  BY DEF ReturnGenerator
<1>3. gpc'[r] = "done" /\ \A q \in Requests : q # r => gpc'[q] = gpc[q] /\ gen'[q] = gen[q]
  BY <1>1, <1>2
<1>4. CASE gen[r] = NoGenerator
  <2>1. pool' = pool /\ gen' = gen
    BY <1>1, <1>2, <1>4 DEF ReturnGenerator
  <2>2. QED BY <1>3, <1>4, <2>1, LendingFrame DEF Lending, Working, Fresh
<1>5. CASE gen[r] # NoGenerator
  <2>0. PICK g \in Requests : g = gen[r]
    BY <1>1, <1>5
  <2>1. pool' = [pool EXCEPT ![g] = @ + 1]
    BY <1>5, <2>0 DEF ReturnGenerator
  <2>2. r \in Users(g) /\ Users(g)' = Users(g) \ {r}
    BY <1>1, <1>2, <2>0, GeneratorAssumption DEF Users
  <2>3. gpc[g] \notin Fresh
    BY <2>2 DEF Lending
  <2>4. \A h \in Requests : h # g => Users(h)' = Users(h) /\ pool'[h] = pool[h]
    BY <1>1, <1>2, <2>0, <2>1, GeneratorAssumption DEF Users
  <2>5. Cardinality(Users(g)') = Cardinality(Users(g)) - 1
    BY <2>2, UsersFinite, FS_RemoveElement
  <2>6. pool'[g] = pool[g] + 1
    BY <1>1, <2>1
  <2>7. SharedByTwoAtMost'
    BY <1>1, <2>4, <2>5, <2>6, UsersFinite DEF SharedByTwoAtMost
  <2>8. gen'[r] = NoGenerator
    BY <1>1, <1>2
  <2>9. Lending'
    BY <1>3, <2>3, <2>4, <2>8 DEF Lending, Fresh
  <2>10. QED BY <2>7, <2>9
<1>6. QED BY <1>4, <1>5

\* Every step keeps the generators' accounts.
LEMMA LendingKept ==
    ASSUME TypeOK, Lending, SharedByTwoAtMost, ServingNext
    PROVE  Lending' /\ SharedByTwoAtMost'
<1>0. gpc \in [Requests -> {gpc[q] : q \in Requests}]
  BY DEF TypeOK, GeneratorTypeOK
<1>1. ASSUME NEW r \in Requests, NEW to, gpc' = [gpc EXCEPT ![r] = to], UNCHANGED <<gen, pool>>,
             gen[r] # NoGenerator => to \in Working, to \in Fresh => gpc[r] \in Fresh,
             Kind[r] = "grpc" => to # "get"
      PROVE  Lending' /\ SharedByTwoAtMost'
  <2>1. gpc'[r] = to /\ \A q \in Requests : q # r => gpc'[q] = gpc[q]
    BY <1>0, <1>1
  <2>2. QED BY <1>1, <2>1, LendingFrame DEF Lending
<1>2. ASSUME UNCHANGED <<gen, pool, gpc>> PROVE Lending' /\ SharedByTwoAtMost'
  BY <1>2, LendingFrame DEF Lending
<1>3. ASSUME NEW r \in Requests, ServingStep(r) PROVE Lending' /\ SharedByTwoAtMost'
  <2>1. CASE ObjectGenHandler(r)
    BY <1>1, <2>1 DEF ObjectGenHandler, Lending, Working, Fresh
  <2>2. CASE ObjectGenQueded(r)
    BY <1>1, <2>2 DEF ObjectGenQueded, Lending, Working, Fresh
  <2>3. CASE Accept(r)
    BY <1>2, <2>3 DEF Accept, generatorVars
  <2>4. CASE GenerateObjectV2(r)
    BY <1>1, <2>4 DEF GenerateObjectV2, Lending, Working, Fresh
  <2>5. CASE RespondSync(r)
    BY <2>5, ReturnLends DEF RespondSync, Working
  <2>6. CASE RespondGrpc(r)
    BY <1>1, <2>6 DEF RespondGrpc, Lending, Working, Fresh
  <2>7. CASE StoreQueued(r)
    BY <2>7, ReturnLends DEF StoreQueued, Working
  <2>8. CASE GenerateStep(r)
    <3>1. CASE TakePooled(r)
      BY <3>1, TakePooledLends
    <3>2. CASE TakeNew(r)
      BY <3>2, TakeNewLends
    <3>3. CASE MakeOwn(r)
      BY <1>1, <3>3 DEF MakeOwn, Working, Fresh
    <3>4. CASE PreProcess(r)
      <4>1. \E to \in {"error", "panic", "ok", "fields"} : gpc' = [gpc EXCEPT ![r] = to]
        BY <3>4 DEF PreProcess
      <4>2. UNCHANGED <<gen, pool>>
        BY <3>4 DEF PreProcess
      <4>3. QED BY <1>1, <4>1, <4>2 DEF Working, Fresh
    <3>5. CASE ProcessFields(r)
      <4>1. \E to \in {"error", "post"} : gpc' = [gpc EXCEPT ![r] = to]
        BY <3>5 DEF ProcessFields
      <4>2. UNCHANGED <<gen, pool>>
        BY <3>5 DEF ProcessFields
      <4>3. QED BY <1>1, <4>1, <4>2 DEF Working, Fresh
    <3>6. CASE PostProcess(r)
      <4>1. \E to \in {"error", "ok"} : gpc' = [gpc EXCEPT ![r] = to]
        BY <3>6 DEF PostProcess
      <4>2. UNCHANGED <<gen, pool>>
        BY <3>6 DEF PostProcess
      <4>3. QED BY <1>1, <4>1, <4>2 DEF Working, Fresh
    <3>7. QED BY <2>8, <3>1, <3>2, <3>3, <3>4, <3>5, <3>6 DEF GenerateStep
  <2>9. QED BY <1>3, <2>1, <2>2, <2>3, <2>4, <2>5, <2>6, <2>7, <2>8 DEF ServingStep
<1>4. ASSUME NEW r \in Requests, Expire(r) \/ EndContext(r) PROVE Lending' /\ SharedByTwoAtMost'
  BY <1>2, <1>4 DEF Expire, EndContext, generatorVars
<1>5. ASSUME NEW p \in Pollers, PollStep(p) PROVE Lending' /\ SharedByTwoAtMost'
  BY <1>2, <1>5 DEF PollStep, Get, DeleteAndWrite, generatorVars
<1>6. CASE Crash
  <2>1. /\ gen' = [r \in Requests |-> NoGenerator] /\ pool' = [r \in Requests |-> 0]
        /\ gpc' = [r \in Requests |-> IF Arrived(r) THEN "done" ELSE gpc[r]]
    BY <1>6 DEF Crash
  <2>2. \A g \in Requests : Users(g)' = {}
    BY <2>1, GeneratorAssumption DEF Users
  <2>3. SharedByTwoAtMost'
    BY <2>1, <2>2, FS_EmptySet DEF SharedByTwoAtMost
  <2>4. Lending'
    BY <2>1, <2>2 DEF Lending, Arrived
  <2>5. QED BY <2>3, <2>4
<1>7. QED BY <1>3, <1>4, <1>5, <1>6 DEF ServingNext

\* Every step hands on a result only to requests of its key.
LEMMA KeysKept ==
    ASSUME TypeOK, KeysAgree, OwnAnswer, ServingNext
    PROVE  KeysAgree' /\ OwnAnswer'
<1>0. /\ result \in [Requests -> Results \cup {NoResult}]
      /\ served \in [Requests -> Results \cup {NoResult}]
      /\ redis \in [Requests -> Results \cup {NoResult}]
      /\ fetched \in [Pollers -> Results \cup {NoResult}]
      /\ poll \in [Pollers -> {"idle", "read", "done", "lost"}]
      /\ pluginCache \in [{CacheKey[r] : r \in Requests} -> Results \cup {NoResult}]
  BY DEF TypeOK, GeneratorTypeOK
<1> DEFINE Agree(o, r) == o # NoResult => CacheKey[o.of] = CacheKey[r]
<1>1. ASSUME UNCHANGED <<result, redis, pluginCache, served, poll, fetched>>
      PROVE  KeysAgree' /\ OwnAnswer'
  BY <1>1 DEF KeysAgree, OwnAnswer
<1>2. ASSUME NEW r \in Requests, ServingStep(r) PROVE KeysAgree' /\ OwnAnswer'
  <2>1. CASE ObjectGenHandler(r) \/ ObjectGenQueded(r) \/ GenerateObjectV2(r)
    BY <1>1, <2>1 DEF ObjectGenHandler, ObjectGenQueded, GenerateObjectV2
  <2>2. CASE Accept(r)
    BY <1>1, <2>2 DEF Accept, generatorVars
  <2>3. ASSUME served' = [served EXCEPT ![r] = result[r]] \/ served' = served,
               UNCHANGED <<result, redis, pluginCache, poll, fetched>>
        PROVE  KeysAgree' /\ OwnAnswer'
    BY <1>0, <2>3 DEF KeysAgree, OwnAnswer
  <2>4. CASE RespondSync(r)
    BY <2>3, <2>4 DEF RespondSync
  <2>5. CASE RespondGrpc(r)
    BY <2>3, <2>5 DEF RespondGrpc
  <2>6. CASE StoreQueued(r)
    <3>1. redis' = [redis EXCEPT ![r] = result[r]] \/ redis' = redis
      BY <2>6 DEF StoreQueued
    <3>2. UNCHANGED <<result, served, pluginCache, poll, fetched>>
      BY <2>6 DEF StoreQueued
    <3>3. QED BY <1>0, <3>1, <3>2 DEF KeysAgree, OwnAnswer
  <2>7. CASE GenerateStep(r) /\ UNCHANGED servingVars
    <3>1. UNCHANGED <<redis, served, poll, fetched>>
      BY <2>7 DEF servingVars
    <3>2. CASE TakePooled(r) \/ TakeNew(r) \/ MakeOwn(r)
      BY <1>1, <3>1, <3>2 DEF TakePooled, TakeNew, MakeOwn
    <3>3. CASE PreProcess(r)
      <4>1. CacheKey[r] \in DOMAIN pluginCache
        BY <1>0
      <4>2. Agree(pluginCache[CacheKey[r]], r)
        BY <4>1 DEF KeysAgree
      <4>3. pluginCache' = pluginCache /\ (result' = result \/ result' = [result EXCEPT ![r] = pluginCache[CacheKey[r]]])
        BY <3>3 DEF PreProcess
      <4>4. QED BY <1>0, <3>1, <4>2, <4>3 DEF KeysAgree, OwnAnswer
    <3>4. CASE ProcessFields(r)
      <4>1. \E o : Agree(o, r) /\ (result' = [result EXCEPT ![r] = o] \/ result' = result)
        BY <3>4 DEF ProcessFields
      <4>2. pluginCache' = pluginCache
        BY <3>4 DEF ProcessFields
      <4>3. QED BY <1>0, <3>1, <4>1, <4>2 DEF KeysAgree, OwnAnswer
    <3>5. CASE PostProcess(r)
      <4>1. \/ result' = result
            \/ result' = [result EXCEPT ![r] = NoResult]
        BY <3>5 DEF PostProcess
      <4>2. \/ pluginCache' = pluginCache
            \/ pluginCache' = [pluginCache EXCEPT ![CacheKey[r]] = result[r]]
        BY <3>5 DEF PostProcess, CacheResult
      <4>3. Agree(result[r], r)
        BY DEF KeysAgree
      <4>4. \A q \in Requests : Agree(result'[q], q)
        BY <1>0, <4>1 DEF KeysAgree
      <4>5. \A k \in DOMAIN pluginCache' : pluginCache'[k] # NoResult => CacheKey[pluginCache'[k].of] = k
        BY <1>0, <4>2, <4>3 DEF KeysAgree
      <4>6. QED BY <3>1, <4>4, <4>5 DEF KeysAgree, OwnAnswer
    <3>6. QED BY <2>7, <3>2, <3>3, <3>4, <3>5 DEF GenerateStep
  <2>8. QED BY <1>2, <2>1, <2>2, <2>4, <2>5, <2>6, <2>7 DEF ServingStep
<1>3. ASSUME NEW r \in Requests, Expire(r) PROVE KeysAgree' /\ OwnAnswer'
  BY <1>0, <1>3 DEF Expire, generatorVars, KeysAgree, OwnAnswer
<1>4. ASSUME NEW r \in Requests, EndContext(r), UNCHANGED servingVars PROVE KeysAgree' /\ OwnAnswer'
  BY <1>1, <1>4 DEF EndContext, servingVars
<1>5. ASSUME NEW p \in Pollers, PollStep(p) PROVE KeysAgree' /\ OwnAnswer'
  <2>0. Target[p] \in Requests
    BY ServingAssumption
  <2>1. CASE Get(p)
    <3>1. Agree(redis[Target[p]], Target[p]) /\ redis[Target[p]] # NoResult
      BY <2>0, <2>1 DEF Get, KeysAgree
    <3>2. /\ fetched' = [fetched EXCEPT ![p] = redis[Target[p]]]
          /\ poll' = [poll EXCEPT ![p] = "read"]
          /\ UNCHANGED <<result, redis, pluginCache, served>>
      BY <2>1 DEF Get, generatorVars
    <3>3. QED BY <1>0, <3>1, <3>2 DEF KeysAgree, OwnAnswer
  <2>2. CASE DeleteAndWrite(p)
    <3>1. redis' = [redis EXCEPT ![Target[p]] = NoResult] \/ redis' = redis
      BY <2>2 DEF DeleteAndWrite
    <3>2. /\ poll[p] = "read" /\ poll' = [poll EXCEPT ![p] = "done"]
          /\ UNCHANGED <<result, fetched, pluginCache, served>>
      BY <2>2 DEF DeleteAndWrite, generatorVars
    <3>3. QED BY <1>0, <3>1, <3>2 DEF KeysAgree, OwnAnswer
  <2>3. QED BY <1>5, <2>1, <2>2 DEF PollStep
<1>6. CASE Crash
  BY <1>0, <1>6 DEF Crash, KeysAgree, OwnAnswer
<1>7. QED BY <1>2, <1>3, <1>4, <1>5, <1>6 DEF ServingNext

\* What may become of a stored result in a step.
StoredStep ==
    \A r \in Requests :
        redis[r] # NoResult /\ redis'[r] = NoResult
          => r \in expired' \/ \E p \in Pollers : Target[p] = r /\ fetched[p] = redis[r]

\* Every step stores a result once and takes it away only after it was read.
LEMMA StoredKept ==
    ASSUME TypeOK, StoredOnce, ServingNext
    PROVE  StoredOnce' /\ StoredStep
<1>0. /\ gpc \in [Requests -> {gpc[q] : q \in Requests}]
      /\ redis \in [Requests -> Results \cup {NoResult}]
      /\ fetched \in [Pollers -> Results \cup {NoResult}]
      /\ poll \in [Pollers -> {"idle", "read", "done", "lost"}]
      /\ \A p \in Pollers : Target[p] \in Requests
  BY ServingAssumption DEF TypeOK, GeneratorTypeOK
<1>1. ASSUME \A r \in Requests : gpc[r] = "done" => gpc'[r] = "done",
             UNCHANGED <<redis, fetched>>,
             \A p \in Pollers : poll'[p] = "read" => poll[p] = "read"
      PROVE  StoredOnce' /\ StoredStep
  BY <1>0, <1>1 DEF StoredOnce, StoredStep
<1>2. ASSUME NEW r \in Requests, ServingStep(r) PROVE StoredOnce' /\ StoredStep
  <2>1. CASE ObjectGenHandler(r) \/ ObjectGenQueded(r) \/ GenerateObjectV2(r)
    <3>1. /\ gpc[r] = "idle"
          /\ \E to : gpc' = [gpc EXCEPT ![r] = to]
          /\ UNCHANGED <<redis, fetched, poll>>
      BY <2>1 DEF ObjectGenHandler, ObjectGenQueded, GenerateObjectV2
    <3>2. QED BY <1>0, <1>1, <3>1
  <2>2. CASE Accept(r)
    BY <1>1, <2>2 DEF Accept, generatorVars
  <2>3. CASE RespondSync(r)
    BY <1>0, <1>1, <2>3 DEF RespondSync
  <2>4. CASE RespondGrpc(r)
    BY <1>0, <1>1, <2>4 DEF RespondGrpc
  <2>5. CASE StoreQueued(r)
    <3>1. redis' = [redis EXCEPT ![r] = result[r]] \/ redis' = redis
      BY <2>5 DEF StoreQueued
    <3>2. /\ gpc[r] \in {"ok", "error"} /\ gpc' = [gpc EXCEPT ![r] = "done"]
          /\ UNCHANGED <<poll, fetched>>
      BY <2>5 DEF StoreQueued
    <3>3. redis[r] = NoResult /\ \A p \in Pollers : poll[p] = "read" => Target[p] # r
      BY <3>2 DEF StoredOnce
    <3>4. gpc'[r] = "done" /\ \A q \in Requests : q # r => gpc'[q] = gpc[q] /\ redis'[q] = redis[q]
      BY <1>0, <3>1, <3>2
    <3>5. StoredOnce'
      BY <1>0, <3>2, <3>3, <3>4 DEF StoredOnce
    <3>6. QED BY <3>3, <3>4, <3>5 DEF StoredStep
  <2>6. CASE GenerateStep(r) /\ UNCHANGED servingVars
    <3>1. gpc[r] # "done" /\ \E to : gpc' = [gpc EXCEPT ![r] = to]
      <4>1. CASE TakePooled(r) \/ TakeNew(r) \/ MakeOwn(r)
        BY <4>1 DEF TakePooled, TakeNew, MakeOwn
      <4>2. CASE PreProcess(r)
        BY <4>2 DEF PreProcess
      <4>3. CASE ProcessFields(r) \/ PostProcess(r)
        BY <4>3 DEF ProcessFields, PostProcess
      <4>4. QED BY <2>6, <4>1, <4>2, <4>3 DEF GenerateStep
    <3>2. QED BY <1>0, <1>1, <2>6, <3>1 DEF servingVars
  <2>7. QED BY <1>2, <2>1, <2>2, <2>3, <2>4, <2>5, <2>6 DEF ServingStep
<1>3. ASSUME NEW r \in Requests, Expire(r) PROVE StoredOnce' /\ StoredStep
  <2>1. /\ redis' = [redis EXCEPT ![r] = NoResult] /\ r \in expired'
        /\ UNCHANGED <<gpc, poll, fetched>>
    BY <1>3 DEF Expire, generatorVars
  <2>2. QED BY <1>0, <2>1 DEF StoredOnce, StoredStep
<1>4. ASSUME NEW r \in Requests, EndContext(r), UNCHANGED servingVars PROVE StoredOnce' /\ StoredStep
  BY <1>1, <1>4 DEF EndContext, servingVars
<1>5. ASSUME NEW p \in Pollers, PollStep(p) PROVE StoredOnce' /\ StoredStep
  <2>1. CASE Get(p)
    <3>1. /\ redis[Target[p]] # NoResult
          /\ fetched' = [fetched EXCEPT ![p] = redis[Target[p]]]
          /\ poll' = [poll EXCEPT ![p] = "read"]
          /\ UNCHANGED <<gpc, redis>>
      BY <2>1 DEF Get, generatorVars
    <3>2. QED BY <1>0, <3>1 DEF StoredOnce, StoredStep
  <2>2. CASE DeleteAndWrite(p)
    <3>1. redis' = [redis EXCEPT ![Target[p]] = NoResult] \/ redis' = redis
      BY <2>2 DEF DeleteAndWrite
    <3>2. /\ poll[p] = "read" /\ poll' = [poll EXCEPT ![p] = "done"]
          /\ UNCHANGED <<gpc, fetched>>
      BY <2>2 DEF DeleteAndWrite, generatorVars
    <3>3. redis[Target[p]] # NoResult => fetched[p] = redis[Target[p]]
      BY <3>2 DEF StoredOnce
    <3>4. \A r \in Requests : redis'[r] = redis[r] \/ (r = Target[p] /\ redis'[r] = NoResult)
      BY <1>0, <3>1
    <3>5. \A q \in Pollers : poll'[q] = "read" => poll[q] = "read"
      BY <1>0, <3>2
    <3>6. StoredOnce'
      BY <1>0, <3>2, <3>4, <3>5 DEF StoredOnce
    <3>7. QED BY <3>3, <3>4, <3>6 DEF StoredStep
  <2>3. QED BY <1>5, <2>1, <2>2 DEF PollStep
<1>6. CASE Crash
  <2>1. /\ gpc' = [r \in Requests |-> IF Arrived(r) THEN "done" ELSE gpc[r]]
        /\ poll' = [p \in Pollers |-> IF poll[p] = "read" THEN "lost" ELSE poll[p]]
        /\ UNCHANGED <<redis, fetched>>
    BY <1>6 DEF Crash
  <2>2. QED BY <1>1, <2>1 DEF Arrived
<1>7. QED BY <1>2, <1>3, <1>4, <1>5, <1>6 DEF ServingNext

\* Every step of the server keeps the invariant of the requests.
LEMMA ServingKept ==
    ASSUME ServingIInv, [Next]_serverVars
    PROVE  ServingIInv' /\ [StoredStep]_vars
<1>1. CASE ServingNext
  BY <1>1, TypesKept, LendingKept, KeysKept, StoredKept DEF ServingIInv
<1>2. CASE UNCHANGED vars
  <2>1. TypeOK' /\ KeysAgree' /\ OwnAnswer' /\ StoredOnce'
    BY <1>2 DEF ServingIInv, vars, generatorVars, servingVars, TypeOK, GeneratorTypeOK,
                KeysAgree, OwnAnswer, StoredOnce
  <2>2. Lending' /\ SharedByTwoAtMost'
    BY <1>2, LendingFrame DEF ServingIInv, vars, generatorVars, Lending
  <2>3. QED BY <1>2, <2>1, <2>2 DEF ServingIInv
<1>3. QED BY <1>1, <1>2 DEF Next, serverVars

\* The requests of the server, beside whatever streams there are.
LEMMA ServingInvariance == Spec => []ServingIInv
<1>1. Init => ServingIInv
  BY ServingStarts DEF Init
<1>2. ServingIInv /\ [Next]_serverVars => ServingIInv'
  BY ServingKept
<1>3. QED BY <1>1, <1>2, PTL DEF Spec

\* For any number of requests, polls and restarts: getGenerator's early Put lets two
\* requests have one generator but never three, and no client gets, from the cache
\* plugin, from Redis or directly, a result that was generated under another key.
THEOREM ServedCorrectly == Spec => []ServingInv
<1>1. ServingIInv => ServingInv
  BY DEF ServingIInv, ServingInv
<1>2. QED BY <1>1, ServingInvariance, PTL

\* A stored result leaves Redis by its time to live or after GetObjectQueued has read
\* it: Get and Del of two polls, failed deletions and restarts never lose one unread.
THEOREM StoredResultsStay == Spec => StoredUntilRead
<1>1. ServingIInv /\ [Next]_serverVars
        => [\A r \in Requests :
               redis[r] # NoResult /\ redis'[r] = NoResult
                 => r \in expired' \/ \E p \in Pollers : Target[p] = r /\ fetched[p] = redis[r]]_vars
  BY ServingKept DEF StoredStep
<1>2. QED BY <1>1, ServingInvariance, PTL DEF Spec, StoredUntilRead
=============================================================================
