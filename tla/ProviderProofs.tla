---------------------------- MODULE ProviderProofs ----------------------------
(***************************************************************************)
(* Proofs about the calls to providers.  Backoff: for any number of        *)
(* workers, any backoff, any RetryAfter and any window and number of       *)
(* requests of the limiter.  Gateway: for any definitions, messages,       *)
(* environments, prompts and answers, and any number of bits on the wire.  *)
(***************************************************************************)
EXTENDS Backoff, Gateway, FiniteSetTheorems, SequenceTheorems, WellFoundedInduction, TLAPS

-----------------------------------------------------------------------------
(* Backoff *)

Levels == {1, 3, 5, 7, 9, 10}

LimiterType ==
    [exists : BOOLEAN, count : 0 .. DefaultRPM, age : 0 .. Minute, inBackoff : BOOLEAN,
     left : Nat, level : Levels]

StrongTypeOK == TypeOK /\ limiter \in LimiterType

\* What a worker still sleeps covers what is left of the pause it knows of; a worker that
\* calls does not sleep, and without a strategy there is no pause.
SleepCovers ==
    \A w \in Workers :
        /\ phase[w] \in {"sleep", "call"} /\ w \notin overtaken => PauseLeft(w) <= sleep[w]
        /\ phase[w] = "call" => sleep[w] = 0
        /\ strategy = "perworker" => w \notin overtaken

NoPause == strategy = "none" => \A s \in Slots : until[s] = 0

\* The window in which a pause began is over when the pause is; the first caller of the
\* limiter makes it.
WindowEnds ==
    /\ limiter.inBackoff => limiter.exists /\ limiter.age + limiter.left >= Minute
    /\ strategy = "adaptive" /\ ~limiter.exists => \A w \in Workers : phase[w] = "wait"

BackoffIInv ==
    /\ StrongTypeOK /\ SleepCovers /\ NoPause /\ GrowsWithPauses
    /\ WindowEnds /\ SlowStartHolds

\* What a level allows is at least one request and at most those of a whole window.
LEMMA EffectiveLimitBounds ==
    ASSUME NEW level \in Levels
    PROVE  EffectiveLimit(level) \in 1 .. DefaultRPM
<1> USE BackoffAssumption DEF EffectiveLimit
<1>1. CASE level = 1
  BY <1>1
<1>2. CASE level = 3
  BY <1>2
<1>3. CASE level = 5
  BY <1>3
<1>4. CASE level = 7
  BY <1>4
<1>5. CASE level = 9
  BY <1>5
<1>6. CASE level = 10
  BY <1>6
<1>7. QED BY <1>1, <1>2, <1>3, <1>4, <1>5, <1>6 DEF Levels

\* At first nobody pauses and the limiter is fully open.
LEMMA BackoffStarts == Init => BackoffIInv
<1> SUFFICES ASSUME Init PROVE BackoffIInv
  OBVIOUS
<1> USE BackoffAssumption
<1>1. limiter \in LimiterType /\ limiter.count = 0 /\ limiter.level = 10 /\ limiter.inBackoff = FALSE
  BY DEF Init, LimiterType, Levels
<1>2. StrongTypeOK
  BY <1>1 DEF Init, StrongTypeOK, TypeOK
<1>3. SleepCovers /\ NoPause /\ GrowsWithPauses
  BY DEF Init, SleepCovers, NoPause, GrowsWithPauses
<1>4. WindowEnds /\ SlowStartHolds
  BY <1>1, EffectiveLimitBounds DEF Init, WindowEnds, SlowStartHolds, Levels
<1>5. QED BY <1>2, <1>3, <1>4 DEF BackoffIInv

\* What is left of a pause is a number, and so are the other times.
LEMMA TimesAreNumbers ==
    ASSUME StrongTypeOK, NEW w \in Workers
    PROVE  PauseLeft(w) \in Nat /\ sleep[w] \in Nat /\ SlotOf(w) \in Slots
<1>1. limiter.left \in Nat /\ SlotOf(w) \in Slots /\ sleep[w] \in Nat
  BY DEF StrongTypeOK, TypeOK, LimiterType, SlotOf, Slots
<1>2. until[SlotOf(w)] \in Nat
  BY <1>1 DEF StrongTypeOK, TypeOK
<1>3. QED BY <1>1, <1>2 DEF PauseLeft

\* The same in the next state.
LEMMA NextTimesAreNumbers ==
    ASSUME StrongTypeOK', NEW w \in Workers
    PROVE  PauseLeft(w)' \in Nat /\ sleep'[w] \in Nat
<1>1. limiter'.left \in Nat /\ (SlotOf(w))' \in Slots /\ sleep'[w] \in Nat
  BY DEF StrongTypeOK, TypeOK, LimiterType, SlotOf, Slots
<1>2. until'[(SlotOf(w))'] \in Nat
  BY <1>1 DEF StrongTypeOK, TypeOK
<1>3. QED BY <1>1, <1>2 DEF PauseLeft

\* A step that sends w to phase p for t ticks keeps everybody's sleep long enough when w
\* sleeps out what it knows of, and nobody else's pause grows unnoticed.
LEMMA CoverFrame ==
    ASSUME StrongTypeOK, StrongTypeOK', SleepCovers, NEW w \in Workers, NEW p, NEW t, To(w, p, t), strategy' = strategy,
           p \in {"sleep", "call"} /\ w \notin overtaken' => PauseLeft(w)' <= t,
           p = "call" => t = 0,
           strategy = "perworker" => overtaken' \subseteq overtaken,
           \A v \in Workers : v # w /\ phase[v] \in {"sleep", "call"} /\ v \notin overtaken'
                                => v \notin overtaken /\ PauseLeft(v)' <= PauseLeft(v)
    PROVE  SleepCovers'
<1>1. /\ phase'[w] = p /\ sleep'[w] = t
      /\ \A v \in Workers : v # w => phase'[v] = phase[v] /\ sleep'[v] = sleep[v]
  BY DEF To, StrongTypeOK, TypeOK
<1>2. ASSUME NEW v \in Workers
      PROVE  /\ phase'[v] \in {"sleep", "call"} /\ v \notin overtaken' => PauseLeft(v)' <= sleep'[v]
             /\ phase'[v] = "call" => sleep'[v] = 0
             /\ strategy' = "perworker" => v \notin overtaken'
  <2>1. CASE v = w
    BY <1>1, <2>1 DEF SleepCovers
  <2>2. CASE v # w
    <3>1. PauseLeft(v) \in Nat /\ PauseLeft(v)' \in Nat /\ sleep[v] \in Nat
      BY TimesAreNumbers, NextTimesAreNumbers
    <3>2. QED BY <1>1, <2>2, <3>1 DEF SleepCovers
  <2>3. QED BY <2>1, <2>2
<1>3. QED BY <1>2 DEF SleepCovers

\* A step that changes neither slots nor limiter keeps the invariant if it sends a worker
\* to a phase in which it has slept out what it knows of.
LEMMA QuietStep ==
    ASSUME BackoffIInv, NEW w \in Workers, NEW p \in {"wait", "sleep", "call", "pause"}, NEW t \in Nat, To(w, p, t),
           UNCHANGED <<strategy, slotVars, limiter>>,
           overtaken' = overtaken \/ overtaken' = overtaken \ {w},
           p \in {"sleep", "call"} /\ w \notin overtaken' => PauseLeft(w) <= t,
           p = "call" => t = 0,
           p = "wait" \/ strategy # "adaptive" \/ limiter.exists
    PROVE  BackoffIInv'
<1>1. StrongTypeOK'
  BY DEF BackoffIInv, StrongTypeOK, TypeOK, slotVars, To
<1>2. \A v \in Workers : PauseLeft(v)' = PauseLeft(v) /\ PauseLeft(v) \in Nat
  BY TimesAreNumbers DEF PauseLeft, SlotOf, slotVars, BackoffIInv
<1>3. SleepCovers'
  <2>1. StrongTypeOK /\ SleepCovers /\ strategy' = strategy
    BY DEF BackoffIInv
  <2>2. p \in {"sleep", "call"} /\ w \notin overtaken' => PauseLeft(w)' <= t
    BY <1>2
  <2>3. strategy = "perworker" => overtaken' \subseteq overtaken
    OBVIOUS
  <2>4. \A v \in Workers : v # w /\ phase[v] \in {"sleep", "call"} /\ v \notin overtaken'
                             => v \notin overtaken /\ PauseLeft(v)' <= PauseLeft(v)
    BY <1>2
  <2>5. QED BY <1>1, <2>1, <2>2, <2>3, <2>4, CoverFrame
<1>4. NoPause' /\ GrowsWithPauses' /\ SlowStartHolds'
  BY DEF BackoffIInv, NoPause, GrowsWithPauses, SlowStartHolds, slotVars
<1>5. WindowEnds'
  BY DEF BackoffIInv, WindowEnds, StrongTypeOK, TypeOK, To
<1>6. QED BY <1>1, <1>3, <1>4, <1>5 DEF BackoffIInv

\* Without a strategy a worker calls at once: there is no pause.
LEMMA NoApplyKeeps ==
    ASSUME BackoffIInv, NEW w \in Workers, NoApplyBackoff(w)
    PROVE  BackoffIInv'
<1>1. PauseLeft(w) <= 0
  <2>1. SlotOf(w) \in Slots
    BY TimesAreNumbers DEF BackoffIInv
  <2>2. until[SlotOf(w)] = 0
    BY <2>1 DEF NoApplyBackoff, BackoffIInv, NoPause
  <2>3. QED BY <2>2 DEF PauseLeft, NoApplyBackoff
<1>2. QED BY <1>1, QuietStep DEF NoApplyBackoff

\* A worker sleeps out the pause of its slot, or calls when there is none.
LEMMA SleepForKeeps ==
    ASSUME BackoffIInv, NEW w \in Workers, SleepFor(w, SlotOf(w)), strategy # "adaptive"
    PROVE  BackoffIInv'
<1>1. PauseLeft(w) = until[SlotOf(w)] /\ until[SlotOf(w)] \in Nat
  BY TimesAreNumbers DEF PauseLeft, BackoffIInv
<1>2. CASE until[SlotOf(w)] > 0
  <2>1. To(w, "sleep", until[SlotOf(w)])
    BY <1>2 DEF SleepFor
  <2>2. QED BY <1>1, <2>1, QuietStep DEF SleepFor
<1>3. CASE ~(until[SlotOf(w)] > 0)
  <2>1. until[SlotOf(w)] = 0 /\ To(w, "call", 0)
    BY <1>1, <1>3 DEF SleepFor
  <2>2. QED BY <1>1, <2>1, QuietStep DEF SleepFor
<1>4. QED BY <1>2, <1>3

\* A sleeper that wakes up has slept out the pause it knew of.
LEMMA WakeKeeps ==
    ASSUME BackoffIInv, NEW w \in Workers, Wake(w) \/ PauseOver(w)
    PROVE  BackoffIInv'
<1>1. PICK p \in {"wait", "call"} : phase' = [phase EXCEPT ![w] = p] /\ (p = "call" => phase[w] = "sleep")
  BY DEF Wake, PauseOver
<1>2. sleep[w] = 0 /\ UNCHANGED <<strategy, slotVars, limiter>> /\ sleep' = sleep /\ overtaken' = overtaken
  BY DEF Wake, PauseOver
<1>3. To(w, p, 0)
  BY <1>1, <1>2 DEF To, BackoffIInv, StrongTypeOK, TypeOK
<1>4. p = "call" /\ w \notin overtaken' => PauseLeft(w) <= 0
  BY <1>1, <1>2 DEF BackoffIInv, SleepCovers
<1>5. p = "wait" \/ strategy # "adaptive" \/ limiter.exists
  BY <1>1 DEF BackoffIInv, WindowEnds
<1>6. QED BY <1>1, <1>2, <1>3, <1>4, <1>5, QuietStep

\* Without a strategy a 429 is answered by a short pause of the worker's own.
LEMMA NoActivateKeeps ==
    ASSUME BackoffIInv, NEW w \in Workers, NoActivateBackoff(w)
    PROVE  BackoffIInv'
BY QuietStep DEF NoActivateBackoff

\* A call that fails otherwise changes nothing but the worker's phase.
LEMMA FailKeeps ==
    ASSUME BackoffIInv, NEW w \in Workers, FailOtherwise(w)
    PROVE  BackoffIInv'
BY QuietStep DEF FailOtherwise

\* A 429 starts a pause that covers the growth of the backoff, or finds one already there;
\* the others of the slot are overtaken by it.
LEMMA ActivateKeeps ==
    ASSUME BackoffIInv, NEW w \in Workers, NEW r \in RetryAfters,
           strategy \in {"global", "perworker"}, Activate(SlotOf(w), r), Overtakes(SlotOf(w), w), To(w, "wait", 0),
           UNCHANGED <<strategy, limiter>>
    PROVE  BackoffIInv'
<1> DEFINE s == SlotOf(w)
<1>1. s \in Slots /\ StrongTypeOK
  BY TimesAreNumbers DEF BackoffIInv
<1>2. /\ current \in [Slots -> Second .. MaxBackoff] /\ until \in [Slots -> Nat] /\ since \in [Slots -> 0 .. MaxBackoff]
      /\ phase \in [Workers -> {"wait", "sleep", "call", "pause"}] /\ sleep \in [Workers -> Nat] /\ overtaken \subseteq Workers
      /\ GrowsWithPauses
  BY DEF BackoffIInv, StrongTypeOK, TypeOK
<1>3. r \in Nat /\ Second \in Nat /\ MaxBackoff \in Nat /\ MaxBackoff >= Second /\ Second > 0
  BY BackoffAssumption
<1>4. /\ current' \in [Slots -> Second .. MaxBackoff] /\ until' \in [Slots -> Nat] /\ since' \in [Slots -> 0 .. MaxBackoff]
      /\ \A q \in Slots : q # s => until'[q] = until[q]
      /\ GrowsWithPauses'
  <2> HIDE DEF s
  <2>1. CASE until[s] > 0
    BY <1>2, <2>1 DEF Activate, slotVars, GrowsWithPauses, s
  <2>2. CASE ~(until[s] > 0) /\ r > 0
    <3>1. PICK j \in Jitter(r) : until' = [until EXCEPT ![s] = r + j]
      BY <2>2 DEF Activate, s
    <3>2. current' = [current EXCEPT ![s] = Second] /\ since' = [since EXCEPT ![s] = 0]
      BY <2>2 DEF Activate, s
    <3>3. j \in Nat
      BY <1>3, <3>1 DEF Jitter
    <3>4. QED BY <1>1, <1>2, <1>3, <3>1, <3>2, <3>3 DEF GrowsWithPauses
  <2>3. CASE ~(until[s] > 0) /\ ~(r > 0)
    <3>1. PICK j \in Jitter(current[s]) : until' = [until EXCEPT ![s] = current[s] + j]
      BY <2>3 DEF Activate, s
    <3>2. current' = [current EXCEPT ![s] = Least(2 * current[s], MaxBackoff)] /\ since' = since
      BY <2>3 DEF Activate, s
    <3>3. j \in Nat /\ current[s] \in Second .. MaxBackoff /\ since[s] \in Nat /\ until[s] = 0
      BY <1>1, <1>2, <1>3, <2>3, <3>1 DEF Jitter
    <3>4. Least(2 * current[s], MaxBackoff) \in Second .. MaxBackoff /\ Least(2 * current[s], MaxBackoff) <= 2 * current[s]
      BY <1>3, <3>3 DEF Least
    <3>5. since[s] + until[s] >= current[s] - Second
      BY <1>1, <1>2 DEF GrowsWithPauses
    <3>6. current' \in [Slots -> Second .. MaxBackoff] /\ until' \in [Slots -> Nat] /\ since' \in [Slots -> 0 .. MaxBackoff]
      <4>1. current[s] + j \in Nat
        BY <1>3, <3>3
      <4>2. QED BY <1>2, <3>1, <3>2, <3>4, <4>1
    <3>7. since'[s] + until'[s] >= current'[s] - Second
      BY <1>1, <1>2, <1>3, <3>1, <3>2, <3>3, <3>4, <3>5
    <3>8. GrowsWithPauses'
      BY <1>2, <3>1, <3>2, <3>7 DEF GrowsWithPauses
    <3>9. QED BY <1>2, <3>1, <3>6, <3>8
  <2>4. QED BY <2>1, <2>2, <2>3
<1>5. overtaken' \subseteq Workers
  BY <1>2 DEF Overtakes
<1>6. StrongTypeOK'
  BY <1>1, <1>2, <1>4, <1>5 DEF StrongTypeOK, TypeOK, To
<1>7. strategy = "perworker" => overtaken' \subseteq overtaken
  BY DEF Overtakes, SlotOf
<1>8. ASSUME NEW v \in Workers, v # w, phase[v] \in {"sleep", "call"}, v \notin overtaken'
      PROVE  v \notin overtaken /\ PauseLeft(v)' <= PauseLeft(v)
  <2>1. v \notin overtaken /\ SlotOf(v) # s /\ SlotOf(v) \in Slots
    BY <1>1, <1>8, TimesAreNumbers DEF Overtakes
  <2>2. until'[SlotOf(v)] = until[SlotOf(v)] /\ until[SlotOf(v)] \in Nat /\ (SlotOf(v))' = SlotOf(v)
    BY <1>2, <1>4, <2>1 DEF SlotOf
  <2>3. PauseLeft(v)' = until'[SlotOf(v)] /\ PauseLeft(v) = until[SlotOf(v)]
    BY <2>2 DEF PauseLeft
  <2>4. QED BY <2>1, <2>2, <2>3
<1>9. SleepCovers'
  <2>1. SleepCovers /\ strategy' = strategy
    BY DEF BackoffIInv
  <2>2. QED BY <1>1, <1>6, <1>7, <1>8, <2>1, CoverFrame
<1>10. NoPause' /\ WindowEnds' /\ SlowStartHolds'
  BY DEF BackoffIInv, NoPause, WindowEnds, SlowStartHolds
<1>11. QED BY <1>4, <1>6, <1>9, <1>10 DEF BackoffIInv

\* A success starts the backoff of the worker's slot anew.
LEMMA SucceedKeeps ==
    ASSUME BackoffIInv, NEW w \in Workers, Succeed(w)
    PROVE  BackoffIInv'
<1>1. /\ current \in [Slots -> Second .. MaxBackoff] /\ until \in [Slots -> Nat] /\ since \in [Slots -> 0 .. MaxBackoff]
      /\ GrowsWithPauses /\ StrongTypeOK /\ SleepCovers
      /\ strategy \in {"none", "global", "perworker", "adaptive"}
  BY DEF BackoffIInv, StrongTypeOK, TypeOK
<1>2. Second \in Nat /\ MaxBackoff \in Nat /\ MaxBackoff >= Second /\ w \in Slots /\ All \in Slots
  BY BackoffAssumption DEF Slots
<1>3. PICK s \in Slots : \/ current' = [current EXCEPT ![s] = Second] /\ since' = [since EXCEPT ![s] = 0]
                         \/ UNCHANGED <<current, since>>
  BY <1>1, <1>2 DEF Succeed, GlobalResetBackoff, PerWorkerResetBackoff
<1>4. UNCHANGED <<strategy, until, limiter, overtaken>> /\ To(w, "wait", 0)
  BY DEF Succeed
<1>5. current' \in [Slots -> Second .. MaxBackoff] /\ since' \in [Slots -> 0 .. MaxBackoff]
  BY <1>1, <1>2, <1>3
<1>6. StrongTypeOK'
  BY <1>1, <1>4, <1>5 DEF StrongTypeOK, TypeOK, To
<1>7. GrowsWithPauses'
  BY <1>1, <1>2, <1>3, <1>4 DEF GrowsWithPauses
<1>8. \A v \in Workers : PauseLeft(v)' = PauseLeft(v) /\ PauseLeft(v) \in Nat
  BY <1>1, <1>4, TimesAreNumbers DEF PauseLeft, SlotOf
<1>9. SleepCovers'
  BY <1>1, <1>4, <1>6, <1>8, CoverFrame
<1>10. NoPause' /\ WindowEnds' /\ SlowStartHolds'
  BY <1>1, <1>4 DEF BackoffIInv, NoPause, WindowEnds, SlowStartHolds, To, StrongTypeOK, TypeOK
<1>11. QED BY <1>6, <1>7, <1>9, <1>10 DEF BackoffIInv

\* The first 429 begins the limiter's pause of a whole window, and overtakes whoever
\* sleeps or calls; a later one changes nothing.
LEMMA ReportKeeps ==
    ASSUME BackoffIInv, NEW w \in Workers, ReportResult(w)
    PROVE  BackoffIInv'
<1>1. StrongTypeOK /\ SleepCovers /\ limiter \in LimiterType /\ overtaken \subseteq Workers
  BY DEF BackoffIInv, StrongTypeOK, TypeOK
<1>2. Minute \in Nat \ {0}
  BY BackoffAssumption
<1>3. strategy = "adaptive" /\ To(w, "wait", 0) /\ UNCHANGED <<strategy, slotVars>> /\ strategy' = strategy
  BY DEF ReportResult
<1>made. limiter.exists
  BY DEF ReportResult, BackoffIInv, WindowEnds
<1>4. limiter' \in LimiterType /\ limiter'.inBackoff = TRUE /\ WindowEnds'
  <2>1. CASE limiter.inBackoff
    <3>1. limiter' = limiter
      BY <2>1 DEF ReportResult
    <3>2. QED BY <1>made, <1>1, <2>1, <3>1 DEF LimiterType, BackoffIInv, WindowEnds
  <2>2. CASE ~limiter.inBackoff
    <3>1. limiter' = [limiter EXCEPT !.inBackoff = TRUE, !.left = Minute, !.level = 1]
      BY <2>2 DEF ReportResult
    <3>2. /\ limiter'.exists = limiter.exists /\ limiter'.inBackoff = TRUE
          /\ limiter'.left = Minute /\ limiter'.age = limiter.age
      BY <1>1, <3>1 DEF LimiterType
    <3>3. limiter' \in LimiterType /\ limiter.age \in 0 .. Minute
      BY <1>1, <1>2, <3>1 DEF LimiterType, Levels
    <3>4. QED BY <1>made, <1>2, <3>2, <3>3 DEF WindowEnds
  <2>3. QED BY <2>1, <2>2
<1>5. overtaken' \subseteq Workers
  BY <1>1 DEF ReportResult
<1>6. StrongTypeOK'
  BY <1>1, <1>3, <1>4, <1>5 DEF StrongTypeOK, TypeOK, To, slotVars, LimiterType, Levels
<1>7. SleepCovers'
  BY <1>1, <1>3, <1>6, CoverFrame DEF ReportResult
<1>8. NoPause' /\ GrowsWithPauses' /\ SlowStartHolds'
  BY <1>3, <1>4 DEF BackoffIInv, NoPause, GrowsWithPauses, SlowStartHolds, slotVars
<1>9. QED BY <1>4, <1>6, <1>7, <1>8 DEF BackoffIInv

\* Time takes the same from every pause and every sleep, and the window of a pause ages
\* while the pause runs out.
LEMMA TickKeeps ==
    ASSUME BackoffIInv, Tick
    PROVE  BackoffIInv'
<1>1. /\ current \in [Slots -> Second .. MaxBackoff] /\ until \in [Slots -> Nat] /\ since \in [Slots -> 0 .. MaxBackoff]
      /\ sleep \in [Workers -> Nat] /\ limiter \in LimiterType /\ StrongTypeOK
  BY DEF BackoffIInv, StrongTypeOK, TypeOK
<1>2. Second \in Nat \ {0} /\ MaxBackoff \in Nat /\ MaxBackoff >= Second /\ Minute \in Nat \ {0}
  BY BackoffAssumption
<1>3. \A n \in Nat : Pass(n) \in Nat /\ (n > 0 => Pass(n) = n - 1) /\ (n = 0 => Pass(n) = 0)
  BY DEF Pass
<1>4. until' \in [Slots -> Nat] /\ sleep' \in [Workers -> Nat]
  BY <1>1, <1>3 DEF Tick
<1>5. since' \in [Slots -> 0 .. MaxBackoff]
  <2>1. \A n \in 0 .. MaxBackoff : Least(n + 1, MaxBackoff) \in 0 .. MaxBackoff
    BY <1>2 DEF Least
  <2>2. QED BY <1>1, <2>1 DEF Tick
<1>6. /\ limiter' \in LimiterType /\ WindowEnds' /\ limiter'.inBackoff = limiter.inBackoff
      /\ limiter'.count = limiter.count /\ limiter'.level = limiter.level
      /\ (limiter.inBackoff => limiter'.left = Pass(limiter.left))
  <2>1. CASE limiter.exists
    <3>1. limiter' = [limiter EXCEPT !.left = Pass(limiter.left), !.age = Least(limiter.age + 1, Minute)]
      BY <2>1 DEF Tick
    <3>2. Least(limiter.age + 1, Minute) \in 0 .. Minute /\ Least(limiter.age + 1, Minute) >= limiter.age
          /\ (limiter.age < Minute => Least(limiter.age + 1, Minute) = limiter.age + 1)
      BY <1>1, <1>2 DEF Least, LimiterType
    <3>3. limiter.left \in Nat /\ limiter.age \in 0 .. Minute
      BY <1>1 DEF LimiterType
    <3>4. limiter'.left = Pass(limiter.left) /\ limiter'.age = Least(limiter.age + 1, Minute)
          /\ limiter'.inBackoff = limiter.inBackoff /\ limiter'.count = limiter.count /\ limiter'.level = limiter.level
          /\ limiter'.exists = limiter.exists
      BY <1>1, <3>1 DEF LimiterType
    <3>5. limiter' \in LimiterType
      BY <1>1, <1>3, <3>1, <3>2, <3>3 DEF LimiterType
    <3>6. WindowEnds'
      <4>1. limiter.inBackoff => limiter'.age + limiter'.left >= Minute
        BY <1>2, <1>3, <3>2, <3>3, <3>4 DEF WindowEnds, BackoffIInv
      <4>2. QED BY <2>1, <3>4, <4>1 DEF WindowEnds
    <3>7. QED BY <1>3, <3>3, <3>4, <3>5, <3>6
  <2>2. CASE ~limiter.exists
    BY <1>1, <2>2 DEF Tick, LimiterType, WindowEnds, BackoffIInv
  <2>3. QED BY <2>1, <2>2
<1>7. StrongTypeOK'
  BY <1>1, <1>4, <1>5, <1>6 DEF StrongTypeOK, TypeOK, Tick
<1>8. GrowsWithPauses'
  <2>1. SUFFICES ASSUME NEW s \in Slots
                 PROVE  since'[s] + until'[s] >= current'[s] - Second
    BY DEF GrowsWithPauses
  <2>2. since[s] + until[s] >= current[s] - Second /\ current[s] \in Second .. MaxBackoff /\ since[s] \in 0 .. MaxBackoff
        /\ until[s] \in Nat
    BY <1>1 DEF GrowsWithPauses, BackoffIInv
  <2>3. current'[s] = current[s] /\ until'[s] = Pass(until[s])
        /\ since'[s] = IF current[s] > Second \/ until[s] > 0 THEN Least(since[s] + 1, MaxBackoff) ELSE since[s]
    BY DEF Tick
  <2>4. QED BY <1>2, <1>3, <2>2, <2>3 DEF Least
<1>9. SleepCovers'
  <2>1. SUFFICES ASSUME NEW w \in Workers
                 PROVE  /\ phase'[w] \in {"sleep", "call"} /\ w \notin overtaken' => PauseLeft(w)' <= sleep'[w]
                        /\ phase'[w] = "call" => sleep'[w] = 0
                        /\ strategy' = "perworker" => w \notin overtaken'
    BY DEF SleepCovers
  <2>2. phase' = phase /\ overtaken' = overtaken /\ strategy' = strategy /\ sleep'[w] = Pass(sleep[w])
    BY DEF Tick
  <2>3. PauseLeft(w) \in Nat /\ sleep[w] \in Nat /\ SlotOf(w) \in Slots
    BY <1>1, TimesAreNumbers
  <2>4. PauseLeft(w)' = Pass(PauseLeft(w))
    <3>1. CASE strategy = "adaptive"
      BY <1>3, <1>6, <2>2, <3>1 DEF PauseLeft
    <3>2. CASE strategy # "adaptive"
      BY <2>2, <2>3, <3>2 DEF PauseLeft, SlotOf, Tick
    <3>3. QED BY <3>1, <3>2
  <2>5. /\ phase[w] \in {"sleep", "call"} /\ w \notin overtaken => PauseLeft(w) <= sleep[w]
        /\ phase[w] = "call" => sleep[w] = 0
        /\ strategy = "perworker" => w \notin overtaken
    BY DEF BackoffIInv, SleepCovers
  <2>6. QED BY <1>3, <2>2, <2>3, <2>4, <2>5
<1>10. NoPause' /\ SlowStartHolds'
  BY <1>3, <1>6 DEF BackoffIInv, NoPause, SlowStartHolds, Tick
<1>11. QED BY <1>6, <1>7, <1>8, <1>9, <1>10 DEF BackoffIInv

\* One turn of the limiter's loop sleeps out the pause, or begins the window that is over
\* anew: a pause that has ended leaves its whole window behind, so the count starts at 0
\* below the level of the slow start, and there is always some of the window left to sleep.
LEMMA WaitKeeps ==
    ASSUME BackoffIInv, NEW w \in Workers, Wait(w)
    PROVE  BackoffIInv'
<1>1. StrongTypeOK /\ SleepCovers /\ limiter \in LimiterType /\ overtaken \subseteq Workers
  BY DEF BackoffIInv, StrongTypeOK, TypeOK
<1>2. Minute \in Nat \ {0} /\ DefaultRPM \in Nat \ {0}
  BY BackoffAssumption
<1>3. strategy = "adaptive" /\ strategy' = strategy /\ UNCHANGED <<slotVars, strategy>> /\ overtaken' = overtaken \ {w}
  BY DEF Wait
<1>4. PICK made : made = [limiter EXCEPT !.exists = TRUE]
  OBVIOUS
<1>5. PICK woken : woken = IF made.inBackoff THEN [made EXCEPT !.inBackoff = FALSE, !.level = 1] ELSE made
  OBVIOUS
<1>6. PICK window : window = IF WindowOver(woken)
                               THEN [woken EXCEPT !.count = 0, !.age = 0, !.level = Least(@ + 2, 10)]
                               ELSE woken
  OBVIOUS
<1>7. /\ made \in LimiterType /\ made.exists = TRUE /\ made.inBackoff = limiter.inBackoff
      /\ made.left = limiter.left /\ made.age = limiter.age /\ made.count = limiter.count /\ made.level = limiter.level
  BY <1>1, <1>4 DEF LimiterType
<1>8. CASE made.inBackoff /\ made.left > 0
  <2>1. limiter' = made /\ To(w, "sleep", made.left)
    BY <1>4, <1>8 DEF Wait
  <2>2. made.left \in Nat
    BY <1>7 DEF LimiterType
  <2>3. StrongTypeOK'
    BY <1>1, <1>3, <1>7, <2>1, <2>2 DEF StrongTypeOK, TypeOK, To, slotVars
  <2>4. \A v \in Workers : PauseLeft(v)' = PauseLeft(v) /\ PauseLeft(v)' \in Nat
    BY <1>1, <1>3, <1>7, <2>1, <2>3, NextTimesAreNumbers DEF PauseLeft
  <2>5. PauseLeft(w)' <= made.left
    BY <1>3, <1>7, <2>1, <2>2 DEF PauseLeft
  <2>6. SleepCovers'
    BY <1>1, <1>3, <2>1, <2>3, <2>4, <2>5, CoverFrame
  <2>7. WindowEnds'
    BY <1>7, <2>1 DEF WindowEnds, BackoffIInv
  <2>8. NoPause' /\ GrowsWithPauses' /\ SlowStartHolds'
    BY <1>3, <1>7, <1>8, <2>1 DEF BackoffIInv, NoPause, GrowsWithPauses, SlowStartHolds, slotVars
  <2>9. QED BY <2>3, <2>6, <2>7, <2>8 DEF BackoffIInv
<1>9. CASE ~(made.inBackoff /\ made.left > 0)
  <2>1. /\ woken \in LimiterType /\ woken.exists = TRUE /\ woken.inBackoff = FALSE /\ woken.age = made.age
        /\ woken.count = made.count /\ (~made.inBackoff => woken.level = made.level)
    BY <1>5, <1>7 DEF LimiterType, Levels
  <2>2. made.inBackoff => WindowOver(woken)
    <3>1. limiter.inBackoff => limiter.age + limiter.left >= Minute
      BY DEF BackoffIInv, WindowEnds
    <3>2. made.left \in Nat /\ made.age \in 0 .. Minute
      BY <1>7 DEF LimiterType
    <3>3. QED BY <1>2, <1>7, <1>9, <2>1, <3>1, <3>2 DEF WindowOver
  <2>3. /\ window \in LimiterType /\ window.exists = TRUE /\ window.inBackoff = FALSE
        /\ window.count <= EffectiveLimit(window.level) /\ Minute - window.age \in Nat \ {0}
        /\ EffectiveLimit(window.level) \in 1 .. DefaultRPM
    <3>1. CASE WindowOver(woken)
      <4>1. Least(woken.level + 2, 10) \in Levels
        BY <2>1 DEF Least, Levels, LimiterType
      <4>2. window = [woken EXCEPT !.count = 0, !.age = 0, !.level = Least(woken.level + 2, 10)]
        BY <1>6, <3>1
      <4>3. window \in LimiterType
        <5>1. [woken EXCEPT !.count = 0, !.age = 0] \in LimiterType
          <6>1. 0 \in 0 .. Minute /\ 0 \in 0 .. DefaultRPM
            BY <1>2
          <6>2. QED BY <2>1, <6>1 DEF LimiterType
        <5>2. \A l \in LimiterType, n \in Levels : [l EXCEPT !.level = n] \in LimiterType
          BY DEF LimiterType
        <5>3. window = [[woken EXCEPT !.count = 0, !.age = 0] EXCEPT !.level = Least(woken.level + 2, 10)]
          BY <2>1, <4>2 DEF LimiterType
        <5>4. QED BY <4>1, <5>1, <5>2, <5>3
      <4>4. window.exists = TRUE /\ window.inBackoff = FALSE /\ window.count = 0 /\ window.age = 0
            /\ window.level \in Levels
        BY <2>1, <4>1, <4>2 DEF LimiterType
      <4>5. EffectiveLimit(window.level) \in 1 .. DefaultRPM
        BY <4>4, EffectiveLimitBounds
      <4>6. QED BY <1>2, <4>3, <4>4, <4>5
    <3>2. CASE ~WindowOver(woken)
      <4>1. window = woken /\ ~made.inBackoff
        BY <1>6, <2>2, <3>2
      <4>2. limiter.count <= EffectiveLimit(limiter.level)
        BY <1>7, <4>1 DEF BackoffIInv, SlowStartHolds
      <4>3. window.age \in 0 .. Minute /\ window.level \in Levels
        BY <2>1, <4>1 DEF LimiterType
      <4>4. Minute - window.age \in Nat \ {0}
        BY <1>2, <3>2, <4>1, <4>3 DEF WindowOver
      <4>5. EffectiveLimit(window.level) \in 1 .. DefaultRPM
        BY <4>3, EffectiveLimitBounds
      <4>6. window.count <= EffectiveLimit(window.level)
        BY <1>7, <2>1, <4>1, <4>2
      <4>7. QED BY <2>1, <4>1, <4>4, <4>5, <4>6
    <3>3. QED BY <3>1, <3>2
  <2>4. Admit(w, window)
    BY <1>4, <1>5, <1>6, <1>9 DEF Wait
  <2>5. PICK p \in {"call", "sleep"}, t \in Nat : To(w, p, t) /\ (p = "call" => t = 0)
    <3>1. CASE window.count < EffectiveLimit(window.level)
      BY <2>4, <3>1 DEF Admit
    <3>2. CASE ~(window.count < EffectiveLimit(window.level))
      <4>1. Minute - window.age > 0
        BY <2>3
      <4>2. To(w, "sleep", Minute - window.age)
        BY <2>4, <3>2, <4>1 DEF Admit
      <4>3. QED BY <2>3, <4>2
    <3>3. QED BY <3>1, <3>2
  <2>6. /\ limiter' \in LimiterType /\ limiter'.exists = TRUE /\ limiter'.inBackoff = FALSE
        /\ limiter'.count <= EffectiveLimit(limiter'.level)
    <3>1. window.count \in 0 .. DefaultRPM
      BY <2>3 DEF LimiterType
    <3>2. CASE window.count < EffectiveLimit(window.level)
      <4>1. limiter' = [window EXCEPT !.count = window.count + 1]
        BY <2>4, <3>2 DEF Admit
      <4>2. window.count + 1 \in 0 .. DefaultRPM /\ window.count + 1 <= EffectiveLimit(window.level)
        BY <1>2, <2>3, <3>1, <3>2
      <4>3. limiter'.count = window.count + 1 /\ limiter'.level = window.level /\ limiter'.exists = TRUE
            /\ limiter'.inBackoff = FALSE
        BY <2>3, <4>1 DEF LimiterType
      <4>4. limiter' \in LimiterType
        BY <2>3, <4>1, <4>2 DEF LimiterType
      <4>5. QED BY <4>2, <4>3, <4>4
    <3>3. CASE ~(window.count < EffectiveLimit(window.level))
      BY <2>3, <2>4, <3>3 DEF Admit
    <3>4. QED BY <3>2, <3>3
  <2>7. StrongTypeOK'
    BY <1>1, <1>3, <2>5, <2>6 DEF StrongTypeOK, TypeOK, To, slotVars, LimiterType, Levels
  <2>8. \A v \in Workers : PauseLeft(v)' = 0 /\ PauseLeft(v) \in Nat
    BY <1>1, <1>3, <2>6, TimesAreNumbers DEF PauseLeft
  <2>9. SleepCovers'
    BY <1>1, <1>3, <2>5, <2>7, <2>8, CoverFrame
  <2>10. NoPause' /\ GrowsWithPauses' /\ SlowStartHolds' /\ WindowEnds'
    BY <1>3, <2>6 DEF BackoffIInv, NoPause, GrowsWithPauses, SlowStartHolds, WindowEnds, slotVars
  <2>11. QED BY <2>7, <2>9, <2>10 DEF BackoffIInv
<1>10. QED BY <1>8, <1>9

\* Every step of a worker and every tick keeps the invariant.
LEMMA BackoffKept == BackoffIInv /\ [Next]_backoffVars => BackoffIInv'
<1> SUFFICES ASSUME BackoffIInv, [Next]_backoffVars PROVE BackoffIInv'
  OBVIOUS
<1>1. ASSUME NEW w \in Workers, Begin(w)
      PROVE  BackoffIInv'
  <2>1. CASE NoApplyBackoff(w)
    BY <2>1, NoApplyKeeps
  <2>2. CASE GlobalApplyBackoff(w)
    BY <2>2, SleepForKeeps DEF GlobalApplyBackoff, SlotOf
  <2>3. CASE PerWorkerApplyBackoff(w)
    BY <2>3, SleepForKeeps DEF PerWorkerApplyBackoff, SlotOf
  <2>4. CASE Wait(w)
    BY <2>4, WaitKeeps
  <2>5. QED BY <1>1, <2>1, <2>2, <2>3, <2>4 DEF Begin
<1>2. ASSUME NEW w \in Workers, Return(w)
      PROVE  BackoffIInv'
  <2>1. CASE NoActivateBackoff(w)
    BY <2>1, NoActivateKeeps
  <2>2. CASE ReportResult(w)
    BY <2>2, ReportKeeps
  <2>3. ASSUME NEW r \in RetryAfters, GlobalActivateBackoff(w, r)
        PROVE  BackoffIInv'
    BY <2>3, ActivateKeeps DEF GlobalActivateBackoff, SlotOf
  <2>4. ASSUME NEW r \in RetryAfters, PerWorkerActivateBackoff(w, r)
        PROVE  BackoffIInv'
    BY <2>4, ActivateKeeps DEF PerWorkerActivateBackoff, SlotOf
  <2>5. CASE Succeed(w)
    BY <2>5, SucceedKeeps
  <2>6. CASE FailOtherwise(w)
    BY <2>6, FailKeeps
  <2>7. QED BY <1>2, <2>1, <2>2, <2>3, <2>4, <2>5, <2>6 DEF Return, RateLimited
<1>3. ASSUME NEW w \in Workers, Wake(w) \/ PauseOver(w)
      PROVE  BackoffIInv'
  BY <1>3, WakeKeeps
<1>4. CASE Tick
  BY <1>4, TickKeeps
<1>5. CASE UNCHANGED backoffVars
  BY <1>5 DEF backoffVars, BackoffIInv, StrongTypeOK, TypeOK, SleepCovers, PauseLeft, SlotOf, NoPause,
              GrowsWithPauses, WindowEnds, SlowStartHolds
<1>6. QED BY <1>1, <1>2, <1>3, <1>4, <1>5 DEF Next

\* Under every strategy, for any number of workers and any limits: no worker calls inside
\* a pause it could know of, the backoff grows only with pauses that were asked for
\* (ActivateBackoff does nothing while one lasts), the adaptive limiter lets through no
\* more requests of a window than its level allows, and Wait never finds the window full
\* with none of it left, where it would unlock its mutex twice.
THEOREM BackoffHonoured == Spec => []BackoffInv
<1>1. BackoffIInv => BackoffInv
  <2> SUFFICES ASSUME BackoffIInv PROVE BackoffInv
    OBVIOUS
  <2>1. ASSUME NEW w \in Workers
        PROVE  /\ phase[w] = "call" /\ PauseLeft(w) > 0 => w \in overtaken
               /\ strategy = "perworker" => w \notin overtaken
    <3>1. PauseLeft(w) \in Nat
      BY TimesAreNumbers DEF BackoffIInv
    <3>2. QED BY <3>1 DEF BackoffIInv, SleepCovers
  <2>2. HonoursPause
    BY <2>1 DEF HonoursPause
  <2>3. QED BY <2>2 DEF BackoffInv, BackoffIInv, StrongTypeOK
<1>2. QED BY <1>1, BackoffStarts, BackoffKept, PTL DEF Spec

-----------------------------------------------------------------------------
(* Conversions: each part of a definition arrives in its normal form, and stays there. *)

\* int32(v) is a number of 32 bits, and keeps one.
LEMMA Int32Facts ==
    /\ Int32s \subseteq Int /\ 0 \in Int32s
    /\ \A v \in Int : Int32(v) \in Int32s
    /\ \A v \in Int32s : Int32(v) = v
<1>1. PICK h \in Nat \ {0} : h = Half
  BY ConversionAssumption
<1>2. ASSUME NEW a \in Int
      PROVE  a % (2 * h) \in 0 .. 2 * h - 1
  OBVIOUS
<1>3. ASSUME NEW a \in 0 .. 2 * h - 1
      PROVE  a % (2 * h) = a
  OBVIOUS
<1>4. ASSUME NEW v \in Int PROVE Int32(v) \in -h .. h - 1
  <2>1. (v + h) % (2 * h) \in 0 .. 2 * h - 1
    BY <1>2
  <2>2. QED BY <1>1, <2>1 DEF Int32
<1>5. ASSUME NEW v \in -h .. h - 1 PROVE Int32(v) = v
  <2>1. (v + h) % (2 * h) = v + h
    BY <1>3
  <2>2. QED BY <1>1, <2>1 DEF Int32
<1>6. QED BY <1>1, <1>4, <1>5 DEF Int32s

\* A value of a condition is sent as a number, a text, a bool or nothing; what is
\* received is in normal form.
LEMMA ConditionFacts ==
    ASSUME NEW c
    PROVE  /\ IsCondition(c, GoKinds) =>
                /\ IsCondition(convertModelCondition(c), WireKinds)
                /\ convertProtoCondition(convertModelCondition(c)) = NormalCondition(c)
           /\ IsCondition(c, WireKinds) =>
                /\ IsCondition(convertProtoCondition(c), GoKinds)
                /\ NormalCondition(convertProtoCondition(c)) = convertProtoCondition(c)
<1>1. ASSUME IsCondition(c, GoKinds)
      PROVE  /\ IsCondition(convertModelCondition(c), WireKinds)
             /\ convertProtoCondition(convertModelCondition(c)) = NormalCondition(c)
  <2>1. IsCondition(convertModelCondition(c), WireKinds)
    BY <1>1 DEF IsCondition, HasFields, GoKinds, WireKinds, GoNumbers, convertModelCondition
  <2>2. convertProtoCondition(convertModelCondition(c)) = NormalCondition(c)
    <3>1. PICK v : v = c.value
      OBVIOUS
    <3>2. PICK w : w = IF v.kind \in {"float64", "float32", "int", "int32", "int64"} THEN [v EXCEPT !.kind = "number"]
                       ELSE IF v.kind \in {"string", "bool", "nil"} THEN v
                       ELSE [kind |-> "string", of |-> <<"printed">> \o v.of]
      OBVIOUS
    <3>3. convertModelCondition(c) = [field |-> c.field, operator |-> c.operator, fieldPath |-> c.fieldPath, value |-> w]
      BY <3>1, <3>2 DEF convertModelCondition, GoNumbers
    <3>4. (IF w.kind = "number" THEN [w EXCEPT !.kind = "float64"] ELSE w) = NormalValue(v)
      BY <1>1, <3>1, <3>2 DEF IsCondition, HasFields, GoKinds, NormalValue
    <3>5. convertProtoCondition(convertModelCondition(c)) =
              [field |-> c.field, operator |-> c.operator, fieldPath |-> c.fieldPath, value |-> NormalValue(v)]
      BY <3>3, <3>4 DEF convertProtoCondition
    <3>6. QED BY <1>1, <3>1, <3>5 DEF IsCondition, HasFields, NormalCondition
  <2>3. QED BY <2>1, <2>2
<1>2. ASSUME IsCondition(c, WireKinds)
      PROVE  /\ IsCondition(convertProtoCondition(c), GoKinds)
             /\ NormalCondition(convertProtoCondition(c)) = convertProtoCondition(c)
  BY <1>2 DEF IsCondition, HasFields, GoKinds, WireKinds, convertProtoCondition, NormalCondition, NormalValue
<1>3. QED BY <1>1, <1>2

\* A list of the same length is one, too.
LEMMA MappedList ==
    ASSUME NEW x, List(x), NEW y, DOMAIN y = DOMAIN x, y = [i \in DOMAIN y |-> y[i]]
    PROVE  /\ List(y) /\ Len(y) = Len(x)
           /\ Optional(x) => Optional(y)
<1>1. PICK n \in Nat : n = Len(x)
  BY DEF List
<1>2. DOMAIN x = 1 .. n
  BY <1>1 DEF List, HasFields
<1>3. y = [i \in 1 .. n |-> y[i]]
  BY <1>2
<1>4. Len(y) = n
  BY <1>3
<1>5. QED BY <1>1, <1>3, <1>4 DEF List, HasFields, Optional

\* A branch arrives with its conditions in normal form and a priority of 32 bits.
LEMMA BranchFacts ==
    ASSUME NEW b
    PROVE  /\ IsBranch(b, Int, GoKinds) =>
                /\ IsBranch(convertModelConditionalBranch(b), Int32s, WireKinds)
                /\ convertProtoConditionalBranch(convertModelConditionalBranch(b)) = NormalBranch(b)
           /\ IsBranch(b, Int32s, WireKinds) =>
                /\ IsBranch(convertProtoConditionalBranch(b), Int, GoKinds)
                /\ NormalBranch(convertProtoConditionalBranch(b)) = convertProtoConditionalBranch(b)
<1>1. ASSUME IsBranch(b, Int, GoKinds)
      PROVE  /\ IsBranch(convertModelConditionalBranch(b), Int32s, WireKinds)
             /\ convertProtoConditionalBranch(convertModelConditionalBranch(b)) = NormalBranch(b)
  <2>1. PICK x : x = b.conditions
    OBVIOUS
  <2>2. List(x) /\ \A i \in DOMAIN x : IsCondition(x[i], GoKinds)
    BY <1>1, <2>1 DEF IsBranch
  <2>3. PICK y : y = Opt(convertModelCondition, x)
    OBVIOUS
  <2>4. DOMAIN y = DOMAIN x /\ y = [i \in DOMAIN y |-> y[i]] /\ \A i \in DOMAIN x : y[i] = convertModelCondition(x[i])
    BY <2>3 DEF Opt
  <2>5. List(y) /\ \A i \in DOMAIN y : IsCondition(y[i], WireKinds)
    BY <2>2, <2>4, MappedList, ConditionFacts
  <2>6. Opt(convertProtoCondition, y) = Opt(NormalCondition, x)
    BY <2>2, <2>4, ConditionFacts DEF Opt
  <2>7. PICK n \in Int32s : n = Int32(b.priority)
    BY <1>1, Int32Facts DEF IsBranch
  <2>8. convertModelConditionalBranch(b) = [name |-> b.name, conditions |-> y, priority |-> n]
    BY <2>1, <2>3, <2>7 DEF convertModelConditionalBranch
  <2>9. IsBranch(convertModelConditionalBranch(b), Int32s, WireKinds)
    BY <2>5, <2>7, <2>8 DEF IsBranch, HasFields
  <2>10. convertProtoConditionalBranch(convertModelConditionalBranch(b))
            = [name |-> b.name, conditions |-> Opt(NormalCondition, x), priority |-> n]
    BY <2>6, <2>8 DEF convertProtoConditionalBranch
  <2>12. NormalBranch(b) = [name |-> b.name, conditions |-> Opt(NormalCondition, x), priority |-> n]
    BY <2>1, <2>7 DEF NormalBranch
  <2>13. QED BY <2>9, <2>10, <2>12
<1>2. ASSUME IsBranch(b, Int32s, WireKinds)
      PROVE  /\ IsBranch(convertProtoConditionalBranch(b), Int, GoKinds)
             /\ NormalBranch(convertProtoConditionalBranch(b)) = convertProtoConditionalBranch(b)
  <2>1. PICK x : x = b.conditions
    OBVIOUS
  <2>2. List(x) /\ \A i \in DOMAIN x : IsCondition(x[i], WireKinds)
    BY <1>2, <2>1 DEF IsBranch
  <2>3. PICK y : y = Opt(convertProtoCondition, x)
    OBVIOUS
  <2>4. DOMAIN y = DOMAIN x /\ y = [i \in DOMAIN y |-> y[i]] /\ \A i \in DOMAIN x : y[i] = convertProtoCondition(x[i])
    BY <2>3 DEF Opt
  <2>5. List(y) /\ \A i \in DOMAIN y : IsCondition(y[i], GoKinds)
    BY <2>2, <2>4, MappedList, ConditionFacts
  <2>6. Opt(NormalCondition, y) = y
    BY <2>2, <2>4, ConditionFacts DEF Opt
  <2>7. PICK n \in Int32s : n = b.priority
    BY <1>2 DEF IsBranch
  <2>8. convertProtoConditionalBranch(b) = [name |-> b.name, conditions |-> y, priority |-> n]
    BY <2>1, <2>3, <2>7 DEF convertProtoConditionalBranch
  <2>9. n \in Int /\ Int32(n) = n
    BY <2>7, Int32Facts
  <2>10. IsBranch(convertProtoConditionalBranch(b), Int, GoKinds)
    BY <2>5, <2>8, <2>9 DEF IsBranch, HasFields
  <2>11. QED BY <2>6, <2>8, <2>9, <2>10 DEF NormalBranch
<1>3. QED BY <1>1, <1>2

\* Lists of branches.
LEMMA BranchesMapped ==
    ASSUME NEW x, List(x)
    PROVE  /\ (\A i \in DOMAIN x : IsBranch(x[i], Int, GoKinds)) =>
                /\ List(Opt(convertModelConditionalBranch, x)) /\ DOMAIN Opt(convertModelConditionalBranch, x) = DOMAIN x
                /\ \A i \in DOMAIN x : IsBranch(Opt(convertModelConditionalBranch, x)[i], Int32s, WireKinds)
                /\ Opt(convertProtoConditionalBranch, Opt(convertModelConditionalBranch, x)) = Opt(NormalBranch, x)
           /\ (\A i \in DOMAIN x : IsBranch(x[i], Int32s, WireKinds)) =>
                /\ List(Opt(convertProtoConditionalBranch, x)) /\ DOMAIN Opt(convertProtoConditionalBranch, x) = DOMAIN x
                /\ \A i \in DOMAIN x : IsBranch(Opt(convertProtoConditionalBranch, x)[i], Int, GoKinds)
                /\ Opt(NormalBranch, Opt(convertProtoConditionalBranch, x)) = Opt(convertProtoConditionalBranch, x)
<1>1. ASSUME \A i \in DOMAIN x : IsBranch(x[i], Int, GoKinds)
      PROVE  /\ List(Opt(convertModelConditionalBranch, x)) /\ DOMAIN Opt(convertModelConditionalBranch, x) = DOMAIN x
             /\ \A i \in DOMAIN x : IsBranch(Opt(convertModelConditionalBranch, x)[i], Int32s, WireKinds)
             /\ Opt(convertProtoConditionalBranch, Opt(convertModelConditionalBranch, x)) = Opt(NormalBranch, x)
  <2>1. PICK y : y = Opt(convertModelConditionalBranch, x)
    OBVIOUS
  <2>2. DOMAIN y = DOMAIN x /\ y = [i \in DOMAIN y |-> y[i]] /\ \A i \in DOMAIN x : y[i] = convertModelConditionalBranch(x[i])
    BY <2>1 DEF Opt
  <2>3. List(y)
    BY <2>2, MappedList DEF Optional
  <2>4. \A i \in DOMAIN x : IsBranch(y[i], Int32s, WireKinds)
    BY <1>1, <2>2, BranchFacts
  <2>5. Opt(convertProtoConditionalBranch, y) = Opt(NormalBranch, x)
    BY <1>1, <2>2, BranchFacts DEF Opt
  <2>6. QED BY <2>1, <2>2, <2>3, <2>4, <2>5
<1>2. ASSUME \A i \in DOMAIN x : IsBranch(x[i], Int32s, WireKinds)
      PROVE  /\ List(Opt(convertProtoConditionalBranch, x)) /\ DOMAIN Opt(convertProtoConditionalBranch, x) = DOMAIN x
             /\ \A i \in DOMAIN x : IsBranch(Opt(convertProtoConditionalBranch, x)[i], Int, GoKinds)
             /\ Opt(NormalBranch, Opt(convertProtoConditionalBranch, x)) = Opt(convertProtoConditionalBranch, x)
  <2>1. PICK y : y = Opt(convertProtoConditionalBranch, x)
    OBVIOUS
  <2>2. DOMAIN y = DOMAIN x /\ y = [i \in DOMAIN y |-> y[i]] /\ \A i \in DOMAIN x : y[i] = convertProtoConditionalBranch(x[i])
    BY <2>1 DEF Opt
  <2>3. List(y)
    BY <2>2, MappedList DEF Optional
  <2>4. \A i \in DOMAIN x : IsBranch(y[i], Int, GoKinds)
    BY <1>2, <2>2, BranchFacts
  <2>5. Opt(NormalBranch, y) = y
    BY <1>2, <2>2, BranchFacts DEF Opt
  <2>6. QED BY <2>1, <2>2, <2>3, <2>4, <2>5
<1>3. QED BY <1>1, <1>2

\* Decision points.
LEMMA PointFacts ==
    ASSUME NEW x
    PROVE  /\ IsPoint(x, Int, GoKinds) =>
                /\ IsPoint(convertModelDecisionPoint(x), Int32s, WireKinds)
                /\ convertProtoDecisionPoint(convertModelDecisionPoint(x)) = NormalPoint(x)
           /\ IsPoint(x, Int32s, WireKinds) =>
                /\ IsPoint(convertProtoDecisionPoint(x), Int, GoKinds)
                /\ NormalPoint(convertProtoDecisionPoint(x)) = convertProtoDecisionPoint(x)
<1>1. ASSUME IsPoint(x, Int, GoKinds)
      PROVE  /\ IsPoint(convertModelDecisionPoint(x), Int32s, WireKinds)
             /\ convertProtoDecisionPoint(convertModelDecisionPoint(x)) = NormalPoint(x)
  <2>1. HasFields(x, {"name", "prompt", "branches", "strategy"})
    BY <1>1 DEF IsPoint
  <2>2. PICK ybranches : ybranches = Opt(convertModelConditionalBranch, x.branches)
    OBVIOUS
  <2>3. List(x.branches) /\ \A i \in DOMAIN x.branches : IsBranch(x.branches[i], Int, GoKinds)
    BY <1>1 DEF IsPoint
  <2>4. List(ybranches) /\ (\A i \in DOMAIN ybranches : IsBranch(ybranches[i], Int32s, WireKinds)) /\ Opt(convertProtoConditionalBranch, ybranches) = Opt(NormalBranch, x.branches)
    BY <2>2, <2>3, BranchesMapped
  <2>5. convertModelDecisionPoint(x) = [name |-> x.name, prompt |-> x.prompt, branches |-> ybranches, strategy |-> x.strategy]
    BY <2>2, <2>4 DEF convertModelDecisionPoint
  <2>6. IsPoint(convertModelDecisionPoint(x), Int32s, WireKinds)
    BY <2>2, <2>4, <2>5 DEF IsPoint, HasFields
  <2>7. convertProtoDecisionPoint(convertModelDecisionPoint(x)) = [name |-> x.name, prompt |-> x.prompt, branches |-> Opt(NormalBranch, x.branches), strategy |-> x.strategy]
    BY <2>2, <2>4, <2>5 DEF convertProtoDecisionPoint
  <2>8. NormalPoint(x) = [name |-> x.name, prompt |-> x.prompt, branches |-> Opt(NormalBranch, x.branches), strategy |-> x.strategy]
    BY <2>2, <2>4, <2>1 DEF NormalPoint, HasFields
  <2>9. QED BY <2>6, <2>7, <2>8
<1>2. ASSUME IsPoint(x, Int32s, WireKinds)
      PROVE  /\ IsPoint(convertProtoDecisionPoint(x), Int, GoKinds)
             /\ NormalPoint(convertProtoDecisionPoint(x)) = convertProtoDecisionPoint(x)
  <2>1. HasFields(x, {"name", "prompt", "branches", "strategy"})
    BY <1>2 DEF IsPoint
  <2>2. PICK ybranches : ybranches = Opt(convertProtoConditionalBranch, x.branches)
    OBVIOUS
  <2>3. List(x.branches) /\ \A i \in DOMAIN x.branches : IsBranch(x.branches[i], Int32s, WireKinds)
    BY <1>2 DEF IsPoint
  <2>4. List(ybranches) /\ (\A i \in DOMAIN ybranches : IsBranch(ybranches[i], Int, GoKinds)) /\ Opt(NormalBranch, ybranches) = ybranches
    BY <2>2, <2>3, BranchesMapped
  <2>5. convertProtoDecisionPoint(x) = [name |-> x.name, prompt |-> x.prompt, branches |-> ybranches, strategy |-> x.strategy]
    BY <2>2, <2>4 DEF convertProtoDecisionPoint
  <2>6. IsPoint(convertProtoDecisionPoint(x), Int, GoKinds)
    BY <2>2, <2>4, <2>5 DEF IsPoint, HasFields
  <2>7. NormalPoint(convertProtoDecisionPoint(x)) = [name |-> x.name, prompt |-> x.prompt, branches |-> ybranches, strategy |-> x.strategy]
    BY <2>2, <2>4, <2>5 DEF NormalPoint
  <2>8. QED BY <2>5, <2>6, <2>7
<1>3. QED BY <1>1, <1>2

\* Optional decision points.
LEMMA PointsMapped ==
    ASSUME NEW x, Optional(x)
    PROVE  /\ (\A i \in DOMAIN x : IsPoint(x[i], Int, GoKinds)) =>
                /\ Optional(Opt(convertModelDecisionPoint, x)) /\ DOMAIN Opt(convertModelDecisionPoint, x) = DOMAIN x
                /\ \A i \in DOMAIN x : IsPoint(Opt(convertModelDecisionPoint, x)[i], Int32s, WireKinds)
                /\ Opt(convertProtoDecisionPoint, Opt(convertModelDecisionPoint, x)) = Opt(NormalPoint, x)
           /\ (\A i \in DOMAIN x : IsPoint(x[i], Int32s, WireKinds)) =>
                /\ Optional(Opt(convertProtoDecisionPoint, x)) /\ DOMAIN Opt(convertProtoDecisionPoint, x) = DOMAIN x
                /\ \A i \in DOMAIN x : IsPoint(Opt(convertProtoDecisionPoint, x)[i], Int, GoKinds)
                /\ Opt(NormalPoint, Opt(convertProtoDecisionPoint, x)) = Opt(convertProtoDecisionPoint, x)
<1>1. ASSUME \A i \in DOMAIN x : IsPoint(x[i], Int, GoKinds)
      PROVE  /\ Optional(Opt(convertModelDecisionPoint, x)) /\ DOMAIN Opt(convertModelDecisionPoint, x) = DOMAIN x
             /\ \A i \in DOMAIN x : IsPoint(Opt(convertModelDecisionPoint, x)[i], Int32s, WireKinds)
             /\ Opt(convertProtoDecisionPoint, Opt(convertModelDecisionPoint, x)) = Opt(NormalPoint, x)
  <2>1. PICK y : y = Opt(convertModelDecisionPoint, x)
    OBVIOUS
  <2>2. DOMAIN y = DOMAIN x /\ y = [i \in DOMAIN y |-> y[i]] /\ \A i \in DOMAIN x : y[i] = convertModelDecisionPoint(x[i])
    BY <2>1 DEF Opt
  <2>3. Optional(y)
    BY <2>2, MappedList DEF Optional
  <2>4. \A i \in DOMAIN x : IsPoint(y[i], Int32s, WireKinds)
    BY <1>1, <2>2, PointFacts
  <2>5. Opt(convertProtoDecisionPoint, y) = Opt(NormalPoint, x)
    BY <1>1, <2>2, PointFacts DEF Opt
  <2>6. QED BY <2>1, <2>2, <2>3, <2>4, <2>5
<1>2. ASSUME \A i \in DOMAIN x : IsPoint(x[i], Int32s, WireKinds)
      PROVE  /\ Optional(Opt(convertProtoDecisionPoint, x)) /\ DOMAIN Opt(convertProtoDecisionPoint, x) = DOMAIN x
             /\ \A i \in DOMAIN x : IsPoint(Opt(convertProtoDecisionPoint, x)[i], Int, GoKinds)
             /\ Opt(NormalPoint, Opt(convertProtoDecisionPoint, x)) = Opt(convertProtoDecisionPoint, x)
  <2>1. PICK y : y = Opt(convertProtoDecisionPoint, x)
    OBVIOUS
  <2>2. DOMAIN y = DOMAIN x /\ y = [i \in DOMAIN y |-> y[i]] /\ \A i \in DOMAIN x : y[i] = convertProtoDecisionPoint(x[i])
    BY <2>1 DEF Opt
  <2>3. Optional(y)
    BY <2>2, MappedList DEF Optional
  <2>4. \A i \in DOMAIN x : IsPoint(y[i], Int, GoKinds)
    BY <1>2, <2>2, PointFacts
  <2>5. Opt(NormalPoint, y) = y
    BY <1>2, <2>2, PointFacts DEF Opt
  <2>6. QED BY <2>1, <2>2, <2>3, <2>4, <2>5
<1>3. QED BY <1>1, <1>2

\* Recursive loops.
LEMMA LoopFacts ==
    ASSUME NEW x
    PROVE  /\ IsLoop(x, Int, GoKinds) =>
                /\ IsLoop(convertModelRecursiveLoop(x), Int32s, WireKinds)
                /\ convertProtoRecursiveLoop(convertModelRecursiveLoop(x)) = NormalLoop(x)
           /\ IsLoop(x, Int32s, WireKinds) =>
                /\ IsLoop(convertProtoRecursiveLoop(x), Int, GoKinds)
                /\ NormalLoop(convertProtoRecursiveLoop(x)) = convertProtoRecursiveLoop(x)
<1>1. ASSUME IsLoop(x, Int, GoKinds)
      PROVE  /\ IsLoop(convertModelRecursiveLoop(x), Int32s, WireKinds)
             /\ convertProtoRecursiveLoop(convertModelRecursiveLoop(x)) = NormalLoop(x)
  <2>1. HasFields(x, {"maxIterations", "selection", "feedback", "termination", "includePrevious"})
    BY <1>1 DEF IsLoop
  <2>2. PICK nmaxIterations \in Int32s : nmaxIterations = Int32(x.maxIterations)
    BY <1>1, Int32Facts DEF IsLoop
  <2>3. nmaxIterations \in Int /\ Int32(nmaxIterations) = nmaxIterations
    BY Int32Facts
  <2>4. PICK ytermination : ytermination = Opt(convertModelDecisionPoint, x.termination)
    OBVIOUS
  <2>5. Optional(x.termination) /\ \A i \in DOMAIN x.termination : IsPoint(x.termination[i], Int, GoKinds)
    BY <1>1 DEF IsLoop
  <2>6. Optional(ytermination) /\ (\A i \in DOMAIN ytermination : IsPoint(ytermination[i], Int32s, WireKinds)) /\ Opt(convertProtoDecisionPoint, ytermination) = Opt(NormalPoint, x.termination)
    BY <2>4, <2>5, PointsMapped
  <2>7. convertModelRecursiveLoop(x) = [maxIterations |-> nmaxIterations, selection |-> x.selection, feedback |-> x.feedback, termination |-> ytermination, includePrevious |-> x.includePrevious]
    BY <2>2, <2>3, <2>4, <2>6 DEF convertModelRecursiveLoop
  <2>8. IsLoop(convertModelRecursiveLoop(x), Int32s, WireKinds)
    BY <2>2, <2>3, <2>4, <2>6, <2>7 DEF IsLoop, HasFields
  <2>9. convertProtoRecursiveLoop(convertModelRecursiveLoop(x)) = [maxIterations |-> nmaxIterations, selection |-> x.selection, feedback |-> x.feedback, termination |-> Opt(NormalPoint, x.termination), includePrevious |-> x.includePrevious]
    BY <2>2, <2>3, <2>4, <2>6, <2>7 DEF convertProtoRecursiveLoop
  <2>10. NormalLoop(x) = [maxIterations |-> nmaxIterations, selection |-> x.selection, feedback |-> x.feedback, termination |-> Opt(NormalPoint, x.termination), includePrevious |-> x.includePrevious]
    BY <2>2, <2>3, <2>4, <2>6, <2>1 DEF NormalLoop, HasFields
  <2>11. QED BY <2>8, <2>9, <2>10
<1>2. ASSUME IsLoop(x, Int32s, WireKinds)
      PROVE  /\ IsLoop(convertProtoRecursiveLoop(x), Int, GoKinds)
             /\ NormalLoop(convertProtoRecursiveLoop(x)) = convertProtoRecursiveLoop(x)
  <2>1. HasFields(x, {"maxIterations", "selection", "feedback", "termination", "includePrevious"})
    BY <1>2 DEF IsLoop
  <2>2. PICK nmaxIterations \in Int32s : nmaxIterations = x.maxIterations
    BY <1>2 DEF IsLoop
  <2>3. nmaxIterations \in Int /\ Int32(nmaxIterations) = nmaxIterations
    BY Int32Facts
  <2>4. PICK ytermination : ytermination = Opt(convertProtoDecisionPoint, x.termination)
    OBVIOUS
  <2>5. Optional(x.termination) /\ \A i \in DOMAIN x.termination : IsPoint(x.termination[i], Int32s, WireKinds)
    BY <1>2 DEF IsLoop
  <2>6. Optional(ytermination) /\ (\A i \in DOMAIN ytermination : IsPoint(ytermination[i], Int, GoKinds)) /\ Opt(NormalPoint, ytermination) = ytermination
    BY <2>4, <2>5, PointsMapped
  <2>7. convertProtoRecursiveLoop(x) = [maxIterations |-> nmaxIterations, selection |-> x.selection, feedback |-> x.feedback, termination |-> ytermination, includePrevious |-> x.includePrevious]
    BY <2>2, <2>3, <2>4, <2>6 DEF convertProtoRecursiveLoop
  <2>8. IsLoop(convertProtoRecursiveLoop(x), Int, GoKinds)
    BY <2>2, <2>3, <2>4, <2>6, <2>7 DEF IsLoop, HasFields
  <2>9. NormalLoop(convertProtoRecursiveLoop(x)) = [maxIterations |-> nmaxIterations, selection |-> x.selection, feedback |-> x.feedback, termination |-> ytermination, includePrevious |-> x.includePrevious]
    BY <2>2, <2>3, <2>4, <2>6, <2>7 DEF NormalLoop
  <2>10. QED BY <2>7, <2>8, <2>9
<1>3. QED BY <1>1, <1>2

\* Optional loops.
LEMMA LoopsMapped ==
    ASSUME NEW x, Optional(x)
    PROVE  /\ (\A i \in DOMAIN x : IsLoop(x[i], Int, GoKinds)) =>
                /\ Optional(Opt(convertModelRecursiveLoop, x)) /\ DOMAIN Opt(convertModelRecursiveLoop, x) = DOMAIN x
                /\ \A i \in DOMAIN x : IsLoop(Opt(convertModelRecursiveLoop, x)[i], Int32s, WireKinds)
                /\ Opt(convertProtoRecursiveLoop, Opt(convertModelRecursiveLoop, x)) = Opt(NormalLoop, x)
           /\ (\A i \in DOMAIN x : IsLoop(x[i], Int32s, WireKinds)) =>
                /\ Optional(Opt(convertProtoRecursiveLoop, x)) /\ DOMAIN Opt(convertProtoRecursiveLoop, x) = DOMAIN x
                /\ \A i \in DOMAIN x : IsLoop(Opt(convertProtoRecursiveLoop, x)[i], Int, GoKinds)
                /\ Opt(NormalLoop, Opt(convertProtoRecursiveLoop, x)) = Opt(convertProtoRecursiveLoop, x)
<1>1. ASSUME \A i \in DOMAIN x : IsLoop(x[i], Int, GoKinds)
      PROVE  /\ Optional(Opt(convertModelRecursiveLoop, x)) /\ DOMAIN Opt(convertModelRecursiveLoop, x) = DOMAIN x
             /\ \A i \in DOMAIN x : IsLoop(Opt(convertModelRecursiveLoop, x)[i], Int32s, WireKinds)
             /\ Opt(convertProtoRecursiveLoop, Opt(convertModelRecursiveLoop, x)) = Opt(NormalLoop, x)
  <2>1. PICK y : y = Opt(convertModelRecursiveLoop, x)
    OBVIOUS
  <2>2. DOMAIN y = DOMAIN x /\ y = [i \in DOMAIN y |-> y[i]] /\ \A i \in DOMAIN x : y[i] = convertModelRecursiveLoop(x[i])
    BY <2>1 DEF Opt
  <2>3. Optional(y)
    BY <2>2, MappedList DEF Optional
  <2>4. \A i \in DOMAIN x : IsLoop(y[i], Int32s, WireKinds)
    BY <1>1, <2>2, LoopFacts
  <2>5. Opt(convertProtoRecursiveLoop, y) = Opt(NormalLoop, x)
    BY <1>1, <2>2, LoopFacts DEF Opt
  <2>6. QED BY <2>1, <2>2, <2>3, <2>4, <2>5
<1>2. ASSUME \A i \in DOMAIN x : IsLoop(x[i], Int32s, WireKinds)
      PROVE  /\ Optional(Opt(convertProtoRecursiveLoop, x)) /\ DOMAIN Opt(convertProtoRecursiveLoop, x) = DOMAIN x
             /\ \A i \in DOMAIN x : IsLoop(Opt(convertProtoRecursiveLoop, x)[i], Int, GoKinds)
             /\ Opt(NormalLoop, Opt(convertProtoRecursiveLoop, x)) = Opt(convertProtoRecursiveLoop, x)
  <2>1. PICK y : y = Opt(convertProtoRecursiveLoop, x)
    OBVIOUS
  <2>2. DOMAIN y = DOMAIN x /\ y = [i \in DOMAIN y |-> y[i]] /\ \A i \in DOMAIN x : y[i] = convertProtoRecursiveLoop(x[i])
    BY <2>1 DEF Opt
  <2>3. Optional(y)
    BY <2>2, MappedList DEF Optional
  <2>4. \A i \in DOMAIN x : IsLoop(y[i], Int, GoKinds)
    BY <1>2, <2>2, LoopFacts
  <2>5. Opt(NormalLoop, y) = y
    BY <1>2, <2>2, LoopFacts DEF Opt
  <2>6. QED BY <2>1, <2>2, <2>3, <2>4, <2>5
<1>3. QED BY <1>1, <1>2

\* Scales.
LEMMA ScaleFacts ==
    ASSUME NEW x
    PROVE  /\ IsScale(x, Int) =>
                /\ IsScale(convertModelScoreScale(x), Int32s)
                /\ convertProtoScoreScale(convertModelScoreScale(x)) = NormalScale(x)
           /\ IsScale(x, Int32s) =>
                /\ IsScale(convertProtoScoreScale(x), Int)
                /\ NormalScale(convertProtoScoreScale(x)) = convertProtoScoreScale(x)
<1>1. ASSUME IsScale(x, Int)
      PROVE  /\ IsScale(convertModelScoreScale(x), Int32s)
             /\ convertProtoScoreScale(convertModelScoreScale(x)) = NormalScale(x)
  <2>1. HasFields(x, {"min", "max"})
    BY <1>1 DEF IsScale
  <2>2. PICK nmin \in Int32s : nmin = Int32(x.min)
    BY <1>1, Int32Facts DEF IsScale
  <2>3. nmin \in Int /\ Int32(nmin) = nmin
    BY Int32Facts
  <2>4. PICK nmax \in Int32s : nmax = Int32(x.max)
    BY <1>1, Int32Facts DEF IsScale
  <2>5. nmax \in Int /\ Int32(nmax) = nmax
    BY Int32Facts
  <2>6. convertModelScoreScale(x) = [min |-> nmin, max |-> nmax]
    BY <2>2, <2>3, <2>4, <2>5 DEF convertModelScoreScale
  <2>7. IsScale(convertModelScoreScale(x), Int32s)
    BY <2>2, <2>3, <2>4, <2>5, <2>6 DEF IsScale, HasFields
  <2>8. convertProtoScoreScale(convertModelScoreScale(x)) = [min |-> nmin, max |-> nmax]
    BY <2>2, <2>3, <2>4, <2>5, <2>6 DEF convertProtoScoreScale
  <2>9. NormalScale(x) = [min |-> nmin, max |-> nmax]
    BY <2>2, <2>3, <2>4, <2>5, <2>1 DEF NormalScale, HasFields
  <2>10. QED BY <2>7, <2>8, <2>9
<1>2. ASSUME IsScale(x, Int32s)
      PROVE  /\ IsScale(convertProtoScoreScale(x), Int)
             /\ NormalScale(convertProtoScoreScale(x)) = convertProtoScoreScale(x)
  <2>1. HasFields(x, {"min", "max"})
    BY <1>2 DEF IsScale
  <2>2. PICK nmin \in Int32s : nmin = x.min
    BY <1>2 DEF IsScale
  <2>3. nmin \in Int /\ Int32(nmin) = nmin
    BY Int32Facts
  <2>4. PICK nmax \in Int32s : nmax = x.max
    BY <1>2 DEF IsScale
  <2>5. nmax \in Int /\ Int32(nmax) = nmax
    BY Int32Facts
  <2>6. convertProtoScoreScale(x) = [min |-> nmin, max |-> nmax]
    BY <2>2, <2>3, <2>4, <2>5 DEF convertProtoScoreScale
  <2>7. IsScale(convertProtoScoreScale(x), Int)
    BY <2>2, <2>3, <2>4, <2>5, <2>6 DEF IsScale, HasFields
  <2>8. NormalScale(convertProtoScoreScale(x)) = [min |-> nmin, max |-> nmax]
    BY <2>2, <2>3, <2>4, <2>5, <2>6 DEF NormalScale
  <2>9. QED BY <2>6, <2>7, <2>8
<1>3. QED BY <1>1, <1>2

\* Optional scales.
LEMMA ScalesMapped ==
    ASSUME NEW x, Optional(x)
    PROVE  /\ (\A i \in DOMAIN x : IsScale(x[i], Int)) =>
                /\ Optional(Opt(convertModelScoreScale, x)) /\ DOMAIN Opt(convertModelScoreScale, x) = DOMAIN x
                /\ \A i \in DOMAIN x : IsScale(Opt(convertModelScoreScale, x)[i], Int32s)
                /\ Opt(convertProtoScoreScale, Opt(convertModelScoreScale, x)) = Opt(NormalScale, x)
           /\ (\A i \in DOMAIN x : IsScale(x[i], Int32s)) =>
                /\ Optional(Opt(convertProtoScoreScale, x)) /\ DOMAIN Opt(convertProtoScoreScale, x) = DOMAIN x
                /\ \A i \in DOMAIN x : IsScale(Opt(convertProtoScoreScale, x)[i], Int)
                /\ Opt(NormalScale, Opt(convertProtoScoreScale, x)) = Opt(convertProtoScoreScale, x)
<1>1. ASSUME \A i \in DOMAIN x : IsScale(x[i], Int)
      PROVE  /\ Optional(Opt(convertModelScoreScale, x)) /\ DOMAIN Opt(convertModelScoreScale, x) = DOMAIN x
             /\ \A i \in DOMAIN x : IsScale(Opt(convertModelScoreScale, x)[i], Int32s)
             /\ Opt(convertProtoScoreScale, Opt(convertModelScoreScale, x)) = Opt(NormalScale, x)
  <2>1. PICK y : y = Opt(convertModelScoreScale, x)
    OBVIOUS
  <2>2. DOMAIN y = DOMAIN x /\ y = [i \in DOMAIN y |-> y[i]] /\ \A i \in DOMAIN x : y[i] = convertModelScoreScale(x[i])
    BY <2>1 DEF Opt
  <2>3. Optional(y)
    BY <2>2, MappedList DEF Optional
  <2>4. \A i \in DOMAIN x : IsScale(y[i], Int32s)
    BY <1>1, <2>2, ScaleFacts
  <2>5. Opt(convertProtoScoreScale, y) = Opt(NormalScale, x)
    BY <1>1, <2>2, ScaleFacts DEF Opt
  <2>6. QED BY <2>1, <2>2, <2>3, <2>4, <2>5
<1>2. ASSUME \A i \in DOMAIN x : IsScale(x[i], Int32s)
      PROVE  /\ Optional(Opt(convertProtoScoreScale, x)) /\ DOMAIN Opt(convertProtoScoreScale, x) = DOMAIN x
             /\ \A i \in DOMAIN x : IsScale(Opt(convertProtoScoreScale, x)[i], Int)
             /\ Opt(NormalScale, Opt(convertProtoScoreScale, x)) = Opt(convertProtoScoreScale, x)
  <2>1. PICK y : y = Opt(convertProtoScoreScale, x)
    OBVIOUS
  <2>2. DOMAIN y = DOMAIN x /\ y = [i \in DOMAIN y |-> y[i]] /\ \A i \in DOMAIN x : y[i] = convertProtoScoreScale(x[i])
    BY <2>1 DEF Opt
  <2>3. Optional(y)
    BY <2>2, MappedList DEF Optional
  <2>4. \A i \in DOMAIN x : IsScale(y[i], Int)
    BY <1>2, <2>2, ScaleFacts
  <2>5. Opt(NormalScale, y) = y
    BY <1>2, <2>2, ScaleFacts DEF Opt
  <2>6. QED BY <2>1, <2>2, <2>3, <2>4, <2>5
<1>3. QED BY <1>1, <1>2

\* Dimensions of a score.
LEMMA DimensionFacts ==
    ASSUME NEW x
    PROVE  /\ IsDimension(x, Int) =>
                /\ IsDimension(convertModelScoringDimension(x), Int32s)
                /\ convertProtoScoringDimension(convertModelScoringDimension(x)) = NormalDimension(x)
           /\ IsDimension(x, Int32s) =>
                /\ IsDimension(convertProtoScoringDimension(x), Int)
                /\ NormalDimension(convertProtoScoringDimension(x)) = convertProtoScoringDimension(x)
<1>1. ASSUME IsDimension(x, Int)
      PROVE  /\ IsDimension(convertModelScoringDimension(x), Int32s)
             /\ convertProtoScoringDimension(convertModelScoringDimension(x)) = NormalDimension(x)
  <2>1. HasFields(x, {"description", "scale", "type", "weight"})
    BY <1>1 DEF IsDimension
  <2>2. PICK yscale : yscale = Opt(convertModelScoreScale, x.scale)
    OBVIOUS
  <2>3. Optional(x.scale) /\ \A i \in DOMAIN x.scale : IsScale(x.scale[i], Int)
    BY <1>1 DEF IsDimension
  <2>4. Optional(yscale) /\ (\A i \in DOMAIN yscale : IsScale(yscale[i], Int32s)) /\ Opt(convertProtoScoreScale, yscale) = Opt(NormalScale, x.scale)
    BY <2>2, <2>3, ScalesMapped
  <2>5. convertModelScoringDimension(x) = [description |-> x.description, scale |-> yscale, type |-> x.type, weight |-> x.weight]
    BY <2>2, <2>4 DEF convertModelScoringDimension
  <2>6. IsDimension(convertModelScoringDimension(x), Int32s)
    BY <2>2, <2>4, <2>5 DEF IsDimension, HasFields
  <2>7. convertProtoScoringDimension(convertModelScoringDimension(x)) = [description |-> x.description, scale |-> Opt(NormalScale, x.scale), type |-> x.type, weight |-> x.weight]
    BY <2>2, <2>4, <2>5 DEF convertProtoScoringDimension
  <2>8. NormalDimension(x) = [description |-> x.description, scale |-> Opt(NormalScale, x.scale), type |-> x.type, weight |-> x.weight]
    BY <2>2, <2>4, <2>1 DEF NormalDimension, HasFields
  <2>9. QED BY <2>6, <2>7, <2>8
<1>2. ASSUME IsDimension(x, Int32s)
      PROVE  /\ IsDimension(convertProtoScoringDimension(x), Int)
             /\ NormalDimension(convertProtoScoringDimension(x)) = convertProtoScoringDimension(x)
  <2>1. HasFields(x, {"description", "scale", "type", "weight"})
    BY <1>2 DEF IsDimension
  <2>2. PICK yscale : yscale = Opt(convertProtoScoreScale, x.scale)
    OBVIOUS
  <2>3. Optional(x.scale) /\ \A i \in DOMAIN x.scale : IsScale(x.scale[i], Int32s)
    BY <1>2 DEF IsDimension
  <2>4. Optional(yscale) /\ (\A i \in DOMAIN yscale : IsScale(yscale[i], Int)) /\ Opt(NormalScale, yscale) = yscale
    BY <2>2, <2>3, ScalesMapped
  <2>5. convertProtoScoringDimension(x) = [description |-> x.description, scale |-> yscale, type |-> x.type, weight |-> x.weight]
    BY <2>2, <2>4 DEF convertProtoScoringDimension
  <2>6. IsDimension(convertProtoScoringDimension(x), Int)
    BY <2>2, <2>4, <2>5 DEF IsDimension, HasFields
  <2>7. NormalDimension(convertProtoScoringDimension(x)) = [description |-> x.description, scale |-> yscale, type |-> x.type, weight |-> x.weight]
    BY <2>2, <2>4, <2>5 DEF NormalDimension
  <2>8. QED BY <2>5, <2>6, <2>7
<1>3. QED BY <1>1, <1>2

\* Maps of dimensions.
LEMMA DimensionsMapped ==
    ASSUME NEW x, HasFields(x, DOMAIN x)
    PROVE  /\ (\A i \in DOMAIN x : IsDimension(x[i], Int)) =>
                /\ HasFields(MapValues(convertModelScoringDimension, x), DOMAIN x) /\ DOMAIN MapValues(convertModelScoringDimension, x) = DOMAIN x
                /\ \A i \in DOMAIN x : IsDimension(MapValues(convertModelScoringDimension, x)[i], Int32s)
                /\ MapValues(convertProtoScoringDimension, MapValues(convertModelScoringDimension, x)) = MapValues(NormalDimension, x)
           /\ (\A i \in DOMAIN x : IsDimension(x[i], Int32s)) =>
                /\ HasFields(MapValues(convertProtoScoringDimension, x), DOMAIN x) /\ DOMAIN MapValues(convertProtoScoringDimension, x) = DOMAIN x
                /\ \A i \in DOMAIN x : IsDimension(MapValues(convertProtoScoringDimension, x)[i], Int)
                /\ MapValues(NormalDimension, MapValues(convertProtoScoringDimension, x)) = MapValues(convertProtoScoringDimension, x)
<1>1. ASSUME \A i \in DOMAIN x : IsDimension(x[i], Int)
      PROVE  /\ HasFields(MapValues(convertModelScoringDimension, x), DOMAIN x) /\ DOMAIN MapValues(convertModelScoringDimension, x) = DOMAIN x
             /\ \A i \in DOMAIN x : IsDimension(MapValues(convertModelScoringDimension, x)[i], Int32s)
             /\ MapValues(convertProtoScoringDimension, MapValues(convertModelScoringDimension, x)) = MapValues(NormalDimension, x)
  <2>1. PICK y : y = MapValues(convertModelScoringDimension, x)
    OBVIOUS
  <2>2. DOMAIN y = DOMAIN x /\ y = [i \in DOMAIN y |-> y[i]] /\ \A i \in DOMAIN x : y[i] = convertModelScoringDimension(x[i])
    BY <2>1 DEF MapValues
  <2>3. HasFields(y, DOMAIN x)
    BY <2>2 DEF HasFields
  <2>4. \A i \in DOMAIN x : IsDimension(y[i], Int32s)
    BY <1>1, <2>2, DimensionFacts
  <2>5. MapValues(convertProtoScoringDimension, y) = MapValues(NormalDimension, x)
    BY <1>1, <2>2, DimensionFacts DEF MapValues
  <2>6. QED BY <2>1, <2>2, <2>3, <2>4, <2>5
<1>2. ASSUME \A i \in DOMAIN x : IsDimension(x[i], Int32s)
      PROVE  /\ HasFields(MapValues(convertProtoScoringDimension, x), DOMAIN x) /\ DOMAIN MapValues(convertProtoScoringDimension, x) = DOMAIN x
             /\ \A i \in DOMAIN x : IsDimension(MapValues(convertProtoScoringDimension, x)[i], Int)
             /\ MapValues(NormalDimension, MapValues(convertProtoScoringDimension, x)) = MapValues(convertProtoScoringDimension, x)
  <2>1. PICK y : y = MapValues(convertProtoScoringDimension, x)
    OBVIOUS
  <2>2. DOMAIN y = DOMAIN x /\ y = [i \in DOMAIN y |-> y[i]] /\ \A i \in DOMAIN x : y[i] = convertProtoScoringDimension(x[i])
    BY <2>1 DEF MapValues
  <2>3. HasFields(y, DOMAIN x)
    BY <2>2 DEF HasFields
  <2>4. \A i \in DOMAIN x : IsDimension(y[i], Int)
    BY <1>2, <2>2, DimensionFacts
  <2>5. MapValues(NormalDimension, y) = y
    BY <1>2, <2>2, DimensionFacts DEF MapValues
  <2>6. QED BY <2>1, <2>2, <2>3, <2>4, <2>5
<1>3. QED BY <1>1, <1>2

\* Criteria of a score.
LEMMA ScoringFacts ==
    ASSUME NEW x
    PROVE  /\ IsScoring(x, Int) =>
                /\ IsScoring(convertModelScoringCriteria(x), Int32s)
                /\ convertProtoScoringCriteria(convertModelScoringCriteria(x)) = NormalScoring(x)
           /\ IsScoring(x, Int32s) =>
                /\ IsScoring(convertProtoScoringCriteria(x), Int)
                /\ NormalScoring(convertProtoScoringCriteria(x)) = convertProtoScoringCriteria(x)
<1>1. ASSUME IsScoring(x, Int)
      PROVE  /\ IsScoring(convertModelScoringCriteria(x), Int32s)
             /\ convertProtoScoringCriteria(convertModelScoringCriteria(x)) = NormalScoring(x)
  <2>1. HasFields(x, {"dimensions", "model", "method"})
    BY <1>1 DEF IsScoring
  <2>2. PICK ydimensions : ydimensions = MapValues(convertModelScoringDimension, x.dimensions)
    OBVIOUS
  <2>3. HasFields(x.dimensions, DOMAIN x.dimensions) /\ \A i \in DOMAIN x.dimensions : IsDimension(x.dimensions[i], Int)
    BY <1>1 DEF IsScoring
  <2>4. HasFields(ydimensions, DOMAIN ydimensions) /\ (\A i \in DOMAIN ydimensions : IsDimension(ydimensions[i], Int32s)) /\ MapValues(convertProtoScoringDimension, ydimensions) = MapValues(NormalDimension, x.dimensions)
    BY <2>2, <2>3, DimensionsMapped
  <2>5. convertModelScoringCriteria(x) = [dimensions |-> ydimensions, model |-> x.model, method |-> x.method]
    BY <2>2, <2>4 DEF convertModelScoringCriteria
  <2>6. IsScoring(convertModelScoringCriteria(x), Int32s)
    BY <2>2, <2>4, <2>5 DEF IsScoring, HasFields
  <2>7. convertProtoScoringCriteria(convertModelScoringCriteria(x)) = [dimensions |-> MapValues(NormalDimension, x.dimensions), model |-> x.model, method |-> x.method]
    BY <2>2, <2>4, <2>5 DEF convertProtoScoringCriteria
  <2>8. NormalScoring(x) = [dimensions |-> MapValues(NormalDimension, x.dimensions), model |-> x.model, method |-> x.method]
    BY <2>2, <2>4, <2>1 DEF NormalScoring, HasFields
  <2>9. QED BY <2>6, <2>7, <2>8
<1>2. ASSUME IsScoring(x, Int32s)
      PROVE  /\ IsScoring(convertProtoScoringCriteria(x), Int)
             /\ NormalScoring(convertProtoScoringCriteria(x)) = convertProtoScoringCriteria(x)
  <2>1. HasFields(x, {"dimensions", "model", "method"})
    BY <1>2 DEF IsScoring
  <2>2. PICK ydimensions : ydimensions = MapValues(convertProtoScoringDimension, x.dimensions)
    OBVIOUS
  <2>3. HasFields(x.dimensions, DOMAIN x.dimensions) /\ \A i \in DOMAIN x.dimensions : IsDimension(x.dimensions[i], Int32s)
    BY <1>2 DEF IsScoring
  <2>4. HasFields(ydimensions, DOMAIN ydimensions) /\ (\A i \in DOMAIN ydimensions : IsDimension(ydimensions[i], Int)) /\ MapValues(NormalDimension, ydimensions) = ydimensions
    BY <2>2, <2>3, DimensionsMapped
  <2>5. convertProtoScoringCriteria(x) = [dimensions |-> ydimensions, model |-> x.model, method |-> x.method]
    BY <2>2, <2>4 DEF convertProtoScoringCriteria
  <2>6. IsScoring(convertProtoScoringCriteria(x), Int)
    BY <2>2, <2>4, <2>5 DEF IsScoring, HasFields
  <2>7. NormalScoring(convertProtoScoringCriteria(x)) = [dimensions |-> ydimensions, model |-> x.model, method |-> x.method]
    BY <2>2, <2>4, <2>5 DEF NormalScoring
  <2>8. QED BY <2>5, <2>6, <2>7
<1>3. QED BY <1>1, <1>2

\* Optional criteria.
LEMMA ScoringsMapped ==
    ASSUME NEW x, Optional(x)
    PROVE  /\ (\A i \in DOMAIN x : IsScoring(x[i], Int)) =>
                /\ Optional(Opt(convertModelScoringCriteria, x)) /\ DOMAIN Opt(convertModelScoringCriteria, x) = DOMAIN x
                /\ \A i \in DOMAIN x : IsScoring(Opt(convertModelScoringCriteria, x)[i], Int32s)
                /\ Opt(convertProtoScoringCriteria, Opt(convertModelScoringCriteria, x)) = Opt(NormalScoring, x)
           /\ (\A i \in DOMAIN x : IsScoring(x[i], Int32s)) =>
                /\ Optional(Opt(convertProtoScoringCriteria, x)) /\ DOMAIN Opt(convertProtoScoringCriteria, x) = DOMAIN x
                /\ \A i \in DOMAIN x : IsScoring(Opt(convertProtoScoringCriteria, x)[i], Int)
                /\ Opt(NormalScoring, Opt(convertProtoScoringCriteria, x)) = Opt(convertProtoScoringCriteria, x)
<1>1. ASSUME \A i \in DOMAIN x : IsScoring(x[i], Int)
      PROVE  /\ Optional(Opt(convertModelScoringCriteria, x)) /\ DOMAIN Opt(convertModelScoringCriteria, x) = DOMAIN x
             /\ \A i \in DOMAIN x : IsScoring(Opt(convertModelScoringCriteria, x)[i], Int32s)
             /\ Opt(convertProtoScoringCriteria, Opt(convertModelScoringCriteria, x)) = Opt(NormalScoring, x)
  <2>1. PICK y : y = Opt(convertModelScoringCriteria, x)
    OBVIOUS
  <2>2. DOMAIN y = DOMAIN x /\ y = [i \in DOMAIN y |-> y[i]] /\ \A i \in DOMAIN x : y[i] = convertModelScoringCriteria(x[i])
    BY <2>1 DEF Opt
  <2>3. Optional(y)
    BY <2>2, MappedList DEF Optional
  <2>4. \A i \in DOMAIN x : IsScoring(y[i], Int32s)
    BY <1>1, <2>2, ScoringFacts
  <2>5. Opt(convertProtoScoringCriteria, y) = Opt(NormalScoring, x)
    BY <1>1, <2>2, ScoringFacts DEF Opt
  <2>6. QED BY <2>1, <2>2, <2>3, <2>4, <2>5
<1>2. ASSUME \A i \in DOMAIN x : IsScoring(x[i], Int32s)
      PROVE  /\ Optional(Opt(convertProtoScoringCriteria, x)) /\ DOMAIN Opt(convertProtoScoringCriteria, x) = DOMAIN x
             /\ \A i \in DOMAIN x : IsScoring(Opt(convertProtoScoringCriteria, x)[i], Int)
             /\ Opt(NormalScoring, Opt(convertProtoScoringCriteria, x)) = Opt(convertProtoScoringCriteria, x)
  <2>1. PICK y : y = Opt(convertProtoScoringCriteria, x)
    OBVIOUS
  <2>2. DOMAIN y = DOMAIN x /\ y = [i \in DOMAIN y |-> y[i]] /\ \A i \in DOMAIN x : y[i] = convertProtoScoringCriteria(x[i])
    BY <2>1 DEF Opt
  <2>3. Optional(y)
    BY <2>2, MappedList DEF Optional
  <2>4. \A i \in DOMAIN x : IsScoring(y[i], Int)
    BY <1>2, <2>2, ScoringFacts
  <2>5. Opt(NormalScoring, y) = y
    BY <1>2, <2>2, ScoringFacts DEF Opt
  <2>6. QED BY <2>1, <2>2, <2>3, <2>4, <2>5
<1>3. QED BY <1>1, <1>2

\* Texts: an empty one and none are the same on the wire.
LEMMA PromptFacts ==
    /\ \A p : Optional(p) => getStringPointer(stringOf(p)) = NormalPrompt(p)
    /\ \A s : Optional(getStringPointer(s)) /\ NormalPrompt(getStringPointer(s)) = getStringPointer(s)
<1>1. ASSUME NEW p, Optional(p) PROVE getStringPointer(stringOf(p)) = NormalPrompt(p)
  <2>1. p = <<>> \/ \E s : p = <<s>>
    BY <1>1 DEF Optional, List, HasFields
  <2>2. CASE p = <<>>
    BY <2>2 DEF getStringPointer, stringOf, NormalPrompt
  <2>3. ASSUME NEW s, p = <<s>> PROVE getStringPointer(stringOf(p)) = NormalPrompt(p)
    <3>1. stringOf(p) = s
      BY <2>3 DEF stringOf
    <3>2. CASE s = ""
      BY <2>3, <3>1, <3>2 DEF getStringPointer, NormalPrompt
    <3>3. CASE s # ""
      <4>1. p # <<"">>
        BY <2>3, <3>3
      <4>2. QED BY <2>3, <3>1, <3>3, <4>1 DEF getStringPointer, NormalPrompt
    <3>4. QED BY <3>2, <3>3
  <2>4. QED BY <2>1, <2>2, <2>3
<1>2. ASSUME NEW s
      PROVE  Optional(getStringPointer(s)) /\ NormalPrompt(getStringPointer(s)) = getStringPointer(s)
  <2>1. CASE s = ""
    <3>1. getStringPointer(s) = <<>>
      BY <2>1 DEF getStringPointer
    <3>2. QED BY <3>1 DEF NormalPrompt, Optional, List, HasFields
  <2>2. CASE s # ""
    <3>1. getStringPointer(s) = <<s>>
      BY <2>2 DEF getStringPointer
    <3>2. <<s>> # <<"">>
      BY <2>2
    <3>3. Optional(<<s>>)
      BY DEF Optional, List, HasFields
    <3>4. QED BY <3>1, <3>2, <3>3 DEF NormalPrompt
  <2>3. QED BY <2>1, <2>2
<1>3. QED BY <1>1, <1>2

\* The number of judges; a message may leave the part out.
LEMMA EpistemicFacts ==
    ASSUME NEW x
    PROVE  /\ IsEpistemic(x, Int) =>
                /\ Optional(convertModelEpistemicValidation(x))
                /\ \A i \in DOMAIN convertModelEpistemicValidation(x) :
                      IsEpistemic(convertModelEpistemicValidation(x)[i], Int32s)
                /\ convertProtoEpistemicValidation(convertModelEpistemicValidation(x)) = [active |-> x.active, judges |-> Int32(x.judges)]
           /\ Optional(x) /\ (\A i \in DOMAIN x : IsEpistemic(x[i], Int32s)) =>
                /\ IsEpistemic(convertProtoEpistemicValidation(x), Int)
                /\ Int32(convertProtoEpistemicValidation(x).judges) = convertProtoEpistemicValidation(x).judges
<1>1. ASSUME IsEpistemic(x, Int)
      PROVE  /\ Optional(convertModelEpistemicValidation(x))
             /\ \A i \in DOMAIN convertModelEpistemicValidation(x) :
                   IsEpistemic(convertModelEpistemicValidation(x)[i], Int32s)
             /\ convertProtoEpistemicValidation(convertModelEpistemicValidation(x)) = [active |-> x.active, judges |-> Int32(x.judges)]
  <2>1. PICK n \in Int32s : n = Int32(x.judges)
    BY <1>1, Int32Facts DEF IsEpistemic
  <2>2. PICK y : y = [active |-> x.active, judges |-> n]
    OBVIOUS
  <2>3. convertModelEpistemicValidation(x) = <<y>>
    BY <2>1, <2>2 DEF convertModelEpistemicValidation
  <2>4. IsEpistemic(y, Int32s)
    BY <2>1, <2>2 DEF IsEpistemic, HasFields
  <2>5. Optional(<<y>>) /\ \A i \in DOMAIN <<y>> : <<y>>[i] = y
    BY DEF Optional, List, HasFields
  <2>6. convertProtoEpistemicValidation(<<y>>) = [active |-> y.active, judges |-> y.judges]
    BY DEF convertProtoEpistemicValidation
  <2>7. y.active = x.active /\ y.judges = n
    BY <2>2
  <2>8. QED BY <2>1, <2>3, <2>4, <2>5, <2>6, <2>7
<1>2. ASSUME Optional(x), \A i \in DOMAIN x : IsEpistemic(x[i], Int32s)
      PROVE  /\ IsEpistemic(convertProtoEpistemicValidation(x), Int)
             /\ Int32(convertProtoEpistemicValidation(x).judges) = convertProtoEpistemicValidation(x).judges
  <2>1. CASE x = <<>>
    BY <2>1, Int32Facts DEF convertProtoEpistemicValidation, IsEpistemic, HasFields
  <2>2. CASE x # <<>>
    <3>1. 1 \in DOMAIN x
      BY <1>2, <2>2 DEF Optional, List, HasFields
    <3>2. x[1].judges \in Int32s
      BY <1>2, <3>1 DEF IsEpistemic
    <3>3. convertProtoEpistemicValidation(x) = [active |-> x[1].active, judges |-> x[1].judges]
      BY <2>2 DEF convertProtoEpistemicValidation
    <3>4. QED BY <3>2, <3>3, Int32Facts DEF IsEpistemic, HasFields
  <2>3. QED BY <2>1, <2>2
<1>3. QED BY <1>1, <1>2

\* A value in a map, sent and received, and the one received.
LEMMA MemberFacts ==
    ASSUME NEW v, HasFields(v, {"kind", "of"})
    PROVE  /\ v.kind \in GoKinds /\ v.kind # "other" =>
                /\ HasFields(NewValue(v), {"kind", "of"}) /\ NewValue(v).kind \in WireKinds
                /\ AsInterface(NewValue(v)) = NormalMember(v)
           /\ v.kind \in WireKinds =>
                /\ HasFields(AsInterface(v), {"kind", "of"}) /\ AsInterface(v).kind \in GoKinds \ {"other"}
                /\ NormalMember(AsInterface(v)) = AsInterface(v)
<1>1. CASE v.kind \in GoNumbers
  <2>1. NewValue(v) = [kind |-> "number", of |-> v.of]
    BY <1>1 DEF NewValue
  <2>2. PICK n : n = [kind |-> "number", of |-> v.of]
    OBVIOUS
  <2>3. HasFields(n, {"kind", "of"}) /\ n.kind = "number" /\ n.of = v.of
    BY <2>2 DEF HasFields
  <2>4. AsInterface(n) = NormalMember(v)
    BY <1>1, <2>3 DEF AsInterface, NormalMember
  <2>5. v.kind \notin WireKinds
    BY <1>1 DEF GoNumbers, WireKinds
  <2>6. QED BY <2>1, <2>2, <2>3, <2>4, <2>5 DEF WireKinds
<1>2. CASE v.kind = "number"
  <2>1. PICK k : k = IF v.of \in NotFinite THEN "string" ELSE "float64"
    OBVIOUS
  <2>2. PICK n : n = [kind |-> k, of |-> v.of]
    OBVIOUS
  <2>3. AsInterface(v) = n
    BY <1>2, <2>1, <2>2 DEF AsInterface
  <2>4. HasFields(n, {"kind", "of"}) /\ n.kind = k /\ n.of = v.of
    BY <2>2 DEF HasFields
  <2>5. k \in GoKinds \ {"other"}
    BY <2>1 DEF GoKinds
  <2>6. NormalMember(n) = n
    BY <2>1, <2>2, <2>4 DEF NormalMember, GoNumbers
  <2>7. v.kind \notin GoKinds
    BY <1>2 DEF GoKinds
  <2>8. QED BY <2>3, <2>4, <2>5, <2>6, <2>7
<1>3. CASE v.kind \notin GoNumbers \cup {"number"}
  <2>1. NewValue(v) = v /\ AsInterface(v) = v /\ NormalMember(v) = v
    BY <1>3 DEF NewValue, AsInterface, NormalMember
  <2>2. v.kind \in GoKinds /\ v.kind # "other" => v.kind \in WireKinds
    BY <1>3 DEF GoKinds, WireKinds, GoNumbers
  <2>3. v.kind \in WireKinds => v.kind \in GoKinds \ {"other"}
    BY <1>3 DEF GoKinds, WireKinds
  <2>4. QED BY <2>1, <2>2, <2>3
<1>4. QED BY <1>1, <1>2, <1>3

\* A list of one map.
LEMMA OneMap ==
    ASSUME NEW f, NEW kinds, HasFields(f, DOMAIN f),
           \A k \in DOMAIN f : HasFields(f[k], {"kind", "of"}) /\ f[k].kind \in kinds
    PROVE  /\ IsMap(<<f>>, kinds) /\ <<f>> # <<>>
           /\ Unsupported(<<f>>) <=> \E k \in DOMAIN f : f[k].kind = "other"
<1>1. Optional(<<f>>) /\ DOMAIN <<f>> = {1} /\ <<f>>[1] = f /\ <<f>> # <<>>
  BY DEF Optional, List, HasFields
<1>2. PICK m : m = <<f>>
  OBVIOUS
<1>3. Optional(m) /\ DOMAIN m = {1} /\ m[1] = f
  BY <1>1, <1>2
<1>4. IsMap(m, kinds)
  BY <1>3 DEF IsMap
<1>5. Unsupported(m) <=> \E k \in DOMAIN f : f[k].kind = "other"
  BY <1>3 DEF Unsupported
<1>6. QED BY <1>1, <1>2, <1>4, <1>5

\* No map.
LEMMA NoMap == \A kinds : IsMap(<<>>, kinds)
  BY DEF IsMap, Optional, List, HasFields

\* The empty map.
LEMMA EmptyMap ==
    /\ \A kinds : IsMap(<<<<>>>>, kinds)
    /\ ~Unsupported(<<<<>>>>) /\ MapValues(AsInterface, <<>>) = <<>> /\ MapValues(NormalMember, <<>>) = <<>>
<1>1. PICK f : f = <<>>
  OBVIOUS
<1>2. DOMAIN f = {} /\ HasFields(f, DOMAIN f)
  BY <1>1 DEF HasFields
<1>3. (\A kinds : IsMap(<<f>>, kinds)) /\ ~Unsupported(<<f>>)
  BY <1>2, OneMap
<1>4. MapValues(AsInterface, f) = f /\ MapValues(NormalMember, f) = f
  BY <1>1, <1>2 DEF MapValues
<1>5. QED BY <1>1, <1>3, <1>4

\* Maps of values, nil or not, are sent whole or, with a value that has no protobuf form, not
\* at all, and what is received is a map that can be sent.
LEMMA MapFacts ==
    ASSUME NEW m
    PROVE  /\ IsMap(m, GoKinds) =>
                /\ IsMap(ConvertMapToStruct(m), WireKinds)
                /\ ConvertStructToMap(ConvertMapToStruct(m)) = NormalMap(m)
                /\ Unsupported(m) <=> ConvertMapToStruct(m) = <<>>
           /\ IsMap(m, WireKinds) =>
                /\ IsMap(ConvertStructToMap(m), GoKinds)
                /\ NormalMap(ConvertStructToMap(m)) = ConvertStructToMap(m)
                /\ ConvertStructToMap(m) # <<>> /\ ~Unsupported(ConvertStructToMap(m))
<1>0. Optional(m) => m = <<>> \/ (DOMAIN m = {1} /\ m # <<>>)
  BY DEF Optional, List, HasFields
<1>1. \A kinds : IsMap(<<>>, kinds)
  BY NoMap
<1>2. ASSUME IsMap(m, GoKinds)
      PROVE  /\ IsMap(ConvertMapToStruct(m), WireKinds)
             /\ ConvertStructToMap(ConvertMapToStruct(m)) = NormalMap(m)
             /\ Unsupported(m) <=> ConvertMapToStruct(m) = <<>>
  <2>1. CASE Unsupported(m)
    <3>1. ConvertMapToStruct(m) = <<>> /\ NormalMap(m) = <<<<>>>>
      BY <2>1 DEF ConvertMapToStruct, NormalMap
    <3>2. ConvertStructToMap(<<>>) = <<<<>>>>
      BY DEF ConvertStructToMap
    <3>3. QED BY <1>1, <2>1, <3>1, <3>2
  <2>2. CASE m = <<>>
    <3>1. ~Unsupported(m)
      BY <2>2 DEF Unsupported
    <3>2. ConvertMapToStruct(m) = <<<<>>>> /\ NormalMap(m) = <<<<>>>>
      BY <2>2, <3>1 DEF ConvertMapToStruct, NormalMap
    <3>3. PICK s : s = <<<<>>>>
      OBVIOUS
    <3>4. s # <<>> /\ s[1] = <<>>
      BY <3>3
    <3>5. ConvertStructToMap(s) = <<MapValues(AsInterface, s[1])>>
      BY <3>4 DEF ConvertStructToMap
    <3>6. MapValues(AsInterface, s[1]) = <<>> /\ IsMap(s, WireKinds)
      BY <3>3, <3>4, EmptyMap
    <3>7. QED BY <3>1, <3>2, <3>3, <3>4, <3>5, <3>6
  <2>3. CASE m # <<>> /\ ~Unsupported(m)
    <3>1. PICK f : f = m[1]
      OBVIOUS
    <3>2. DOMAIN m = {1}
      BY <1>0, <1>2, <2>3 DEF IsMap
    <3>3. \A k \in DOMAIN f : HasFields(f[k], {"kind", "of"}) /\ f[k].kind \in GoKinds /\ f[k].kind # "other"
      BY <1>2, <2>3, <3>1, <3>2 DEF IsMap, Unsupported
    <3>4. PICK g : g = MapValues(NewValue, f)
      OBVIOUS
    <3>5. DOMAIN g = DOMAIN f /\ HasFields(g, DOMAIN g) /\ \A k \in DOMAIN f : g[k] = NewValue(f[k])
      BY <3>4 DEF MapValues, HasFields
    <3>6. \A k \in DOMAIN f : HasFields(g[k], {"kind", "of"}) /\ g[k].kind \in WireKinds /\ AsInterface(g[k]) = NormalMember(f[k])
      BY <3>3, <3>5, MemberFacts
    <3>7. IsMap(<<g>>, WireKinds) /\ <<g>> # <<>>
      BY <3>5, <3>6, OneMap
    <3>8. MapValues(AsInterface, g) = MapValues(NormalMember, f)
      BY <3>5, <3>6 DEF MapValues
    <3>9. ConvertMapToStruct(m) = <<g>>
      BY <2>3, <3>1, <3>4 DEF ConvertMapToStruct
    <3>10. ConvertStructToMap(<<g>>) = <<MapValues(AsInterface, g)>>
      BY DEF ConvertStructToMap
    <3>11. NormalMap(m) = <<MapValues(NormalMember, f)>>
      BY <2>3, <3>1 DEF NormalMap
    <3>12. QED BY <2>3, <3>7, <3>8, <3>9, <3>10, <3>11
  <2>4. QED BY <2>1, <2>2, <2>3
<1>3. ASSUME IsMap(m, WireKinds)
      PROVE  /\ IsMap(ConvertStructToMap(m), GoKinds)
             /\ NormalMap(ConvertStructToMap(m)) = ConvertStructToMap(m)
             /\ ConvertStructToMap(m) # <<>> /\ ~Unsupported(ConvertStructToMap(m))
  <2>1. CASE m = <<>>
    <3>1. ConvertStructToMap(m) = <<<<>>>>
      BY <2>1 DEF ConvertStructToMap
    <3>2. PICK s : s = <<<<>>>>
      OBVIOUS
    <3>3. s # <<>> /\ s[1] = <<>>
      BY <3>2
    <3>4. IsMap(s, GoKinds) /\ ~Unsupported(s) /\ MapValues(NormalMember, s[1]) = <<>>
      BY <3>2, <3>3, EmptyMap
    <3>5. NormalMap(s) = <<MapValues(NormalMember, s[1])>>
      BY <3>3, <3>4 DEF NormalMap
    <3>6. QED BY <3>1, <3>2, <3>3, <3>4, <3>5
  <2>2. CASE m # <<>>
    <3>1. PICK f : f = m[1]
      OBVIOUS
    <3>2. DOMAIN m = {1}
      BY <1>0, <1>3, <2>2 DEF IsMap
    <3>3. \A k \in DOMAIN f : HasFields(f[k], {"kind", "of"}) /\ f[k].kind \in WireKinds
      BY <1>3, <3>1, <3>2 DEF IsMap
    <3>4. PICK g : g = MapValues(AsInterface, f)
      OBVIOUS
    <3>5. DOMAIN g = DOMAIN f /\ HasFields(g, DOMAIN g) /\ g = [k \in DOMAIN g |-> g[k]] /\ \A k \in DOMAIN f : g[k] = AsInterface(f[k])
      BY <3>4 DEF MapValues, HasFields
    <3>6. \A k \in DOMAIN f : /\ HasFields(g[k], {"kind", "of"}) /\ g[k].kind \in GoKinds /\ g[k].kind # "other"
                              /\ NormalMember(g[k]) = g[k]
      BY <3>3, <3>5, MemberFacts
    <3>7. IsMap(<<g>>, GoKinds) /\ <<g>> # <<>> /\ ~Unsupported(<<g>>)
      BY <3>5, <3>6, OneMap
    <3>8. MapValues(NormalMember, g) = g
      BY <3>5, <3>6 DEF MapValues
    <3>9. ConvertStructToMap(m) = <<g>>
      BY <2>2, <3>1, <3>4 DEF ConvertStructToMap
    <3>10. NormalMap(<<g>>) = <<MapValues(NormalMember, g)>>
      BY <3>7 DEF NormalMap
    <3>11. QED BY <3>7, <3>8, <3>9, <3>10
  <2>3. QED BY <2>1, <2>2
<1>4. QED BY <1>2, <1>3

\* Settings of the model: a seed of 0 is no seed on the wire.
LEMMA ConfigFacts ==
    ASSUME NEW x
    PROVE  /\ IsModelConfig(x) =>
                /\ IsProtoConfig(convertModelModelConfig(x))
                /\ convertProtoModelConfig(convertModelModelConfig(x)) = NormalConfig(x)
           /\ IsProtoConfig(x) =>
                /\ IsModelConfig(convertProtoModelConfig(x))
                /\ NormalConfig(convertProtoModelConfig(x)) = convertProtoModelConfig(x)
<1>1. ASSUME IsModelConfig(x)
      PROVE  /\ IsProtoConfig(convertModelModelConfig(x))
             /\ convertProtoModelConfig(convertModelModelConfig(x)) = NormalConfig(x)
  <2>1. PICK t \in Int32s, n \in Int32s, l \in Int32s : t = Int32(x.maxTokens) /\ n = Int32(x.n) /\ l = Int32(x.topLogProbs)
    BY <1>1, Int32Facts DEF IsModelConfig, IsConfig
  <2>2. PICK m : m = MapValues(Int32, x.logitBias)
    OBVIOUS
  <2>3. m \in [DOMAIN m -> Int32s]
    BY <1>1, <2>2, Int32Facts DEF MapValues, IsModelConfig, IsConfig
  <2>4. PICK k : k = IF x.kwargs = <<>> THEN <<>> ELSE ConvertMapToStruct(x.kwargs)
    OBVIOUS
  <2>5. IsMap(k, WireKinds)
    <3>1. IsMap(x.kwargs, GoKinds)
      BY <1>1 DEF IsModelConfig, IsConfig
    <3>2. IsMap(ConvertMapToStruct(x.kwargs), WireKinds) /\ IsMap(<<>>, WireKinds)
      BY <3>1, MapFacts, NoMap
    <3>3. QED BY <2>4, <3>2
  <2>16. PICK r : r = IF k = <<>> THEN <<>> ELSE ConvertStructToMap(k)
    OBVIOUS
  <2>17. r = IF x.kwargs = <<>> THEN <<>> ELSE IF Unsupported(x.kwargs) THEN <<>> ELSE NormalMap(x.kwargs)
    BY <1>1, <2>4, <2>16, MapFacts DEF IsModelConfig, IsConfig
  <2>6. PICK s : s = IF x.seed = <<>> THEN 0 ELSE Int32(x.seed[1])
    OBVIOUS
  <2>7. x.seed # <<>> => x.seed[1] \in Int
    BY <1>1 DEF IsModelConfig, Optional, List, HasFields
  <2>8. s \in Int32s
    BY <2>6, <2>7, Int32Facts
  <2>9. convertModelModelConfig(x) =
            [temperature |-> x.temperature, topP |-> x.topP, passed |-> x.passed, unread |-> x.unread, 
             maxTokens |-> t, n |-> n, topLogProbs |-> l, logitBias |-> m, seed |-> s, kwargs |-> k]
    BY <2>1, <2>2, <2>4, <2>6 DEF convertModelModelConfig
  <2>10. IsProtoConfig(convertModelModelConfig(x))
    BY <2>3, <2>5, <2>8, <2>9 DEF IsProtoConfig, IsConfig, HasFields
  <2>11. PICK z : z = IF s = 0 THEN <<>> ELSE <<s>>
    OBVIOUS
  <2>12. convertProtoModelConfig(convertModelModelConfig(x)) =
            [temperature |-> x.temperature, topP |-> x.topP, passed |-> x.passed, unread |-> x.unread, 
             maxTokens |-> t, n |-> n, topLogProbs |-> l, logitBias |-> m, seed |-> z, kwargs |-> r]
    BY <2>9, <2>11, <2>16 DEF convertProtoModelConfig
  <2>13. NormalSeed(x.seed) = z
    BY <2>6, <2>11 DEF NormalSeed
  <2>14. NormalConfig(x) =
            [temperature |-> x.temperature, topP |-> x.topP, passed |-> x.passed, unread |-> x.unread, 
             maxTokens |-> t, n |-> n, topLogProbs |-> l, logitBias |-> m, seed |-> z, kwargs |-> r]
    BY <2>1, <2>2, <2>13, <2>17 DEF NormalConfig
  <2>15. QED BY <2>10, <2>12, <2>14
<1>2. ASSUME IsProtoConfig(x)
      PROVE  /\ IsModelConfig(convertProtoModelConfig(x))
             /\ NormalConfig(convertProtoModelConfig(x)) = convertProtoModelConfig(x)
  <2>1. PICK t \in Int32s, n \in Int32s, l \in Int32s : t = x.maxTokens /\ n = x.n /\ l = x.topLogProbs
    BY <1>2 DEF IsProtoConfig, IsConfig
  <2>2. Int32(t) = t /\ Int32(n) = n /\ Int32(l) = l /\ t \in Int /\ n \in Int /\ l \in Int
    BY Int32Facts
  <2>3. PICK m : m = x.logitBias
    OBVIOUS
  <2>4. m \in [DOMAIN m -> Int32s]
    BY <1>2, <2>3 DEF IsProtoConfig, IsConfig
  <2>5. m \in [DOMAIN m -> Int] /\ MapValues(Int32, m) = m
    BY <2>4, Int32Facts DEF MapValues
  <2>6. PICK s : s = IF x.seed = 0 THEN <<>> ELSE <<x.seed>>
    OBVIOUS
  <2>7. x.seed \in Int32s
    BY <1>2 DEF IsProtoConfig
  <2>8. Optional(s) /\ (\A i \in DOMAIN s : s[i] \in Int) /\ NormalSeed(s) = s
    <3>1. CASE x.seed = 0
      <4>1. s = <<>>
        BY <2>6, <3>1
      <4>2. QED BY <4>1 DEF Optional, List, HasFields, NormalSeed
    <3>2. CASE x.seed # 0
      <4>1. PICK v \in Int : v = x.seed /\ Int32(v) = v /\ v # 0
        BY <2>7, <3>2, Int32Facts
      <4>2. s = <<v>>
        BY <2>6, <4>1
      <4>3. QED BY <4>1, <4>2 DEF Optional, List, HasFields, NormalSeed
    <3>3. QED BY <3>1, <3>2
  <2>9. PICK k : k = IF x.kwargs = <<>> THEN <<>> ELSE ConvertStructToMap(x.kwargs)
    OBVIOUS
  <2>10. IsMap(k, GoKinds) /\ k = IF k = <<>> THEN <<>> ELSE IF Unsupported(k) THEN <<>> ELSE NormalMap(k)
    BY <1>2, <2>9, MapFacts DEF IsProtoConfig, IsConfig, IsMap, Optional, List, HasFields
  <2>11. convertProtoModelConfig(x) =
            [temperature |-> x.temperature, topP |-> x.topP, passed |-> x.passed, unread |-> x.unread, 
             maxTokens |-> t, n |-> n, topLogProbs |-> l, logitBias |-> m, seed |-> s, kwargs |-> k]
    BY <2>1, <2>3, <2>6, <2>9 DEF convertProtoModelConfig
  <2>12. IsModelConfig(convertProtoModelConfig(x))
    BY <2>2, <2>5, <2>8, <2>10, <2>11 DEF IsModelConfig, IsConfig, HasFields
  <2>13. NormalConfig(convertProtoModelConfig(x)) =
            [temperature |-> x.temperature, topP |-> x.topP, passed |-> x.passed, unread |-> x.unread, 
             maxTokens |-> t, n |-> n, topLogProbs |-> l, logitBias |-> m, seed |-> s, kwargs |-> k]
    BY <2>2, <2>5, <2>8, <2>10, <2>11 DEF NormalConfig
  <2>14. QED BY <2>11, <2>12, <2>13
<1>3. QED BY <1>1, <1>2

\* Optional settings.
LEMMA ConfigsMapped ==
    ASSUME NEW x, Optional(x)
    PROVE  /\ (\A i \in DOMAIN x : IsModelConfig(x[i])) =>
                /\ Optional(Opt(convertModelModelConfig, x)) /\ DOMAIN Opt(convertModelModelConfig, x) = DOMAIN x
                /\ \A i \in DOMAIN x : IsProtoConfig(Opt(convertModelModelConfig, x)[i])
                /\ Opt(convertProtoModelConfig, Opt(convertModelModelConfig, x)) = Opt(NormalConfig, x)
           /\ (\A i \in DOMAIN x : IsProtoConfig(x[i])) =>
                /\ Optional(Opt(convertProtoModelConfig, x)) /\ DOMAIN Opt(convertProtoModelConfig, x) = DOMAIN x
                /\ \A i \in DOMAIN x : IsModelConfig(Opt(convertProtoModelConfig, x)[i])
                /\ Opt(NormalConfig, Opt(convertProtoModelConfig, x)) = Opt(convertProtoModelConfig, x)
<1>1. ASSUME \A i \in DOMAIN x : IsModelConfig(x[i])
      PROVE  /\ Optional(Opt(convertModelModelConfig, x)) /\ DOMAIN Opt(convertModelModelConfig, x) = DOMAIN x
             /\ \A i \in DOMAIN x : IsProtoConfig(Opt(convertModelModelConfig, x)[i])
             /\ Opt(convertProtoModelConfig, Opt(convertModelModelConfig, x)) = Opt(NormalConfig, x)
  <2>1. PICK y : y = Opt(convertModelModelConfig, x)
    OBVIOUS
  <2>2. DOMAIN y = DOMAIN x /\ y = [i \in DOMAIN y |-> y[i]] /\ \A i \in DOMAIN x : y[i] = convertModelModelConfig(x[i])
    BY <2>1 DEF Opt
  <2>3. Optional(y)
    BY <2>2, MappedList DEF Optional
  <2>4. \A i \in DOMAIN x : IsProtoConfig(y[i])
    BY <1>1, <2>2, ConfigFacts
  <2>5. Opt(convertProtoModelConfig, y) = Opt(NormalConfig, x)
    BY <1>1, <2>2, ConfigFacts DEF Opt
  <2>6. QED BY <2>1, <2>2, <2>3, <2>4, <2>5
<1>2. ASSUME \A i \in DOMAIN x : IsProtoConfig(x[i])
      PROVE  /\ Optional(Opt(convertProtoModelConfig, x)) /\ DOMAIN Opt(convertProtoModelConfig, x) = DOMAIN x
             /\ \A i \in DOMAIN x : IsModelConfig(Opt(convertProtoModelConfig, x)[i])
             /\ Opt(NormalConfig, Opt(convertProtoModelConfig, x)) = Opt(convertProtoModelConfig, x)
  <2>1. PICK y : y = Opt(convertProtoModelConfig, x)
    OBVIOUS
  <2>2. DOMAIN y = DOMAIN x /\ y = [i \in DOMAIN y |-> y[i]] /\ \A i \in DOMAIN x : y[i] = convertProtoModelConfig(x[i])
    BY <2>1 DEF Opt
  <2>3. Optional(y)
    BY <2>2, MappedList DEF Optional
  <2>4. \A i \in DOMAIN x : IsModelConfig(y[i])
    BY <1>2, <2>2, ConfigFacts
  <2>5. Opt(NormalConfig, y) = y
    BY <1>2, <2>2, ConfigFacts DEF Opt
  <2>6. QED BY <2>1, <2>2, <2>3, <2>4, <2>5
<1>3. QED BY <1>1, <1>2

\* Parts that are copied field by field arrive as they were.
LEMMA PartsCopied ==
    ASSUME NEW x
    PROVE  /\ OptionalPart(x, {"keyInstruction"}) => Opt(ConvertHashMap, x) = x
           /\ OptionalPart(x, {"prompt", "fields", "keepOriginal"}) => Opt(ConvertFocus, x) = x
           /\ OptionalPart(x, {"model", "voice", "stringToAudio", "format"}) => Opt(convertTextToSpeech, x) = x
           /\ OptionalPart(x, {"model", "size"}) => Opt(convertImage, x) = x
           /\ OptionalPart(x, {"imagesData"}) => Opt(convertSendImage, x) = x
<1>1. Optional(x) => x = [i \in DOMAIN x |-> x[i]]
  BY DEF Optional, List, HasFields
<1>3. ASSUME OptionalPart(x, {"keyInstruction"}) PROVE Opt(ConvertHashMap, x) = x
  <2>1. \A i \in DOMAIN x : ConvertHashMap(x[i]) = x[i]
    BY <1>3 DEF OptionalPart, HasFields, ConvertHashMap
  <2>2. QED BY <1>1, <1>3, <2>1 DEF OptionalPart, Opt
<1>4. ASSUME OptionalPart(x, {"prompt", "fields", "keepOriginal"}) PROVE Opt(ConvertFocus, x) = x
  <2>1. \A i \in DOMAIN x : ConvertFocus(x[i]) = x[i]
    BY <1>4 DEF OptionalPart, HasFields, ConvertFocus
  <2>2. QED BY <1>1, <1>4, <2>1 DEF OptionalPart, Opt
<1>6. ASSUME OptionalPart(x, {"model", "voice", "stringToAudio", "format"}) PROVE Opt(convertTextToSpeech, x) = x
  <2>1. \A i \in DOMAIN x : convertTextToSpeech(x[i]) = x[i]
    BY <1>6 DEF OptionalPart, HasFields, convertTextToSpeech
  <2>2. QED BY <1>1, <1>6, <2>1 DEF OptionalPart, Opt
<1>7. ASSUME OptionalPart(x, {"model", "size"}) PROVE Opt(convertImage, x) = x
  <2>1. \A i \in DOMAIN x : convertImage(x[i]) = x[i]
    BY <1>7 DEF OptionalPart, HasFields, convertImage
  <2>2. QED BY <1>1, <1>7, <2>1 DEF OptionalPart, Opt
<1>8. ASSUME OptionalPart(x, {"imagesData"}) PROVE Opt(convertSendImage, x) = x
  <2>1. \A i \in DOMAIN x : convertSendImage(x[i]) = x[i]
    BY <1>8 DEF OptionalPart, HasFields, convertSendImage
  <2>2. QED BY <1>1, <1>8, <2>1 DEF OptionalPart, Opt
<1>9. QED BY <1>3, <1>4, <1>6, <1>7, <1>8

\* Speech loses its chunking and its extra body the first time.
LEMMA SpeechFacts ==
    ASSUME NEW x,
           OptionalPart(x, {"model", "audio", "language", "format", "toString", "toCaptions", "chunking", "extraBody"})
    PROVE  /\ OptionalPart(Opt(convertSpeechToText, x),
                  {"model", "audio", "language", "format", "toString", "toCaptions", "chunking", "extraBody"})
           /\ Opt(convertSpeechToText, Opt(convertSpeechToText, x)) = Opt(NormalSpeech, x)
           /\ Opt(convertSpeechToText, x) = Opt(NormalSpeech, x)
           /\ Opt(NormalSpeech, Opt(convertSpeechToText, x)) = Opt(convertSpeechToText, x)
<1>1. PICK y : y = Opt(convertSpeechToText, x)
  OBVIOUS
<1>2. DOMAIN y = DOMAIN x /\ y = [i \in DOMAIN y |-> y[i]] /\ \A i \in DOMAIN x : y[i] = convertSpeechToText(x[i])
  BY <1>1 DEF Opt
<1>3. Optional(y)
  BY <1>2, MappedList DEF OptionalPart, Optional
<1>4. ASSUME NEW z
      PROVE  /\ HasFields(convertSpeechToText(z),
                    {"model", "audio", "language", "format", "toString", "toCaptions", "chunking", "extraBody"})
             /\ convertSpeechToText(z) = NormalSpeech(z)
             /\ convertSpeechToText(convertSpeechToText(z)) = convertSpeechToText(z)
  BY DEF HasFields, convertSpeechToText, NormalSpeech
<1>5. OptionalPart(y, {"model", "audio", "language", "format", "toString", "toCaptions", "chunking", "extraBody"})
  BY <1>2, <1>3, <1>4 DEF OptionalPart
<1>6. Opt(convertSpeechToText, y) = y /\ Opt(NormalSpeech, y) = y /\ y = Opt(NormalSpeech, x)
  BY <1>2, <1>4 DEF Opt
<1>7. QED BY <1>1, <1>5, <1>6

\* Requests: the body goes through a protobuf message, everything else is copied.
LEMMA RequestFacts ==
    ASSUME NEW x
    PROVE  /\ HasFields(ConvertProtoToRequestFormat(x), {"url", "method", "headers", "body", "authorization", "requireFields"})
           /\ HasFields(ConvertModelToProtoRequestFormat(x), {"url", "method", "headers", "body", "authorization", "requireFields"})
           /\ IsMap(x.body, GoKinds) =>
                /\ IsMap(ConvertModelToProtoRequestFormat(x).body, WireKinds)
                /\ ConvertProtoToRequestFormat(ConvertModelToProtoRequestFormat(x)) = NormalRequest(x)
           /\ IsMap(x.body, WireKinds) =>
                /\ IsMap(ConvertProtoToRequestFormat(x).body, GoKinds)
                /\ NormalRequest(ConvertProtoToRequestFormat(x)) = ConvertProtoToRequestFormat(x)
<1>1. HasFields(ConvertProtoToRequestFormat(x), {"url", "method", "headers", "body", "authorization", "requireFields"})
  BY DEF HasFields, ConvertProtoToRequestFormat
<1>2. HasFields(ConvertModelToProtoRequestFormat(x), {"url", "method", "headers", "body", "authorization", "requireFields"})
  BY DEF HasFields, ConvertModelToProtoRequestFormat
<1>3. ASSUME IsMap(x.body, GoKinds)
      PROVE  /\ IsMap(ConvertModelToProtoRequestFormat(x).body, WireKinds)
             /\ ConvertProtoToRequestFormat(ConvertModelToProtoRequestFormat(x)) = NormalRequest(x)
  <2>1. PICK b : b = ConvertMapToStruct(x.body)
    OBVIOUS
  <2>2. IsMap(b, WireKinds) /\ ConvertStructToMap(b) = NormalMap(x.body)
    BY <1>3, <2>1, MapFacts
  <2>3. PICK y : y = [url |-> x.url, method |-> x.method, headers |-> x.headers, body |-> b,
                      authorization |-> x.authorization, requireFields |-> x.requireFields]
    OBVIOUS
  <2>4. ConvertModelToProtoRequestFormat(x) = y
    BY <2>1, <2>3 DEF ConvertModelToProtoRequestFormat
  <2>5. /\ y.url = x.url /\ y.method = x.method /\ y.headers = x.headers /\ y.body = b
        /\ y.authorization = x.authorization /\ y.requireFields = x.requireFields
    BY <2>3
  <2>6. ConvertProtoToRequestFormat(y) = NormalRequest(x)
    BY <2>2, <2>5 DEF ConvertProtoToRequestFormat, NormalRequest
  <2>7. QED BY <2>2, <2>4, <2>5, <2>6
<1>4. ASSUME IsMap(x.body, WireKinds)
      PROVE  /\ IsMap(ConvertProtoToRequestFormat(x).body, GoKinds)
             /\ NormalRequest(ConvertProtoToRequestFormat(x)) = ConvertProtoToRequestFormat(x)
  <2>1. PICK b : b = ConvertStructToMap(x.body)
    OBVIOUS
  <2>2. IsMap(b, GoKinds) /\ NormalMap(b) = b
    BY <1>4, <2>1, MapFacts
  <2>3. PICK y : y = [url |-> x.url, method |-> x.method, headers |-> x.headers, body |-> b,
                      authorization |-> x.authorization, requireFields |-> x.requireFields]
    OBVIOUS
  <2>4. ConvertProtoToRequestFormat(x) = y
    BY <2>1, <2>3 DEF ConvertProtoToRequestFormat
  <2>5. /\ y.url = x.url /\ y.method = x.method /\ y.headers = x.headers /\ y.body = b
        /\ y.authorization = x.authorization /\ y.requireFields = x.requireFields
    BY <2>3
  <2>6. NormalRequest(y) = y
    BY <2>2, <2>3, <2>5 DEF NormalRequest
  <2>7. QED BY <2>2, <2>4, <2>5, <2>6
<1>5. QED BY <1>1, <1>2, <1>3, <1>4

\* An optional request.
LEMMA RequestsMapped ==
    ASSUME NEW x, OptionalPart(x, {"url", "method", "headers", "body", "authorization", "requireFields"})
    PROVE  /\ (\A i \in DOMAIN x : IsMap(x[i].body, GoKinds)) =>
                /\ OptionalPart(Opt(ConvertModelToProtoRequestFormat, x), {"url", "method", "headers", "body", "authorization", "requireFields"})
                /\ \A i \in DOMAIN Opt(ConvertModelToProtoRequestFormat, x) :
                      IsMap(Opt(ConvertModelToProtoRequestFormat, x)[i].body, WireKinds)
                /\ Opt(ConvertProtoToRequestFormat, Opt(ConvertModelToProtoRequestFormat, x)) = Opt(NormalRequest, x)
           /\ (\A i \in DOMAIN x : IsMap(x[i].body, WireKinds)) =>
                /\ OptionalPart(Opt(ConvertProtoToRequestFormat, x), {"url", "method", "headers", "body", "authorization", "requireFields"})
                /\ \A i \in DOMAIN Opt(ConvertProtoToRequestFormat, x) :
                      IsMap(Opt(ConvertProtoToRequestFormat, x)[i].body, GoKinds)
                /\ Opt(NormalRequest, Opt(ConvertProtoToRequestFormat, x)) = Opt(ConvertProtoToRequestFormat, x)
<1>1. ASSUME \A i \in DOMAIN x : IsMap(x[i].body, GoKinds)
      PROVE  /\ OptionalPart(Opt(ConvertModelToProtoRequestFormat, x), {"url", "method", "headers", "body", "authorization", "requireFields"})
             /\ \A i \in DOMAIN Opt(ConvertModelToProtoRequestFormat, x) :
                   IsMap(Opt(ConvertModelToProtoRequestFormat, x)[i].body, WireKinds)
             /\ Opt(ConvertProtoToRequestFormat, Opt(ConvertModelToProtoRequestFormat, x)) = Opt(NormalRequest, x)
  <2>1. PICK y : y = Opt(ConvertModelToProtoRequestFormat, x)
    OBVIOUS
  <2>2. DOMAIN y = DOMAIN x /\ y = [i \in DOMAIN y |-> y[i]] /\ \A i \in DOMAIN x : y[i] = ConvertModelToProtoRequestFormat(x[i])
    BY <2>1 DEF Opt
  <2>3. Optional(y)
    BY <2>2, MappedList DEF OptionalPart, Optional
  <2>4. \A i \in DOMAIN x : /\ HasFields(y[i], {"url", "method", "headers", "body", "authorization", "requireFields"}) /\ IsMap(y[i].body, WireKinds)
                            /\ ConvertProtoToRequestFormat(y[i]) = NormalRequest(x[i])
    BY <1>1, <2>2, RequestFacts
  <2>5. Opt(ConvertProtoToRequestFormat, y) = Opt(NormalRequest, x)
    BY <2>2, <2>4 DEF Opt
  <2>6. OptionalPart(y, {"url", "method", "headers", "body", "authorization", "requireFields"})
    BY <2>2, <2>3, <2>4 DEF OptionalPart
  <2>7. QED BY <2>1, <2>2, <2>4, <2>5, <2>6
<1>2. ASSUME \A i \in DOMAIN x : IsMap(x[i].body, WireKinds)
      PROVE  /\ OptionalPart(Opt(ConvertProtoToRequestFormat, x), {"url", "method", "headers", "body", "authorization", "requireFields"})
             /\ \A i \in DOMAIN Opt(ConvertProtoToRequestFormat, x) :
                   IsMap(Opt(ConvertProtoToRequestFormat, x)[i].body, GoKinds)
             /\ Opt(NormalRequest, Opt(ConvertProtoToRequestFormat, x)) = Opt(ConvertProtoToRequestFormat, x)
  <2>1. PICK y : y = Opt(ConvertProtoToRequestFormat, x)
    OBVIOUS
  <2>2. DOMAIN y = DOMAIN x /\ y = [i \in DOMAIN y |-> y[i]] /\ \A i \in DOMAIN x : y[i] = ConvertProtoToRequestFormat(x[i])
    BY <2>1 DEF Opt
  <2>3. Optional(y)
    BY <2>2, MappedList DEF OptionalPart, Optional
  <2>4. \A i \in DOMAIN x : HasFields(y[i], {"url", "method", "headers", "body", "authorization", "requireFields"}) /\ IsMap(y[i].body, GoKinds) /\ NormalRequest(y[i]) = y[i]
    BY <1>2, <2>2, RequestFacts
  <2>5. Opt(NormalRequest, y) = y
    BY <2>2, <2>4 DEF Opt
  <2>6. OptionalPart(y, {"url", "method", "headers", "body", "authorization", "requireFields"})
    BY <2>2, <2>3, <2>4 DEF OptionalPart
  <2>7. QED BY <2>1, <2>2, <2>4, <2>5, <2>6
<1>3. QED BY <1>1, <1>2

\* What is sent of a node of Go types, and what is received of it.
LEMMA NodeSent ==
    ASSUME NEW d, IsModelNode(d)
    PROVE  IsProtoNode(ProtoNode(d)) /\ ModelNode(ProtoNode(d)) = NormalNode(d)
<1>0. IsNode(d, Int, GoKinds)
  BY DEF IsModelNode
<1>1. PICK st : st = Opt(convertSpeechToText, d.speechToText)
  OBVIOUS
<1>2. /\ OptionalPart(st, {"model", "audio", "language", "format", "toString", "toCaptions", "chunking", "extraBody"})
      /\ Opt(convertSpeechToText, st) = Opt(NormalSpeech, d.speechToText)
  BY <1>0, <1>1, SpeechFacts DEF IsNode
<1>26. PICK rq : rq = Opt(ConvertModelToProtoRequestFormat, d.req)
  OBVIOUS
<1>27. /\ OptionalPart(rq, {"url", "method", "headers", "body", "authorization", "requireFields"})
       /\ \A i \in DOMAIN rq : IsMap(rq[i].body, WireKinds)
       /\ Opt(ConvertProtoToRequestFormat, rq) = Opt(NormalRequest, d.req)
  BY <1>0, <1>26, RequestsMapped DEF IsNode
<1>3. PICK de : de = Opt(convertModelDecisionPoint, d.decision)
  OBVIOUS
<1>4. /\ Optional(de) /\ \A i \in DOMAIN de : IsPoint(de[i], Int32s, WireKinds)
      /\ Opt(convertProtoDecisionPoint, de) = Opt(NormalPoint, d.decision)
  BY <1>0, <1>3, PointsMapped DEF IsNode
<1>5. PICK sc : sc = Opt(convertModelScoringCriteria, d.scoring)
  OBVIOUS
<1>6. /\ Optional(sc) /\ \A i \in DOMAIN sc : IsScoring(sc[i], Int32s)
      /\ Opt(convertProtoScoringCriteria, sc) = Opt(NormalScoring, d.scoring)
  BY <1>0, <1>5, ScoringsMapped DEF IsNode
<1>7. PICK lo : lo = Opt(convertModelRecursiveLoop, d.loop)
  OBVIOUS
<1>8. /\ Optional(lo) /\ \A i \in DOMAIN lo : IsLoop(lo[i], Int32s, WireKinds)
      /\ Opt(convertProtoRecursiveLoop, lo) = Opt(NormalLoop, d.loop)
  BY <1>0, <1>7, LoopsMapped DEF IsNode
<1>9. PICK co : co = Opt(convertModelModelConfig, d.config)
  OBVIOUS
<1>10. /\ Optional(co) /\ \A i \in DOMAIN co : IsProtoConfig(co[i])
       /\ Opt(convertProtoModelConfig, co) = Opt(NormalConfig, d.config)
  BY <1>9, ConfigsMapped DEF IsModelNode
<1>11. PICK ep : ep = convertModelEpistemicValidation(d.epistemic)
  OBVIOUS
<1>12. /\ Optional(ep) /\ \A i \in DOMAIN ep : IsEpistemic(ep[i], Int32s)
       /\ convertProtoEpistemicValidation(ep) = [active |-> d.epistemic.active, judges |-> Int32(d.epistemic.judges)]
  BY <1>11, EpistemicFacts DEF IsModelNode
<1>13. PICK sp, op : sp = stringOf(d.systemPrompt) /\ op = stringOf(d.overridePrompt)
  OBVIOUS
<1>14. getStringPointer(sp) = NormalPrompt(d.systemPrompt) /\ getStringPointer(op) = NormalPrompt(d.overridePrompt)
  BY <1>13, PromptFacts DEF IsModelNode
<1>15. /\ Opt(ConvertHashMap, d.hashMap) = d.hashMap /\ Opt(ConvertFocus, d.focus) = d.focus
       /\ Opt(convertTextToSpeech, d.textToSpeech) = d.textToSpeech
       /\ Opt(convertImage, d.image) = d.image /\ Opt(convertSendImage, d.sendImage) = d.sendImage
  BY <1>0, PartsCopied DEF IsNode
<1>16. PICK w : w = [plain |-> d.plain, properties |-> TRUE, hashMap |-> d.hashMap, systemPrompt |-> sp, overridePrompt |-> op,
                     focus |-> d.focus, req |-> rq, speechToText |-> st, textToSpeech |-> d.textToSpeech,
                     image |-> d.image, sendImage |-> d.sendImage, decision |-> de, scoring |-> sc, loop |-> lo,
                     epistemic |-> ep, config |-> co, structuredOutput |-> FALSE]
  OBVIOUS
<1>17. ProtoNode(d) = w
  BY <1>1, <1>3, <1>5, <1>7, <1>9, <1>11, <1>13, <1>15, <1>16, <1>26 DEF ProtoNode
<1>18. /\ w.plain = d.plain /\ w.hashMap = d.hashMap /\ w.systemPrompt = sp /\ w.overridePrompt = op
       /\ w.focus = d.focus /\ w.req = rq /\ w.speechToText = st /\ w.textToSpeech = d.textToSpeech
       /\ w.image = d.image /\ w.sendImage = d.sendImage /\ w.decision = de /\ w.scoring = sc /\ w.loop = lo
       /\ w.epistemic = ep /\ w.config = co
  BY <1>16
<1>19. HasFields(w, NodeFields)
  BY <1>16 DEF HasFields, NodeFields
<1>20. IsNode(w, Int32s, WireKinds)
  BY <1>0, <1>2, <1>4, <1>6, <1>8, <1>18, <1>19, <1>27 DEF IsNode
<1>21. IsProtoNode(w)
  BY <1>10, <1>12, <1>18, <1>20 DEF IsProtoNode
<1>22. ModelNode(w) = NormalNode(d)
  BY <1>2, <1>4, <1>6, <1>8, <1>10, <1>12, <1>14, <1>15, <1>18, <1>27 DEF ModelNode, NormalNode
<1>23. QED BY <1>17, <1>21, <1>22

\* A node that was received has lost everything it can lose.
LEMMA NodeReceived ==
    ASSUME NEW d, IsProtoNode(d)
    PROVE  IsModelNode(ModelNode(d)) /\ NormalNode(ModelNode(d)) = ModelNode(d)
<1>0. IsNode(d, Int32s, WireKinds)
  BY DEF IsProtoNode
<1>1. PICK st : st = Opt(convertSpeechToText, d.speechToText)
  OBVIOUS
<1>2. /\ OptionalPart(st, {"model", "audio", "language", "format", "toString", "toCaptions", "chunking", "extraBody"})
      /\ Opt(NormalSpeech, st) = st
  BY <1>0, <1>1, SpeechFacts DEF IsNode
<1>26. PICK rq : rq = Opt(ConvertProtoToRequestFormat, d.req)
  OBVIOUS
<1>27. /\ OptionalPart(rq, {"url", "method", "headers", "body", "authorization", "requireFields"})
       /\ \A i \in DOMAIN rq : IsMap(rq[i].body, GoKinds)
       /\ Opt(NormalRequest, rq) = rq
  BY <1>0, <1>26, RequestsMapped DEF IsNode
<1>3. PICK de : de = Opt(convertProtoDecisionPoint, d.decision)
  OBVIOUS
<1>4. /\ Optional(de) /\ \A i \in DOMAIN de : IsPoint(de[i], Int, GoKinds)
      /\ Opt(NormalPoint, de) = de
  BY <1>0, <1>3, PointsMapped DEF IsNode
<1>5. PICK sc : sc = Opt(convertProtoScoringCriteria, d.scoring)
  OBVIOUS
<1>6. /\ Optional(sc) /\ \A i \in DOMAIN sc : IsScoring(sc[i], Int)
      /\ Opt(NormalScoring, sc) = sc
  BY <1>0, <1>5, ScoringsMapped DEF IsNode
<1>7. PICK lo : lo = Opt(convertProtoRecursiveLoop, d.loop)
  OBVIOUS
<1>8. /\ Optional(lo) /\ \A i \in DOMAIN lo : IsLoop(lo[i], Int, GoKinds)
      /\ Opt(NormalLoop, lo) = lo
  BY <1>0, <1>7, LoopsMapped DEF IsNode
<1>9. PICK co : co = Opt(convertProtoModelConfig, d.config)
  OBVIOUS
<1>10. /\ Optional(co) /\ \A i \in DOMAIN co : IsModelConfig(co[i])
       /\ Opt(NormalConfig, co) = co
  BY <1>9, ConfigsMapped DEF IsProtoNode
<1>11. PICK ep : ep = convertProtoEpistemicValidation(d.epistemic)
  OBVIOUS
<1>12. IsEpistemic(ep, Int) /\ Int32(ep.judges) = ep.judges
  BY <1>11, EpistemicFacts DEF IsProtoNode
<1>13. [active |-> ep.active, judges |-> Int32(ep.judges)] = ep
  BY <1>12 DEF IsEpistemic, HasFields
<1>14. PICK sp, op : sp = getStringPointer(d.systemPrompt) /\ op = getStringPointer(d.overridePrompt)
  OBVIOUS
<1>15. Optional(sp) /\ Optional(op) /\ NormalPrompt(sp) = sp /\ NormalPrompt(op) = op
  BY <1>14, PromptFacts
<1>16. /\ Opt(ConvertHashMap, d.hashMap) = d.hashMap /\ Opt(ConvertFocus, d.focus) = d.focus
       /\ Opt(convertTextToSpeech, d.textToSpeech) = d.textToSpeech
       /\ Opt(convertImage, d.image) = d.image /\ Opt(convertSendImage, d.sendImage) = d.sendImage
  BY <1>0, PartsCopied DEF IsNode
<1>17. PICK m : m = [plain |-> d.plain, properties |-> TRUE, hashMap |-> d.hashMap, systemPrompt |-> sp, overridePrompt |-> op,
                     focus |-> d.focus, req |-> rq, speechToText |-> st, textToSpeech |-> d.textToSpeech,
                     image |-> d.image, sendImage |-> d.sendImage, decision |-> de, scoring |-> sc, loop |-> lo,
                     epistemic |-> ep, config |-> co, structuredOutput |-> FALSE]
  OBVIOUS
<1>18. ModelNode(d) = m
  BY <1>1, <1>3, <1>5, <1>7, <1>9, <1>11, <1>14, <1>16, <1>17, <1>26 DEF ModelNode
<1>19. /\ m.plain = d.plain /\ m.hashMap = d.hashMap /\ m.systemPrompt = sp /\ m.overridePrompt = op
       /\ m.focus = d.focus /\ m.req = rq /\ m.speechToText = st /\ m.textToSpeech = d.textToSpeech
       /\ m.image = d.image /\ m.sendImage = d.sendImage /\ m.decision = de /\ m.scoring = sc /\ m.loop = lo
       /\ m.epistemic = ep /\ m.config = co
  BY <1>17
<1>20. HasFields(m, NodeFields)
  BY <1>17 DEF HasFields, NodeFields
<1>21. IsNode(m, Int, GoKinds)
  BY <1>0, <1>2, <1>4, <1>6, <1>8, <1>19, <1>20, <1>27 DEF IsNode
<1>22. IsModelNode(m)
  BY <1>10, <1>12, <1>15, <1>19, <1>21 DEF IsModelNode
<1>23. NormalNode(m) = [plain |-> d.plain, properties |-> TRUE, hashMap |-> d.hashMap, systemPrompt |-> sp, overridePrompt |-> op,
                     focus |-> d.focus, req |-> rq, speechToText |-> st, textToSpeech |-> d.textToSpeech,
                     image |-> d.image, sendImage |-> d.sendImage, decision |-> de, scoring |-> sc, loop |-> lo,
                     config |-> co, epistemic |-> ep, structuredOutput |-> FALSE]
  BY <1>2, <1>4, <1>6, <1>8, <1>10, <1>13, <1>15, <1>19, <1>27 DEF NormalNode
<1>24. NormalNode(m) = m
  BY <1>17, <1>23
<1>25. QED BY <1>18, <1>22, <1>24

\* The recursion reaches every node of a tree.
LEMMA TreeReached ==
    ASSUME NEW d, IsTree(d)
    PROVE  /\ ConvertModelToProto(d) = [p \in DOMAIN d |-> ProtoNode(d[p])]
           /\ ConvertProtoToModel(d) = [p \in DOMAIN d |-> ModelNode(d[p])]
<1>1. Reached(d, {"properties", "items", "hashMap", "decision.logic", "decision.then", "loop.logic", "loop.then"}) = DOMAIN d
  BY DEF IsTree, Reached, Parts
<1>2. QED BY <1>1 DEF ConvertModelToProto, ConvertProtoToModel

\* A tree with other nodes at the same paths is a tree.
LEMMA SamePaths ==
    ASSUME NEW d, IsTree(d), NEW e, DOMAIN e = DOMAIN d, e = [p \in DOMAIN e |-> e[p]]
    PROVE  IsTree(e)
  BY DEF IsTree, HasFields

\* Whether branches have their Then depends on how many there are and on the paths.
LEMMA ThensKept ==
    ASSUME NEW d, NEW e, DOMAIN e = DOMAIN d, NEW p, NEW part, NEW x,
           ThensOf(d, p, part, x)
    PROVE  /\ ThensOf(e, p, part, Opt(convertModelDecisionPoint, x))
           /\ ThensOf(e, p, part, Opt(convertProtoDecisionPoint, x))
<1>1. ASSUME NEW i \in DOMAIN x
      PROVE  /\ DOMAIN convertModelDecisionPoint(x[i]).branches = DOMAIN x[i].branches
             /\ DOMAIN convertProtoDecisionPoint(x[i]).branches = DOMAIN x[i].branches
  BY DEF convertModelDecisionPoint, convertProtoDecisionPoint, Opt
<1>2. PICK y : y = Opt(convertModelDecisionPoint, x)
  OBVIOUS
<1>3. PICK z : z = Opt(convertProtoDecisionPoint, x)
  OBVIOUS
<1>4. /\ DOMAIN y = DOMAIN x /\ \A i \in DOMAIN x : DOMAIN y[i].branches = DOMAIN x[i].branches
      /\ DOMAIN z = DOMAIN x /\ \A i \in DOMAIN x : DOMAIN z[i].branches = DOMAIN x[i].branches
  BY <1>1, <1>2, <1>3 DEF Opt
<1>5. ThensOf(e, p, part, y) /\ ThensOf(e, p, part, z)
  BY <1>4 DEF ThensOf
<1>6. QED BY <1>2, <1>3, <1>5

\* The same for the termination of a loop.
LEMMA LoopThensKept ==
    ASSUME NEW d, NEW e, DOMAIN e = DOMAIN d, NEW p, NEW part, NEW x,
           \A i \in DOMAIN x : ThensOf(d, p, part, x[i].termination)
    PROVE  /\ \A i \in DOMAIN Opt(convertModelRecursiveLoop, x) :
                 ThensOf(e, p, part, Opt(convertModelRecursiveLoop, x)[i].termination)
           /\ \A i \in DOMAIN Opt(convertProtoRecursiveLoop, x) :
                 ThensOf(e, p, part, Opt(convertProtoRecursiveLoop, x)[i].termination)
<1>1. ASSUME NEW i \in DOMAIN x
      PROVE  /\ Opt(convertModelRecursiveLoop, x)[i].termination = Opt(convertModelDecisionPoint, x[i].termination)
             /\ Opt(convertProtoRecursiveLoop, x)[i].termination = Opt(convertProtoDecisionPoint, x[i].termination)
  <2>1. /\ convertModelRecursiveLoop(x[i]).termination = Opt(convertModelDecisionPoint, x[i].termination)
        /\ convertProtoRecursiveLoop(x[i]).termination = Opt(convertProtoDecisionPoint, x[i].termination)
    BY DEF convertModelRecursiveLoop, convertProtoRecursiveLoop
  <2>2. /\ Opt(convertModelRecursiveLoop, x)[i] = convertModelRecursiveLoop(x[i])
        /\ Opt(convertProtoRecursiveLoop, x)[i] = convertProtoRecursiveLoop(x[i])
    BY DEF Opt
  <2>3. QED BY <2>1, <2>2
<1>2. DOMAIN Opt(convertModelRecursiveLoop, x) = DOMAIN x /\ DOMAIN Opt(convertProtoRecursiveLoop, x) = DOMAIN x
  BY DEF Opt
<1>3. QED BY <1>1, <1>2, ThensKept

\* A definition of Go types that is sent can be received, and is then its normal form.
LEMMA TreeSent ==
    ASSUME NEW d, IsTree(d), HasThens(d), \A p \in DOMAIN d : IsModelNode(d[p])
    PROVE  /\ IsTree(ConvertModelToProto(d)) /\ HasThens(ConvertModelToProto(d))
           /\ \A p \in DOMAIN ConvertModelToProto(d) : IsProtoNode(ConvertModelToProto(d)[p])
           /\ ConvertProtoToModel(ConvertModelToProto(d)) = Normal(d)
<1>1. PICK w : w = ConvertModelToProto(d)
  OBVIOUS
<1>2. DOMAIN w = DOMAIN d /\ w = [p \in DOMAIN w |-> w[p]] /\ \A p \in DOMAIN d : w[p] = ProtoNode(d[p])
  BY <1>1, TreeReached
<1>3. IsTree(w)
  BY <1>2, SamePaths
<1>4. ASSUME NEW p \in DOMAIN w
      PROVE  /\ ThensOf(w, p, "decision.then", w[p].decision)
             /\ \A i \in DOMAIN w[p].loop : ThensOf(w, p, "loop.then", w[p].loop[i].termination)
  <2>1. w[p].decision = Opt(convertModelDecisionPoint, d[p].decision) /\ w[p].loop = Opt(convertModelRecursiveLoop, d[p].loop)
    BY <1>2 DEF ProtoNode
  <2>2. /\ ThensOf(d, p, "decision.then", d[p].decision)
        /\ \A i \in DOMAIN d[p].loop : ThensOf(d, p, "loop.then", d[p].loop[i].termination)
    BY <1>2 DEF HasThens
  <2>3. ThensOf(w, p, "decision.then", w[p].decision)
    BY <1>2, <2>1, <2>2, ThensKept
  <2>4. \A i \in DOMAIN Opt(convertModelRecursiveLoop, d[p].loop) :
            ThensOf(w, p, "loop.then", Opt(convertModelRecursiveLoop, d[p].loop)[i].termination)
    BY <1>2, <2>2, LoopThensKept
  <2>5. QED BY <2>1, <2>3, <2>4
<1>5. HasThens(w)
  BY <1>4 DEF HasThens
<1>6. \A p \in DOMAIN w : IsProtoNode(w[p]) /\ ModelNode(w[p]) = NormalNode(d[p])
  BY <1>2, NodeSent
<1>7. ConvertProtoToModel(w) = [p \in DOMAIN w |-> ModelNode(w[p])]
  BY <1>3, TreeReached
<1>8. ConvertProtoToModel(w) = Normal(d)
  BY <1>2, <1>6, <1>7 DEF Normal
<1>9. QED BY <1>1, <1>3, <1>5, <1>6, <1>8

\* What was received is a definition of Go types in its normal form.
LEMMA TreeReceived ==
    ASSUME NEW w, IsTree(w), HasThens(w), \A p \in DOMAIN w : IsProtoNode(w[p])
    PROVE  /\ IsTree(ConvertProtoToModel(w)) /\ HasThens(ConvertProtoToModel(w))
           /\ DOMAIN ConvertProtoToModel(w) = DOMAIN w
           /\ \A p \in DOMAIN w : ConvertProtoToModel(w)[p] = ModelNode(w[p]) /\ IsModelNode(ModelNode(w[p]))
           /\ Normal(ConvertProtoToModel(w)) = ConvertProtoToModel(w)
<1>1. PICK d : d = ConvertProtoToModel(w)
  OBVIOUS
<1>2. DOMAIN d = DOMAIN w /\ d = [p \in DOMAIN d |-> d[p]] /\ \A p \in DOMAIN w : d[p] = ModelNode(w[p])
  BY <1>1, TreeReached
<1>3. IsTree(d)
  BY <1>2, SamePaths
<1>4. ASSUME NEW p \in DOMAIN d
      PROVE  /\ ThensOf(d, p, "decision.then", d[p].decision)
             /\ \A i \in DOMAIN d[p].loop : ThensOf(d, p, "loop.then", d[p].loop[i].termination)
  <2>1. d[p].decision = Opt(convertProtoDecisionPoint, w[p].decision) /\ d[p].loop = Opt(convertProtoRecursiveLoop, w[p].loop)
    BY <1>2 DEF ModelNode
  <2>2. /\ ThensOf(w, p, "decision.then", w[p].decision)
        /\ \A i \in DOMAIN w[p].loop : ThensOf(w, p, "loop.then", w[p].loop[i].termination)
    BY <1>2 DEF HasThens
  <2>3. ThensOf(d, p, "decision.then", d[p].decision)
    BY <1>2, <2>1, <2>2, ThensKept
  <2>4. \A i \in DOMAIN Opt(convertProtoRecursiveLoop, w[p].loop) :
            ThensOf(d, p, "loop.then", Opt(convertProtoRecursiveLoop, w[p].loop)[i].termination)
    BY <1>2, <2>2, LoopThensKept
  <2>5. QED BY <2>1, <2>3, <2>4
<1>5. HasThens(d)
  BY <1>4 DEF HasThens
<1>6. \A p \in DOMAIN d : IsModelNode(d[p]) /\ NormalNode(d[p]) = d[p]
  BY <1>2, NodeReceived
<1>7. Normal(d) = d
  BY <1>2, <1>6 DEF Normal
<1>8. QED BY <1>1, <1>2, <1>3, <1>5, <1>6, <1>7

-----------------------------------------------------------------------------
(* The invariant: what has been received is known from the origin, the form on the wire *)
(* from what has been received, and the request and the result from the job.            *)

\* The definition that the server receives first.
First == IF origin.by = "go" THEN Normal(origin.def) ELSE ConvertProtoToModel(origin.def)
Wire ==
    IF accepted # <<>> THEN ConvertModelToProto(First)
    ELSE IF origin.by = "go" THEN ConvertModelToProto(origin.def) ELSE origin.def

Receivable == origin.by = "client" => HasThens(origin.def)

ConversionInv ==
    /\ \/ origin.by = "go" /\ origin.def \in Definitions
       \/ origin.by = "client" /\ origin.def \in Messages
    /\ stage \in {"built", "wire", "received", "panic", "asked", "answered", "crash"}
    /\ accepted \in {<<>>, <<First>>, <<First, First>>}
    /\ accepted # <<>> => Receivable
    /\ stage = "built" => origin.by = "go" /\ form = origin.def /\ accepted = <<>>
    /\ stage = "wire" => accepted \in {<<>>, <<First>>} /\ form = Wire
    /\ stage \in {"received", "asked", "answered", "crash"} => accepted # <<>> /\ form = First
    /\ stage \in {"asked", "answered", "crash"} => accepted = <<First>>
    /\ stage = "panic" => origin.by = "client" /\ ~HasThens(origin.def) /\ accepted = <<>>

\* The definition that was received first is a definition of Go types in its normal form, and
\* so arrives unchanged when it is sent again.
LEMMA FirstFacts ==
    ASSUME ConversionInv, Receivable
    PROVE  /\ IsTree(First) /\ HasThens(First) /\ DOMAIN First = DOMAIN origin.def
           /\ \A p \in DOMAIN First : IsModelNode(First[p])
           /\ Normal(First) = First
           /\ IsTree(Wire) /\ HasThens(Wire) /\ ConvertProtoToModel(Wire) = First
<1>1. ASSUME NEW w, IsTree(w), HasThens(w), \A p \in DOMAIN w : IsProtoNode(w[p]), First = ConvertProtoToModel(w)
      PROVE  /\ IsTree(First) /\ HasThens(First) /\ DOMAIN First = DOMAIN w
             /\ \A p \in DOMAIN First : IsModelNode(First[p])
             /\ Normal(First) = First
             /\ IsTree(ConvertModelToProto(First)) /\ HasThens(ConvertModelToProto(First))
             /\ ConvertProtoToModel(ConvertModelToProto(First)) = First
  <2>1. /\ IsTree(First) /\ HasThens(First) /\ DOMAIN First = DOMAIN w
        /\ \A p \in DOMAIN First : IsModelNode(First[p])
        /\ Normal(First) = First
    BY <1>1, TreeReceived
  <2>2. QED BY <2>1, TreeSent
<1>2. CASE origin.by = "go"
  <2>1. /\ IsTree(origin.def) /\ HasThens(origin.def)
        /\ \A p \in DOMAIN origin.def : IsModelNode(origin.def[p])
    BY <1>2, ConversionAssumption DEF ConversionInv
  <2>2. PICK w : w = ConvertModelToProto(origin.def)
    OBVIOUS
  <2>3. /\ IsTree(w) /\ HasThens(w) /\ DOMAIN w = DOMAIN origin.def
        /\ \A p \in DOMAIN w : IsProtoNode(w[p])
        /\ ConvertProtoToModel(w) = Normal(origin.def)
    BY <2>1, <2>2, TreeSent, TreeReached
  <2>4. First = ConvertProtoToModel(w)
    BY <1>2, <2>3 DEF First
  <2>5. QED BY <1>1, <1>2, <2>2, <2>3, <2>4 DEF Wire
<1>3. CASE origin.by = "client"
  <2>1. /\ IsTree(origin.def) /\ HasThens(origin.def)
        /\ \A p \in DOMAIN origin.def : IsProtoNode(origin.def[p])
    BY <1>3, ConversionAssumption DEF ConversionInv, Receivable
  <2>2. First = ConvertProtoToModel(origin.def)
    BY <1>3 DEF First
  <2>3. QED BY <1>1, <1>3, <2>1, <2>2 DEF Wire
<1>4. QED BY <1>2, <1>3 DEF ConversionInv

GatewayInv ==
    /\ ConversionInv
    /\ job \in Situations
    /\ stage \in {"asked", "answered", "crash"} =>
         /\ Adapter # "error"
         /\ sent = <<Process(Adapter, Inputs, job.env)>>
         /\ stage = "crash" <=> sent[1].url = Panic
    /\ stage = "answered" =>
         \E r \in Replies : reply = <<r>> /\ result[1].error = JobResult(Adapter, Inputs, r).error

\* Initially the form is the origin's own.
LEMMA ConversionInitial == ConversionInit => ConversionInv
<1>1. SUFFICES ASSUME ConversionInit PROVE ConversionInv
  OBVIOUS
<1>2. CASE \E d \in Definitions : origin = [by |-> "go", def |-> d] /\ stage = "built"
  BY <1>1, <1>2 DEF ConversionInit, ConversionInv
<1>3. CASE \E w \in Messages : origin = [by |-> "client", def |-> w] /\ stage = "wire"
  <2>1. origin.by = "client" /\ origin.def \in Messages /\ stage = "wire" /\ accepted = <<>> /\ form = origin.def
    BY <1>1, <1>3 DEF ConversionInit
  <2>2. Wire = origin.def
    BY <2>1 DEF Wire
  <2>3. QED BY <2>1, <2>2 DEF ConversionInv
<1>4. QED BY <1>1, <1>2, <1>3 DEF ConversionInit

\* Sending: what is on the wire is made of the origin, or of what was received first.
LEMMA SendKept == ConversionInv /\ Send => ConversionInv'
<1>1. SUFFICES ASSUME ConversionInv, Send PROVE ConversionInv'
  OBVIOUS
<1>2. /\ stage' = "wire" /\ origin' = origin /\ accepted' = accepted /\ form' = ConvertModelToProto(form)
      /\ stage \in {"built", "received"} /\ Len(accepted) < 2
  BY <1>1 DEF Send
<1>3. First' = First /\ (Receivable' <=> Receivable) /\ Wire' = Wire
  BY <1>2 DEF First, Receivable, Wire
<1>4. accepted \in {<<>>, <<First>>}
  <2>1. Len(<<First, First>>) = 2
    OBVIOUS
  <2>2. QED BY <1>1, <1>2, <2>1 DEF ConversionInv
<1>5. form' = Wire
  BY <1>1, <1>2 DEF ConversionInv, Wire
<1>6. QED BY <1>1, <1>2, <1>3, <1>4, <1>5 DEF ConversionInv

\* The list of received definitions, by its length.
LEMMA TwoReceived ==
    \A d : /\ Append(<<>>, d) = <<d>> /\ Append(<<d>>, d) = <<d, d>>
          /\ Len(<<>>) = 0 /\ Len(<<d>>) = 1 /\ <<d, d>>[1] = d /\ <<d, d>>[2] = d
<1>1. ASSUME NEW d PROVE Append(<<>>, d) = <<d>>
  OBVIOUS
<1>2. ASSUME NEW d PROVE Append(<<d>>, d) = <<d, d>>
  <2>1. <<d, d>> \in Seq({d}) /\ Append(<<d>>, d) \in Seq({d})
    OBVIOUS
  <2>2. Len(Append(<<d>>, d)) = 2 /\ Len(<<d, d>>) = 2
    OBVIOUS
  <2>3. \A i \in 1 .. 2 : Append(<<d>>, d)[i] = <<d, d>>[i]
    OBVIOUS
  <2>4. QED BY <2>1, <2>2, <2>3, SeqEqual
<1>3. ASSUME NEW d PROVE Len(<<>>) = 0 /\ Len(<<d>>) = 1 /\ <<d, d>>[1] = d /\ <<d, d>>[2] = d
  OBVIOUS
<1>4. QED BY <1>1, <1>2, <1>3

\* Receiving: the first time gives First, the second time First again; a branch without
\* Then is met only in a client's message.
LEMMA ReceiveKept == ConversionInv /\ Receive => ConversionInv'
<1>1. SUFFICES ASSUME ConversionInv, Receive PROVE ConversionInv'
  OBVIOUS
<1>2. stage = "wire" /\ origin' = origin /\ form = Wire /\ accepted \in {<<>>, <<First>>}
  BY <1>1 DEF Receive, ConversionInv
<1>3. First' = First /\ (Receivable' <=> Receivable)
  BY <1>2 DEF First, Receivable
<1>4. CASE HasThens(form)
  <2>1. Receivable
    <3>1. CASE accepted = <<>>
      BY <1>2, <1>4, <3>1 DEF Receivable, Wire
    <3>2. CASE accepted # <<>>
      BY <1>1, <3>2 DEF ConversionInv
    <3>3. QED BY <3>1, <3>2
  <2>2. form' = First /\ stage' = "received" /\ accepted' = Append(accepted, First)
    BY <1>1, <1>2, <1>4, <2>1, FirstFacts DEF Receive
  <2>3. accepted' \in {<<First>>, <<First, First>>}
    <3>1. Append(<<>>, First) = <<First>> /\ Append(<<First>>, First) = <<First, First>>
      BY TwoReceived
    <3>2. QED BY <1>2, <2>2, <3>1
  <2>4. accepted' # <<>>
    BY <2>3
  <2>5. QED BY <1>1, <1>2, <1>3, <2>1, <2>2, <2>3, <2>4 DEF ConversionInv
<1>5. CASE ~HasThens(form)
  <2>1. stage' = "panic" /\ form' = form /\ accepted' = accepted
    BY <1>1, <1>5 DEF Receive
  <2>2. ~Receivable
    BY <1>1, <1>2, <1>5, FirstFacts
  <2>3. QED BY <1>1, <1>2, <1>3, <2>1, <2>2 DEF ConversionInv, Receivable
<1>6. QED BY <1>4, <1>5

\* The request and the result depend on the job and the first definition only.
LEMMA JobUnchanged ==
    ASSUME accepted' = accepted, job' = job
    PROVE  Adapter' = Adapter /\ Inputs' = Inputs
  BY DEF Adapter, Inputs, Root

\* What Ask and Answer leave alone.
LEMMA ConversionStays ==
    ASSUME ConversionInv, UNCHANGED <<origin, form, accepted>>,
           \/ stage' = stage
           \/ stage \in {"received", "asked"} /\ Len(accepted) = 1 /\ stage' \in {"asked", "answered", "crash"}
    PROVE  ConversionInv'
<1>1. First' = First /\ (Receivable' <=> Receivable) /\ Wire' = Wire
  BY DEF First, Receivable, Wire
<1>2. Len(accepted) = 1 => accepted = <<First>>
  <2>1. Len(<<>>) = 0 /\ Len(<<First, First>>) = 2
    OBVIOUS
  <2>2. QED BY <2>1 DEF ConversionInv
<1>3. QED BY <1>1, <1>2 DEF ConversionInv

\* No step breaks the invariant.
LEMMA GatewayInductive == GatewayInv /\ [GatewayNext]_gatewayVars => GatewayInv'
<1>1. SUFFICES ASSUME GatewayInv, [GatewayNext]_gatewayVars PROVE GatewayInv'
  OBVIOUS
<1>2. CASE ConversionNext /\ UNCHANGED <<job, sent, reply, result>>
  <2>1. ConversionInv'
    BY <1>1, <1>2, SendKept, ReceiveKept DEF GatewayInv, ConversionNext
  <2>2. stage' \in {"wire", "received", "panic"}
    BY <1>2 DEF ConversionNext, Send, Receive
  <2>3. QED BY <1>1, <1>2, <2>1, <2>2 DEF GatewayInv
<1>3. CASE Ask
  <2>1. PICK request : request = Process(Adapter, Inputs, job.env)
    OBVIOUS
  <2>2. /\ stage = "received" /\ Len(accepted) = 1 /\ Adapter # "error"
        /\ stage' = IF request.url = Panic THEN "crash" ELSE "asked"
        /\ sent' = <<request>>
        /\ UNCHANGED <<origin, form, accepted, job, reply, result>>
    BY <1>3, <2>1 DEF Ask
  <2>3. ConversionInv'
    BY <1>1, <2>2, ConversionStays DEF GatewayInv
  <2>4. Adapter' = Adapter /\ Inputs' = Inputs
    BY <2>2, JobUnchanged
  <2>5. QED BY <1>1, <2>1, <2>2, <2>3, <2>4 DEF GatewayInv
<1>4. CASE \E r \in Replies : Answer(r)
  <2>1. PICK r \in Replies : Answer(r)
    BY <1>4
  <2>2. stage = "asked" /\ stage' = "answered" /\ reply' = <<r>> /\ UNCHANGED <<origin, form, accepted, job, sent>>
    BY <2>1 DEF Answer
  <2>3. result'[1].error = JobResult(Adapter, Inputs, r).error
    BY <2>1 DEF Answer
  <2>4. Len(accepted) = 1
    BY <1>1, <2>2 DEF GatewayInv, ConversionInv
  <2>5. ConversionInv'
    BY <1>1, <2>2, <2>4, ConversionStays DEF GatewayInv
  <2>6. Adapter' = Adapter /\ Inputs' = Inputs
    BY <2>2, JobUnchanged
  <2>7. QED BY <1>1, <2>2, <2>3, <2>5, <2>6 DEF GatewayInv
<1>5. CASE UNCHANGED gatewayVars
  <2>1. UNCHANGED <<stage, origin, form, accepted, job, sent, reply, result>>
    BY <1>5 DEF gatewayVars, conversionVars
  <2>2. ConversionInv'
    BY <1>1, <2>1, ConversionStays DEF GatewayInv
  <2>3. Adapter' = Adapter /\ Inputs' = Inputs
    BY <2>1, JobUnchanged
  <2>4. QED BY <1>1, <2>1, <2>2, <2>3 DEF GatewayInv
<1>6. QED BY <1>1, <1>2, <1>3, <1>4, <1>5 DEF GatewayNext

\* The invariant holds in every behaviour.
LEMMA GatewayInvariant == GatewaySpec => []GatewayInv
<1>1. GatewayInit => GatewayInv
  <2>1. GatewayInit => ConversionInv /\ job \in Situations /\ stage \in {"built", "wire"}
    BY ConversionInitial, GatewayAssumption DEF GatewayInit, ConversionInit
  <2>2. QED BY <2>1 DEF GatewayInv
<1>2. QED BY <1>1, GatewayInductive, PTL DEF GatewaySpec

\* Definitions travel faithfully: what a Go program sends arrives in its normal form, what was
\* received and is sent on arrives unchanged, and only a message with a branch without Then
\* makes the server panic (converison/*.go).
THEOREM ConversionsKept == GatewaySpec => []ConversionsFaithful
<1>1. ASSUME GatewayInv PROVE ConversionsFaithful
  <2>1. ArrivesNormal
    <3>1. ASSUME stage = "received", origin.by = "go" PROVE accepted[1] = Normal(origin.def)
      BY <1>1, <3>1 DEF GatewayInv, ConversionInv, First
    <3>2. QED BY <3>1 DEF ArrivesNormal
  <2>2. SecondTripFaithful
    <3>1. ASSUME Len(accepted) = 2 PROVE accepted[1] = accepted[2]
      <4>1. accepted = <<First, First>>
        BY <1>1, <3>1, TwoReceived DEF GatewayInv, ConversionInv
      <4>2. QED BY <4>1, TwoReceived
    <3>2. QED BY <3>1 DEF SecondTripFaithful
  <2>3. OwnMessagesReceived
    BY <1>1 DEF GatewayInv, ConversionInv, OwnMessagesReceived
  <2>4. QED BY <2>1, <2>2, <2>3 DEF ConversionsFaithful
<1>2. QED BY <1>1, GatewayInvariant, PTL

\* A 429 is recognised from every adapter (backoff/errorClassifer.go).
THEOREM RateLimitsRecognised == GatewaySpec => []RateLimitSeen
<1>1. ASSUME GatewayInv PROVE RateLimitSeen
  <2>1. SUFFICES ASSUME stage = "answered", reply[1].status = 429 PROVE result[1].error = "ratelimit"
    BY DEF RateLimitSeen
  <2>2. PICK r \in Replies : reply = <<r>> /\ result[1].error = JobResult(Adapter, Inputs, r).error
    BY <1>1, <2>1 DEF GatewayInv
  <2>3. r.status = 429
    BY <2>1, <2>2
  <2>4. PICK text : text = ErrorText(Adapter, r)
    OBVIOUS
  <2>5. "429" \in text /\ "EOF" \notin text
    <3>1. "EOF" \notin r.says
      BY <2>3, GatewayAssumption
    <3>2. CASE Adapter = "local"
      BY <2>3, <2>4, <3>1, <3>2 DEF ErrorText, LocalError, Number
    <3>3. CASE Adapter = "openai"
      BY <2>3, <2>4, <3>1, <3>3 DEF ErrorText, OpenAIError, Number
    <3>4. CASE Adapter \notin {"local", "openai"}
      BY <2>3, <2>4, <3>1, <3>4 DEF ErrorText, GeminiError, Number
    <3>5. QED BY <3>2, <3>3, <3>4
  <2>6. Classify(text) = "ratelimit"
    BY <2>5 DEF Classify
  <2>7. JobResult(Adapter, Inputs, r).error = "ratelimit"
    BY <2>3, <2>4, <2>6 DEF JobResult
  <2>8. QED BY <2>2, <2>7
<1>2. QED BY <1>1, GatewayInvariant, PTL

\* What an adapter and the schema look at arrives as the origin has it.
LEMMA RootFacts ==
    ASSUME ConversionInv, Receivable
    PROVE  /\ IsTree(First) /\ <<>> \in DOMAIN First /\ DOMAIN First = DOMAIN origin.def
           /\ \A p \in DOMAIN First : First[p].plain = origin.def[p].plain /\ First[p].properties = TRUE
           /\ IsModelNode(First[<<>>])
           /\ First[<<>>].sendImage = origin.def[<<>>].sendImage
           /\ origin.by = "go" => First[<<>>].config = Opt(NormalConfig, origin.def[<<>>].config)
<1>1. IsTree(First) /\ DOMAIN First = DOMAIN origin.def /\ \A p \in DOMAIN First : IsModelNode(First[p])
  BY FirstFacts
<1>2. <<>> \in DOMAIN First
  BY <1>1 DEF IsTree
<1>3. CASE origin.by = "go"
  <2>1. \A p \in DOMAIN First : First[p] = NormalNode(origin.def[p])
    BY <1>1, <1>3 DEF First, Normal
  <2>2. ASSUME NEW d PROVE /\ NormalNode(d).plain = d.plain /\ NormalNode(d).sendImage = d.sendImage
                          /\ NormalNode(d).config = Opt(NormalConfig, d.config) /\ NormalNode(d).properties = TRUE
    BY DEF NormalNode
  <2>3. QED BY <1>1, <1>2, <2>1, <2>2
<1>4. CASE origin.by = "client"
  <2>1. IsTree(origin.def) /\ HasThens(origin.def) /\ \A p \in DOMAIN origin.def : IsProtoNode(origin.def[p])
    BY <1>4, ConversionAssumption DEF ConversionInv, Receivable
  <2>2. \A p \in DOMAIN First : First[p] = ModelNode(origin.def[p])
    BY <1>1, <1>4, <2>1, TreeReceived DEF First
  <2>3. ASSUME NEW d PROVE /\ ModelNode(d).plain = d.plain /\ ModelNode(d).sendImage = Opt(convertSendImage, d.sendImage)
                           /\ ModelNode(d).properties = TRUE
    BY DEF ModelNode
  <2>4. OptionalPart(origin.def[<<>>].sendImage, {"imagesData"})
    BY <1>1, <1>2, <2>1 DEF IsProtoNode, IsNode
  <2>5. Opt(convertSendImage, origin.def[<<>>].sendImage) = origin.def[<<>>].sendImage
    BY <2>4, PartsCopied
  <2>6. QED BY <1>1, <1>2, <1>4, <2>2, <2>3, <2>5
<1>5. QED BY <1>3, <1>4 DEF ConversionInv

\* A job that was asked: the definition is the first one, the request what Process made of it.
LEMMA AskedFacts ==
    ASSUME GatewayInv, stage \in {"asked", "answered", "crash"}
    PROVE  /\ ConversionInv /\ Receivable /\ Root = First[<<>>] /\ accepted[1] = First
           /\ job \in Situations /\ Adapter \in {"local", "openai", "gemini"}
           /\ sent[1] = Process(Adapter, Inputs, job.env)
           /\ Inputs.def = Root /\ Inputs.prompt = job.prompt /\ Inputs.systemPrompt = job.systemPrompt
<1>1. ConversionInv /\ job \in Situations /\ accepted = <<First>> /\ sent = <<Process(Adapter, Inputs, job.env)>>
      /\ Adapter # "error"
  BY DEF GatewayInv, ConversionInv
<1>2. accepted[1] = First /\ sent[1] = Process(Adapter, Inputs, job.env)
  BY <1>1
<1>3. accepted # <<>>
  BY <1>1
<1>4. Receivable
  BY <1>1, <1>3 DEF ConversionInv
<1>5. Adapter \in {"local", "openai", "gemini", "error"}
  BY DEF Adapter, NewClientAdapterFromEnv, NewClientAdapter
<1>6. Inputs.def = Root /\ Inputs.prompt = job.prompt /\ Inputs.systemPrompt = job.systemPrompt
  BY DEF Inputs
<1>7. QED BY <1>1, <1>2, <1>4, <1>5, <1>6 DEF Root

\* The body of a request that is not for an embedding.
LEMMA BodyFacts ==
    ASSUME NEW inputs, NEW env, ~IsEmbedding(inputs)
    PROVE  /\ Process("local", inputs, env).body = BuildRequest(inputs, env)
           /\ Process("openai", inputs, env).body = BuildRequest(inputs, env)
           /\ Process("gemini", inputs, env).body = convertToGeminiFormat(BuildRequest(inputs, env))
<1>1. PICK request : request = BuildRequest(inputs, env)
  OBVIOUS
<1>2. PICK url : url = env.apiURL[1]
  OBVIOUS
<1>3. Process("local", inputs, env) = [url |-> url, body |-> request]
  BY <1>1, <1>2 DEF Process, LocalProcess
<1>4. Process("openai", inputs, env) = [url |-> OpenAIURL, body |-> request]
  BY <1>1 DEF Process, OpenAIProcess
<1>5. Process("gemini", inputs, env) = [url |-> GeminiURL, body |-> convertToGeminiFormat(request)]
  BY <1>1 DEF Process, GeminiProcess
<1>6. QED BY <1>1, <1>3, <1>4, <1>5

\* The settings in a request, in both forms.
LEMMA BuiltFacts ==
    ASSUME NEW inputs, NEW env
    PROVE  LET request == BuildRequest(inputs, env)
               gemini == convertToGeminiFormat(request)
               config == inputs.def.config
           IN  /\ request.responseFormat = inputs.responseSchema
               /\ gemini.responseSchema = inputs.responseSchema
               /\ gemini.temperature = Positive(request.temperature) /\ gemini.topP = Positive(request.topP)
               /\ request.seed = SeedOf(inputs.def, env)
               /\ config # <<>> =>
                    /\ request.temperature = config[1].temperature /\ request.topP = config[1].topP
                    /\ request.passed = config[1].passed
                    /\ request.topLogProbs = config[1].topLogProbs /\ request.kwargs = config[1].kwargs
                    /\ request.maxCompletionTokens = config[1].maxTokens
<1>1. PICK messages, config, seed :
        /\ config = IF inputs.def.config = <<>> THEN DefaultConfig ELSE inputs.def.config[1]
        /\ seed = SeedOf(inputs.def, env)
        /\ BuildRequest(inputs, env) =
             [messages |-> messages, model |-> inputs.def.plain.model,
              temperature |-> config.temperature, topP |-> config.topP, passed |-> config.passed,
              topLogProbs |-> config.topLogProbs, kwargs |-> config.kwargs,
              maxCompletionTokens |-> config.maxTokens, maxTokens |-> 0, seed |-> seed,
              responseFormat |-> inputs.responseSchema]
  BY DEF BuildRequest
<1>2. PICK request : request = BuildRequest(inputs, env)
  OBVIOUS
<1>3. /\ request.responseFormat = inputs.responseSchema /\ request.seed = seed
      /\ request.temperature = config.temperature /\ request.topP = config.topP
      /\ request.passed = config.passed /\ request.topLogProbs = config.topLogProbs
      /\ request.kwargs = config.kwargs /\ request.maxCompletionTokens = config.maxTokens
  BY <1>1, <1>2
<1>4. /\ convertToGeminiFormat(request).responseSchema = request.responseFormat
      /\ convertToGeminiFormat(request).temperature = Positive(request.temperature)
      /\ convertToGeminiFormat(request).topP = Positive(request.topP)
  BY DEF convertToGeminiFormat
<1>5. QED BY <1>1, <1>2, <1>3, <1>4

-----------------------------------------------------------------------------
(* Where requests go. *)

\* Changing one part of a URL leaves its host alone.
LEMMA URLFacts ==
    ASSUME NEW url \in URLs
    PROVE  /\ extractBaseURL(url).host = url.host
           /\ IF Length(url) < 17 THEN EmbeddingURL(url) = Panic
              ELSE /\ EmbeddingURL(url) # Panic /\ EmbeddingURL(url).host = url.host
                   /\ url.endpoint # "completions" => EmbeddingURL(url).base = url.base
<1>1. DOMAIN EndpointLength = {"chat", "completions", "embeddings", "none"}
      /\ EndpointLength["chat"] = 17 /\ EndpointLength["completions"] = 12
      /\ EndpointLength["embeddings"] = 11 /\ EndpointLength["none"] = 0
  BY DEF EndpointLength
<1>2. PICK h \in Hosts, b \in Nat, e \in {"chat", "completions", "embeddings", "none"} :
        url = [host |-> h, base |-> b, endpoint |-> e]
  BY <1>1 DEF URLs
<1>3. url.host = h /\ url.base = b /\ url.endpoint = e
  BY <1>2
<1>4. extractBaseURL(url).host = h
  BY <1>2 DEF extractBaseURL
<1>5. PICK n \in Nat : n = Length(url) /\ n = b + EndpointLength[e]
  BY <1>1, <1>3 DEF Length
<1>6. CASE n < 17
  BY <1>1, <1>3, <1>4, <1>5, <1>6 DEF EmbeddingURL
<1>7. CASE n >= 17 /\ e \in {"chat", "completions"}
  <2>1. EmbeddingURL(url) = [url EXCEPT !.base = n - 17, !.endpoint = "embeddings"]
    BY <1>1, <1>3, <1>5, <1>7 DEF EmbeddingURL
  <2>2. EmbeddingURL(url) = [host |-> h, base |-> n - 17, endpoint |-> "embeddings"]
    BY <1>2, <2>1
  <2>3. EmbeddingURL(url) \in URLs
    BY <1>1, <1>7, <2>2 DEF URLs
  <2>4. EmbeddingURL(url).host = h /\ EmbeddingURL(url).base = n - 17
    BY <2>2
  <2>5. e # "completions" => n - 17 = b
    BY <1>1, <1>5, <1>7
  <2>6. QED BY <1>3, <1>4, <1>5, <1>7, <2>3, <2>4, <2>5, PanicAssumption
<1>8. CASE n >= 17 /\ e \notin {"chat", "completions"}
  <2>1. EmbeddingURL(url) = url
    BY <1>1, <1>3, <1>5, <1>8 DEF EmbeddingURL
  <2>2. QED BY <1>3, <1>4, <1>5, <1>8, <2>1, PanicAssumption
<1>9. QED BY <1>6, <1>7, <1>8

\* The URL of a request.
LEMMA ProcessURL ==
    ASSUME NEW inputs, NEW env
    PROVE  /\ Process("openai", inputs, env).url = OpenAIURL
           /\ Process("gemini", inputs, env).url = GeminiURL
           /\ Process("local", inputs, env).url =
                IF IsEmbedding(inputs) THEN EmbeddingURL(env.apiURL[1]) ELSE env.apiURL[1]
<1>1. PICK b1 : Process("openai", inputs, env) = [url |-> OpenAIURL, body |-> b1]
  BY DEF Process, OpenAIProcess
<1>2. PICK b2 : Process("gemini", inputs, env) = [url |-> GeminiURL, body |-> b2]
  BY DEF Process, GeminiProcess
<1>3. PICK b3 : Process("local", inputs, env) =
                   [url |-> IF IsEmbedding(inputs) THEN EmbeddingURL(env.apiURL[1]) ELSE env.apiURL[1], body |-> b3]
  <2>1. CASE IsEmbedding(inputs)
    BY <2>1 DEF Process, LocalProcess
  <2>2. CASE ~IsEmbedding(inputs)
    BY <2>2 DEF Process, LocalProcess
  <2>3. QED BY <2>1, <2>2
<1>4. QED BY <1>1, <1>2, <1>3

\* The local adapter has a URL.
LEMMA LocalURL ==
    ASSUME job \in Situations, Adapter = "local"
    PROVE  \E url \in URLs : job.env.apiURL = <<url>> /\ job.env.apiURL[1] = url
<1>1. job.env.apiURL # <<>>
  BY DEF Adapter, NewClientAdapterFromEnv, NewClientAdapter
<1>2. PICK x : x = job.env.apiURL
  OBVIOUS
<1>3. Optional(x) /\ \A i \in DOMAIN x : x[i] \in URLs
  BY <1>2, GatewayAssumption
<1>4. Len(x) = 1 /\ x = [i \in 1 .. 1 |-> x[i]]
  BY <1>1, <1>2, <1>3 DEF Optional, List, HasFields
<1>5. x = <<x[1]>>
  BY <1>4
<1>6. x[1] \in URLs
  BY <1>3, <1>4
<1>7. QED BY <1>2, <1>5, <1>6

\* An embedding goes to the host and path of LLM_API_URL (LocalClientAdapter.processEmbedding).
LEMMA EmbeddingsAtHome == GatewayInv => EmbeddingsGoHome
<1>1. SUFFICES ASSUME GatewayInv, stage \in {"asked", "answered", "crash"}
               PROVE  /\ stage = "crash" => Adapter = "local" /\ Length(job.env.apiURL[1]) < 17
                      /\ Asked /\ Adapter = "local" /\ job.env.apiURL[1].endpoint # "completions" =>
                           sent[1].url.host = job.env.apiURL[1].host /\ sent[1].url.base = job.env.apiURL[1].base
  BY DEF EmbeddingsGoHome, Asked
<1>2. /\ job \in Situations /\ Adapter \in {"local", "openai", "gemini"}
      /\ sent[1] = Process(Adapter, Inputs, job.env)
      /\ stage = "crash" <=> sent[1].url = Panic
  BY <1>1, AskedFacts DEF GatewayInv
<1>3. CASE Adapter # "local"
  <2>1. sent[1].url \in {OpenAIURL, GeminiURL}
    BY <1>2, <1>3, ProcessURL
  <2>2. stage # "crash"
    BY <1>2, <2>1, PanicAssumption
  <2>3. QED BY <1>3, <2>2
<1>4. CASE Adapter = "local"
  <2>1. PICK url \in URLs : job.env.apiURL[1] = url
    BY <1>2, <1>4, LocalURL
  <2>2. sent[1].url = IF IsEmbedding(Inputs) THEN EmbeddingURL(url) ELSE url
    BY <1>2, <1>4, <2>1, ProcessURL
  <2>3. url # Panic
    BY PanicAssumption
  <2>4. QED BY <1>2, <1>4, <2>1, <2>2, <2>3, URLFacts DEF Asked
<1>5. QED BY <1>3, <1>4

\* Batches go where the calls go (determineBaseURL).
LEMMA BatchesAtProvider == GatewayInv => BatchSameProvider
<1>1. SUFFICES ASSUME GatewayInv, Asked, job.env.provider # "", job.env.batchProvider = "",
                      job.env.batchBaseURL = <<>>, job.env.batchAPIURL = <<>>
               PROVE  \A i \in DOMAIN BatchAiClient(job.env) :
                          BatchAiClient(job.env)[i].baseURL.host = sent[1].url.host
  BY DEF BatchSameProvider
<1>2. /\ job \in Situations /\ Adapter \in {"local", "openai", "gemini"}
      /\ sent[1] = Process(Adapter, Inputs, job.env)
      /\ sent[1].url # Panic
  BY <1>1, AskedFacts DEF GatewayInv, Asked
<1>3. job.env.provider = Adapter /\ (Adapter = "local" => job.env.apiURL # <<>>)
  BY <1>1, <1>2 DEF Adapter, NewClientAdapterFromEnv, NewClientAdapter
<1>4. ASSUME NEW base, determineBaseURL(job.env) = <<base>>, base.host = sent[1].url.host
      PROVE  \A i \in DOMAIN BatchAiClient(job.env) :
                 BatchAiClient(job.env)[i].baseURL.host = sent[1].url.host
  <2>1. determineBaseURL(job.env) # <<>> /\ determineBaseURL(job.env)[1] = base
    BY <1>4
  <2>2. PICK key : key = IF job.env.batchKey # "" THEN job.env.batchKey ELSE job.env.key
    OBVIOUS
  <2>3. PICK client : client = [baseURL |-> base, apiKey |-> key]
    OBVIOUS
  <2>4. BatchAiClient(job.env) = <<client>>
    BY <2>1, <2>2, <2>3, Zenon DEF BatchAiClient
  <2>5. \A i \in DOMAIN <<client>> : <<client>>[i] = client
    OBVIOUS
  <2>6. client.baseURL = base
    BY <2>3
  <2>7. QED BY <1>4, <2>4, <2>5, <2>6
<1>5. CASE Adapter = "openai"
  <2>1. PICK base : base = OpenAIURL
    OBVIOUS
  <2>2. determineBaseURL(job.env) = <<base>>
    BY <1>1, <1>3, <1>5, <2>1 DEF determineBaseURL
  <2>3. QED BY <1>2, <1>4, <1>5, <2>1, <2>2, ProcessURL
<1>6. CASE Adapter = "gemini"
  <2>1. determineBaseURL(job.env) = <<>>
    BY <1>1, <1>3, <1>6 DEF determineBaseURL
  <2>2. BatchAiClient(job.env) = <<>>
    BY <2>1, Zenon DEF BatchAiClient
  <2>3. DOMAIN BatchAiClient(job.env) = {}
    BY <2>2
  <2>4. QED BY <2>3
<1>7. CASE Adapter = "local"
  <2>1. PICK url \in URLs : job.env.apiURL[1] = url
    BY <1>2, <1>7, LocalURL
  <2>2. PICK base : base = extractBaseURL(url)
    OBVIOUS
  <2>3. determineBaseURL(job.env) = <<base>>
    BY <1>1, <1>3, <1>7, <2>1, <2>2 DEF determineBaseURL
  <2>4. sent[1].url = IF IsEmbedding(Inputs) THEN EmbeddingURL(url) ELSE url
    BY <1>2, <1>7, <2>1, ProcessURL
  <2>5. base.host = sent[1].url.host
    BY <1>2, <2>2, <2>4, URLFacts
  <2>6. QED BY <1>4, <2>3, <2>5
<1>8. QED BY <1>2, <1>5, <1>6, <1>7

\* The body of a request, by adapter.
LEMMA BodySent ==
    ASSUME GatewayInv, Asked, ~IsEmbedding(Inputs)
    PROVE  /\ (IF Adapter = "gemini" THEN sent[1].body.responseSchema ELSE sent[1].body.responseFormat) = Inputs.responseSchema
           /\ sent[1].body = IF Adapter = "gemini" THEN convertToGeminiFormat(BuildRequest(Inputs, job.env))
                             ELSE BuildRequest(Inputs, job.env)
<1>1. sent[1] = Process(Adapter, Inputs, job.env) /\ Adapter \in {"local", "openai", "gemini"}
  BY AskedFacts DEF Asked
<1>2. PICK inputs : inputs = Inputs
  OBVIOUS
<1>3. PICK env : env = job.env
  OBVIOUS
<1>4. ~IsEmbedding(inputs) /\ sent[1] = Process(Adapter, inputs, env)
  BY <1>1, <1>2, <1>3
<1>5. sent[1].body = IF Adapter = "gemini" THEN convertToGeminiFormat(BuildRequest(inputs, env)) ELSE BuildRequest(inputs, env)
  BY <1>1, <1>4, BodyFacts
<1>6. (IF Adapter = "gemini" THEN sent[1].body.responseSchema ELSE sent[1].body.responseFormat) = inputs.responseSchema
  BY <1>5, BuiltFacts
<1>7. QED BY <1>2, <1>3, <1>5, <1>6

\* What is left of a model configuration in normal form.
LEMMA NormalConfigFacts ==
    ASSUME NEW x, Optional(x), x # <<>>
    PROVE  LET y == Opt(NormalConfig, x)
           IN  y # <<>> /\ y[1] = NormalConfig(x[1])
<1>1. DOMAIN x = {1}
  BY DEF Optional, List, HasFields
<1>2. PICK y : y = Opt(NormalConfig, x)
  OBVIOUS
<1>3. DOMAIN y = {1} /\ y[1] = NormalConfig(x[1])
  BY <1>1, <1>2 DEF Opt
<1>4. y # <<>>
  BY <1>3
<1>5. QED BY <1>2, <1>3, <1>4

\* The settings of a definition reach the provider, as far as its form has them.
LEMMA SettingsArrive == GatewayInv => SettingsSent
<1>1. SUFFICES ASSUME GatewayInv, Asked, ~IsEmbedding(Inputs), origin.by = "go"
               PROVE  LET body == sent[1].body
                          config == origin.def[<<>>].config
                          arrived == NormalConfig(config[1])
                      IN  /\ (IF Adapter = "gemini" THEN body.responseSchema ELSE body.responseFormat) = Inputs.responseSchema
                          /\ Adapter = "gemini" /\ config # <<>> =>
                               body.temperature = Positive(config[1].temperature) /\ body.topP = Positive(config[1].topP)
                          /\ Adapter # "gemini" /\ config # <<>> =>
                               /\ body.temperature = config[1].temperature /\ body.topP = config[1].topP
                               /\ body.passed = config[1].passed
                               /\ body.topLogProbs = arrived.topLogProbs /\ body.kwargs = arrived.kwargs
                               /\ body.maxCompletionTokens = arrived.maxTokens
                               /\ arrived.seed # <<>> => body.seed = arrived.seed[1]
  BY DEF SettingsSent
<1>2. /\ Inputs.def = First[<<>>] /\ ConversionInv /\ Receivable
  BY <1>1, AskedFacts DEF Asked
<1>3. PICK inputs, env, body, config, normal :
        inputs = Inputs /\ env = job.env /\ body = sent[1].body /\ config = origin.def[<<>>].config /\ normal = Inputs.def.config
  OBVIOUS
<1>4. normal = Opt(NormalConfig, config)
  BY <1>1, <1>2, <1>3, RootFacts
<1>5. IsTree(origin.def) /\ \A p \in DOMAIN origin.def : IsModelNode(origin.def[p])
  BY <1>1, <1>2, ConversionAssumption DEF ConversionInv
<1>6. Optional(config)
  BY <1>3, <1>5 DEF IsTree, IsModelNode
<1>7. PICK request : request = BuildRequest(inputs, env)
  OBVIOUS
<1>8. body = IF Adapter = "gemini" THEN convertToGeminiFormat(request) ELSE request
  BY <1>1, <1>3, <1>7, BodySent
<1>9. /\ convertToGeminiFormat(request).temperature = Positive(request.temperature)
      /\ convertToGeminiFormat(request).topP = Positive(request.topP)
      /\ request.seed = SeedOf(inputs.def, env)
      /\ normal # <<>> =>
           /\ request.temperature = normal[1].temperature /\ request.topP = normal[1].topP
           /\ request.passed = normal[1].passed
           /\ request.topLogProbs = normal[1].topLogProbs /\ request.kwargs = normal[1].kwargs
           /\ request.maxCompletionTokens = normal[1].maxTokens
  BY <1>3, <1>7, BuiltFacts
<1>10. ASSUME config # <<>>, NEW arrived, arrived = NormalConfig(config[1])
       PROVE  /\ Adapter = "gemini" =>
                   body.temperature = Positive(config[1].temperature) /\ body.topP = Positive(config[1].topP)
              /\ Adapter # "gemini" =>
                   /\ body.temperature = config[1].temperature /\ body.topP = config[1].topP
                   /\ body.passed = config[1].passed
                   /\ body.topLogProbs = arrived.topLogProbs /\ body.kwargs = arrived.kwargs
                   /\ body.maxCompletionTokens = arrived.maxTokens
                   /\ arrived.seed # <<>> => body.seed = arrived.seed[1]
  <2>1. normal # <<>> /\ normal[1] = arrived
    BY <1>4, <1>6, <1>10, NormalConfigFacts
  <2>2. arrived.temperature = config[1].temperature /\ arrived.topP = config[1].topP /\ arrived.passed = config[1].passed
    BY <1>10 DEF NormalConfig
  <2>3. arrived.seed # <<>> => SeedOf(inputs.def, env) = arrived.seed[1]
    BY <1>3, <2>1 DEF SeedOf
  <2>4. QED BY <1>8, <1>9, <2>1, <2>2, <2>3
<1>11. (IF Adapter = "gemini" THEN body.responseSchema ELSE body.responseFormat) = Inputs.responseSchema
  BY <1>1, <1>3, BodySent
<1>12. QED BY <1>3, <1>10, <1>11

-----------------------------------------------------------------------------
(* The schema of a structured output. *)

\* Schemas depend on the paths of a definition and the plain parts of its nodes.
LEMMA SamePlain ==
    ASSUME NEW d, NEW e, IsTree(d), DOMAIN d = DOMAIN e, \A p \in DOMAIN d : d[p].plain = e[p].plain
    PROVE  /\ \A p \in DOMAIN d : SchemaType(d[p]) = SchemaType(e[p])
           /\ SchemaPaths(d) = SchemaPaths(e)
           /\ Decomposed(d) = Decomposed(e)
<1>1. \A p \in DOMAIN d : SchemaType(d[p]) = SchemaType(e[p])
  BY DEF SchemaType
<1>2. \A p \in DOMAIN d : \A i \in DOMAIN p : SubSeq(p, 1, i - 1) \in DOMAIN d
  BY DEF IsTree
<1>3. SchemaPaths(d) = SchemaPaths(e)
  BY <1>1, <1>2 DEF SchemaPaths
<1>4. SchemaPaths(d) \subseteq DOMAIN d
  BY DEF SchemaPaths
<1>5. QED BY <1>1, <1>3, <1>4 DEF Decomposed

\* What the schema says at a path of the definition.
LEMMA SchemaAt ==
    ASSUME NEW d, NEW p \in SchemaPaths(d)
    PROVE  /\ p \in DOMAIN DefinitionToJSONSchema(d)
           /\ DefinitionToJSONSchema(d)[p].type = SchemaType(d[p])
           /\ DefinitionToJSONSchema(d)[p].required =
                 IF SchemaType(d[p]) = "object" THEN {q \in DOMAIN d : Property(p, q)} ELSE {}
<1>1. p \in DOMAIN DefinitionToJSONSchema(d) /\ DefinitionToJSONSchema(d)[p] = ToSchema(d, p)
  BY DEF DefinitionToJSONSchema
<1>2. PICK S : S = {q \in DOMAIN d : Property(p, q)}
  OBVIOUS
<1>3. PICK t : t = SchemaType(d[p])
  OBVIOUS
<1>4. PICK a : a = IF d[p].plain.instruction = "" THEN <<>> ELSE <<d[p].plain.instruction>>
  OBVIOUS
<1>5. CASE t = "object"
  <2>1. ToSchema(d, p) = [[type |-> t, description |-> a, required |-> {}, additional |-> TRUE] EXCEPT
                              !.required = S, !.additional = ~d[p].properties]
    BY <1>2, <1>3, <1>4, <1>5 DEF ToSchema, objectToSchema, Schema
  <2>2. ToSchema(d, p).type = t /\ ToSchema(d, p).required = S
    BY <2>1
  <2>3. QED BY <1>1, <1>2, <1>3, <1>5, <2>2
<1>6. CASE t # "object"
  <2>1. ToSchema(d, p) = [type |-> t, description |-> a, required |-> {}, additional |-> TRUE]
    BY <1>3, <1>4, <1>6 DEF ToSchema, Schema
  <2>2. QED BY <1>1, <1>3, <1>6, <2>1
<1>7. QED BY <1>5, <1>6

\* A list is a sequence, and prefixes of a prefix are prefixes.
LEMMA ListIsSeq ==
    ASSUME NEW x, List(x)
    PROVE  \E S : x \in Seq(S)
<1>1. PICK n \in Nat : n = Len(x)
  BY DEF List
<1>2. x \in [1 .. n -> {x[i] : i \in 1 .. n}]
  BY <1>1 DEF List, HasFields
<1>3. x \in Seq({x[i] : i \in 1 .. n})
  BY <1>2, SeqDef
<1>4. QED BY <1>3

\* Prefixes of a path.
LEMMA PrefixFacts ==
    ASSUME NEW S, NEW n \in Nat, NEW q \in Seq(S), Len(q) = n + 1, NEW i \in 1 .. n
    PROVE  SubSeq(SubSeq(q, 1, n), 1, i - 1) = SubSeq(q, 1, i - 1) /\ SubSeq(q, 1, n)[i] = q[i]
  OBVIOUS

\* The prefix of length 0.
LEMMA EmptyPrefix == \A p : SubSeq(p, 1, 0) = <<>>
  OBVIOUS

\* The parts of an object that a schema looks at are its properties.
LEMMA ObjectPart ==
    ASSUME NEW part, <<"object", part>> \in {<<"object", "properties">>, <<"array", "items">>}
    PROVE  part = "properties"
  OBVIOUS

\* The properties of an object the recursion reaches are reached, too.
LEMMA PropertiesReached ==
    ASSUME NEW d, IsTree(d), NEW p \in SchemaPaths(d), SchemaType(d[p]) = "object",
           NEW q \in DOMAIN d, Property(p, q)
    PROVE  q \in SchemaPaths(d)
<1>1. List(p) /\ List(q) /\ p \in DOMAIN d
  BY DEF IsTree, SchemaPaths
<1>2. PICK n \in Nat : n = Len(p) /\ DOMAIN p = 1 .. n
  BY <1>1 DEF List, HasFields
<1>3. DOMAIN q = 1 .. n + 1 /\ SubSeq(q, 1, n) = p /\ q[n + 1][1] = "properties" /\ Len(q) = n + 1
  BY <1>1, <1>2 DEF List, HasFields, Property
<1>4. ASSUME NEW i \in DOMAIN q
      PROVE  <<SchemaType(d[SubSeq(q, 1, i - 1)]), q[i][1]>> \in {<<"object", "properties">>, <<"array", "items">>}
  <2>1. CASE i = n + 1
    <3>1. SubSeq(q, 1, i - 1) = p
      BY <1>3, <2>1
    <3>2. QED BY <1>3, <2>1, <3>1
  <2>2. CASE i # n + 1
    <3>1. i \in 1 .. n
      BY <1>3, <2>2
    <3>2. PICK S : q \in Seq(S)
      BY <1>1, ListIsSeq
    <3>3. q[i] = p[i] /\ SubSeq(p, 1, i - 1) = SubSeq(q, 1, i - 1)
      BY <1>3, <3>1, <3>2, PrefixFacts
    <3>5. <<SchemaType(d[SubSeq(p, 1, i - 1)]), p[i][1]>> \in {<<"object", "properties">>, <<"array", "items">>}
      BY <1>2, <3>1 DEF SchemaPaths
    <3>6. QED BY <3>3, <3>5
  <2>3. QED BY <2>1, <2>2
<1>5. QED BY <1>4 DEF SchemaPaths

\* The schema asks for the value of the definition and for nothing less.
LEMMA SchemaComplete == GatewayInv => SchemaAsksForAll
<1>1. SUFFICES ASSUME GatewayInv, Asked, Inputs.responseSchema # <<>>
               PROVE  LET body == sent[1].body
                          schema == (IF Adapter = "gemini" THEN body.responseSchema ELSE body.responseFormat)[1]
                          value == Decomposed(origin.def)
                      IN  /\ Satisfies(value, schema)
                          /\ \A p \in DOMAIN value : Len(p) = 1 /\ value[<<>>] = "object" => ~Satisfies(Without(value, p[1]), schema)
  BY DEF SchemaAsksForAll
<1>2. /\ Root = First[<<>>] /\ accepted[1] = First /\ Inputs.def = Root /\ ConversionInv /\ Receivable
  BY <1>1, AskedFacts DEF Asked
<1>3. Inputs.responseSchema = IF IsStructured(Root, job.structured) THEN <<DefinitionToJSONSchema(First)>> ELSE <<>>
  BY <1>2 DEF Inputs
<1>4. IsStructured(Root, job.structured) /\ Inputs.responseSchema = <<DefinitionToJSONSchema(First)>>
  BY <1>1, <1>3
<1>5. ~IsEmbedding(Inputs)
  BY <1>2, <1>4 DEF IsStructured, IsEmbedding
<1>6. PICK d : d = First
  OBVIOUS
<1>7. PICK schema : schema = DefinitionToJSONSchema(d)
  OBVIOUS
<1>8. (IF Adapter = "gemini" THEN sent[1].body.responseSchema ELSE sent[1].body.responseFormat)[1] = schema
  <2>1. (IF Adapter = "gemini" THEN sent[1].body.responseSchema ELSE sent[1].body.responseFormat) = <<schema>>
    BY <1>1, <1>4, <1>5, <1>6, <1>7, BodySent
  <2>2. QED BY <2>1
<1>9. IsTree(d) /\ <<>> \in DOMAIN d /\ DOMAIN d = DOMAIN origin.def /\ \A p \in DOMAIN d : d[p].plain = origin.def[p].plain
  BY <1>2, <1>6, RootFacts
<1>10. PICK value : value = Decomposed(origin.def)
  OBVIOUS
<1>11. DOMAIN value = SchemaPaths(d) /\ \A p \in SchemaPaths(d) : value[p] = SchemaType(d[p])
  <2>1. value = Decomposed(d)
    BY <1>9, <1>10, SamePlain
  <2>2. QED BY <2>1 DEF Decomposed
<1>12. Satisfies(value, schema)
  <2>1. ASSUME NEW p \in DOMAIN value
        PROVE  p \in DOMAIN schema /\ value[p] = schema[p].type /\ schema[p].required \subseteq DOMAIN value
    <3>1. p \in DOMAIN schema /\ value[p] = schema[p].type
      BY <1>7, <1>11, SchemaAt
    <3>2. schema[p].required = IF SchemaType(d[p]) = "object" THEN {q \in DOMAIN d : Property(p, q)} ELSE {}
      BY <1>7, <1>11, SchemaAt
    <3>3. schema[p].required \subseteq DOMAIN value
      BY <1>9, <1>11, <3>2, PropertiesReached
    <3>4. QED BY <3>1, <3>3
  <2>2. QED BY <2>1 DEF Satisfies
<1>13. ASSUME NEW p \in DOMAIN value, Len(p) = 1, value[<<>>] = "object"
       PROVE  ~Satisfies(Without(value, p[1]), schema)
  <2>1. PICK less : less = Without(value, p[1])
    OBVIOUS
  <2>2. DOMAIN less = {q \in DOMAIN value : q = <<>> \/ q[1] # p[1]}
    BY <2>1 DEF Without
  <2>3. p \in DOMAIN d /\ p # <<>>
    BY <1>11, <1>13 DEF SchemaPaths
  <2>4. p \notin DOMAIN less
    BY <2>2, <2>3
  <2>5. <<>> \in SchemaPaths(d)
    BY <1>9 DEF SchemaPaths
  <2>6. <<>> \in DOMAIN less /\ <<>> \in DOMAIN schema /\ SchemaType(d[<<>>]) = "object"
    BY <1>7, <1>11, <1>13, <2>2, <2>5, SchemaAt
  <2>7. schema[<<>>].required = {q \in DOMAIN d : Property(<<>>, q)}
    BY <1>7, <2>5, <2>6, SchemaAt
  <2>8. Property(<<>>, p)
    <3>1. List(p) /\ DOMAIN p = {1}
      BY <1>9, <1>13, <2>3 DEF IsTree, List, HasFields
    <3>2. SubSeq(p, 1, 0) = <<>>
      BY EmptyPrefix
    <3>3. <<SchemaType(d[SubSeq(p, 1, 1 - 1)]), p[1][1]>> \in {<<"object", "properties">>, <<"array", "items">>}
      BY <1>11, <1>13, <3>1 DEF SchemaPaths
    <3>4. p[1][1] = "properties"
      <4>1. <<"object", p[1][1]>> \in {<<"object", "properties">>, <<"array", "items">>}
        <5>1. SubSeq(p, 1, 1 - 1) = <<>>
          BY EmptyPrefix
        <5>2. SchemaType(d[SubSeq(p, 1, 1 - 1)]) = "object"
          BY <2>6, <5>1, Zenon
        <5>3. QED BY <3>3, <5>2
      <4>2. QED BY <4>1, ObjectPart
    <3>5. QED BY <1>13, <3>2, <3>4 DEF Property
  <2>9. ~(schema[<<>>].required \subseteq DOMAIN less)
    BY <2>3, <2>4, <2>7, <2>8
  <2>10. ~Satisfies(less, schema)
    BY <2>6, <2>9 DEF Satisfies
  <2>11. QED BY <2>1, <2>10
<1>14. QED BY <1>8, <1>10, <1>12, <1>13

-----------------------------------------------------------------------------
(* Flattening, by a least counterexample. *)

\* A set of numbers that is not empty has a least one.
LEMMA SmallestNumber ==
    ASSUME NEW T \in SUBSET Nat, T # {}
    PROVE  \E m \in T : \A k \in T : m <= k
<1>1. PICK R : R = OpToRel(<, Nat)
  BY Zenon
<1>2. IsWellFoundedOn(R, Nat)
  BY <1>1, NatLessThanWellFounded, Zenon
<1>3. R = {p \in Nat \X Nat : p[1] < p[2]}
  BY <1>1, Zenon DEF OpToRel
<1>4. PICK m \in T : \A k \in T : <<k, m>> \notin R
  BY <1>2, WFMin
<1>5. \A k \in T : ~(k < m)
  BY <1>3, <1>4
<1>6. QED BY <1>5

\* Concatenation (named, so that the provers do not look into it.)
Join(x, y) == x \o y

\* The sequences before each position put together.
Partials(g, s, n, S) == g \in [0 .. n -> Seq(S)] /\ g[0] = <<>> /\ \A i \in 1 .. n : g[i] = g[i - 1] \o s[i]

\* There are such sequences for every list of lists.
LEMMA PartialsExist ==
    ASSUME NEW S, NEW n \in Nat, NEW s \in [1 .. n -> Seq(S)]
    PROVE  \E g : Partials(g, s, n, S)
<1>1. SUFFICES ASSUME ~\E g : Partials(g, s, n, S) PROVE FALSE
  OBVIOUS
<1>2. PICK T : T = {k \in 0 .. n : ~\E g : Partials(g, s, k, S)}
  BY Zenon
<1>3. PICK m \in T : \A k \in T : m <= k
  <2>1. T \in SUBSET Nat
    BY <1>2
  <2>2. n \in T
    BY <1>1, <1>2
  <2>3. QED BY <2>1, <2>2, SmallestNumber
<1>4. m \in 0 .. n /\ ~\E g : Partials(g, s, m, S)
  BY <1>2, <1>3
<1>5. CASE m = 0
  <2>1. PICK g : g = [i \in 0 .. 0 |-> <<>>]
    OBVIOUS
  <2>2. <<>> \in Seq(S)
    OBVIOUS
  <2>3. g \in [0 .. 0 -> Seq(S)] /\ g[0] = <<>>
    BY <2>1, <2>2
  <2>4. Partials(g, s, m, S)
    BY <1>5, <2>3 DEF Partials
  <2>5. QED BY <1>4, <2>4
<1>6. CASE m # 0
  <2>1. m - 1 \in 0 .. n /\ m - 1 \notin T
    BY <1>3, <1>4, <1>6
  <2>2. PICK g : Partials(g, s, m - 1, S)
    BY <1>2, <2>1
  <2>3. PICK x : x = g[m - 1] \o s[m]
    OBVIOUS
  <2>4. x \in Seq(S)
    <3>1. g[m - 1] \in Seq(S) /\ s[m] \in Seq(S)
      BY <1>4, <1>6, <2>2 DEF Partials
    <3>2. QED BY <2>3, <3>1
  <2>5. PICK h : h = [i \in 0 .. m |-> IF i = m THEN x ELSE g[i]]
    OBVIOUS
  <2>6. h \in [0 .. m -> Seq(S)] /\ h[0] = <<>>
    BY <1>4, <1>6, <2>2, <2>4, <2>5 DEF Partials
  <2>7. ASSUME NEW i \in 1 .. m PROVE h[i] = h[i - 1] \o s[i]
    <3>1. CASE i = m
      <4>1. h[i] = x /\ h[i - 1] = g[m - 1]
        BY <1>4, <2>5, <3>1
      <4>2. QED BY <2>3, <3>1, <4>1
    <3>2. CASE i # m
      <4>1. h[i] = g[i] /\ h[i - 1] = g[i - 1] /\ i \in 1 .. m - 1
        BY <1>4, <2>5, <3>2
      <4>2. g[i] = g[i - 1] \o s[i]
        BY <2>2, <4>1 DEF Partials
      <4>3. QED BY <4>1, <4>2
    <3>3. QED BY <3>1, <3>2
  <2>8. Partials(h, s, m, S)
    BY <2>6, <2>7 DEF Partials
  <2>9. QED BY <1>4, <2>8
<1>7. QED BY <1>5, <1>6

\* FlattenSeq is the last of them.
LEMMA Flattened ==
    ASSUME NEW S, NEW n \in Nat, NEW s \in [1 .. n -> Seq(S)], NEW g, Partials(g, s, n, S)
    PROVE  FlattenSeq(s) = g[n] /\ FlattenSeq(s) \in Seq(S)
<1>1. Len(s) = n
  BY SeqDef
<1>2. CASE n = 0
  <2>1. s = <<>>
    BY <1>2
  <2>2. FlattenSeq(s) = s
    BY <1>1, <1>2 DEF FlattenSeq
  <2>3. g[n] = <<>> /\ <<>> \in Seq(S)
    BY <1>2 DEF Partials
  <2>4. QED BY <2>1, <2>2, <2>3
<1>3. CASE n # 0
  <2>1. PICK flat : /\ flat = CHOOSE f : f = [i \in 1 .. n |-> IF i = 1 THEN s[i] ELSE f[i - 1] \o s[i]]
                    /\ FlattenSeq(s) = flat[n]
    BY <1>1, <1>3 DEF FlattenSeq
  <2>2. PICK h : h = [i \in 1 .. n |-> g[i]]
    OBVIOUS
  <2>3. h = [i \in 1 .. n |-> IF i = 1 THEN s[i] ELSE h[i - 1] \o s[i]]
    <3>1. ASSUME NEW i \in 1 .. n PROVE h[i] = IF i = 1 THEN s[i] ELSE h[i - 1] \o s[i]
      <4>1. h[i] = g[i] /\ g[i] = g[i - 1] \o s[i] /\ s[i] \in Seq(S)
        BY <2>2 DEF Partials
      <4>2. CASE i = 1
        <5>1. g[0] = <<>>
          BY DEF Partials
        <5>2. g[i] = <<>> \o s[i]
          BY <4>1, <4>2, <5>1
        <5>3. QED BY <4>1, <4>2, <5>2
      <4>3. CASE i # 1
        <5>1. h[i - 1] = g[i - 1]
          BY <2>2, <4>3
        <5>2. QED BY <4>1, <4>3, <5>1
      <4>4. QED BY <4>2, <4>3
    <3>2. h = [i \in 1 .. n |-> h[i]]
      BY <2>2
    <3>3. QED BY <3>1, <3>2
  <2>4. flat = [i \in 1 .. n |-> IF i = 1 THEN s[i] ELSE flat[i - 1] \o s[i]]
    BY <2>1, <2>3, Zenon
  <2>5. \A i \in 1 .. n : flat[i] = IF i = 1 THEN s[i] ELSE flat[i - 1] \o s[i]
    BY <2>4
  <2>6. \A i \in 1 .. n : h[i] = IF i = 1 THEN s[i] ELSE h[i - 1] \o s[i]
    BY <2>3
  <2>7. ASSUME flat[n] # h[n] PROVE FALSE
    <3>1. PICK T : T = {k \in 1 .. n : flat[k] # h[k]}
      BY Zenon
    <3>2. PICK m \in T : \A k \in T : m <= k
      <4>1. T \in SUBSET Nat
        BY <3>1
      <4>2. n \in T
        BY <1>3, <2>7, <3>1
      <4>3. QED BY <4>1, <4>2, SmallestNumber
    <3>3. m \in 1 .. n /\ flat[m] # h[m]
      BY <3>1, <3>2
    <3>4. CASE m = 1
      BY <2>5, <2>6, <3>3, <3>4
    <3>5. CASE m # 1
      <4>1. m - 1 \in 1 .. n /\ m - 1 \notin T
        BY <3>2, <3>3, <3>5
      <4>2. flat[m - 1] = h[m - 1]
        BY <3>1, <4>1
      <4>3. QED BY <2>5, <2>6, <3>3, <3>5, <4>2
    <3>6. QED BY <3>4, <3>5
  <2>8. h[n] = g[n] /\ g[n] \in Seq(S)
    BY <1>3, <2>2 DEF Partials
  <2>9. QED BY <2>1, <2>7, <2>8
<1>4. QED BY <1>2, <1>3

\* Nothing flattened.
LEMMA FlattenEmpty == FlattenSeq(<<>>) = <<>>
  BY DEF FlattenSeq

\* The elements of a flattened list.
LEMMA FlattenType ==
    ASSUME NEW S, NEW n \in Nat, NEW s \in [1 .. n -> Seq(S)]
    PROVE  FlattenSeq(s) \in Seq(S)
  BY PartialsExist, Flattened

\* Lists of lists s and t, where s has one more than t, at the end or in front.
AddsLast(s, m, t, n, S) ==
    /\ n \in Nat /\ m \in Nat /\ m = n + 1 /\ s \in [1 .. m -> Seq(S)] /\ t \in [1 .. n -> Seq(S)]
    /\ \A i \in 1 .. n : t[i] = s[i]
AddsFirst(s, m, t, n, S) ==
    /\ n \in Nat /\ m \in Nat /\ m = n + 1 /\ s \in [1 .. m -> Seq(S)] /\ t \in [1 .. n -> Seq(S)]
    /\ \A i \in 1 .. n : t[i] = s[i + 1]

\* A last list comes at the end.
LEMMA FlattenLast ==
    ASSUME NEW S, NEW n, NEW m, NEW s, NEW t, AddsLast(s, m, t, n, S)
    PROVE  FlattenSeq(s) = Join(FlattenSeq(t), s[m])
<1> USE DEF AddsLast
<1>1. PICK g : Partials(g, s, m, S)
  BY PartialsExist
<1>2. FlattenSeq(s) = g[m] /\ g[m] = g[n] \o s[m]
  <2>1. FlattenSeq(s) = g[m]
    BY <1>1, Flattened
  <2>2. m \in 1 .. m /\ m - 1 = n
    OBVIOUS
  <2>3. \A i \in 1 .. m : g[i] = g[i - 1] \o s[i]
    BY <1>1 DEF Partials
  <2>4. g[m] = g[m - 1] \o s[m]
    BY <2>2, <2>3
  <2>5. QED BY <2>1, <2>2, <2>4
<1>3. t \in [1 .. n -> Seq(S)]
  OBVIOUS
<1>4. PICK h : h = [i \in 0 .. n |-> g[i]]
  OBVIOUS
<1>5. h \in [0 .. n -> Seq(S)] /\ h[0] = <<>>
  BY <1>1, <1>4 DEF Partials
<1>6. ASSUME NEW i \in 1 .. n PROVE h[i] = h[i - 1] \o t[i]
  <2>1. h[i] = g[i] /\ h[i - 1] = g[i - 1] /\ t[i] = s[i]
    BY <1>4
  <2>2. \A k \in 1 .. m : g[k] = g[k - 1] \o s[k]
    BY <1>1 DEF Partials
  <2>3. i \in 1 .. m
    OBVIOUS
  <2>4. QED BY <2>1, <2>2, <2>3
<1>7. Partials(h, t, n, S)
  BY <1>5, <1>6 DEF Partials
<1>8. FlattenSeq(t) = h[n]
  BY <1>3, <1>7, Flattened
<1>9. h[n] = g[n]
  BY <1>4
<1>10. QED BY <1>2, <1>8, <1>9 DEF Join

\* Concatenation is associative.
LEMMA Reassociated ==
    ASSUME NEW S, NEW x \in Seq(S), NEW u \in Seq(S), NEW v \in Seq(S)
    PROVE  Join(x, Join(u, v)) = Join(Join(x, u), v)
<1>1. x \o (u \o v) = (x \o u) \o v
  BY ConcatAssociative
<1>2. QED BY <1>1 DEF Join

\* A first list comes in front.
LEMMA FlattenFirst ==
    ASSUME NEW S, NEW n, NEW m, NEW s, NEW t, AddsFirst(s, m, t, n, S)
    PROVE  FlattenSeq(s) = Join(s[1], FlattenSeq(t))
<1> USE DEF AddsFirst
<1>1. t \in [1 .. n -> Seq(S)]
  OBVIOUS
<1>2. PICK g : Partials(g, t, n, S)
  BY <1>1, PartialsExist
<1>3. FlattenSeq(t) = g[n]
  BY <1>1, <1>2, Flattened
<1>4. PICK x \in Seq(S) : x = s[1]
  OBVIOUS
<1>5. PICK h : h = [i \in 0 .. m |-> IF i = 0 THEN <<>> ELSE x \o g[i - 1]]
  OBVIOUS
<1>6. /\ \A i \in 0 .. n : g[i] \in Seq(S)
      /\ g[0] = <<>>
      /\ \A i \in 1 .. n : g[i] = g[i - 1] \o t[i]
  BY <1>2 DEF Partials
<1>7. h \in [0 .. m -> Seq(S)] /\ h[0] = <<>>
  <2>1. <<>> \in Seq(S) /\ \A i \in 0 .. n : x \o g[i] \in Seq(S)
    BY <1>6
  <2>2. QED BY <1>5, <2>1
<1>8. ASSUME NEW i \in 1 .. m PROVE h[i] = h[i - 1] \o s[i]
  <2>1. PICK j \in 0 .. n : j = i - 1
    OBVIOUS
  <2>2. h[i] = x \o g[j]
    BY <1>5, <2>1
  <2>3. CASE i = 1
    <3>1. h[i] = x \o <<>> /\ h[i - 1] = <<>>
      BY <1>6, <1>7, <2>1, <2>2, <2>3, SMTT(40)
    <3>2. x \o <<>> = x /\ <<>> \o x = x
      OBVIOUS
    <3>3. QED BY <1>4, <2>3, <3>1, <3>2
  <2>4. CASE i # 1
    <3>1. PICK k \in 0 .. n : k = j - 1
      BY <2>1, <2>4
    <3>2. h[j] = x \o g[k]
      BY <1>5, <2>1, <2>4, <3>1, SMTT(40)
    <3>3. g[j] = g[k] \o t[j] /\ t[j] = s[i]
      <4>1. j \in 1 .. n /\ j + 1 = i
        BY <2>1, <2>4
      <4>2. t[j] = s[j + 1]
        BY <4>1
      <4>3. g[j] = g[j - 1] \o t[j]
        BY <1>6, <4>1
      <4>4. QED BY <3>1, <4>1, <4>2, <4>3
    <3>4. g[k] \in Seq(S) /\ s[i] \in Seq(S)
      BY <1>6
    <3>5. g[j] = g[k] \o s[i]
      BY <3>3
    <3>6. h[i] = h[j] \o s[i]
      <4>1. g[j] = Join(g[k], s[i]) /\ h[j] = Join(x, g[k]) /\ h[i] = Join(x, g[j])
        BY <2>2, <3>2, <3>5 DEF Join
      <4>2. Join(x, Join(g[k], s[i])) = Join(Join(x, g[k]), s[i])
        BY <3>4, Reassociated
      <4>3. h[i] = Join(h[j], s[i])
        BY <4>1, <4>2
      <4>4. QED BY <4>3 DEF Join
    <3>7. QED BY <2>1, <3>6
  <2>5. QED BY <2>3, <2>4
<1>9. Partials(h, s, m, S)
  BY <1>7, <1>8 DEF Partials
<1>10. FlattenSeq(s) = h[m]
  BY <1>9, Flattened
<1>11. h[m] = x \o g[n]
  BY <1>5
<1>12. QED BY <1>3, <1>4, <1>10, <1>11 DEF Join

\* Sequences of one element each.
Singles(s, e, n, S) == n \in Nat /\ e \in [1 .. n -> S] /\ s = [i \in 1 .. n |-> <<e[i]>>]

\* They flatten to the sequence of these elements.
LEMMA FlattenSingles ==
    ASSUME NEW S, NEW n, NEW e, NEW s, Singles(s, e, n, S)
    PROVE  FlattenSeq(s) = e
<1> USE DEF Singles
<1>1. s \in [1 .. n -> Seq(S)]
  OBVIOUS
<1>2. PICK g : g = [i \in 0 .. n |-> SubSeq(e, 1, i)]
  OBVIOUS
<1>3. e \in Seq(S) /\ Len(e) = n
  BY SeqDef
<1>4. \A i \in 0 .. n : SubSeq(e, 1, i) \in Seq(S)
  BY <1>3
<1>5. g \in [0 .. n -> Seq(S)] /\ g[0] = <<>>
  BY <1>2, <1>4, EmptyPrefix
<1>6. ASSUME NEW i \in 1 .. n PROVE g[i] = g[i - 1] \o s[i]
  <2>1. SubSeq(e, 1, i) = SubSeq(e, 1, i - 1) \o <<e[i]>>
    BY <1>3, SubSeqRecursiveSecond
  <2>2. PICK k \in 0 .. n : k = i - 1
    OBVIOUS
  <2>3. \A j \in 0 .. n : g[j] = SubSeq(e, 1, j)
    BY <1>2
  <2>4. g[i] = SubSeq(e, 1, i) /\ g[k] = SubSeq(e, 1, k)
    BY <2>3
  <2>5. s[i] = <<e[i]>>
    OBVIOUS
  <2>6. QED BY <2>1, <2>2, <2>4, <2>5
<1>7. Partials(g, s, n, S)
  BY <1>5, <1>6 DEF Partials
<1>8. FlattenSeq(s) = g[n]
  BY <1>1, <1>7, Flattened
<1>9. g[n] = SubSeq(e, 1, n)
  BY <1>2
<1>10. QED BY <1>3, <1>8, <1>9, SubSeqFull

\* Elements of c that are left out in k say nothing to r.
Keeps(k, c, n, r, C, I) ==
    /\ n \in Nat /\ c \in [1 .. n -> C] /\ r \in [C -> Seq(I)] /\ k \in [1 .. n -> Seq(C)]
    /\ \A i \in 1 .. n : k[i] = <<c[i]>> \/ (k[i] = <<>> /\ r[c[i]] = <<>>)

\* Leaving them out changes nothing.
LEMMA FlattenKept ==
    ASSUME NEW n, NEW C, NEW I, NEW c, NEW r, NEW k, Keeps(k, c, n, r, C, I), NEW kept, kept = FlattenSeq(k)
    PROVE  /\ kept \in Seq(C)
           /\ FlattenSeq([i \in DOMAIN kept |-> r[kept[i]]]) = FlattenSeq([i \in 1 .. n |-> r[c[i]]])
<1> USE DEF Keeps
<1>1. PICK g : Partials(g, k, n, C)
  BY PartialsExist
<1>2. FlattenSeq(k) = g[n]
  BY <1>1, Flattened, ZenonT(40)
<1>3. PICK s : s = [i \in 1 .. n |-> r[c[i]]]
  OBVIOUS
<1>4. s \in [1 .. n -> Seq(I)]
  BY <1>3
<1>5. PICK h : Partials(h, s, n, I)
  BY <1>4, PartialsExist
<1>6. FlattenSeq(s) = h[n]
  BY <1>4, <1>5, Flattened
<1>7. PICK x : x = [j \in 0 .. n |-> [i \in DOMAIN g[j] |-> r[g[j][i]]]]
  OBVIOUS
<1>8. /\ \A j \in 0 .. n : g[j] \in Seq(C) /\ h[j] \in Seq(I)
      /\ g[0] = <<>> /\ h[0] = <<>>
      /\ \A j \in 1 .. n : g[j] = g[j - 1] \o k[j] /\ h[j] = h[j - 1] \o s[j]
  BY <1>1, <1>5 DEF Partials
<1>9. ASSUME FlattenSeq(x[n]) # h[n] PROVE FALSE
  <2>1. PICK T : T = {j \in 0 .. n : FlattenSeq(x[j]) # h[j]}
    BY Zenon
  <2>2. PICK m \in T : \A j \in T : m <= j
    <3>1. T \in SUBSET Nat
      BY <2>1
    <3>2. n \in T
      BY <1>9, <2>1
    <3>3. QED BY <3>1, <3>2, SmallestNumber
  <2>3. m \in 0 .. n /\ FlattenSeq(x[m]) # h[m]
    BY <2>1, <2>2
  <2>4. CASE m = 0
    <3>1. x[0] = [i \in DOMAIN g[0] |-> r[g[0][i]]]
      BY <1>7, <2>3
    <3>2. x[0] = <<>>
      BY <1>8, <3>1
    <3>3. QED BY <1>8, <2>3, <2>4, <3>2, FlattenEmpty
  <2>5. CASE m # 0
    <3>1. PICK j \in 0 .. n : j = m - 1 /\ j \notin T
      BY <2>2, <2>3, <2>5
    <3>2. FlattenSeq(x[j]) = h[j]
      BY <2>1, <3>1
    <3>3. m \in 1 .. n
      BY <2>3, <2>5
    <3>4. g[m] = g[j] \o k[m] /\ h[m] = h[j] \o s[m] /\ s[m] = r[c[m]]
      BY <1>3, <1>8, <3>1, <3>3
    <3>5. x[m] = [i \in DOMAIN g[m] |-> r[g[m][i]]] /\ x[j] = [i \in DOMAIN g[j] |-> r[g[j][i]]]
      BY <1>7, <2>3, <3>1
    <3>6. g[j] \in Seq(C) /\ h[j] \in Seq(I)
      BY <1>8, <3>1
    <3>7. CASE k[m] = <<>> /\ r[c[m]] = <<>>
      <4>1. g[m] = g[j] /\ h[m] = h[j]
        BY <3>4, <3>6, <3>7
      <4>2. QED BY <2>3, <3>2, <3>5, <4>1
    <3>8. CASE k[m] = <<c[m]>>
      <4>1. PICK l \in Nat : l = Len(g[j])
        BY <3>6
      <4>2. DOMAIN g[j] = 1 .. l /\ \A i \in 1 .. l : g[j][i] \in C
        BY <3>6, <4>1
      <4>3. g[m] = g[j] \o <<c[m]>> /\ c[m] \in C
        BY <3>3, <3>4, <3>8
      <4>4. PICK e \in Nat : e = l + 1
        BY <4>1
      <4>5. DOMAIN g[m] = 1 .. e /\ g[m][e] = c[m] /\ \A i \in 1 .. l : g[m][i] = g[j][i]
        BY <3>6, <4>1, <4>3, <4>4
      <4>6. x[m] \in [1 .. e -> Seq(I)]
        <5>1. ASSUME NEW i \in 1 .. e PROVE r[g[m][i]] \in Seq(I)
          <6>1. i \in 1 .. l \/ i = e
            BY <4>4
          <6>2. g[m][i] \in C
            BY <4>2, <4>3, <4>5, <6>1
          <6>3. QED BY <6>2
        <5>2. QED BY <3>5, <4>5, <5>1
      <4>7. x[j] = [i \in 1 .. l |-> x[m][i]]
        BY <3>5, <4>2, <4>4, <4>5
      <4>8. x[m][e] = r[c[m]]
        BY <3>5, <4>4, <4>5
      <4>9. FlattenSeq(x[m]) = FlattenSeq(x[j]) \o x[m][e]
        <5>1. PICK a, b : a = x[m] /\ b = x[j]
          OBVIOUS
        <5>2. a \in [1 .. e -> Seq(I)] /\ b \in [1 .. l -> Seq(I)] /\ \A i \in 1 .. l : b[i] = a[i]
          BY <4>4, <4>6, <4>7, <5>1
        <5>3. FlattenSeq(a) = Join(FlattenSeq(b), a[e])
          <6>1. AddsLast(a, e, b, l, I)
            BY <4>1, <4>4, <5>2 DEF AddsLast
          <6>2. QED BY <6>1, FlattenLast
        <5>4. QED BY <5>1, <5>3 DEF Join
      <4>10. QED BY <2>3, <3>2, <3>4, <4>8, <4>9
    <3>9. QED BY <3>3, <3>7, <3>8
  <2>6. QED BY <2>4, <2>5
<1>10. x[n] = [i \in DOMAIN g[n] |-> r[g[n][i]]] /\ g[n] \in Seq(C)
  <2>1. n \in 0 .. n
    OBVIOUS
  <2>2. x[n] = [i \in DOMAIN g[n] |-> r[g[n][i]]]
    BY <1>7, <2>1
  <2>3. QED BY <1>8, <2>1, <2>2
<1>11. QED BY <1>2, <1>3, <1>6, <1>9, <1>10

-----------------------------------------------------------------------------
(* What a provider reads. *)

\* A message whose texts and images are in I.
IsMessage(m, I) ==
    List(m.parts) /\ Text(m.content) \in Seq(I) /\ \A i \in DOMAIN m.parts : OpenAIItem(m.parts[i]) \in Seq(I)

\* What is read in such a message.
LEMMA MessageRead ==
    ASSUME NEW I, NEW m, IsMessage(m, I)
    PROVE  OpenAIReads(m) \in Seq(I)
<1>1. PICK n \in Nat : n = Len(m.parts) /\ DOMAIN m.parts = 1 .. n
  BY DEF IsMessage, List, HasFields
<1>2. PICK s : s = [i \in DOMAIN m.parts |-> OpenAIItem(m.parts[i])]
  OBVIOUS
<1>3. s \in [1 .. n -> Seq(I)]
  BY <1>1, <1>2 DEF IsMessage
<1>4. FlattenSeq(s) \in Seq(I)
  BY <1>3, FlattenType
<1>5. Text(m.content) \in Seq(I)
  BY DEF IsMessage
<1>6. QED BY <1>2, <1>4, <1>5 DEF OpenAIReads

\* A part says the same in both forms.
LEMMA PartRead == \A part : GeminiItem(GeminiPart(part)) = OpenAIItem(part)
<1>1. SUFFICES ASSUME NEW part PROVE GeminiItem(GeminiPart(part)) = OpenAIItem(part)
  OBVIOUS
<1>2. CASE part.type = "text"
  <2>1. PICK x : x = [text |-> part.text]
    OBVIOUS
  <2>2. "text" \in DOMAIN x /\ x.text = part.text
    BY <2>1
  <2>3. GeminiPart(part) = x
    BY <1>2, <2>1 DEF GeminiPart
  <2>4. QED BY <1>2, <2>2, <2>3 DEF GeminiItem, OpenAIItem
<1>3. CASE part.type # "text"
  <2>1. PICK x : x = [inline_data |-> part.url.base64, mime_type |-> part.url.mime]
    OBVIOUS
  <2>2. "text" \notin DOMAIN x /\ x.inline_data = part.url.base64 /\ x.mime_type = part.url.mime
    BY <2>1
  <2>3. GeminiPart(part) = x
    BY <1>3, <2>1 DEF GeminiPart
  <2>4. QED BY <1>3, <2>2, <2>3 DEF GeminiItem, OpenAIItem
<1>4. QED BY <1>2, <1>3

\* So does a message; one that is left out says nothing.
LEMMA ContentRead ==
    ASSUME NEW I, NEW m, IsMessage(m, I)
    PROVE  /\ GeminiReads(GeminiContent(m)) = OpenAIReads(m)
           /\ GeminiContent(m).parts = <<>> => OpenAIReads(m) = <<>>
<1>1. PICK n \in Nat : n = Len(m.parts) /\ DOMAIN m.parts = 1 .. n
  BY DEF IsMessage, List, HasFields
<1>2. PICK s : s = [i \in 1 .. n |-> OpenAIItem(m.parts[i])]
  OBVIOUS
<1>3. s \in [1 .. n -> Seq(I)]
  BY <1>1, <1>2 DEF IsMessage
<1>4. OpenAIReads(m) = Text(m.content) \o FlattenSeq(s)
  BY <1>1, <1>2 DEF OpenAIReads
<1>5. FlattenSeq(s) \in Seq(I) /\ Text(m.content) \in Seq(I)
  BY <1>3, FlattenType DEF IsMessage
<1>6. PICK y : y = [i \in 1 .. n |-> GeminiPart(m.parts[i])]
  OBVIOUS
<1>7. PICK P : P = {GeminiPart(m.parts[i]) : i \in 1 .. n}
  OBVIOUS
<1>8. y \in Seq(P) /\ Len(y) = n
  <2>1. y \in [1 .. n -> P]
    BY <1>6, <1>7
  <2>2. QED BY <2>1, SeqDef
<1>9. PICK x : x = GeminiContent(m).parts
  OBVIOUS
<1>10. x = (IF m.content = "" THEN <<>> ELSE <<[text |-> m.content]>>) \o y
  BY <1>1, <1>6, <1>9 DEF GeminiContent
<1>11. GeminiReads(GeminiContent(m)) = FlattenSeq([i \in DOMAIN x |-> GeminiItem(x[i])])
  BY <1>9 DEF GeminiReads
<1>12. PICK z : z = [i \in DOMAIN x |-> GeminiItem(x[i])]
  OBVIOUS
<1>13. CASE m.content = ""
  <2>1. x = y
    <3>1. x = <<>> \o y
      BY <1>10, <1>13
    <3>2. <<>> \o y = y
      BY <1>8
    <3>3. QED BY <3>1, <3>2
  <2>2. DOMAIN y = 1 .. n /\ \A i \in 1 .. n : GeminiItem(y[i]) = OpenAIItem(m.parts[i])
    BY <1>6, PartRead
  <2>3. z = s
    BY <1>2, <1>12, <2>1, <2>2
  <2>4. Text(m.content) = <<>>
    BY <1>13 DEF Text
  <2>5. OpenAIReads(m) = FlattenSeq(s)
    BY <1>4, <1>5, <2>4
  <2>6. ASSUME x = <<>> PROVE FlattenSeq(s) = <<>>
    <3>1. n = 0
      BY <1>8, <2>1, <2>6
    <3>2. s = <<>>
      BY <1>2, <3>1
    <3>3. QED BY <3>2, FlattenEmpty
  <2>7. QED BY <1>9, <1>11, <1>12, <2>3, <2>5, <2>6
<1>14. CASE m.content # ""
  <2>1. PICK f : f = [text |-> m.content]
    OBVIOUS
  <2>2. x = <<f>> \o y
    BY <1>10, <1>14, <2>1
  <2>3. PICK e \in Nat : e = n + 1
    OBVIOUS
  <2>4. DOMAIN x = 1 .. e /\ x[1] = f /\ \A i \in 1 .. n : x[i + 1] = y[i]
    <3>1. <<f>> \in Seq(P \cup {f}) /\ y \in Seq(P \cup {f}) /\ Len(<<f>>) = 1
      BY <1>8
    <3>2. Len(x) = 1 + n /\ x \in Seq(P \cup {f})
      BY <1>8, <2>2, <3>1
    <3>3. QED BY <1>8, <2>2, <2>3, <3>1, <3>2
  <2>5. GeminiItem(f) = Text(m.content)
    <3>1. "text" \in DOMAIN f /\ f.text = m.content
      BY <2>1
    <3>2. QED BY <3>1 DEF GeminiItem
  <2>6. z[1] = Text(m.content) /\ DOMAIN z = 1 .. e
    BY <1>12, <2>3, <2>4, <2>5
  <2>7. \A i \in 1 .. n : z[i + 1] = s[i]
    <3>1. ASSUME NEW i \in 1 .. n PROVE z[i + 1] = s[i]
      <4>1. i + 1 \in 1 .. e
        BY <2>3
      <4>2. z[i + 1] = GeminiItem(y[i])
        BY <1>12, <2>4, <4>1
      <4>3. y[i] = GeminiPart(m.parts[i]) /\ s[i] = OpenAIItem(m.parts[i])
        BY <1>2, <1>6
      <4>4. QED BY <4>2, <4>3, PartRead
    <3>2. QED BY <3>1
  <2>8. z \in [1 .. e -> Seq(I)]
    <3>1. ASSUME NEW i \in 1 .. e PROVE z[i] \in Seq(I)
      <4>1. CASE i = 1
        BY <1>5, <2>6, <4>1
      <4>2. CASE i # 1
        <5>1. PICK k \in 1 .. n : k + 1 = i
          BY <2>3, <4>2
        <5>2. QED BY <1>3, <2>7, <5>1
      <4>3. QED BY <4>1, <4>2
    <3>2. QED BY <1>12, <2>6, <3>1
  <2>9. FlattenSeq(z) = z[1] \o FlattenSeq(s)
    <3>1. FlattenSeq(z) = Join(z[1], FlattenSeq(s))
      <4>1. AddsFirst(z, e, s, n, I)
        BY <1>3, <2>3, <2>7, <2>8 DEF AddsFirst
      <4>2. QED BY <4>1, FlattenFirst
    <3>2. QED BY <3>1 DEF Join
  <2>10. x # <<>>
    BY <2>3, <2>4
  <2>11. QED BY <1>4, <1>9, <1>11, <1>12, <2>6, <2>9, <2>10
<1>15. QED BY <1>13, <1>14

\* The Gemini form of a list of messages says what the messages say.
LEMMA GeminiSame ==
    ASSUME NEW I, NEW n \in Nat, NEW ms, DOMAIN ms = 1 .. n, \A i \in 1 .. n : IsMessage(ms[i], I), NEW req, req.messages = ms
    PROVE  LET contents == convertToGeminiFormat(req).contents
           IN  FlattenSeq([i \in DOMAIN contents |-> GeminiReads(contents[i])])
                 = FlattenSeq([i \in DOMAIN ms |-> OpenAIReads(ms[i])])
<1>1. PICK c : c = [i \in 1 .. n |-> GeminiContent(ms[i])]
  OBVIOUS
<1>2. PICK C : C = {GeminiContent(ms[i]) : i \in 1 .. n}
  OBVIOUS
<1>3. c \in [1 .. n -> C]
  BY <1>1, <1>2
<1>4. PICK r : r = [x \in C |-> GeminiReads(x)]
  OBVIOUS
<1>5. ASSUME NEW i \in 1 .. n
      PROVE  /\ r[c[i]] = OpenAIReads(ms[i]) /\ r[c[i]] \in Seq(I)
             /\ c[i].parts = <<>> => r[c[i]] = <<>>
  <2>1. c[i] = GeminiContent(ms[i]) /\ c[i] \in C
    BY <1>1, <1>3
  <2>2. r[c[i]] = GeminiReads(GeminiContent(ms[i]))
    BY <1>4, <2>1
  <2>3. QED BY <2>1, <2>2, ContentRead, MessageRead
<1>6. r \in [C -> Seq(I)]
  <2>1. ASSUME NEW x \in C PROVE r[x] \in Seq(I)
    <3>1. PICK i \in 1 .. n : x = c[i]
      BY <1>1, <1>2
    <3>2. QED BY <1>5, <3>1
  <2>2. QED BY <1>4, <2>1
<1>7. PICK k : k = [i \in 1 .. n |-> IF c[i].parts = <<>> THEN <<>> ELSE <<c[i]>>]
  OBVIOUS
<1>8. k \in [1 .. n -> Seq(C)]
  <2>1. ASSUME NEW i \in 1 .. n PROVE (IF c[i].parts = <<>> THEN <<>> ELSE <<c[i]>>) \in Seq(C)
    <3>1. c[i] \in C
      BY <1>3
    <3>2. QED BY <3>1
  <2>2. QED BY <1>7, <2>1
<1>9. \A i \in 1 .. n : k[i] = <<c[i]>> \/ (k[i] = <<>> /\ r[c[i]] = <<>>)
  BY <1>5, <1>7
<1>10. PICK kept : kept = FlattenSeq(k)
  OBVIOUS
<1>11. /\ kept \in Seq(C)
       /\ FlattenSeq([i \in DOMAIN kept |-> r[kept[i]]]) = FlattenSeq([i \in 1 .. n |-> r[c[i]]])
  <2>1. Keeps(k, c, n, r, C, I)
    BY <1>3, <1>6, <1>8, <1>9 DEF Keeps
  <2>2. QED BY <1>10, <2>1, FlattenKept
<1>12. [i \in DOMAIN kept |-> r[kept[i]]] = [i \in DOMAIN kept |-> GeminiReads(kept[i])]
  <2>1. \A i \in DOMAIN kept : kept[i] \in C
    BY <1>11
  <2>2. \A i \in DOMAIN kept : r[kept[i]] = GeminiReads(kept[i])
    BY <1>4, <2>1
  <2>3. QED BY <2>2
<1>13. [i \in 1 .. n |-> r[c[i]]] = [i \in DOMAIN ms |-> OpenAIReads(ms[i])]
  BY <1>5
<1>14. convertToGeminiFormat(req).contents = kept
  <2>1. convertToGeminiFormat(req).contents =
          FlattenSeq([i \in DOMAIN ms |-> IF GeminiContent(ms[i]).parts = <<>> THEN <<>> ELSE <<GeminiContent(ms[i])>>])
    BY DEF convertToGeminiFormat
  <2>2. [i \in DOMAIN ms |-> IF GeminiContent(ms[i]).parts = <<>> THEN <<>> ELSE <<GeminiContent(ms[i])>>] = k
    BY <1>1, <1>7
  <2>3. QED BY <1>10, <2>1, <2>2
<1>15. QED BY <1>11, <1>12, <1>13, <1>14

ImageItem(image) == <<"image", image.bytes, detectMimeType(image)>>

\* What the messages of BuildRequest say.
LEMMA TextMessageRead ==
    ASSUME NEW I, NEW role, NEW text, <<"text", text>> \in I
    PROVE  IsMessage(Message(role, text, <<>>), I) /\ OpenAIReads(Message(role, text, <<>>)) = Text(text)
<1>1. PICK m : m = Message(role, text, <<>>)
  OBVIOUS
<1>2. m.content = text /\ m.parts = <<>>
  BY <1>1 DEF Message
<1>3. List(<<>>) /\ DOMAIN <<>> = {}
  BY DEF List, HasFields
<1>4. Text(text) \in Seq(I)
  <2>1. CASE text = ""
    <3>1. Text(text) = <<>>
      BY <2>1 DEF Text
    <3>2. QED BY <3>1
  <2>2. CASE text # ""
    <3>1. PICK item \in I : item = <<"text", text>>
      OBVIOUS
    <3>2. Text(text) = <<item>>
      BY <2>2, <3>1 DEF Text
    <3>3. QED BY <3>2
  <2>3. QED BY <2>1, <2>2
<1>5. IsMessage(m, I)
  BY <1>2, <1>3, <1>4 DEF IsMessage
<1>6. [i \in DOMAIN <<>> |-> OpenAIItem(<<>>[i])] = <<>>
  OBVIOUS
<1>7. OpenAIReads(m) = Text(text) \o <<>>
  BY <1>2, <1>6, FlattenEmpty DEF OpenAIReads
<1>8. QED BY <1>1, <1>4, <1>5, <1>7

\* A message with one part says what the part says.
LEMMA PartMessageRead ==
    ASSUME NEW I, NEW part, OpenAIItem(part) \in Seq(I)
    PROVE  /\ IsMessage(Message("user", "", <<part>>), I)
           /\ OpenAIReads(Message("user", "", <<part>>)) = OpenAIItem(part)
<1>1. PICK m : m = Message("user", "", <<part>>)
  OBVIOUS
<1>2. m.content = "" /\ m.parts = <<part>>
  BY <1>1 DEF Message
<1>3. List(<<part>>) /\ DOMAIN <<part>> = {1} /\ <<part>>[1] = part
  BY DEF List, HasFields
<1>4. Text("") = <<>> /\ <<>> \in Seq(I)
  BY DEF Text
<1>5. IsMessage(m, I)
  BY <1>2, <1>3, <1>4 DEF IsMessage
<1>6. PICK item \in Seq(I) : item = OpenAIItem(part)
  OBVIOUS
<1>7. [i \in DOMAIN <<part>> |-> OpenAIItem(<<part>>[i])] = <<item>>
  BY <1>3, <1>6
<1>8. FlattenSeq(<<item>>) = item
  <2>1. AddsLast(<<item>>, 1, <<>>, 0, I)
    BY DEF AddsLast
  <2>2. FlattenSeq(<<item>>) = Join(FlattenSeq(<<>>), <<item>>[1])
    BY <2>1, FlattenLast
  <2>3. QED BY <2>2, FlattenEmpty, SMTT(40) DEF Join
<1>9. OpenAIReads(m) = <<>> \o item
  BY <1>2, <1>4, <1>7, <1>8 DEF OpenAIReads
<1>10. <<>> \o item = item
  OBVIOUS
<1>11. QED BY <1>1, <1>5, <1>6, <1>9, <1>10

\* The part for an image.
LEMMA ImageRead ==
    ASSUME NEW image
    PROVE  OpenAIItem(ImagePart(image)) = <<ImageItem(image)>>
<1>1. PICK url : url = toBase64DataURL(image)
  OBVIOUS
<1>2. url.base64 = image.bytes /\ url.mime = detectMimeType(image)
  BY <1>1 DEF toBase64DataURL
<1>3. PICK part : part = ImagePart(image)
  OBVIOUS
<1>4. part.type = "image_url" /\ part.url = url
  BY <1>1, <1>3 DEF ImagePart
<1>5. QED BY <1>2, <1>3, <1>4 DEF OpenAIItem, ImageItem

\* The part for the prompt.
LEMMA PromptRead ==
    ASSUME NEW prompt
    PROVE  OpenAIItem(TextPart(prompt)) = Text(prompt)
<1>1. PICK part : part = TextPart(prompt)
  OBVIOUS
<1>2. part.type = "text" /\ part.text = prompt
  BY <1>1 DEF TextPart
<1>3. QED BY <1>1, <1>2 DEF OpenAIItem

\* The messages of the user: the prompt, then one for each image.
UserMessages(prompt, images) ==
    IF images = <<>> THEN <<Message("user", prompt, <<>>)>>
    ELSE <<promptWriter(prompt)>> \o [i \in DOMAIN images |-> Message("user", "", <<ImagePart(images[i])>>)]

\* A list of n messages that says x.
Says(ms, n, x, I) ==
    /\ n \in Nat /\ DOMAIN ms = 1 .. n /\ ms = [i \in 1 .. n |-> ms[i]] /\ x \in Seq(I)
    /\ \A i \in 1 .. n : IsMessage(ms[i], I)
    /\ FlattenSeq([i \in 1 .. n |-> OpenAIReads(ms[i])]) = x

\* A message in front of a list that says x.
LEMMA SaysFirst ==
    ASSUME NEW I, NEW m, IsMessage(m, I), NEW ms, NEW n, NEW x, Says(ms, n, x, I)
    PROVE  Says(<<m>> \o ms, n + 1, Join(OpenAIReads(m), x), I)
<1> USE DEF Says
<1>1. PICK M : M = {m} \cup {ms[i] : i \in 1 .. n}
  OBVIOUS
<1>2. ms \in Seq(M) /\ Len(ms) = n
  <2>1. ms \in [1 .. n -> M]
    BY <1>1
  <2>2. QED BY <2>1, SeqDef
<1>3. PICK a : a = <<m>> \o ms
  OBVIOUS
<1>4. PICK e \in Nat : e = n + 1
  OBVIOUS
<1>5. a \in Seq(M) /\ Len(a) = e /\ a[1] = m /\ \A i \in 1 .. n : a[i + 1] = ms[i]
  <2>1. <<m>> \in Seq(M) /\ Len(<<m>>) = 1
    BY <1>1
  <2>2. QED BY <1>2, <1>3, <1>4, <2>1
<1>6. DOMAIN a = 1 .. e /\ a = [i \in 1 .. e |-> a[i]]
  BY <1>5
<1>7. ASSUME NEW i \in 1 .. e PROVE IsMessage(a[i], I)
  <2>1. CASE i = 1
    BY <1>5, <2>1
  <2>2. CASE i # 1
    <3>1. n \in Nat /\ i \in 1 .. n + 1
      BY <1>4
    <3>2. i - 1 \in 1 .. n /\ (i - 1) + 1 = i
      BY <2>2, <3>1
    <3>3. a[i] = ms[i - 1]
      BY <1>5, <3>2
    <3>4. QED BY <3>2, <3>3
  <2>3. QED BY <2>1, <2>2
<1>8. PICK s : s = [i \in 1 .. e |-> OpenAIReads(a[i])]
  OBVIOUS
<1>9. PICK t : t = [i \in 1 .. n |-> OpenAIReads(ms[i])]
  OBVIOUS
<1>10. s \in [1 .. e -> Seq(I)] /\ t \in [1 .. n -> Seq(I)]
  <2>1. \A i \in 1 .. e : OpenAIReads(a[i]) \in Seq(I)
    BY <1>7, MessageRead
  <2>2. \A i \in 1 .. n : OpenAIReads(ms[i]) \in Seq(I)
    BY MessageRead
  <2>3. QED BY <1>8, <1>9, <2>1, <2>2
<1>11. \A i \in 1 .. n : t[i] = s[i + 1]
  BY <1>4, <1>5, <1>8, <1>9
<1>12. FlattenSeq(s) = Join(s[1], FlattenSeq(t))
  <2>1. AddsFirst(s, e, t, n, I)
    BY <1>4, <1>10, <1>11 DEF AddsFirst
  <2>2. QED BY <2>1, FlattenFirst
<1>13. s[1] = OpenAIReads(m) /\ FlattenSeq(t) = x
  BY <1>4, <1>5, <1>8, <1>9
<1>14. Join(OpenAIReads(m), x) \in Seq(I)
  <2>1. OpenAIReads(m) \in Seq(I)
    BY MessageRead
  <2>2. QED BY <2>1 DEF Join
<1>15. QED BY <1>3, <1>4, <1>6, <1>7, <1>8, <1>12, <1>13, <1>14

\* The messages of the user say the prompt and the images.
LEMMA UserRead ==
    ASSUME NEW I, NEW prompt, <<"text", prompt>> \in I, NEW k \in Nat, NEW images,
           DOMAIN images = 1 .. k, images = [i \in 1 .. k |-> images[i]], \A i \in 1 .. k : ImageItem(images[i]) \in I
    PROVE  Says(UserMessages(prompt, images), k + 1, Join(Text(prompt), [i \in 1 .. k |-> ImageItem(images[i])]), I)
<1>1. PICK ms : ms = [i \in 1 .. k |-> Message("user", "", <<ImagePart(images[i])>>)]
  OBVIOUS
<1>2. PICK x : x = [i \in 1 .. k |-> ImageItem(images[i])]
  OBVIOUS
<1>3. x \in [1 .. k -> I] /\ x \in Seq(I)
  <2>1. x \in [1 .. k -> I]
    BY <1>2
  <2>2. QED BY <2>1, SeqDef
<1>4. ASSUME NEW i \in 1 .. k PROVE IsMessage(ms[i], I) /\ OpenAIReads(ms[i]) = <<x[i]>>
  <2>1. PICK part : part = ImagePart(images[i])
    OBVIOUS
  <2>2. OpenAIItem(part) = <<x[i]>> /\ x[i] \in I
    BY <1>2, <1>3, <2>1, ImageRead
  <2>3. OpenAIItem(part) \in Seq(I)
    BY <2>2
  <2>4. ms[i] = Message("user", "", <<part>>)
    BY <1>1, <2>1
  <2>5. QED BY <2>2, <2>3, <2>4, PartMessageRead
<1>5. Says(ms, k, x, I)
  <2>1. PICK s : s = [i \in 1 .. k |-> <<x[i]>>]
    OBVIOUS
  <2>2. FlattenSeq(s) = x
    <3>1. x \in [1 .. k -> I]
      BY <1>3
    <3>2. Singles(s, x, k, I)
      BY <2>1, <3>1 DEF Singles
    <3>3. QED BY <3>2, FlattenSingles
  <2>3. s = [i \in 1 .. k |-> OpenAIReads(ms[i])]
    BY <1>4, <2>1
  <2>4. DOMAIN ms = 1 .. k /\ ms = [i \in 1 .. k |-> ms[i]]
    BY <1>1
  <2>5. QED BY <1>3, <1>4, <2>2, <2>3, <2>4 DEF Says
<1>6. PICK m : m = IF images = <<>> THEN Message("user", prompt, <<>>) ELSE promptWriter(prompt)
  OBVIOUS
<1>7. IsMessage(m, I) /\ OpenAIReads(m) = Text(prompt)
  <2>1. IsMessage(Message("user", prompt, <<>>), I) /\ OpenAIReads(Message("user", prompt, <<>>)) = Text(prompt)
    BY TextMessageRead
  <2>2. PICK part : part = TextPart(prompt)
    OBVIOUS
  <2>3. Text(prompt) \in Seq(I)
    <3>1. CASE prompt = ""
      <4>1. Text(prompt) = <<>>
        BY <3>1 DEF Text
      <4>2. QED BY <4>1
    <3>2. CASE prompt # ""
      <4>1. PICK item \in I : item = <<"text", prompt>>
        OBVIOUS
      <4>2. Text(prompt) = <<item>>
        BY <3>2, <4>1 DEF Text
      <4>3. QED BY <4>2
    <3>3. QED BY <3>1, <3>2
  <2>4. OpenAIItem(part) = Text(prompt) /\ OpenAIItem(part) \in Seq(I)
    BY <2>2, <2>3, PromptRead
  <2>5. promptWriter(prompt) = Message("user", "", <<part>>)
    BY <2>2 DEF promptWriter
  <2>6. IsMessage(promptWriter(prompt), I) /\ OpenAIReads(promptWriter(prompt)) = Text(prompt)
    BY <2>4, <2>5, PartMessageRead
  <2>7. QED BY <1>6, <2>1, <2>6
<1>8. Says(<<m>> \o ms, k + 1, Join(OpenAIReads(m), x), I)
  BY <1>5, <1>7, SaysFirst
<1>9. UserMessages(prompt, images) = <<m>> \o ms
  <2>1. CASE images = <<>>
    <3>1. k = 0
      <4>1. DOMAIN images = {}
        BY <2>1
      <4>2. QED BY <4>1
    <3>2. ms = <<>>
      BY <1>1, <3>1
    <3>3. <<m>> \o <<>> = <<m>>
      OBVIOUS
    <3>4. UserMessages(prompt, images) = <<m>>
      BY <1>6, <2>1 DEF UserMessages
    <3>5. QED BY <3>2, <3>3, <3>4
  <2>2. CASE images # <<>>
    <3>1. UserMessages(prompt, images) = <<promptWriter(prompt)>> \o [i \in DOMAIN images |-> Message("user", "", <<ImagePart(images[i])>>)]
      BY <2>2 DEF UserMessages
    <3>2. [i \in DOMAIN images |-> Message("user", "", <<ImagePart(images[i])>>)] = ms
      BY <1>1
    <3>3. QED BY <1>6, <2>2, <3>1, <3>2
  <2>3. QED BY <2>1, <2>2
<1>10. QED BY <1>2, <1>7, <1>8, <1>9

\* All the messages of BuildRequest.
LEMMA MessagesRead ==
    ASSUME NEW I, NEW inputs, NEW env, NEW k \in Nat, NEW images, images = ImagesOf(inputs.def),
           <<"text", inputs.systemPrompt>> \in I, <<"text", inputs.prompt>> \in I,
           DOMAIN images = 1 .. k, images = [i \in 1 .. k |-> images[i]], \A i \in 1 .. k : ImageItem(images[i]) \in I
    PROVE  \E n : Says(BuildRequest(inputs, env).messages, n,
                       Join(Join(Text(inputs.systemPrompt), Text(inputs.prompt)), [i \in 1 .. k |-> ImageItem(images[i])]), I)
<1>1. PICK prompt, system, ms : prompt = inputs.prompt /\ system = inputs.systemPrompt /\ ms = UserMessages(prompt, images)
  OBVIOUS
<1>2. PICK x : x = [i \in 1 .. k |-> ImageItem(images[i])]
  OBVIOUS
<1>3. Says(ms, k + 1, Join(Text(prompt), x), I)
  BY <1>1, <1>2, UserRead
<1>4. BuildRequest(inputs, env).messages =
        (IF inputs.systemPrompt = "" THEN <<>> ELSE <<Message("system", inputs.systemPrompt, <<>>)>>) \o ms
  <2>1. PICK all : all = (IF inputs.systemPrompt = "" THEN <<>> ELSE <<Message("system", inputs.systemPrompt, <<>>)>>)
                         \o (IF images = <<>> THEN <<Message("user", inputs.prompt, <<>>)>>
                             ELSE <<promptWriter(inputs.prompt)>>
                                  \o [i \in DOMAIN images |-> Message("user", "", <<ImagePart(images[i])>>)])
    OBVIOUS
  <2>2. all = (IF inputs.systemPrompt = "" THEN <<>> ELSE <<Message("system", inputs.systemPrompt, <<>>)>>) \o ms
    BY <1>1, <2>1 DEF UserMessages
  <2>3. BuildRequest(inputs, env) =
          LET config == IF inputs.def.config = <<>> THEN DefaultConfig ELSE inputs.def.config[1]
          IN  [messages |-> (IF inputs.systemPrompt = "" THEN <<>> ELSE <<Message("system", inputs.systemPrompt, <<>>)>>)
                            \o (IF ImagesOf(inputs.def) = <<>> THEN <<Message("user", inputs.prompt, <<>>)>>
                                ELSE <<promptWriter(inputs.prompt)>>
                                     \o [i \in DOMAIN ImagesOf(inputs.def) |->
                                            Message("user", "", <<ImagePart(ImagesOf(inputs.def)[i])>>)]),
               model |-> inputs.def.plain.model, temperature |-> config.temperature, topP |-> config.topP,
               passed |-> config.passed, topLogProbs |-> config.topLogProbs, kwargs |-> config.kwargs,
               maxCompletionTokens |-> config.maxTokens, maxTokens |-> 0, seed |-> SeedOf(inputs.def, env), responseFormat |-> inputs.responseSchema]
    BY Zenon DEF BuildRequest
  <2>4. BuildRequest(inputs, env).messages = all
    <3>1. PICK config : config = IF inputs.def.config = <<>> THEN DefaultConfig ELSE inputs.def.config[1]
      OBVIOUS
    <3>2. BuildRequest(inputs, env) =
            [messages |-> all, model |-> inputs.def.plain.model, temperature |-> config.temperature, topP |-> config.topP,
             passed |-> config.passed, topLogProbs |-> config.topLogProbs, kwargs |-> config.kwargs,
             maxCompletionTokens |-> config.maxTokens, maxTokens |-> 0, seed |-> SeedOf(inputs.def, env),
             responseFormat |-> inputs.responseSchema]
      BY <2>1, <2>3, <3>1
    <3>3. QED BY <3>2
  <2>5. QED BY <2>2, <2>4
<1>5. Text(system) \in Seq(I) /\ Text(prompt) \in Seq(I) /\ x \in Seq(I)
  <2>1. ASSUME NEW text, <<"text", text>> \in I PROVE Text(text) \in Seq(I)
    BY <2>1, TextMessageRead DEF IsMessage, Message
  <2>2. x \in [1 .. k -> I]
    BY <1>2
  <2>3. QED BY <1>1, <2>1, <2>2, SeqDef
<1>6. Join(Text(system), Join(Text(prompt), x)) = Join(Join(Text(system), Text(prompt)), x)
  BY <1>5, Reassociated
<1>7. CASE system = ""
  <2>1. BuildRequest(inputs, env).messages = <<>> \o ms
    BY <1>1, <1>4, <1>7
  <2>2. <<>> \o ms = ms
    <3>1. PICK n \in Nat : n = k + 1
      OBVIOUS
    <3>2. PICK M : M = {ms[i] : i \in 1 .. n}
      OBVIOUS
    <3>3. ms \in [1 .. n -> M]
      BY <1>3, <3>1, <3>2 DEF Says
    <3>4. ms \in Seq(M)
      BY <3>3, SeqDef
    <3>5. QED BY <3>4
  <2>3. Text(system) = <<>>
    BY <1>7 DEF Text
  <2>4. Join(<<>>, Join(Text(prompt), x)) = Join(Text(prompt), x)
    <3>1. PICK y : y = Join(Text(prompt), x)
      OBVIOUS
    <3>2. y \in Seq(I)
      BY <1>5, <3>1 DEF Join
    <3>3. <<>> \o y = y
      BY <3>2
    <3>4. QED BY <3>1, <3>3 DEF Join
  <2>5. Join(Text(prompt), x) = Join(Join(Text(system), Text(prompt)), x)
    BY <1>6, <2>3, <2>4
  <2>6. Says(BuildRequest(inputs, env).messages, k + 1, Join(Join(Text(system), Text(prompt)), x), I)
    BY <1>3, <2>1, <2>2, <2>5
  <2>7. QED BY <1>1, <1>2, <2>6
<1>8. CASE system # ""
  <2>1. PICK m : m = Message("system", system, <<>>)
    OBVIOUS
  <2>2. BuildRequest(inputs, env).messages = <<m>> \o ms
    BY <1>1, <1>4, <1>8, <2>1
  <2>3. IsMessage(m, I) /\ OpenAIReads(m) = Text(system)
    BY <1>1, <2>1, TextMessageRead
  <2>4. PICK y, n : y = Join(Text(prompt), x) /\ n = k + 1
    OBVIOUS
  <2>5. Says(ms, n, y, I)
    BY <1>3, <2>4
  <2>6. Says(<<m>> \o ms, n + 1, Join(OpenAIReads(m), y), I)
    BY <2>3, <2>5, SaysFirst
  <2>7. Says(BuildRequest(inputs, env).messages, n + 1, Join(Join(Text(system), Text(prompt)), x), I)
    BY <1>6, <2>2, <2>3, <2>4, <2>6
  <2>8. QED BY <1>1, <1>2, <2>7
<1>9. QED BY <1>7, <1>8

\* The images are those of the client.
LEMMA ImagesWanted ==
    ASSUME GatewayInv, Asked
    PROVE  /\ ImagesOf(Inputs.def) = Wanted(origin.def[<<>>])
           /\ List(ImagesOf(Inputs.def))
<1>1. /\ ConversionInv /\ Receivable /\ Inputs.def = First[<<>>]
  BY AskedFacts DEF Asked
<1>2. /\ First[<<>>].plain = origin.def[<<>>].plain /\ First[<<>>].sendImage = origin.def[<<>>].sendImage
      /\ IsModelNode(First[<<>>])
  BY <1>1, RootFacts
<1>3. PICK d : d = First[<<>>]
  OBVIOUS
<1>4. ImagesOf(d) = Wanted(origin.def[<<>>])
  BY <1>2, <1>3 DEF ImagesOf, Wanted
<1>5. Optional(d.sendImage) /\ \A i \in DOMAIN d.sendImage : List(d.sendImage[i].imagesData)
  BY <1>2, <1>3 DEF IsModelNode, IsNode, OptionalPart
<1>6. List(<<>>)
  BY DEF List, HasFields
<1>7. ASSUME d.sendImage # <<>> PROVE List(d.sendImage[1].imagesData)
  <2>1. 1 \in DOMAIN d.sendImage
    BY <1>5, <1>7 DEF Optional, List, HasFields
  <2>2. QED BY <1>5, <2>1
<1>8. List(ImagesOf(d))
  BY <1>6, <1>7 DEF ImagesOf
<1>9. QED BY <1>1, <1>3, <1>4, <1>8

\* The provider reads the prompts and the images, whatever its form of a request.
LEMMA EverythingRead == GatewayInv => EverythingAsked
<1>1. SUFFICES ASSUME GatewayInv, Asked, ~IsEmbedding(Inputs)
               PROVE  LET images == Wanted(origin.def[<<>>])
                      IN  ItemsRead(sent[1].body) =
                              Text(job.systemPrompt) \o Text(job.prompt)
                              \o [i \in DOMAIN images |-> <<"image", images[i].bytes, detectMimeType(images[i])>>]
  BY DEF EverythingAsked
<1>2. PICK images : images = ImagesOf(Inputs.def)
  OBVIOUS
<1>3. images = Wanted(origin.def[<<>>]) /\ List(images)
  BY <1>1, <1>2, ImagesWanted
<1>4. PICK k \in Nat : DOMAIN images = 1 .. k /\ images = [i \in 1 .. k |-> images[i]]
  <2>1. Len(images) \in Nat /\ images = [i \in 1 .. Len(images) |-> images[i]]
    BY <1>3 DEF List, HasFields
  <2>2. PICK n \in Nat : n = Len(images)
    BY <2>1
  <2>3. QED BY <2>1, <2>2
<1>5. PICK inputs, env : inputs = Inputs /\ env = job.env
  OBVIOUS
<1>6. inputs.prompt = job.prompt /\ inputs.systemPrompt = job.systemPrompt
  BY <1>1, <1>5, AskedFacts DEF Asked
<1>7. PICK I : I = {<<"text", inputs.systemPrompt>>, <<"text", inputs.prompt>>} \cup {ImageItem(images[i]) : i \in 1 .. k}
  OBVIOUS
<1>8. PICK request : request = BuildRequest(inputs, env)
  OBVIOUS
<1>9. PICK ms : ms = request.messages
  OBVIOUS
<1>10. PICK x : x = Join(Join(Text(inputs.systemPrompt), Text(inputs.prompt)), [i \in 1 .. k |-> ImageItem(images[i])])
  OBVIOUS
<1>11. PICK n : Says(ms, n, x, I)
  <2>1. /\ <<"text", inputs.systemPrompt>> \in I /\ <<"text", inputs.prompt>> \in I
        /\ \A i \in 1 .. k : ImageItem(images[i]) \in I
    BY <1>7
  <2>2. images = ImagesOf(inputs.def)
    BY <1>2, <1>5
  <2>3. \E n : Says(BuildRequest(inputs, env).messages, n, x, I)
    BY <1>4, <1>10, <2>1, <2>2, MessagesRead
  <2>4. QED BY <1>8, <1>9, <2>3
<1>12. /\ n \in Nat /\ DOMAIN ms = 1 .. n /\ \A i \in 1 .. n : IsMessage(ms[i], I)
       /\ FlattenSeq([i \in DOMAIN ms |-> OpenAIReads(ms[i])]) = x
  BY <1>11 DEF Says
<1>13. ItemsRead(sent[1].body) = x
  <2>1. PICK body : body = sent[1].body
    OBVIOUS
  <2>2. CASE Adapter = "gemini"
    <3>1. body = convertToGeminiFormat(request)
      BY <1>1, <1>5, <1>8, <2>1, <2>2, BodySent
    <3>2. FlattenSeq([i \in DOMAIN body.contents |-> GeminiReads(body.contents[i])]) = x
      BY <1>9, <1>12, <3>1, GeminiSame
    <3>3. ItemsRead(body) = FlattenSeq([i \in DOMAIN body.contents |-> GeminiReads(body.contents[i])])
      BY <2>2 DEF ItemsRead
    <3>4. QED BY <2>1, <3>2, <3>3
  <2>3. CASE Adapter # "gemini"
    <3>1. body = request
      BY <1>1, <1>5, <1>8, <2>1, <2>3, BodySent
    <3>2. ItemsRead(body) = FlattenSeq([i \in DOMAIN body.messages |-> OpenAIReads(body.messages[i])])
      BY <2>3 DEF ItemsRead
    <3>3. QED BY <1>9, <1>12, <2>1, <3>1, <3>2
  <2>4. QED BY <2>2, <2>3
<1>14. x = Text(job.systemPrompt) \o Text(job.prompt)
           \o [i \in DOMAIN images |-> <<"image", images[i].bytes, detectMimeType(images[i])>>]
  <2>1. [i \in 1 .. k |-> ImageItem(images[i])] = [i \in DOMAIN images |-> <<"image", images[i].bytes, detectMimeType(images[i])>>]
    BY <1>4 DEF ImageItem
  <2>2. QED BY <1>6, <1>10, <2>1 DEF Join
<1>15. QED BY <1>3, <1>13, <1>14

\* A request to a provider holds what the job asks for (EverythingAsked, SettingsSent,
\* SchemaAsksForAll) and goes where the environment says (EmbeddingsGoHome,
\* BatchSameProvider): BuildRequest, convertToGeminiFormat, ToSchema and the adapters.
THEOREM RequestsKept == GatewaySpec => []RequestsFaithful
<1>1. GatewayInv => RequestsFaithful
  BY EverythingRead, SettingsArrive, SchemaComplete, EmbeddingsAtHome, BatchesAtProvider DEF RequestsFaithful
<1>2. QED BY <1>1, GatewayInvariant, PTL
===============================================================================
