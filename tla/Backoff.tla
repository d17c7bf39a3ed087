------------------------------- MODULE Backoff -------------------------------
(***************************************************************************)
(* llmManagement/backoff: how workers pause when the provider answers 429. *)
(* NewOrchestrationService picks none, global or perworker for the workers *)
(* of the orchestrator; AdaptiveRateLimiter ("adaptive") is the limiter of *)
(* one model, used by the same kind of callers.                            *)
(*                                                                         *)
(* Time is a number of ticks still to go: until[s] to backoffUntil of slot *)
(* s, sleep[w] to the end of a Sleep.  A slot is what a strategy keeps one *)
(* backoff for: all workers, or each of them.  A mutex guards every method *)
(* of a strategy, and no method sleeps with it.                            *)
(***************************************************************************)
EXTENDS Integers, FiniteSets

CONSTANTS
    Workers,      \* ids of the workers
    All,          \* the one slot of the global strategy
    Second,       \* ticks of a second, the first backoff
    MaxBackoff,   \* the longest backoff
    RetryAfters,  \* RetryAfter of a RateLimitError; 0 for an error without one
    Minute,       \* ticks of the limiter's window and of its pause
    DefaultRPM    \* requests per window

ASSUME BackoffAssumption ==
    /\ IsFiniteSet(Workers) /\ All \notin Workers
    /\ Second \in Nat \ {0} /\ MaxBackoff \in Nat /\ MaxBackoff >= Second
    /\ RetryAfters \subseteq Nat /\ 0 \in RetryAfters
    /\ Minute \in Nat \ {0} /\ DefaultRPM \in Nat \ {0}

VARIABLES
    strategy,   \* "none", "global", "perworker" or "adaptive"
    phase,      \* of a worker: "wait", "sleep", "call", "pause" or "fatal"
    sleep,      \* ticks a worker still sleeps
    current,    \* currentBackoff of a slot
    until,      \* ticks to backoffUntil of a slot
    limiter,    \* the modelLimiter of the adaptive strategy
    overtaken,  \* history: workers whose slot began a pause after they looked
    since       \* history: ticks since the slot's backoff was at its start, up to MaxBackoff

backoffVars == <<strategy, phase, sleep, current, until, limiter, overtaken, since>>
slotVars == <<current, until, since>>

Slots == Workers \cup {All}
SlotOf(w) == IF strategy = "global" THEN All ELSE w
Least(a, b) == IF a < b THEN a ELSE b

\* rand.Intn of a quarter of the pause, rounded up to whole ticks.
Jitter(pause) == 0..((pause + 3) \div 4)
LongestPause == MaxBackoff + (MaxBackoff + 3) \div 4

\* level is rampUpLevel in tenths; age counts from windowStart, left to backoffUntil.
Init ==
    /\ strategy \in {"none", "global", "perworker", "adaptive"}
    /\ phase = [w \in Workers |-> "wait"]
    /\ sleep = [w \in Workers |-> 0]
    /\ current = [s \in Slots |-> Second]
    /\ until = [s \in Slots |-> 0]
    /\ limiter = [exists |-> FALSE, count |-> 0, age |-> 0, inBackoff |-> FALSE, left |-> 0, level |-> 10]
    /\ overtaken = {}
    /\ since = [s \in Slots |-> 0]

To(w, p, ticks) ==
    /\ phase' = [phase EXCEPT ![w] = p]
    /\ sleep' = [sleep EXCEPT ![w] = ticks]

-----------------------------------------------------------------------------
(* ApplyBackoff, and Wait of the limiter: what comes before a call. *)

NoApplyBackoff(w) ==
    /\ strategy = "none" /\ phase[w] = "wait"
    /\ To(w, "call", 0)
    /\ UNCHANGED <<strategy, slotVars, limiter, overtaken>>

\* Mutant of SleepFor: the backoff is slept, not what is left of the pause.
SleepForBackoff(w, s) ==
    /\ phase[w] = "wait"
    /\ To(w, IF until[s] > 0 THEN "sleep" ELSE "call", IF until[s] > 0 THEN current[s] ELSE 0)
    /\ overtaken' = overtaken \ {w}
    /\ UNCHANGED <<strategy, slotVars, limiter>>

\* The rest of the pause is read under the mutex and slept without it.
SleepFor(w, s) ==
    /\ phase[w] = "wait"
    /\ To(w, IF until[s] > 0 THEN "sleep" ELSE "call", until[s])
    /\ overtaken' = overtaken \ {w}
    /\ UNCHANGED <<strategy, slotVars, limiter>>

GlobalApplyBackoff(w) == strategy = "global" /\ SleepFor(w, All)
PerWorkerApplyBackoff(w) == strategy = "perworker" /\ SleepFor(w, w)

\* 0.1 + 4 * 0.2 is a little below nine tenths, and int() cuts.
EffectiveLimit(level) ==
    LET limit == (DefaultRPM * level - (IF level = 9 THEN 1 ELSE 0)) \div 10
    IN  IF limit < 1 THEN 1 ELSE limit

WindowOver(l) == l.age >= Minute

\* The request is counted or the rest of the window slept.  With no rest of the window
\* the code would go on to count the request and unlock a second time.
Admit(w, window) ==
    IF window.count < EffectiveLimit(window.level)
      THEN limiter' = [window EXCEPT !.count = @ + 1] /\ To(w, "call", 0)
      ELSE /\ limiter' = window
           /\ IF Minute - window.age > 0 THEN To(w, "sleep", Minute - window.age)
                                         ELSE To(w, "fatal", 0)

\* One turn of the loop of AdaptiveRateLimiter.Wait, from Lock to Unlock: the pause is
\* slept out, then a window that is over begins anew with a higher level.
Wait(w) ==
    LET made   == [limiter EXCEPT !.exists = TRUE]
        woken  == IF made.inBackoff THEN [made EXCEPT !.inBackoff = FALSE, !.level = 1] ELSE made
        window == IF WindowOver(woken)
                    THEN [woken EXCEPT !.count = 0, !.age = 0, !.level = Least(@ + 2, 10)]
                    ELSE woken
    IN  /\ strategy = "adaptive" /\ phase[w] = "wait"
        /\ overtaken' = overtaken \ {w}
        /\ IF made.inBackoff /\ made.left > 0
             THEN limiter' = made /\ To(w, "sleep", made.left)
             ELSE Admit(w, window)
        /\ UNCHANGED <<strategy, slotVars>>

\* Mutant of Wake: the sleeper looks at the shared deadline again.
WakeWhenQuiet(w) ==
    /\ phase[w] = "sleep" /\ sleep[w] = 0 /\ until[SlotOf(w)] = 0
    /\ phase' = [phase EXCEPT ![w] = IF strategy = "adaptive" THEN "wait" ELSE "call"]
    /\ UNCHANGED <<strategy, sleep, slotVars, limiter, overtaken>>

\* The limiter's caller looks again, the others call.
Wake(w) ==
    /\ phase[w] = "sleep" /\ sleep[w] = 0
    /\ phase' = [phase EXCEPT ![w] = IF strategy = "adaptive" THEN "wait" ELSE "call"]
    /\ UNCHANGED <<strategy, sleep, slotVars, limiter, overtaken>>

-----------------------------------------------------------------------------
(* ActivateBackoff, and ReportResult with a 429. *)

Overtakes(s, w) ==
    overtaken' = (overtaken \cup {v \in Workers : SlotOf(v) = s /\ phase[v] \in {"sleep", "call"}}) \ {w}

\* Nothing while a pause lasts; otherwise a pause of the backoff, which doubles, or of
\* the provider's RetryAfter, which starts the backoff anew.
Activate(s, retryAfter) ==
    LET pause == IF retryAfter > 0 THEN retryAfter ELSE current[s]
    IN  IF until[s] > 0
          THEN UNCHANGED slotVars
          ELSE /\ current' = [current EXCEPT ![s] = IF retryAfter > 0 THEN Second ELSE Least(2 * @, MaxBackoff)]
               /\ \E jitter \in Jitter(pause) : until' = [until EXCEPT ![s] = pause + jitter]
               /\ since' = IF retryAfter > 0 THEN [since EXCEPT ![s] = 0] ELSE since

\* A pause of a fifth of a second, in the worker.
NoActivateBackoff(w) ==
    /\ strategy = "none" /\ phase[w] = "call"
    /\ To(w, "pause", 1)
    /\ UNCHANGED <<strategy, slotVars, limiter, overtaken>>

PauseOver(w) ==
    /\ phase[w] = "pause" /\ sleep[w] = 0
    /\ phase' = [phase EXCEPT ![w] = "wait"]
    /\ UNCHANGED <<strategy, sleep, slotVars, limiter, overtaken>>

GlobalActivateBackoff(w, retryAfter) ==
    /\ strategy = "global" /\ phase[w] = "call"
    /\ Activate(All, retryAfter)
    /\ Overtakes(All, w)
    /\ To(w, "wait", 0)
    /\ UNCHANGED <<strategy, limiter>>

PerWorkerActivateBackoff(w, retryAfter) ==
    /\ strategy = "perworker" /\ phase[w] = "call"
    /\ Activate(w, retryAfter)
    /\ Overtakes(w, w)
    /\ To(w, "wait", 0)
    /\ UNCHANGED <<strategy, limiter>>

\* inBackoff stays set until a Wait finds the pause over: a 429 after the pause and
\* before that Wait begins no new one.
ReportResult(w) ==
    /\ strategy = "adaptive" /\ phase[w] = "call"
    /\ limiter' = IF limiter.inBackoff THEN limiter
                  ELSE [limiter EXCEPT !.inBackoff = TRUE, !.left = Minute, !.level = 1]
    /\ overtaken' = (overtaken \cup {v \in Workers : phase[v] \in {"sleep", "call"}}) \ {w}
    /\ To(w, "wait", 0)
    /\ UNCHANGED <<strategy, slotVars>>

RateLimited(w) ==
    \/ NoActivateBackoff(w) \/ ReportResult(w)
    \/ \E r \in RetryAfters : GlobalActivateBackoff(w, r) \/ PerWorkerActivateBackoff(w, r)

-----------------------------------------------------------------------------
(* A call that succeeds, with ResetBackoff, or fails in another way. *)

GlobalResetBackoff == [current |-> [current EXCEPT ![All] = Second], since |-> [since EXCEPT ![All] = 0]]
PerWorkerResetBackoff(w) == [current |-> [current EXCEPT ![w] = Second], since |-> [since EXCEPT ![w] = 0]]

Succeed(w) ==
    /\ phase[w] = "call"
    /\ CASE strategy = "global" -> current' = GlobalResetBackoff.current /\ since' = GlobalResetBackoff.since
         [] strategy = "perworker" ->
              current' = PerWorkerResetBackoff(w).current /\ since' = PerWorkerResetBackoff(w).since
         [] OTHER -> UNCHANGED <<current, since>>
    /\ To(w, "wait", 0)
    /\ UNCHANGED <<strategy, until, limiter, overtaken>>

FailOtherwise(w) ==
    /\ phase[w] = "call"
    /\ To(w, "wait", 0)
    /\ UNCHANGED <<strategy, slotVars, limiter, overtaken>>

Pass(t) == IF t > 0 THEN t - 1 ELSE 0

Tick ==
    /\ sleep' = [w \in Workers |-> Pass(sleep[w])]
    /\ until' = [s \in Slots |-> Pass(until[s])]
    /\ since' = [s \in Slots |-> IF current[s] > Second \/ until[s] > 0 THEN Least(since[s] + 1, MaxBackoff) ELSE since[s]]
    /\ limiter' = IF limiter.exists
                    THEN [limiter EXCEPT !.left = Pass(@), !.age = Least(@ + 1, Minute)]
                    ELSE limiter
    /\ UNCHANGED <<strategy, phase, current, overtaken>>

Begin(w) == NoApplyBackoff(w) \/ GlobalApplyBackoff(w) \/ PerWorkerApplyBackoff(w) \/ Wait(w)
Return(w) == RateLimited(w) \/ Succeed(w) \/ FailOtherwise(w)

Next ==
    \/ \E w \in Workers : Begin(w) \/ Wake(w) \/ PauseOver(w) \/ Return(w)
    \/ Tick

\* Workers run, the HTTP client's timeout ends every call, and time goes on.
Spec ==
    /\ Init /\ [][Next]_backoffVars
    /\ WF_backoffVars(Tick)
    /\ \A w \in Workers :
         WF_backoffVars(Begin(w)) /\ WF_backoffVars(Wake(w) \/ PauseOver(w)) /\ WF_backoffVars(Return(w))
-----------------------------------------------------------------------------
(* Properties *)

\* The values the variables range over; no worker unlocks the limiter's mutex twice.
TypeOK ==
    /\ strategy \in {"none", "global", "perworker", "adaptive"}
    /\ phase \in [Workers -> {"wait", "sleep", "call", "pause"}]
    /\ sleep \in [Workers -> Nat]
    /\ current \in [Slots -> Second..MaxBackoff]
    /\ until \in [Slots -> Nat] /\ since \in [Slots -> 0..MaxBackoff]
    /\ overtaken \subseteq Workers
    /\ limiter.count \in 0..DefaultRPM /\ limiter.level \in {1, 3, 5, 7, 9, 10}

PauseLeft(w) ==
    IF strategy = "adaptive" THEN (IF limiter.inBackoff THEN limiter.left ELSE 0) ELSE until[SlotOf(w)]

\* A worker calls the provider during a pause only if the pause began after the worker
\* had looked (the deadline is read under the mutex and slept without it); with a
\* backoff of its own that never happens.
HonoursPause ==
    \A w \in Workers :
        /\ phase[w] = "call" /\ PauseLeft(w) > 0 => w \in overtaken
        /\ strategy = "perworker" => w \notin overtaken

\* The 429s of calls that were in flight together count once: the backoff doubles no
\* faster than the pauses it has asked for go by.
GrowsWithPauses ==
    \A s \in Slots : since[s] + until[s] >= current[s] - Second

\* Outside a pause a window has let through at most what its level allows: the count of
\* the window of the 429 never reaches into the slow start.
SlowStartHolds ==
    ~limiter.inBackoff => limiter.count <= EffectiveLimit(limiter.level)

\* Under the strategies none, global and per worker a pause keeps nobody from calling for
\* ever, however often others prolong it.  (The adaptive limiter promises nothing to one
\* worker: others may use up its windows.)
PausesEnd == \A w \in Workers : strategy # "adaptive" /\ phase[w] = "wait" ~> phase[w] = "call"

\* Under every strategy: no call inside a pause its worker could know of, pauses that grow
\* only with pauses that were waited for, and a limiter that reopens slowly.
BackoffInv ==
    /\ TypeOK
    /\ HonoursPause
    /\ GrowsWithPauses
    /\ SlowStartHolds
=============================================================================
