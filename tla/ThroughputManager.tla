------------------------- MODULE ThroughputManager -------------------------
(***************************************************************************)
(* llm/throughput_manager.go: the models requests are spread over, and the *)
(* cooldown of a model that answered 429.  One mutex protects the map, so  *)
(* every operation is one step.  Time is counted in polling intervals.     *)
(***************************************************************************)
EXTENDS Integers, FiniteSets

CONSTANTS
    Models,      \* THROUGHPUT_MODELS
    Cooldown,    \* cooldownDuration: 120 intervals of half a second
    MaxWait      \* maxWaitForModel: 60 intervals

ASSUME ThroughputAssumption == Cooldown \in Nat \ {0} /\ MaxWait \in Nat \ {0}

NoModel == "no model"     \* the empty string

VARIABLE limited   \* a model's time since its 429, or Free when its timestamp is zero

Free == -1
\* Ages above the cooldown are not told apart.
MaxAge == Cooldown + 1

NewDefaultThroughputManager == limited = [m \in Models |-> Free]

Elapse == limited' = [m \in Models |-> IF limited[m] \in {Free, MaxAge} THEN limited[m]
                                       ELSE limited[m] + 1]

Cooling(m) == limited[m] # Free /\ limited[m] <= Cooldown
Available == {m \in Models : ~Cooling(m)}

Reset(m) == limited' = [limited EXCEPT ![m] = Free]

\* getAvailableModelLocked: the map is iterated in any order; an expired cooldown is reset.
GetAvailableModel(m) == m \in Available /\ Reset(m)

\* The models the forced choice may return.  A free model is met before or after others;
\* else the shortest remaining cooldown, which must be strictly less than a full one.
ShortestCooldown ==
    LET free == {m \in Models : limited[m] = Free}
        started == {m \in Models : limited[m] > 0}
        oldest == {m \in started : \A n \in started : limited[n] <= limited[m]}
    IN  CASE free # {} -> free
          [] free = {} /\ oldest # {} -> oldest
          [] OTHER -> {NoModel}

\* getModelWithShortestCooldown: the chosen model is used at once.
GetModelWithShortestCooldown(m) ==
    /\ m \in ShortestCooldown
    /\ IF m = NoModel THEN UNCHANGED limited ELSE Reset(m)

\* ReportRateLimitError: an unknown model and one already cooling down are left alone.
ReportRateLimitError(m) ==
    IF m \in Models /\ limited[m] = Free
    THEN limited' = [limited EXCEPT ![m] = 0]
    ELSE UNCHANGED limited

ThroughputTypeOK == limited \in [Models -> Free .. MaxAge]
=============================================================================
