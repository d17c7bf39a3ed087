----------------------------- MODULE JobService -----------------------------
(***************************************************************************)
(* What the job pipeline promises a caller of SubmitJob: an accepted job   *)
(* is answered at most once, with a result or with nil, and the caller     *)
(* gets that answer and no other.  How jobs are queued, routed, retried,   *)
(* batched and stopped is not visible here.                                *)
(***************************************************************************)
CONSTANT Jobs

VARIABLES
    status,   \* "new", "accepted", "answered", "returned"
    answer    \* "none" until the job is answered

Answers == {"nil", "reply", "chat"}

Init ==
    /\ status = [j \in Jobs |-> "new"]
    /\ answer = [j \in Jobs |-> "none"]

Accept(j) ==
    /\ status[j] = "new"
    /\ status' = [status EXCEPT ![j] = "accepted"]
    /\ UNCHANGED answer

Answer(j, v) ==
    /\ status[j] = "accepted"
    /\ status' = [status EXCEPT ![j] = "answered"]
    /\ answer' = [answer EXCEPT ![j] = v]

Return(j) ==
    /\ status[j] = "answered"
    /\ status' = [status EXCEPT ![j] = "returned"]
    /\ UNCHANGED answer

Next == \E j \in Jobs : Accept(j) \/ (\E v \in Answers : Answer(j, v)) \/ Return(j)

Spec == Init /\ [][Next]_<<status, answer>>
=============================================================================
