-------------------------- MODULE DirectSubmitter --------------------------
(***************************************************************************)
(* LLM/directSubmitter.go: the calls of the model's provider, spread round *)
(* robin over shards, each with a weighted semaphore that hands out its    *)
(* permits in FIFO order and refuses a caller whose context has ended.     *)
(***************************************************************************)
EXTENDS Integers, Sequences, FiniteSets, SequencesExt

CONSTANTS
    Calls,           \* goroutines that call the model, one per field
    NumShards,       \* client adapters
    MaxConcurrent    \* LLM_CONCURRENCY

ASSUME SubmitterAssumption ==
    /\ IsFiniteSet(Calls)
    /\ NumShards \in Nat \ {0} /\ MaxConcurrent \in Nat \ {0}

AdapterShards == 0 .. NumShards - 1
ShardCapacity == IF MaxConcurrent \div NumShards < 1 THEN 1 ELSE MaxConcurrent \div NumShards

VARIABLES
    permits,   \* free permits of a shard
    waiters,   \* callers asleep in Acquire, oldest first
    turn,      \* nextShard, modulo the number of shards
    shardOf,   \* the shard of a caller's current call
    holders,   \* callers holding a permit
    ended      \* callers whose context has ended

submitVars == <<permits, waiters, turn, shardOf, holders, ended>>

NewDirectJobSubmitter ==
    /\ permits = [s \in AdapterShards |-> ShardCapacity]
    /\ waiters = [s \in AdapterShards |-> <<>>]
    /\ turn = 0
    /\ shardOf = [c \in Calls |-> 0]
    /\ holders = {}
    /\ ended = {}

\* Round robin, then the fast path of Acquire or a place in the queue.
Enter(c) ==
    LET s == (turn + 1) % NumShards
    IN  /\ turn' = s
        /\ shardOf' = [shardOf EXCEPT ![c] = s]
        /\ IF permits[s] > 0 /\ waiters[s] = <<>>
           THEN /\ permits' = [permits EXCEPT ![s] = @ - 1]
                /\ holders' = holders \cup {c}
                /\ UNCHANGED waiters
           ELSE /\ waiters' = [waiters EXCEPT ![s] = Append(@, c)]
                /\ UNCHANGED <<permits, holders>>
        /\ UNCHANGED ended

\* Acquire refuses a caller whose context has ended: the turn is used up all the same.
Refuse(c) ==
    /\ c \in ended
    /\ turn' = (turn + 1) % NumShards
    /\ shardOf' = [shardOf EXCEPT ![c] = turn']
    /\ UNCHANGED <<permits, waiters, holders, ended>>

\* Acquire gives up while asleep and leaves the queue, from wherever it stands in it.
Withdraw(c) ==
    /\ c \in ended
    /\ \E i \in DOMAIN waiters[shardOf[c]] :
         /\ waiters[shardOf[c]][i] = c
         /\ waiters' = [waiters EXCEPT ![shardOf[c]] = RemoveAt(@, i)]
    /\ UNCHANGED <<permits, turn, shardOf, holders, ended>>

\* Mutant of Release: the permit returns although a waiter has been woken with it.
ReleaseTwice(c) ==
    LET s == shardOf[c]
    IN  /\ permits' = [permits EXCEPT ![s] = @ + 1]
        /\ IF waiters[s] = <<>>
           THEN holders' = holders \ {c} /\ UNCHANGED waiters
           ELSE /\ holders' = (holders \ {c}) \cup {Head(waiters[s])}
                /\ waiters' = [waiters EXCEPT ![s] = Tail(@)]
        /\ UNCHANGED <<turn, shardOf, ended>>

\* Release: the permit goes to the oldest waiter, or becomes free.
Release(c) ==
    LET s == shardOf[c]
    IN  /\ IF waiters[s] = <<>>
           THEN /\ permits' = [permits EXCEPT ![s] = @ + 1]
                /\ holders' = holders \ {c}
                /\ UNCHANGED waiters
           ELSE /\ holders' = (holders \ {c}) \cup {Head(waiters[s])}
                /\ waiters' = [waiters EXCEPT ![s] = Tail(@)]
                /\ UNCHANGED permits
        /\ UNCHANGED <<turn, shardOf, ended>>

SubmitterTypeOK ==
    /\ permits \in [AdapterShards -> 0 .. ShardCapacity]
    /\ waiters \in [AdapterShards -> Seq(Calls)]
    /\ turn \in AdapterShards
    /\ shardOf \in [Calls -> AdapterShards]
    /\ holders \subseteq Calls /\ ended \subseteq Calls
=============================================================================
