----------------------------- MODULE BlockFetch -----------------------------
(***************************************************************************)
(* fetch_block_range: a pool of at most MaxConcurrency futures, polled by  *)
(* one task, each of which takes a token, asks the RPC node for its slot   *)
(* and retries transient errors with exponential backoff and jitter        *)
(* (block_fetch.rs, retry.rs, and the verdicts of rpc_client.rs).  The     *)
(* limiter's state and steps are those of TokenBucket.                     *)
(***************************************************************************)
EXTENDS TokenBucket, FiniteSets, Functions

CONSTANTS
    Count,            \* number of slots to fetch, oldest first
    MaxConcurrency,   \* futures in the pool at once
    MaxRetries,       \* RetryConfig.max_retries
    BaseDelay,        \* RetryConfig.base_delay, in ticks
    MaxDelay,         \* RetryConfig.max_delay, in ticks
    JitterPercent     \* RetryConfig.jitter_factor, in hundredths

ASSUME FetchAssumption == /\ {Count, MaxConcurrency, MaxRetries} \subseteq Nat
                          /\ {BaseDelay, MaxDelay} \subseteq Nat
                          /\ JitterPercent \in 0..100

Slots == 1..Count
NoSlot == 0

VARIABLES
    pc,          \* where the future of each slot stands
    timer,       \* ticks left to sleep, for a future that sleeps
    attempts,    \* requests each slot has sent
    result,      \* what the last request of each slot came back with
    delivering   \* the slot whose outcome on_outcome is handling, or NoSlot

futureVars == <<pc, timer, attempts, result>>
vars == <<bucketVars, futureVars, delivering>>

(* What can come back from the node: nothing that reads as JSON, a result   *)
(* of either shape, or an error, whose code and text may match the patterns *)
(* for unavailable slots, those for throttling, both or neither.            *)
Replies == [body : {"none", "block", "other"}]
             \cup [body : {"error"}, unavailable : BOOLEAN, throttled : BOOLEAN]

(* get_block_raw and decode_get_block_json: the Result they make of a reply. *)
Decoded(reply) ==
    CASE reply.body = "none" -> "Transport"
      [] reply.body = "block" -> "Ok"
      [] reply.body = "other" -> "UnexpectedShape"
      [] reply.body = "error" -> IF reply.unavailable THEN "SlotSkipped"
                                 ELSE IF reply.throttled THEN "Throttled"
                                 ELSE "RpcReturnedError"

Results == {"Ok", "SlotSkipped", "Transport", "Throttled", "RpcReturnedError", "UnexpectedShape"}

IsTransient(res) == res \in {"Transport", "Throttled"}

(* The delays retry_with_backoff can draw after its attempt-th attempt. *)
BackoffDelays(attempt) ==
    LET exponential == BaseDelay * 2^attempt
        capped == IF exponential < MaxDelay THEN exponential ELSE MaxDelay
    IN  {d \in 0..2 * MaxDelay : /\ (capped * (100 - JitterPercent)) \div 100 <= d
                                 /\ d <= (capped * (100 + JitterPercent)) \div 100}

InFlight == {s \in Slots : pc[s] \notin {"todo", "done"}}
Todo == {s \in Slots : pc[s] = "todo"}

(* slots.pop(). *)
Oldest(S) == CHOOSE s \in S : \A t \in S : s <= t
-----------------------------------------------------------------------------
(* Mutant: the pool is primed while it is not above its limit. *)
InitOneMore == /\ BucketInit
               /\ pc = [s \in Slots |-> IF s <= MaxConcurrency + 1 THEN "acquire" ELSE "todo"]
               /\ timer = [s \in Slots |-> 0]
               /\ attempts = [s \in Slots |-> 0]
               /\ result = [s \in Slots |-> "none"]
               /\ delivering = NoSlot

(* The pool is primed before the first future is polled. *)
Init == /\ BucketInit
        /\ pc = [s \in Slots |-> IF s <= MaxConcurrency THEN "acquire" ELSE "todo"]
        /\ timer = [s \in Slots |-> 0]
        /\ attempts = [s \in Slots |-> 0]
        /\ result = [s \in Slots |-> "none"]
        /\ delivering = NoSlot

(* in_flight is polled only between two calls of on_outcome. *)
Polled(s, place) == delivering = NoSlot /\ pc[s] = place /\ timer[s] = 0

(* get_block sends its request in the poll that calls it. *)
SendRequest(s) == /\ pc' = [pc EXCEPT ![s] = "request"]
                  /\ attempts' = [attempts EXCEPT ![s] = @ + 1]
                  /\ UNCHANGED <<timer, result>>

SleepUntilRefill(s) == /\ pc' = [pc EXCEPT ![s] = "acquire"]
                       /\ timer' = [timer EXCEPT ![s] = SleepFor(Level)]
                       /\ UNCHANGED <<attempts, result>>

(* One turn of acquire's loop, and what follows it in the same poll. *)
Acquire(s) == /\ Polled(s, "acquire")
              /\ \/ Grant /\ SendRequest(s)
                 \/ Refuse /\ SleepUntilRefill(s)
              /\ UNCHANGED delivering

(* Mutants: one retry too many, one too few, and retries of every error. *)
WillRetryOnceMore(s, res) == IsTransient(res) /\ attempts[s] <= MaxRetries + 1

WillRetryOnceLess(s, res) == IsTransient(res) /\ attempts[s] < MaxRetries

WillRetryAnyError(s, res) == res # "Ok" /\ attempts[s] <= MaxRetries

(* The answer to a request: sleep before another attempt, or return.  A     *)
(* future that returns hands its outcome to on_outcome at once.             *)
WillRetry(s, res) == IsTransient(res) /\ attempts[s] <= MaxRetries

Answer(s, res) ==
    /\ Polled(s, "request")
    /\ result' = [result EXCEPT ![s] = res]
    /\ \/ /\ WillRetry(s, res)
          /\ pc' = [pc EXCEPT ![s] = "backoff"]
          /\ \E d \in BackoffDelays(attempts[s] - 1) : timer' = [timer EXCEPT ![s] = d]
          /\ UNCHANGED delivering
       \/ /\ ~WillRetry(s, res)
          /\ pc' = [pc EXCEPT ![s] = "done"]
          /\ delivering' = s
          /\ UNCHANGED timer
    /\ UNCHANGED <<attempts, bucketVars>>

Reply(s) == \E reply \in Replies : Answer(s, Decoded(reply))

(* Mutant: a retry takes a token and does not wait for one. *)
RetryTakingToken(s) == /\ Polled(s, "backoff")
                       /\ Grant
                       /\ SendRequest(s)
                       /\ UNCHANGED delivering

(* The backoff is over: op() runs again, with no token. *)
Retry(s) == /\ Polled(s, "backoff")
            /\ SendRequest(s)
            /\ UNCHANGED <<bucketVars, delivering>>

(* Mutant: the pool is not refilled. *)
DeliveredOnly ==
    /\ delivering # NoSlot
    /\ delivering' = NoSlot
    /\ UNCHANGED <<futureVars, bucketVars>>

(* on_outcome has finished: the oldest slot left joins the pool. *)
Delivered ==
    /\ delivering # NoSlot
    /\ delivering' = NoSlot
    /\ pc' = IF Todo = {} THEN pc ELSE [pc EXCEPT ![Oldest(Todo)] = "acquire"]
    /\ UNCHANGED <<timer, attempts, result, bucketVars>>

Tick == /\ BucketTick
        /\ timer' = [s \in Slots |-> IF timer[s] > 0 THEN timer[s] - 1 ELSE 0]
        /\ UNCHANGED <<pc, attempts, result, delivering>>

Next == \/ Delivered
        \/ \E s \in Slots : Acquire(s) \/ Reply(s) \/ Retry(s)
        \/ Tick

(* The runtime polls a woken future, the node answers, on_outcome returns   *)
(* and time passes.  The answer is an assumption on the node and the        *)
(* network: the HTTP client is built without a timeout.                     *)
Fairness == /\ \A s \in Slots : WF_vars(Acquire(s)) /\ WF_vars(Reply(s)) /\ WF_vars(Retry(s))
            /\ WF_vars(Delivered)
            /\ WF_vars(Tick)

Spec == Init /\ [][Next]_vars /\ Fairness
-----------------------------------------------------------------------------
(* The futures' state stays in its range. *)
TypeOK == /\ BucketTypeOK
          /\ pc \in [Slots -> {"todo", "acquire", "request", "backoff", "done"}]
          /\ timer \in [Slots -> Nat]
          /\ attempts \in [Slots -> 0..MaxRetries + 1]
          /\ result \in [Slots -> Results \cup {"none"}]
          /\ delivering \in Slots \cup {NoSlot}

(* The bounded pool of FR-1.6: never more than MaxConcurrency slots in the  *)
(* pool, always the oldest of those left, and never a free place while a    *)
(* slot waits, except while on_outcome holds up the task that would fill it.*)
PoolDiscipline ==
    /\ Cardinality(InFlight) <= MaxConcurrency
    /\ \A s \in Todo, t \in Slots \ Todo : t < s
    /\ Todo # {} => Cardinality(InFlight) + (IF delivering = NoSlot THEN 0 ELSE 1) = MaxConcurrency

(* One token per slot, taken before its first request and by nothing else:  *)
(* the bucket has granted exactly as many as there are slots that have sent.*)
OneTokenPerSlot == Len(grants) = Cardinality({s \in Slots : attempts[s] > 0})

(* No future sleeps in acquire while the bucket has a token for it, however *)
(* many others were granted or refused since its sleep was computed.        *)
NoOversleep ==
    \A s \in Slots : (pc[s] = "acquire" /\ timer[s] > 0 /\ Burst >= Unit)
                       => Level + Refill * (timer[s] - 1) < Unit

(* A slot is given up on a transient error only with every retry spent, and *)
(* a slot whose attempts are spent holds an answer or awaits the last one.  *)
GivesUpOnlyWhenSpent ==
    \A s \in Slots : /\ (pc[s] = "done" /\ IsTransient(result[s])) => attempts[s] = MaxRetries + 1
                     /\ pc[s] = "backoff" => attempts[s] <= MaxRetries

(* FR-1.3: a request is repeated only after a transient error; a skipped    *)
(* slot, a refusal or an unexpected shape is never asked for again.         *)
RetriesOnlyTransient ==
    [][\A s \in Slots : attempts'[s] > attempts[s] => attempts[s] = 0 \/ IsTransient(result[s])]_vars

(* The pool uses the limiter as rate_limiter.rs offers it. *)
RefinesBucket == BucketSpec

(* Every slot gets its outcome (block_fetch.rs:20,25). *)
EverySlotAnswered == <>(\A s \in Slots : pc[s] = "done")

(* block_fetch.rs:22-23: "all sharing one rate limiter (so total throughput *)
(* across all workers stays under the cap, not per-worker)".  The requests  *)
(* sent so far stay within the burst and what has flowed in.                *)
RequestsUnderCap ==
    now < Horizon => Unit * SumFunction(attempts) <= Burst + Refill * now
=============================================================================
