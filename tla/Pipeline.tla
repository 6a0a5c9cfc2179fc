------------------------------ MODULE Pipeline ------------------------------
(***************************************************************************)
(* `block-analysis ingest` (crates/cli/src/main.rs, run_ingest, with       *)
(* fetch_block_range of crates/ingest-core and the writes of               *)
(* crates/storage): three tokio tasks joined by two bounded channels, and  *)
(* the main task that joins them and builds the candles.                   *)
(*                                                                         *)
(*   fetch --fetchQ--> parse --parseQ--> store --> DuckDB                  *)
(*                                                                         *)
(* Between two awaits a task runs on its own memory, so an action goes     *)
(* from one await to the next.  A block is its slot number; what is in it  *)
(* does not matter here.  Slots are numbered 1..Count from start_slot.     *)
(* The process may be killed between any two actions and started again     *)
(* with the same arguments; the database survives.                         *)
(***************************************************************************)
EXTENDS Integers, Sequences, FiniteSetsExt

CONSTANTS Count,           \* --count
          MaxConcurrency,  \* --max-concurrency
          BatchSize,       \* --batch-size
          Capacity,        \* PIPELINE_CAPACITY
          Kinds,           \* the outcomes a fetch may have, of AllKinds
          MaxRuns          \* bound: how many times the command is run

AllKinds == {"ingested", "skipped", "failed"}
NoStatus == "none"

ASSUME PipelineAssumption == /\ Count \in Nat
                             /\ MaxConcurrency \in Nat
                             /\ BatchSize \in Nat
                             /\ Capacity \in Nat \ {0}
                             /\ Kinds \subseteq AllKinds
                             /\ MaxRuns \in Nat \ {0}

VARIABLES
  \* the fetch task
  nextSlot,   \* the slot `slots.pop()` yields next; Count + 1 when empty
  inFlight,   \* the slots of the futures in `in_flight`
  sending,    \* {} or {the outcome on_outcome is sending}
  fetch,      \* "running" or "ok": all fetch_tx clones are dropped
  \* the parse task
  fetchQ,     \* the fetch->parse channel
  parsing,    \* {} or {the outcome taken from fetchQ}
  parse,      \* "running", "ok", or "error": "store receiver dropped"
  \* the store task
  parseQ,     \* the parse->store channel
  storing,    \* {} or {the outcome whose status is being written}
  pending,    \* pending_batch
  flushing,   \* the blocks handed to flush_parsed_batch
  storeAt,    \* "recv", or inside flush_parsed_batch: "commit", "steps"
  final,      \* whether the flush is the one after the channel closed
  store,      \* "running", "ok" or "error"
  counted,    \* the outcomes behind the counters ingested, skipped, failed
  flushFailed,\* whether a mid-run flush error was logged
  \* the main task
  main,       \* "fetch", "parse", "store": joined next; "candles"; "ok", "err"
  run,        \* how many times the command was started
  \* the database
  dbStatus,   \* ingestion_status
  dbBlocks,   \* rows of a slot: "absent", or present with their schedule
              \* steps all "null", "partial"ly written or "full"
  dbCandles   \* the slots the candles were last built from

fetchVars == <<nextSlot, inFlight, sending, fetch>>
parseVars == <<parsing, parse>>
storeVars == <<storing, pending, flushing, storeAt, final, store, counted,
               flushFailed>>
dbVars    == <<dbStatus, dbBlocks, dbCandles>>
vars == <<fetchVars, fetchQ, parseVars, parseQ, storeVars, main, run, dbVars>>

Slots == 1..Count
Outcome == [slot : Slots, kind : Kinds]
Option(S) == {{}} \cup {{x} : x \in S}
SlotsOf(S) == {m.slot : m \in S}
Elems(q) == {q[i] : i \in 1..Len(q)}

Live == main \in {"fetch", "parse", "store", "candles"}

\* The slots still to be popped, in the order the code pops them.
Primed == IF MaxConcurrency < Count THEN MaxConcurrency ELSE Count

Init == /\ nextSlot = Primed + 1 /\ inFlight = 1..Primed
        /\ sending = {} /\ fetch = "running"
        /\ fetchQ = <<>> /\ parsing = {} /\ parse = "running"
        /\ parseQ = <<>> /\ storing = {} /\ pending = <<>> /\ flushing = <<>>
        /\ storeAt = "recv" /\ final = FALSE /\ store = "running"
        /\ counted = {} /\ flushFailed = FALSE
        /\ main = "fetch" /\ run = 1
        /\ dbStatus = [s \in Slots |-> NoStatus]
        /\ dbBlocks = [s \in Slots |-> "absent"]
        /\ dbCandles = {}

-----------------------------------------------------------------------------
(* The fetch task: fetch_block_range with on_outcome = send to fetchQ.     *)

\* in_flight.next() yields the outcome of some future.  Futures are polled
\* only here, so none completes while the task is sending.
FetchNext == /\ fetch = "running" /\ sending = {}
             /\ \E s \in inFlight, k \in Kinds :
                  /\ sending' = {[slot |-> s, kind |-> k]}
                  /\ inFlight' = inFlight \ {s}
             /\ UNCHANGED <<nextSlot, fetch, fetchQ, parseVars, parseQ, storeVars,
                            main, run, dbVars>>

\* on_outcome has returned: the freed place is filled with the next slot.
DispatchNext == /\ sending' = {}
                /\ IF nextSlot <= Count
                   THEN inFlight' = inFlight \cup {nextSlot} /\ nextSlot' = nextSlot + 1
                   ELSE UNCHANGED <<inFlight, nextSlot>>

\* Mutants: try_send, whose error is ignored; an unbounded channel.
FetchTrySend == /\ parse = "running"
                /\ \E m \in sending :
                     fetchQ' = IF Len(fetchQ) < Capacity THEN Append(fetchQ, m) ELSE fetchQ
                /\ DispatchNext
                /\ UNCHANGED <<fetch, parseVars, parseQ, storeVars, main, run, dbVars>>

FetchSendUnbounded == /\ parse = "running"
                      /\ \E m \in sending : fetchQ' = Append(fetchQ, m)
                      /\ DispatchNext
                      /\ UNCHANGED <<fetch, parseVars, parseQ, storeVars, main, run, dbVars>>

FetchSend == /\ parse = "running" /\ Len(fetchQ) < Capacity
             /\ \E m \in sending : fetchQ' = Append(fetchQ, m)
             /\ DispatchNext
             /\ UNCHANGED <<fetch, parseVars, parseQ, storeVars, main, run, dbVars>>

\* "parse receiver dropped": a warning, and fetching goes on.
FetchSendDropped == /\ parse # "running" /\ sending # {}
                    /\ DispatchNext
                    /\ UNCHANGED <<fetch, fetchQ, parseVars, parseQ, storeVars,
                                   main, run, dbVars>>

FetchEnd == /\ fetch = "running" /\ inFlight = {} /\ sending = {}
            /\ fetch' = "ok"
            /\ UNCHANGED <<nextSlot, inFlight, sending, fetchQ, parseVars, parseQ,
                           storeVars, main, run, dbVars>>

FetchTask == Live /\ (FetchNext \/ FetchSend \/ FetchSendDropped \/ FetchEnd)

-----------------------------------------------------------------------------
(* The parse task.                                                         *)

ParseRecv == /\ parse = "running" /\ parsing = {} /\ fetchQ # <<>>
             /\ parsing' = {Head(fetchQ)}
             /\ fetchQ' = Tail(fetchQ)
             /\ UNCHANGED <<fetchVars, parse, parseQ, storeVars, main, run, dbVars>>

\* Mutant: an outcome already sent is sent again.
ParseSendAgain == /\ parse = "running" /\ store = "running" /\ Len(parseQ) < Capacity
                  /\ \E m \in parsing : parseQ' = Append(parseQ, m)
                  /\ UNCHANGED <<fetchVars, fetchQ, parseVars, storeVars, main, run, dbVars>>

ParseSend == /\ parse = "running" /\ store = "running" /\ Len(parseQ) < Capacity
             /\ \E m \in parsing : parseQ' = Append(parseQ, m)
             /\ parsing' = {}
             /\ UNCHANGED <<fetchVars, fetchQ, parse, storeVars, main, run, dbVars>>

\* bail!("store receiver dropped"): the task ends and drops its receiver.
ParseBail == /\ parse = "running" /\ parsing # {} /\ store # "running"
             /\ parse' = "error" /\ parsing' = {} /\ fetchQ' = <<>>
             /\ UNCHANGED <<fetchVars, parseQ, storeVars, main, run, dbVars>>

\* Mutant: run_ingest keeps a clone of fetch_tx until it returns.
ParseEndSenderKept == /\ parse = "running" /\ parsing = {} /\ fetchQ = <<>> /\ ~Live
                      /\ parse' = "ok"
                      /\ UNCHANGED <<fetchVars, fetchQ, parsing, parseQ, storeVars, main, run, dbVars>>

ParseEnd == /\ parse = "running" /\ parsing = {} /\ fetchQ = <<>> /\ fetch = "ok"
            /\ parse' = "ok"
            /\ UNCHANGED <<fetchVars, fetchQ, parsing, parseQ, storeVars, main, run, dbVars>>

ParseTask == Live /\ (ParseRecv \/ ParseSend \/ ParseBail \/ ParseEnd)

-----------------------------------------------------------------------------
(* The store task.                                                         *)

StoreRecv == /\ store = "running" /\ storeAt = "recv" /\ storing = {} /\ parseQ # <<>>
             /\ storing' = {Head(parseQ)}
             /\ parseQ' = Tail(parseQ)
             /\ UNCHANGED <<fetchVars, fetchQ, parseVars, pending, flushing, storeAt, final,
                            store, counted, flushFailed, main, run, dbVars>>

\* upsert_ingestion_status commits on its own; then the outcome is counted,
\* a block joins the pending batch, and a full batch is handed to the flush.
StoreStatus ==
  /\ store = "running" /\ storeAt = "recv"
  /\ \E m \in storing :
       LET batch == IF m.kind = "ingested" THEN Append(pending, m.slot) ELSE pending IN
       /\ dbStatus' = [dbStatus EXCEPT ![m.slot] = m.kind]
       /\ counted' = counted \cup {m}
       /\ IF Len(batch) >= BatchSize
          THEN storeAt' = "commit" /\ flushing' = batch /\ pending' = <<>>
          ELSE pending' = batch /\ UNCHANGED <<storeAt, flushing>>
  /\ storing' = {}
  /\ UNCHANGED <<fetchVars, fetchQ, parseVars, parseQ, final, store, flushFailed, main, run,
                 dbBlocks, dbCandles>>

\* The task returns Err: its receiver and the pending batch are dropped.
StoreAbort == /\ store' = "error" /\ storeAt' = "recv" /\ final' = FALSE
              /\ storing' = {} /\ pending' = <<>> /\ flushing' = <<>> /\ parseQ' = <<>>

StoreStatusError == /\ store = "running" /\ storeAt = "recv" /\ storing # {}
                    /\ StoreAbort
                    /\ UNCHANGED <<fetchVars, fetchQ, parseVars, counted, flushFailed,
                                   main, run, dbVars>>

\* recv() returns None and blocks are left: the final flush.
StoreFinalFlush == /\ store = "running" /\ storeAt = "recv" /\ storing = {}
                   /\ parseQ = <<>> /\ parse # "running" /\ pending # <<>>
                   /\ storeAt' = "commit" /\ final' = TRUE
                   /\ flushing' = pending /\ pending' = <<>>
                   /\ UNCHANGED <<fetchVars, fetchQ, parseVars, parseQ, storing, store, counted,
                                  flushFailed, main, run, dbVars>>

StoreEnd == /\ store = "running" /\ storeAt = "recv" /\ storing = {}
            /\ parseQ = <<>> /\ parse # "running" /\ pending = <<>>
            /\ store' = "ok"
            /\ UNCHANGED <<fetchVars, fetchQ, parseVars, parseQ, storing, pending, flushing,
                           storeAt, final, counted, flushFailed, main, run, dbVars>>

\* flush_parsed_batch.  replace_slots_batch: one DuckDB transaction for the
\* whole batch; the rows it inserts have no schedule step.
FlushCommit ==
  /\ store = "running" /\ storeAt = "commit"
  /\ storeAt' = "steps"
  /\ dbBlocks' = [s \in Slots |-> IF s \in Elems(flushing) THEN "null" ELSE dbBlocks[s]]
  /\ UNCHANGED <<fetchVars, fetchQ, parseVars, parseQ, storing, pending, flushing, final, store,
                 counted, flushFailed, main, run, dbStatus, dbCandles>>

\* An error of the final flush ends the task; an earlier one is logged and the
\* batch is gone.
FlushFails == IF final THEN StoreAbort /\ UNCHANGED flushFailed
              ELSE /\ storeAt' = "recv" /\ flushing' = <<>> /\ flushFailed' = TRUE
                   /\ UNCHANGED <<final, store, storing, pending, parseQ>>

FlushRollback ==
  /\ store = "running" /\ storeAt = "commit"
  /\ FlushFails
  /\ UNCHANGED <<fetchVars, fetchQ, parseVars, counted, main, run, dbVars>>

\* Mutant: only the first block of the batch gets its steps.
FlushStepsFirst ==
  /\ store = "running" /\ storeAt = "steps" /\ flushing # <<>>
  /\ dbBlocks' = [dbBlocks EXCEPT ![Head(flushing)] = "full"]
  /\ flushing' = <<>>
  /\ UNCHANGED <<fetchVars, fetchQ, parseVars, parseQ, storing, pending, storeAt, final, store,
                 counted, flushFailed, main, run, dbStatus, dbCandles>>

\* write_schedule_steps for the next block: one UPDATE per transaction, each
\* committed on its own.
FlushSteps ==
  /\ store = "running" /\ storeAt = "steps" /\ flushing # <<>>
  /\ dbBlocks' = [dbBlocks EXCEPT ![Head(flushing)] = "full"]
  /\ flushing' = Tail(flushing)
  /\ UNCHANGED <<fetchVars, fetchQ, parseVars, parseQ, storing, pending, storeAt, final, store,
                 counted, flushFailed, main, run, dbStatus, dbCandles>>

\* What an interrupted write_schedule_steps can leave.
Interrupted == IF storeAt = "steps" /\ flushing # <<>>
               THEN {dbBlocks, [dbBlocks EXCEPT ![Head(flushing)] = "partial"]}
               ELSE {dbBlocks}

FlushStepsError ==
  /\ store = "running" /\ storeAt = "steps" /\ flushing # <<>>
  /\ dbBlocks' \in Interrupted
  /\ FlushFails
  /\ UNCHANGED <<fetchVars, fetchQ, parseVars, counted, main, run, dbStatus, dbCandles>>

FlushDone ==
  /\ store = "running" /\ storeAt = "steps" /\ flushing = <<>>
  /\ storeAt' = "recv" /\ final' = FALSE
  /\ UNCHANGED <<fetchVars, fetchQ, parseVars, parseQ, storing, pending, flushing, store,
                 counted, flushFailed, main, run, dbVars>>

Flush == FlushCommit \/ FlushRollback \/ FlushSteps \/ FlushStepsError \/ FlushDone

StoreTask == Live /\ (StoreRecv \/ StoreStatus \/ StoreStatusError \/ Flush
                        \/ StoreFinalFlush \/ StoreEnd)

-----------------------------------------------------------------------------
(* The main task: fetch.await, parse.await??, store.await??, the candles.  *)

JoinFetch == main = "fetch" /\ fetch = "ok" /\ main' = "parse"

\* Mutant: parse.await? forgets the task's own error.
JoinParseOnce == main = "parse" /\ parse # "running" /\ main' = "store"

JoinParse == /\ main = "parse" /\ parse # "running"
             /\ main' = IF parse = "ok" THEN "store" ELSE "err"

\* Mutant: the same for store.await?.
JoinStoreOnce == main = "store" /\ store # "running" /\ main' = "candles"

JoinStore == /\ main = "store" /\ store # "running"
             /\ main' = IF store = "ok" THEN "candles" ELSE "err"

Join == /\ JoinFetch \/ JoinParse \/ JoinStore
        /\ UNCHANGED <<fetchVars, fetchQ, parseVars, parseQ, storeVars, run, dbVars>>

\* Mutant: the range of the candles ends one slot early.
BuildCandlesShort ==
  /\ main = "candles"
  /\ LET stored == {s \in Slots \ {Count} : dbBlocks[s] # "absent"} IN
     \/ main' = "ok" /\ dbCandles' = stored
     \/ main' = "err" /\ dbCandles' \in {dbCandles, stored}
  /\ UNCHANGED <<fetchVars, fetchQ, parseVars, parseQ, storeVars, run, dbStatus, dbBlocks>>

\* build_and_store_candles reads the stored rows of the range and upserts the
\* candles; on an error some of them may have been written.
BuildCandles ==
  /\ main = "candles"
  /\ LET stored == {s \in Slots : dbBlocks[s] # "absent"} IN
     \/ main' = "ok" /\ dbCandles' = stored
     \/ main' = "err" /\ dbCandles' \in {dbCandles, stored}
  /\ UNCHANGED <<fetchVars, fetchQ, parseVars, parseQ, storeVars, run, dbStatus, dbBlocks>>

MainTask == Join \/ BuildCandles

-----------------------------------------------------------------------------
(* The process: killed at any time, started again when it is not running.  *)

FreshMemory ==
  /\ nextSlot' = Primed + 1 /\ inFlight' = 1..Primed
  /\ sending' = {} /\ fetch' = "running"
  /\ fetchQ' = <<>> /\ parsing' = {} /\ parse' = "running"
  /\ parseQ' = <<>> /\ storing' = {} /\ pending' = <<>> /\ flushing' = <<>>
  /\ storeAt' = "recv" /\ final' = FALSE /\ store' = "running"
  /\ counted' = {} /\ flushFailed' = FALSE

Crash == /\ Live
         /\ main' = "crashed"
         /\ dbBlocks' \in Interrupted
         /\ FreshMemory
         /\ UNCHANGED <<run, dbStatus, dbCandles>>

Restart == /\ ~Live /\ run < MaxRuns
           /\ main' = "fetch" /\ run' = run + 1
           /\ FreshMemory
           /\ UNCHANGED dbVars

\* The last run has ended: nothing more happens.
Stopped == ~Live /\ run = MaxRuns /\ UNCHANGED vars

Next == FetchTask \/ ParseTask \/ StoreTask \/ MainTask \/ Crash \/ Restart \/ Stopped

\* The runtime polls every task that can go on, and every RPC is answered in
\* the end.  Nothing obliges the process to be killed or started again.
Fairness == /\ WF_vars(FetchTask)
            /\ WF_vars(ParseTask)
            /\ WF_vars(StoreTask)
            /\ WF_vars(MainTask)

Spec == Init /\ [][Next]_vars /\ Fairness

-----------------------------------------------------------------------------
\* Every task's memory and every table keeps to its type.
TypeOK ==
  /\ nextSlot \in 1..(Count + 1) /\ inFlight \subseteq Slots
  /\ sending \in Option(Outcome) /\ fetch \in {"running", "ok"}
  /\ fetchQ \in Seq(Outcome) /\ parsing \in Option(Outcome)
  /\ parse \in {"running", "ok", "error"}
  /\ parseQ \in Seq(Outcome) /\ storing \in Option(Outcome)
  /\ pending \in Seq(Slots) /\ flushing \in Seq(Slots)
  /\ storeAt \in {"recv", "commit", "steps"} /\ final \in BOOLEAN
  /\ store \in {"running", "ok", "error"}
  /\ counted \subseteq Outcome /\ flushFailed \in BOOLEAN
  /\ main \in {"fetch", "parse", "store", "candles", "ok", "err", "crashed"}
  /\ run \in 1..MaxRuns
  /\ dbStatus \in [Slots -> Kinds \cup {NoStatus}]
  /\ dbBlocks \in [Slots -> {"absent", "null", "partial", "full"}]
  /\ dbCandles \subseteq Slots

\* The slots popped from the work list and not yet counted.
InTransit == inFlight \cup SlotsOf(sending) \cup SlotsOf(Elems(fetchQ)) \cup SlotsOf(parsing)
               \cup SlotsOf(Elems(parseQ)) \cup SlotsOf(storing)

\* As long as no stage has failed, every slot popped from the work list is on
\* its way to the store task or counted by it: no hand-over between tasks,
\* and no task ending while its channel still holds something, loses a slot.
NothingLost ==
  parse # "error" /\ store # "error" => 1..(nextSlot - 1) = InTransit \cup SlotsOf(counted)

\* A slot is in one place only, and is counted once: the counters the run logs
\* ("attempted = ingested + skipped + failed") do not count a slot twice.
NothingTwice ==
  Cardinality(InTransit \cup SlotsOf(counted))
    = Cardinality(inFlight) + Cardinality(sending) + Len(fetchQ) + Cardinality(parsing)
        + Len(parseQ) + Cardinality(storing) + Cardinality(counted)

\* A task ends well only when the one before it has and everything it was sent
\* is dealt with, and the main task passes a join only then: no await returns
\* early, in whatever order the tasks run and fail.
StageOrder ==
  /\ inFlight = {} /\ sending = {} /\ MaxConcurrency > 0 => nextSlot = Count + 1
  /\ fetch = "ok" => inFlight = {} /\ sending = {}
  /\ parse = "ok" => fetch = "ok" /\ fetchQ = <<>> /\ parsing = {}
  /\ parse = "error" => store = "error"
  /\ store = "ok" => parse = "ok" /\ parseQ = <<>> /\ storing = {} /\ pending = <<>>
  /\ store # "running" \/ storeAt = "recv" => flushing = <<>>
  /\ main \in {"parse", "store", "candles", "ok"} => fetch = "ok"
  /\ main \in {"store", "candles", "ok"} => parse = "ok"
  /\ main \in {"candles", "ok"} => store = "ok"

\* The outcomes a slot was counted with in this run.
KindsCounted(s) == {m.kind : m \in {c \in counted : c.slot = s}}

\* What the counters say is in the database: a counted slot has the status of
\* its outcome, and, unless a flush failed, a block counted as ingested is
\* waiting for a flush, or in one, or stored with its schedule.
CountedIsRecorded ==
  /\ \A m \in counted : dbStatus[m.slot] \in KindsCounted(m.slot)
  /\ store # "error" /\ ~flushFailed =>
       \A m \in counted : m.kind = "ingested" =>
         m.slot \in Elems(pending) \cup Elems(flushing) \/ dbBlocks[m.slot] = "full"

\* When the command returns success, every slot of the range has been counted
\* and has the status of its outcome, and, unless a flush error was logged,
\* every block it counted as ingested is stored, with its schedule, and went
\* into the candles.  Earlier killed or failed runs make no difference: this
\* is what "re-running converges" (repository.rs:9-11) rests on.
SuccessIsComplete ==
  main = "ok" /\ MaxConcurrency > 0 =>
    /\ SlotsOf(counted) = Slots
    /\ \A s \in Slots : dbStatus[s] \in KindsCounted(s)
    /\ ~flushFailed => \A m \in counted : m.kind = "ingested" =>
                         dbBlocks[m.slot] = "full" /\ m.slot \in dbCandles

\* Backpressure (FR-5.1): a stalled stage stalls the ones before it, so the
\* blocks held in memory are bounded by the concurrency, the two channels, the
\* outcome in the hands of the parse task, and one batch.
MemoryBound == MaxConcurrency + 2 * Capacity + 1 + Max({1, BatchSize})

BoundedMemory ==
  /\ Cardinality(inFlight) + Cardinality(sending) <= MaxConcurrency
  /\ Cardinality(InTransit) + Len(pending) + Len(flushing) <= MemoryBound

\* "SlotStatus, persisted by storage in ingestion_status so re-runs know what's
\* already done (FR-1.5)" (types.rs:40-41): when the process is not running, a
\* slot recorded as ingested has its block in the database.  The code writes
\* the status when the block joins the pending batch, before the block is
\* stored.
IngestedMeansStored ==
  ~Live => \A s \in Slots : dbStatus[s] = "ingested" => dbBlocks[s] # "absent"

\* A run always ends, whatever stage fails: a full channel never waits for a
\* task that waits for it, and a sender whose receiver is gone is released.
RunEnds == Live ~> ~Live

\* The command implements the abstract ingestion run.
Abstract == INSTANCE IngestRun
              WITH phase <- IF Live THEN "running" ELSE main,
                   recorded <- SlotsOf(counted),
                   status <- dbStatus

RefinesIngestRun == Abstract!Spec
=============================================================================
