------------------------------- MODULE ApiServer -------------------------------
(***************************************************************************)
(* The API's requests (crates/api/src/routes.rs) and the ingest's jobs     *)
(* (crates/cli/src/main.rs) on one DuckDB connection.  Every query and     *)
(* every job runs on a blocking thread of the runtime and takes the        *)
(* connection's mutex there; the health check needs neither.  The process  *)
(* is `ingest --serve`, or `serve` on what earlier runs stored; it may end *)
(* at any time and be started again.                                       *)
(***************************************************************************)
EXTENDS FlushBatch

CONSTANTS Requests,  \* the requests clients send, once each
          Asks,      \* what each may ask for: "health", "query" (one statement:
                     \* tokens, ohlcv), "contention"
          Window,    \* the slots, <<from, to>>, each asks about
          Threads,   \* the blocking threads of the runtime
          MaxJobs,   \* bound: the ingest's jobs in a run
          MaxRuns    \* bound: how many times the process is started

ASSUME ApiAssumption == /\ "ingest" \notin Requests
                        /\ Asks \in [Requests -> SUBSET {"health", "query", "contention"}]
                        /\ Threads \in Nat \ {0} /\ MaxJobs \in Nat /\ MaxRuns \in Nat \ {0}

VARIABLES
  process,  \* "ingest" (with --serve), "serve", or "down"
  run,      \* how many times it was started
  asked,    \* what each request asks for; "nothing" yet
  where,    \* of each client (a request, or the ingest): "away", "queued" for a
            \* thread, "thread" (it has one), "locked" (it has the mutex),
            \* "second" (at its second statement), "done"; "dropped"
  answer,   \* the response of each request
  seen,     \* the depth the first statement of a contention query found
  flushed,  \* the slots this run handed to a flush
  jobs,     \* how many jobs this run has had
  job       \* the ingest's job: "flush", "other" (a status, the candles, the
            \* counts), "none", or "over": it has succeeded or failed

serverVars == <<process, run, asked, where, answer, seen, flushed, jobs, job>>

Ingest  == "ingest"
Clients == Requests \cup {Ingest}
\* Mutant: a request's mutex is taken before it is given a thread.
HoldersEarly == {c \in Clients : where[c] \in {"locked", "second"}
                                   \/ (c \in Requests /\ where[c] = "queued")}

Holders == {c \in Clients : where[c] \in {"locked", "second"}}
Busy    == {c \in Clients : where[c] \in {"thread", "locked", "second"}}

NoAnswer == [kind |-> "none"]
Answer500 == [kind |-> "500"]
Ok == [kind |-> "200"]

ServerInit == /\ Init
              /\ process = "ingest" /\ run = 1
              /\ asked = [r \in Requests |-> "nothing"]
              /\ where = [c \in Clients |-> "away"]
              /\ answer = [r \in Requests |-> NoAnswer]
              /\ seen = [r \in Requests |-> 0]
              /\ flushed = {} /\ jobs = 0 /\ job = "none"

-----------------------------------------------------------------------------
(* The two statements of query_contention_summary.                         *)

Between(s, ft) == ft[1] <= s /\ s <= ft[2]

\* COALESCE(MAX(step), -1) + 1: a NULL step does not count.
Depth(d, ft) ==
  LET steps == {d.step[r.key] : r \in {x \in d.rows["transactions"] : Between(x.slot, ft)}} IN
  (CHOOSE m \in steps \cup {NoStep} : \A n \in steps : n <= m) + 1

\* COUNT(*) of the write locks of each account.
Top(d, ft) ==
  LET locks == {r \in d.rows["account_locks"] : Between(r.slot, ft) /\ r.key.write} IN
  [a \in {r.key.account : r \in locks} |-> Cardinality({r \in locks : r.key.account = a})]

Summary(d, ft) == [kind |-> "contention", depth |-> Depth(d, ft), top |-> Top(d, ft)]

-----------------------------------------------------------------------------
(* A request.                                                              *)

Ask(r) == /\ process # "down" /\ asked[r] = "nothing"
          /\ \E what \in Asks[r] :
               /\ asked' = [asked EXCEPT ![r] = what]
               /\ where' = [where EXCEPT ![r] = IF what = "health" THEN @ ELSE "queued"]
          /\ UNCHANGED <<vars, process, run, answer, seen, flushed, jobs, job>>

\* get_health takes no thread and no mutex.
Health(r) == /\ process # "down" /\ asked[r] = "health" /\ where[r] = "away"
             /\ answer' = [answer EXCEPT ![r] = Ok]
             /\ where' = [where EXCEPT ![r] = "done"]
             /\ UNCHANGED <<vars, process, run, asked, seen, flushed, jobs, job>>

\* spawn_blocking finds a free thread.
GetThread(c) == /\ where[c] = "queued" /\ Cardinality(Busy) < Threads
                /\ where' = [where EXCEPT ![c] = "thread"]
                /\ UNCHANGED <<vars, process, run, asked, answer, seen, flushed, jobs, job>>

\* Mutants: a connection of its own for each query; a guard taken out of a
\* poisoned mutex.
LockOwn(c) == /\ where[c] = "thread" /\ (c = Ingest => Holders = {}) /\ ~poisoned
              /\ where' = [where EXCEPT ![c] = "locked"]
              /\ UNCHANGED <<vars, process, run, asked, answer, seen, flushed, jobs, job>>

LockIntoInner(c) == /\ where[c] = "thread" /\ Holders = {}
                    /\ where' = [where EXCEPT ![c] = "locked"]
                    /\ UNCHANGED <<vars, process, run, asked, answer, seen, flushed, jobs, job>>

\* lock() returns the guard, or "db mutex poisoned".
Lock(c) == /\ where[c] = "thread" /\ Holders = {} /\ ~poisoned
           /\ where' = [where EXCEPT ![c] = "locked"]
           /\ UNCHANGED <<vars, process, run, asked, answer, seen, flushed, jobs, job>>

Respond(r, a) == /\ answer' = [answer EXCEPT ![r] = a]
                 /\ where' = [where EXCEPT ![r] = "done"]

LockPoisoned(r) == /\ where[r] = "thread" /\ Holders = {} /\ poisoned
                   /\ Respond(r, Answer500)
                   /\ UNCHANGED <<vars, process, run, asked, seen, flushed, jobs, job>>

QueryOne(r) == /\ where[r] = "locked" /\ asked[r] = "query"
               /\ Respond(r, Ok)
               /\ UNCHANGED <<vars, process, run, asked, seen, flushed, jobs, job>>

QueryDepth(r) == /\ where[r] = "locked" /\ asked[r] = "contention"
                 /\ seen' = [seen EXCEPT ![r] = Depth(view, Window[r])]
                 /\ where' = [where EXCEPT ![r] = "second"]
                 /\ UNCHANGED <<vars, process, run, asked, answer, flushed, jobs, job>>

QueryTop(r) == /\ where[r] = "second"
               /\ Respond(r, [kind |-> "contention", depth |-> seen[r], top |-> Top(view, Window[r])])
               /\ seen' = [seen EXCEPT ![r] = 0]
               /\ UNCHANGED <<vars, process, run, asked, flushed, jobs, job>>

\* A statement fails, or the worker panics and poisons the mutex: a 500 either way.
QueryFails(r) == /\ where[r] \in {"locked", "second"}
                 /\ OtherFault
                 /\ Respond(r, Answer500)
                 /\ UNCHANGED <<process, run, asked, seen, flushed, jobs, job>>

RequestStep(r) == \/ Health(r) \/ GetThread(r) \/ Lock(r) \/ LockPoisoned(r)
                  \/ QueryOne(r) \/ QueryDepth(r) \/ QueryTop(r)

-----------------------------------------------------------------------------
(* The ingest: one job at a time, each on a blocking thread.               *)

Submit == /\ process = "ingest" /\ job = "none" /\ jobs < MaxJobs /\ jobs' = jobs + 1
          /\ \/ job' = "flush" /\ flush < MaxFlushes /\ flushed # Slots
             \/ job' = "other"
          /\ where' = [where EXCEPT ![Ingest] = "queued"]
          /\ UNCHANGED <<vars, process, run, asked, answer, seen, flushed>>

\* The job returns its thread; an error ends the ingest, or is only logged.
Leave(j) == /\ job' = j
            /\ where' = [where EXCEPT ![Ingest] = "away"]

FlushStart == /\ where[Ingest] = "locked" /\ job = "flush" /\ at = "idle"
              /\ \E b \in Batches : /\ b # <<>> /\ Elems(b) \cap flushed = {}
                                    /\ Start(b)
                                    /\ flushed' = flushed \cup Elems(b)
              /\ UNCHANGED <<process, run, asked, where, answer, seen, jobs, job>>

\* The mutex is held until flush_parsed_batch returns.
FlushStep == /\ job = "flush" /\ Progress
             /\ IF at' = "idle"
                THEN IF error' = "none" THEN Leave("none") ELSE \E j \in {"none", "over"} : Leave(j)
                ELSE UNCHANGED <<where, jobs, job>>
             /\ UNCHANGED <<process, run, asked, answer, seen, flushed, jobs>>

FlushFault == /\ job = "flush" /\ Fault
              /\ IF at' = "idle" THEN \E j \in {"none", "over"} : Leave(j) ELSE UNCHANGED <<where, jobs, job>>
              /\ UNCHANGED <<process, run, asked, answer, seen, flushed, jobs>>

\* "flush worker panicked": the ingest ends with an error.
FlushPanics == /\ job = "flush" /\ Panic /\ Leave("over")
               /\ UNCHANGED <<process, run, asked, answer, seen, flushed, jobs>>

OtherJob == /\ where[Ingest] = "locked" /\ job = "other"
            /\ \E j \in {"none", "over"} : Leave(j)
            /\ UNCHANGED <<vars, process, run, asked, answer, seen, flushed, jobs>>

OtherPanics == /\ where[Ingest] = "locked" /\ job = "other"
               /\ OtherFault /\ poisoned' /\ Leave("over")
               /\ UNCHANGED <<process, run, asked, answer, seen, flushed, jobs>>

\* lock().unwrap() panics on a poisoned mutex: the ingest ends with an error.
IngestPoisoned == /\ where[Ingest] = "thread" /\ Holders = {} /\ poisoned
                  /\ Leave("over")
                  /\ UNCHANGED <<vars, process, run, asked, answer, seen, flushed, jobs>>

IngestStep == \/ GetThread(Ingest) \/ Lock(Ingest) \/ FlushStart \/ FlushStep \/ OtherJob
              \/ IngestPoisoned

-----------------------------------------------------------------------------
\* The process ends: killed, by Ctrl+C, or with the error of the ingest.  The
\* requests it had are lost.
Exit == /\ process # "down"
        /\ process' = "down"
        /\ Reopen
        /\ where' = [c \in Clients |-> IF c = Ingest THEN "away"
                      ELSE IF asked[c] # "nothing" /\ where[c] # "done" THEN "dropped" ELSE where[c]]
        /\ job' = "none" /\ jobs' = 0 /\ flushed' = {}
        /\ UNCHANGED <<run, asked, answer, seen>>

Open == /\ process = "down" /\ run < MaxRuns
        /\ process' \in {"ingest", "serve"} /\ run' = run + 1
        /\ UNCHANGED <<vars, asked, where, answer, seen, flushed, jobs, job>>

ServerNext == \/ \E r \in Requests : Ask(r) \/ RequestStep(r) \/ QueryFails(r)
              \/ Submit \/ IngestStep \/ FlushFault \/ FlushPanics \/ OtherPanics
              \/ Exit \/ Open

allVars == <<vars, serverVars>>

\* The runtime runs every async task and every blocking thread that can go on.
\* Nothing obliges a client to ask, the ingest to submit a job, or the process
\* to end.
ServerFairness == /\ \A r \in Requests : WF_allVars(RequestStep(r))
                  /\ WF_allVars(IngestStep)

ServerSpec == ServerInit /\ [][ServerNext]_allVars /\ ServerFairness

-----------------------------------------------------------------------------
\* A response to a contention query is the summary of one state of the committed
\* database, that of the moment it is given: no flush gets in between its two
\* statements, and rows that were never committed, those of a transaction a
\* panic left open among them, are never shown.
AnswersAreCurrent ==
  [][\A r \in Requests : answer'[r] # answer[r] /\ answer'[r].kind = "contention" =>
       answer'[r] = Summary(disk, Window[r])]_allVars

\* flush_parsed_batch holds the mutex from BEGIN to its last UPDATE, so in a
\* run where nothing has gone wrong a query meets no block whose schedule is
\* still to be written: the depth it answers is that of the whole blocks.
ReadersSeeSchedules ==
  Holders \cap Requests # {} /\ faults = 0 /\ run = 1 =>
    \A r \in view.rows["transactions"] : view.step[r.key] = StepOf[r.key]

\* Every request is answered, or lost with the process: queries that wait for
\* the mutex on every blocking thread there is never keep the holder of the
\* mutex from its own, and a poisoned mutex is an answer too.
EveryRequestAnswered ==
  \A r \in Requests : asked[r] # "nothing" ~> where[r] \in {"done", "dropped"}
=============================================================================
