------------------------------ MODULE FlushBatch ------------------------------
(***************************************************************************)
(* One DuckDB connection behind its mutex, and flush_parsed_batch          *)
(* (crates/cli/src/main.rs) statement by statement: replace_slots_batch    *)
(* inside BEGIN ... COMMIT, ROLLBACK on an error, and then                 *)
(* write_schedule_steps, whose updates each commit on their own            *)
(* (crates/storage/src/repository.rs).  Any statement may fail, the thread *)
(* may panic at any of them, and the process may be killed.                *)
(*                                                                         *)
(* A row is its table, its slot, its primary key and the number of the     *)
(* flush that wrote it.                                                    *)
(***************************************************************************)
EXTENDS Integers, Sequences, FiniteSets

CONSTANTS Slots,      \* the slots that may be ingested
          Rows,       \* Rows[t][s]: the primary keys block s has in table t
          Order,      \* Order[s]: the signatures of block s, in block order
          StepOf,     \* the step build_schedule gave each signature
          MaxFlushes, \* bound: flushes in all runs
          MaxFaults   \* bound: failing statements and panics

Tables == {"blocks", "transactions", "account_locks", "token_balance_changes"}

\* A slot has one row in blocks, and no key is in two blocks: the keys of the
\* other tables begin with a signature.
ASSUME FlushAssumption ==
  /\ IsFiniteSet(Slots)
  /\ DOMAIN Rows = Tables
  /\ \A t \in Tables : DOMAIN Rows[t] = Slots
  /\ \A s \in Slots : Rows["blocks"][s] = {s}
  /\ \A t \in Tables : \A s1, s2 \in Slots :
       s1 # s2 => Rows[t][s1] \cap Rows[t][s2] = {}
  /\ \A s \in Slots : Order[s] \in Seq(Rows["transactions"][s])
  /\ StepOf \in [UNION {Rows["transactions"][s] : s \in Slots} -> Nat]
  /\ MaxFlushes \in Nat /\ MaxFaults \in Nat

\* parse_block schedules every transaction of its block, the failed ones too.
ASSUME ScheduleAssumption ==
  \A s \in Slots : Rows["transactions"][s] \subseteq {Order[s][i] : i \in 1..Len(Order[s])}

VARIABLES
  disk,     \* what is committed, what a killed process leaves:
            \* .rows[t], the rows of table t, and .step[sig], the step column
  view,     \* what a statement on the connection sees
  txn,      \* whether a transaction is open
  poisoned, \* whether a thread panicked with the mutex held
  at,       \* in flush_parsed_batch: "begin", "rows", "rollback", "steps"; or "idle"
  batch,    \* its blocks
  next,     \* the block worked on, an index of batch
  pc,       \* its statement, an index of Statements, or of Order in "steps"
  flush,    \* the number of the flush
  error,    \* how the flush failed: "none", "external", "panic", or by its own
            \* doing: "key" (a primary key is taken), "nested" (BEGIN twice)
  faults    \* statements that failed and panics so far

dbVars    == <<disk, view, txn>>
flushVars == <<at, batch, next, pc, flush, error>>
vars      == <<dbVars, poisoned, flushVars, faults>>

Sigs    == UNION {Rows["transactions"][s] : s \in Slots}
NoStep  == -1
Elems(q) == {q[i] : i \in 1..Len(q)}

\* The blocks of a batch: those of different slots, in any order.
Batches == {b \in UNION {[1..n -> Slots] : n \in 0..Cardinality(Slots)} :
              \A i, j \in 1..Len(b) : i # j => b[i] # b[j]}

Empty == [rows |-> [t \in Tables |-> {}], step |-> [sig \in Sigs |-> NoStep]]

Init == /\ disk = Empty /\ view = Empty /\ txn = FALSE /\ poisoned = FALSE
        /\ at = "idle" /\ batch = <<>> /\ next = 1 /\ pc = 1
        /\ flush = 0 /\ error = "none" /\ faults = 0

-----------------------------------------------------------------------------
(* The statements of replace_slot_data_inner.                              *)

\* Mutant: the old balance changes are not deleted.
StatementsForgotten == << [op |-> "delete", table |-> "account_locks"],
                          [op |-> "delete", table |-> "transactions"],
                          [op |-> "upsert", table |-> "blocks"],
                          [op |-> "append", table |-> "transactions"],
                          [op |-> "append", table |-> "account_locks"],
                          [op |-> "append", table |-> "token_balance_changes"] >>

\* In the order of the code.  The upsert of blocks is a delete of the slot's
\* row and an insert of the new one.
Statements == << [op |-> "delete", table |-> "account_locks"],
                 [op |-> "delete", table |-> "token_balance_changes"],
                 [op |-> "delete", table |-> "transactions"],
                 [op |-> "upsert", table |-> "blocks"],
                 [op |-> "append", table |-> "transactions"],
                 [op |-> "append", table |-> "account_locks"],
                 [op |-> "append", table |-> "token_balance_changes"] >>

Stmt == Statements[pc]
Slot == batch[next]

RowsOf(d, t, s) == {r \in d.rows[t] : r.slot = s}
Without(t, s) == {r \in view.rows[t] : r.slot # s}
Content(t, s, f) == {[slot |-> s, key |-> k, by |-> f] : k \in Rows[t][s]}

\* Mutant: the rows are updated in place and keep their steps.
StepsKept(t, s) == view.step

\* The column step is NULL in a row that is new, and gone with a deleted one.
NullSteps(t, s) == IF t = "transactions"
                   THEN [sig \in Sigs |-> IF sig \in Rows[t][s] THEN NoStep ELSE view.step[sig]]
                   ELSE view.step

\* The statement done, the next one of the block or the next block's first.
Advance == IF pc < Len(Statements) THEN pc' = pc + 1 /\ UNCHANGED next
           ELSE pc' = 1 /\ next' = next + 1

Put(t, rows) == /\ view' = [rows |-> [view.rows EXCEPT ![t] = rows],
                            step |-> NullSteps(t, Slot)]
                /\ disk' = IF txn THEN disk ELSE view'

AtStatement(op) == at = "rows" /\ next <= Len(batch) /\ Stmt.op = op

DeleteRows == /\ AtStatement("delete")
              /\ Put(Stmt.table, Without(Stmt.table, Slot))
              /\ Advance
              /\ UNCHANGED <<txn, poisoned, at, batch, flush, error, faults>>

UpsertBlock == /\ AtStatement("upsert")
               /\ Put(Stmt.table, Without(Stmt.table, Slot) \cup Content(Stmt.table, Slot, flush))
               /\ Advance
               /\ UNCHANGED <<txn, poisoned, at, batch, flush, error, faults>>

KeyTaken == \E r \in view.rows[Stmt.table] : r.key \in Rows[Stmt.table][Slot]

\* The appender refuses a key that is taken.
AppendRows == /\ AtStatement("append")
              /\ IF KeyTaken
                 THEN at' = "rollback" /\ error' = "key" /\ UNCHANGED <<dbVars, next, pc>>
                 ELSE /\ Put(Stmt.table, view.rows[Stmt.table] \cup Content(Stmt.table, Slot, flush))
                      /\ Advance
                      /\ UNCHANGED <<txn, at, error>>
              /\ UNCHANGED <<poisoned, batch, flush, faults>>

-----------------------------------------------------------------------------
(* flush_parsed_batch and replace_slots_batch, with the mutex held.        *)

Start(b) == /\ at = "idle" /\ ~poisoned /\ flush < MaxFlushes
            /\ at' = "begin" /\ batch' = b /\ next' = 1 /\ pc' = 1
            /\ flush' = flush + 1 /\ error' = "none"
            /\ UNCHANGED <<dbVars, poisoned, faults>>

\* The function returns: the locals are gone.
Return == at' = "idle" /\ batch' = <<>> /\ next' = 1 /\ pc' = 1

\* Mutant: no BEGIN, every statement commits on its own.
NoBegin == /\ at = "begin" /\ ~txn
           /\ at' = "rows"
           /\ UNCHANGED <<dbVars, poisoned, batch, next, pc, flush, error, faults>>

\* BEGIN inside a transaction is an error, and `?` returns before ROLLBACK.
Begin == /\ at = "begin"
         /\ IF txn THEN Return /\ error' = "nested" /\ UNCHANGED txn
            ELSE txn' = TRUE /\ at' = "rows" /\ UNCHANGED <<batch, next, pc, error>>
         /\ UNCHANGED <<disk, view, poisoned, flush, faults>>

Commit == /\ at = "rows" /\ next > Len(batch)
          /\ txn' = FALSE /\ disk' = view
          /\ at' = "steps" /\ next' = 1 /\ pc' = 1
          /\ UNCHANGED <<view, poisoned, batch, flush, error, faults>>

\* `let _ = ROLLBACK`: after a COMMIT that failed there may be no transaction
\* any more, which is an error nobody looks at.
Rollback == /\ at = "rollback"
            /\ view' = disk /\ txn' = FALSE
            /\ Return
            /\ UNCHANGED <<disk, poisoned, flush, error, faults>>

\* write_schedule_steps: an UPDATE changes nothing when no row has the signature.
WriteStep == /\ at = "steps" /\ next <= Len(batch) /\ pc <= Len(Order[Slot])
             /\ LET sig == Order[Slot][pc] IN
                view' = [view EXCEPT !.step =
                          IF \E r \in view.rows["transactions"] : r.key = sig
                          THEN [@ EXCEPT ![sig] = StepOf[sig]] ELSE @]
             /\ disk' = view'
             /\ pc' = pc + 1
             /\ UNCHANGED <<txn, poisoned, at, batch, next, flush, error, faults>>

NextSchedule == /\ at = "steps" /\ next <= Len(batch) /\ pc > Len(Order[Slot])
                /\ next' = next + 1 /\ pc' = 1
                /\ UNCHANGED <<dbVars, poisoned, at, batch, flush, error, faults>>

Done == /\ at = "steps" /\ next > Len(batch)
        /\ Return
        /\ UNCHANGED <<dbVars, poisoned, flush, error, faults>>

-----------------------------------------------------------------------------
(* What goes wrong.                                                        *)

\* An error of a statement (disk full, an I/O error): a BEGIN or an UPDATE
\* returns, a statement inside the transaction leads to ROLLBACK.  A failing
\* COMMIT takes the transaction with it or leaves it to ROLLBACK.
Fault == /\ faults < MaxFaults /\ faults' = faults + 1 /\ error' = "external"
         /\ \/ /\ at = "begin" \/ (at = "steps" /\ next <= Len(batch) /\ pc <= Len(Order[Slot]))
               /\ Return /\ UNCHANGED dbVars
            \/ /\ at = "rows" /\ at' = "rollback"
               /\ \/ UNCHANGED dbVars
                  \/ next > Len(batch) /\ view' = disk /\ txn' = FALSE /\ UNCHANGED disk
               /\ UNCHANGED <<batch, next, pc>>
         /\ UNCHANGED <<poisoned, flush>>

\* A panic unwinds out of the function: the mutex is poisoned and nobody
\* sends ROLLBACK.
Panic == /\ at # "idle" /\ faults < MaxFaults
         /\ faults' = faults + 1 /\ error' = "panic" /\ poisoned' = TRUE
         /\ Return
         /\ UNCHANGED <<dbVars, flush>>

\* The connection's other users: a statement of theirs fails, or they panic.
OtherFault == /\ at = "idle" /\ faults < MaxFaults
              /\ faults' = faults + 1
              /\ poisoned' \in {poisoned, TRUE}
              /\ UNCHANGED <<dbVars, flushVars>>

\* The process ends and another one opens the file.
Reopen == /\ view' = disk /\ txn' = FALSE /\ poisoned' = FALSE
          /\ Return /\ error' = "none"
          /\ UNCHANGED <<disk, flush, faults>>

Statement == DeleteRows \/ UpsertBlock \/ AppendRows
Progress  == Begin \/ Statement \/ Commit \/ Rollback \/ WriteStep \/ NextSchedule \/ Done

Next == (\E b \in Batches : Start(b)) \/ Progress \/ Fault \/ Panic \/ OtherFault \/ Reopen

Spec == Init /\ [][Next]_vars

-----------------------------------------------------------------------------
\* The rows of a slot are rows of its block, as some flush wrote them.
IsStore(d) == /\ DOMAIN d = {"rows", "step"} /\ DOMAIN d.rows = Tables
              /\ \A t \in Tables : \A r \in d.rows[t] :
                   r.slot \in Slots /\ r.by \in 1..flush /\ r \in Content(t, r.slot, r.by)
              /\ d.step \in [Sigs -> Nat \cup {NoStep}]

\* The tables and the memory of the flush keep to their types.
TypeOK ==
  /\ IsStore(disk) /\ IsStore(view)
  /\ txn \in BOOLEAN /\ poisoned \in BOOLEAN
  /\ at \in {"idle", "begin", "rows", "rollback", "steps"}
  /\ batch \in Batches /\ next \in 1..(Len(batch) + 1) /\ pc \in Nat \ {0}
  /\ at \in {"begin", "rows"} => pc \in 1..Len(Statements)
  /\ at # "idle" => flush # 0
  /\ flush \in 0..MaxFlushes /\ faults \in 0..MaxFaults
  /\ error \in {"none", "external", "panic", "key", "nested"}

\* What is committed of a slot is everything one flush had of it, in all four
\* tables, or nothing: whatever statement of whatever flush fails, panics or is
\* killed, no rows of two attempts meet and none are missing (the "one DuckDB
\* transaction" of repository.rs:6-11).
SlotsWhole ==
  \A s \in Slots : \/ \A t \in Tables : RowsOf(disk, t, s) = {}
                   \/ \E f \in 1..flush : \A t \in Tables : RowsOf(disk, t, s) = Content(t, s, f)

\* A flush fails only from outside: whatever earlier flushes left behind, a
\* primary key it needs is free by the time it appends, and no transaction of
\* an earlier flush is still open on the connection.  So a slot can always be
\* ingested again (FR-1.5), and a failed batch does not fail the next.
NoOwnFailure == error \notin {"key", "nested"}

\* The store as flush_parsed_batch promises it: the flushes whose rows of a slot
\* are committed, whatever table they are in.
Version(s) == UNION {{r.by : r \in RowsOf(disk, t, s)} : t \in Tables}

Abstract == INSTANCE AtomicStore
              WITH version <- [s \in Slots |-> Version(s)],
                   stepped <- {sig \in Sigs : disk.step[sig] # NoStep},
                   Flushes <- 1..MaxFlushes,
                   SigsOf <- Rows["transactions"]

\* The flush implements the atomic store: a batch appears at once, and a step
\* is only ever written to a transaction that is stored.
RefinesAtomicStore == Abstract!Spec
=============================================================================
