--------------------------- MODULE ApiServer_proofs ---------------------------
(***************************************************************************)
(* First flush_parsed_batch on its connection, for any blocks, batches,    *)
(* failing statements, panics and kills: what is committed of a slot is    *)
(* whole, a flush never fails by its own doing, and the flush implements   *)
(* the atomic store.                                                       *)
(*                                                                         *)
(* Then the API's requests and the ingest's jobs on that connection, for   *)
(* any requests and threads: the server does nothing to the database but   *)
(* what flush_parsed_batch does, a contention response is the summary of   *)
(* what is committed, and a query meets no block without its schedule.     *)
(***************************************************************************)
EXTENDS ApiServer, SequenceTheorems, FiniteSetTheorems, TLAPS

-----------------------------------------------------------------------------
(* Type correctness.                                                       *)

\* The statements of replace_slot_data_inner, by their number.
LEMMA StatementList ==
  /\ Len(Statements) = 7
  /\ Statements[1] = [op |-> "delete", table |-> "account_locks"]
  /\ Statements[2] = [op |-> "delete", table |-> "token_balance_changes"]
  /\ Statements[3] = [op |-> "delete", table |-> "transactions"]
  /\ Statements[4] = [op |-> "upsert", table |-> "blocks"]
  /\ Statements[5] = [op |-> "append", table |-> "transactions"]
  /\ Statements[6] = [op |-> "append", table |-> "account_locks"]
  /\ Statements[7] = [op |-> "append", table |-> "token_balance_changes"]
BY DEF Statements

\* Every statement is about one of the four tables.
LEMMA StatementTable ==
  ASSUME pc \in 1..Len(Statements)
  PROVE  Stmt.table \in Tables
BY StatementList DEF Stmt, Tables

\* A batch is a sequence of slots without repetition.
LEMMA BatchType ==
  ASSUME NEW b \in Batches
  PROVE  /\ b \in Seq(Slots) /\ Len(b) \in Nat
         /\ \A i \in 1..Len(b) : b[i] \in Slots
         /\ \A i, j \in 1..Len(b) : i # j => b[i] # b[j]
<1>1. PICK n \in 0..Cardinality(Slots) : b \in [1..n -> Slots]
  BY DEF Batches
<1>2. n \in Nat
  BY <1>1
<1>3. b \in Seq(Slots)
  BY <1>1, <1>2, SeqDef
<1> QED
  BY <1>3, LenProperties, ElementOfSeq DEF Batches

\* The empty batch is one.
LEMMA EmptyBatch == <<>> \in Batches
<1>1. <<>> \in [1..0 -> Slots] /\ Len(<<>>) = 0
  OBVIOUS
<1>2. 0 \in 0..Cardinality(Slots)
  BY FlushAssumption, FS_CardinalityType
<1> QED
  BY <1>1, <1>2 DEF Batches

\* A table of a store as IsStore describes it.
LEMMA StoreRows ==
  ASSUME NEW d, IsStore(d), NEW t \in Tables, NEW r \in d.rows[t]
  PROVE  /\ r.slot \in Slots /\ r.by \in 1..flush /\ r.key \in Rows[t][r.slot]
         /\ r \in RowsOf(d, t, r.slot)
BY DEF IsStore, Content, RowsOf

\* A statement that puts rows of blocks into a table leaves the view a store, and
\* no other table changes.
LEMMA PutRows ==
  ASSUME IsStore(view), NEW t \in Tables, NEW rows, NEW s \in Slots,
         \A r \in rows : r.slot \in Slots /\ r.by \in 1..flush /\ r \in Content(t, r.slot, r.by),
         view' = [rows |-> [view.rows EXCEPT ![t] = rows], step |-> NullSteps(t, s)]
  PROVE  /\ IsStore(view')
         /\ view'.rows[t] = rows
         /\ \A u \in Tables \ {t} : view'.rows[u] = view.rows[u]
         /\ view'.step = NullSteps(t, s)
<1>1. view'.rows = [view.rows EXCEPT ![t] = rows] /\ view'.step = NullSteps(t, s) /\ DOMAIN view' = {"rows", "step"}
  OBVIOUS
<1>2. DOMAIN view'.rows = Tables /\ view'.rows[t] = rows /\ \A u \in Tables \ {t} : view'.rows[u] = view.rows[u]
  BY <1>1 DEF IsStore
<1>3. view'.step \in [Sigs -> Nat \cup {NoStep}]
  BY <1>1 DEF IsStore, NullSteps
<1>4. \A u \in Tables : \A r \in view'.rows[u] :
         r.slot \in Slots /\ r.by \in 1..flush /\ r \in Content(u, r.slot, r.by)
  BY <1>2 DEF IsStore
<1> QED
  BY <1>1, <1>2, <1>3, <1>4 DEF IsStore

\* The three kinds of statement, as what they put into their table.
Written(op, t, s) == CASE op = "delete" -> Without(t, s)
                       [] op = "upsert" -> Without(t, s) \cup Content(t, s, flush)
                       [] op = "append" -> view.rows[t] \cup Content(t, s, flush)

\* What a statement puts into its table are rows of blocks.
LEMMA WrittenRows ==
  ASSUME IsStore(view), flush \in Nat \ {0}, NEW t \in Tables, NEW s \in Slots,
         NEW op \in {"delete", "upsert", "append"}
  PROVE  \A r \in Written(op, t, s) :
            r.slot \in Slots /\ r.by \in 1..flush /\ r \in Content(t, r.slot, r.by)
<1>1. \A r \in view.rows[t] : r.slot \in Slots /\ r.by \in 1..flush /\ r \in Content(t, r.slot, r.by)
  BY DEF IsStore
<1>2. \A r \in Content(t, s, flush) : r.slot = s /\ r.by = flush /\ flush \in 1..flush
  BY DEF Content
<1> QED
  BY <1>1, <1>2 DEF Written, Without

\* A statement that is carried out.
Carried == /\ view' = [rows |-> [view.rows EXCEPT ![Stmt.table] = Written(Stmt.op, Stmt.table, Slot)],
                       step |-> NullSteps(Stmt.table, Slot)]
           /\ disk' = IF txn THEN disk ELSE view'
           /\ Advance
           /\ UNCHANGED <<txn, poisoned, at, batch, flush, error, faults>>

\* A statement is carried out, or it is an append whose key is taken.
LEMMA StatementStep ==
  ASSUME TypeOK, Statement
  PROVE  /\ at = "rows" /\ pc \in 1..Len(Statements)
         /\ next \in 1..Len(batch) /\ Slot \in Slots
         /\ Stmt.table \in Tables /\ Stmt.op \in {"delete", "upsert", "append"}
         /\ \/ Carried
            \/ /\ Stmt.op = "append" /\ KeyTaken
               /\ at' = "rollback" /\ error' = "key"
               /\ UNCHANGED <<dbVars, next, pc, poisoned, batch, flush, faults>>
<1>1. at = "rows" /\ pc \in 1..Len(Statements) /\ next \in 1..Len(batch)
  BY BatchType DEF TypeOK, Statement, DeleteRows, UpsertBlock, AppendRows, AtStatement
<1>2. Slot \in Slots
  BY <1>1, BatchType DEF TypeOK, Slot
<1>3. Stmt.table \in Tables /\ Stmt.op \in {"delete", "upsert", "append"}
  BY <1>1, StatementList, StatementTable DEF Stmt
<1>4. CASE DeleteRows
  <2>1. Written(Stmt.op, Stmt.table, Slot) = Without(Stmt.table, Slot)
    BY <1>4 DEF DeleteRows, AtStatement, Written
  <2>2. Carried
    BY <1>4, <2>1 DEF DeleteRows, Put, Carried
  <2> QED BY <1>1, <1>2, <1>3, <2>2
<1>5. CASE UpsertBlock
  <2>1. Written(Stmt.op, Stmt.table, Slot)
          = Without(Stmt.table, Slot) \cup Content(Stmt.table, Slot, flush)
    BY <1>5 DEF UpsertBlock, AtStatement, Written
  <2>2. Carried
    BY <1>5, <2>1 DEF UpsertBlock, Put, Carried
  <2> QED BY <1>1, <1>2, <1>3, <2>2
<1>6. CASE AppendRows /\ KeyTaken
  BY <1>1, <1>2, <1>3, <1>6 DEF AppendRows, AtStatement
<1>7. CASE AppendRows /\ ~KeyTaken
  <2>1. Written(Stmt.op, Stmt.table, Slot)
          = view.rows[Stmt.table] \cup Content(Stmt.table, Slot, flush)
    BY <1>7 DEF AppendRows, AtStatement, Written
  <2>2. Carried
    BY <1>7, <2>1 DEF AppendRows, Put, Carried
  <2> QED BY <1>1, <1>2, <1>3, <2>2
<1> QED
  BY <1>4, <1>5, <1>6, <1>7 DEF Statement

\* A flush that returns has the memory of one not begun.
LEMMA ReturnType ==
  ASSUME Return, Len(<<>>) = 0
  PROVE  /\ at' = "idle" /\ batch' \in Batches /\ next' \in 1..(Len(batch') + 1)
         /\ pc' \in Nat \ {0}
BY EmptyBatch DEF Return

\* Writing a step leaves the rows as they are.
LEMMA StepWritten ==
  ASSUME TypeOK, WriteStep
  PROVE  /\ IsStore(view') /\ disk' = view' /\ view'.rows = view.rows
         /\ Slot \in Slots /\ Order[Slot][pc] \in Rows["transactions"][Slot]
         /\ view'.step = IF \E r \in view.rows["transactions"] : r.key = Order[Slot][pc]
                          THEN [view.step EXCEPT ![Order[Slot][pc]] = StepOf[Order[Slot][pc]]]
                          ELSE view.step
<1>1. next \in 1..Len(batch) /\ pc \in 1..Len(Order[Slot])
  BY BatchType DEF TypeOK, WriteStep
<1>2. Slot \in Slots
  BY <1>1, BatchType DEF TypeOK, Slot
<1>3. Order[Slot][pc] \in Rows["transactions"][Slot]
  BY <1>1, <1>2, FlushAssumption, ElementOfSeq
<1>4. Order[Slot][pc] \in Sigs /\ StepOf[Order[Slot][pc]] \in Nat
  BY <1>2, <1>3, FlushAssumption DEF Sigs
<1> DEFINE new == IF \E r \in view.rows["transactions"] : r.key = Order[Slot][pc]
                  THEN [view.step EXCEPT ![Order[Slot][pc]] = StepOf[Order[Slot][pc]]]
                  ELSE view.step
<1>5. view' = [view EXCEPT !.step = new]
  BY DEF WriteStep
<1>6. view'.rows = view.rows /\ view'.step = new /\ DOMAIN view' = {"rows", "step"}
  BY <1>5 DEF TypeOK, IsStore
<1>7. new \in [Sigs -> Nat \cup {NoStep}]
  BY <1>4 DEF TypeOK, IsStore
<1>8. IsStore(view')
  BY <1>6, <1>7 DEF TypeOK, IsStore
<1> QED
  BY <1>2, <1>3, <1>6, <1>8 DEF WriteStep

\* The empty database is a store.
LEMMA EmptyStore == IsStore(Empty)
BY DEF IsStore, Empty, Tables, NoStep

\* Rows of an earlier flush are rows of blocks when there is one more flush.
LEMMA LaterStore ==
  ASSUME NEW d, IsStore(d), flush \in Nat, flush' \in Nat, flush <= flush'
  PROVE  IsStore(d)'
BY DEF IsStore, Content, Sigs

\* The parts of TypeOK: the tables, the two flags, and the memory of the flush.
Stores  == IsStore(disk) /\ IsStore(view)
Flags   == txn \in BOOLEAN /\ poisoned \in BOOLEAN
Control == /\ at \in {"idle", "begin", "rows", "rollback", "steps"}
           /\ batch \in Batches /\ next \in 1..(Len(batch) + 1) /\ pc \in Nat \ {0}
           /\ at \in {"begin", "rows"} => pc \in 1..Len(Statements)
           /\ at # "idle" => flush # 0
           /\ flush \in 0..MaxFlushes /\ faults \in 0..MaxFaults
           /\ error \in {"none", "external", "panic", "key", "nested"}

\* TypeOK is its parts.
LEMMA TypeParts == TypeOK <=> Stores /\ Flags /\ Control
BY DEF TypeOK, Stores, Flags, Control

\* A step that only moves whole stores about leaves stores.
LEMMA StoresMoved ==
  ASSUME Stores, flush' = flush, disk' \in {disk, view}, view' \in {disk, view}
  PROVE  Stores'
BY DEF Stores, IsStore, Content, Sigs

\* The memory of the flush and the tables keep to their types.
LEMMA TypeStep ==
  ASSUME TypeOK, [Next]_vars
  PROVE  TypeOK'
<1> USE DEF dbVars, flushVars
<1>a. Len(<<>>) = 0 /\ Len(Statements) = 7 /\ flush \in Nat /\ faults \in Nat
  BY StatementList, FlushAssumption DEF TypeOK
<1>b. MaxFlushes \in Nat /\ MaxFaults \in Nat
  BY FlushAssumption
<1>c. Len(batch) \in Nat
  BY BatchType DEF TypeOK
<1>1. ASSUME NEW b \in Batches, Start(b)
      PROVE  TypeOK'
  <2>1. flush' = flush + 1 /\ flush' \in 1..MaxFlushes /\ Len(b) \in Nat /\ at = "idle"
    BY <1>1, <1>a, <1>b, BatchType DEF Start, TypeOK
  <2>2. IsStore(disk)' /\ IsStore(view)'
    <3>1. IsStore(disk) /\ IsStore(view) /\ flush <= flush' /\ flush' \in Nat
      BY <1>a, <2>1 DEF TypeOK
    <3>2. disk' = disk /\ view' = view
      BY <1>1 DEF Start
    <3> QED BY <1>a, <3>1, <3>2 DEF IsStore, Content
  <2>3. next' = 1 /\ pc' \in Nat \ {0} /\ batch' = b
    BY <1>1 DEF Start
  <2> QED BY <1>1, <1>a, <2>1, <2>2, <2>3 DEF Start, TypeOK
<1>2. CASE Begin
  <2>1. CASE txn
    <3>1. Return /\ error' = "nested" /\ UNCHANGED <<txn, disk, view, poisoned, flush, faults>>
      BY <1>2, <2>1 DEF Begin
    <3> QED BY <1>a, <3>1, ReturnType DEF TypeOK, IsStore, Content
  <2>2. CASE ~txn
    <3>1. Stores'
      BY <1>2, <2>2, TypeParts, StoresMoved DEF Begin
    <3>2. Flags'
      BY <1>2, <2>2, TypeParts DEF Begin, Flags
    <3>3. Control'
      BY <1>2, <1>a, <2>2, TypeParts DEF Begin, Control, TypeOK
    <3> QED BY <3>1, <3>2, <3>3, TypeParts DEF TypeOK, Stores, Flags, Control
  <2> QED BY <2>1, <2>2
<1>3. CASE Statement
  <2>1. CASE Carried
    <3>1. IsStore(view)'
      <4>1. flush \in Nat \ {0} /\ IsStore(view)
        BY <1>3, <1>a, StatementStep DEF TypeOK
      <4>2. /\ Stmt.table \in Tables /\ Slot \in Slots
            /\ Stmt.op \in {"delete", "upsert", "append"}
        BY <1>3, StatementStep
      <4>3. \A r \in Written(Stmt.op, Stmt.table, Slot) :
               r.slot \in Slots /\ r.by \in 1..flush /\ r \in Content(Stmt.table, r.slot, r.by)
        BY <4>1, <4>2, WrittenRows
      <4>4. view' = [rows |-> [view.rows EXCEPT ![Stmt.table] = Written(Stmt.op, Stmt.table, Slot)],
                     step |-> NullSteps(Stmt.table, Slot)]
        BY <2>1 DEF Carried
      <4>5. IsStore(view')
        BY <4>1, <4>2, <4>3, <4>4, PutRows
      <4> QED BY <2>1, <4>5 DEF Carried, IsStore, Content
    <3>2. IsStore(disk)'
      BY <2>1, <3>1 DEF Carried, TypeOK, IsStore, Content
    <3>3. next' \in 1..(Len(batch) + 1) /\ pc' \in 1..Len(Statements)
      BY <1>3, <1>a, <1>c, <2>1, StatementStep DEF Carried, Advance
    <3> QED BY <1>3, <1>a, <2>1, <3>1, <3>2, <3>3, StatementStep DEF Carried, TypeOK
  <2>2. CASE at' = "rollback" /\ error' = "key"
              /\ UNCHANGED <<dbVars, next, pc, poisoned, batch, flush, faults>>
    BY <1>3, <2>2, StatementStep DEF TypeOK, IsStore, Content
  <2> QED BY <1>3, <2>1, <2>2, StatementStep
<1>4. CASE Commit
  <2>1. Stores'
    BY <1>4, TypeParts, StoresMoved DEF Commit
  <2>2. Flags'
    BY <1>4, TypeParts DEF Commit, Flags
  <2>3. Control'
    BY <1>4, <1>a, <1>c, TypeParts DEF Commit, Control, TypeOK
  <2> QED BY <2>1, <2>2, <2>3, TypeParts DEF TypeOK, Stores, Flags, Control
<1>5. CASE Rollback
  <2>1. Return /\ view' = disk /\ txn' = FALSE /\ UNCHANGED <<disk, poisoned, flush, error, faults>>
    BY <1>5 DEF Rollback
  <2> QED BY <1>a, <2>1, ReturnType DEF TypeOK, IsStore, Content
<1>6. CASE WriteStep
  <2>1. IsStore(view')
    BY <1>6, StepWritten
  <2>2. IsStore(view)' /\ IsStore(disk)'
    BY <1>6, <2>1, StepWritten DEF WriteStep, IsStore, Content
  <2>3. pc' \in Nat \ {0} /\ at' = "steps"
    BY <1>6 DEF WriteStep, TypeOK
  <2> QED BY <1>6, <2>2, <2>3 DEF WriteStep, TypeOK
<1>7. CASE NextSchedule
  BY <1>7, <1>a, <1>c DEF NextSchedule, TypeOK, IsStore, Content
<1>8. CASE Done
  <2>1. Return /\ UNCHANGED <<dbVars, poisoned, flush, error, faults>>
    BY <1>8 DEF Done
  <2> QED BY <1>a, <2>1, ReturnType DEF TypeOK, IsStore, Content
<1>9. CASE Fault
  <2>0. faults' \in 0..MaxFaults /\ error' = "external" /\ UNCHANGED <<poisoned, flush>>
    BY <1>9, <1>a, <1>b DEF Fault
  <2>1. CASE Return /\ UNCHANGED dbVars
    BY <1>a, <2>0, <2>1, ReturnType DEF TypeOK, IsStore, Content
  <2>2. CASE /\ at' = "rollback" /\ UNCHANGED <<batch, next, pc>> /\ at = "rows"
             /\ (UNCHANGED dbVars \/ (view' = disk /\ txn' = FALSE /\ UNCHANGED disk))
    <3>1. Stores'
      BY <2>0, <2>2, TypeParts, StoresMoved
    <3>2. Flags'
      <4>1. CASE UNCHANGED dbVars
        BY <2>0, <4>1, TypeParts DEF Flags
      <4>2. CASE txn' = FALSE
        BY <2>0, <4>2, TypeParts DEF Flags
      <4> QED BY <2>2, <4>1, <4>2
    <3>3. Control'
      BY <1>a, <2>0, <2>2, TypeParts DEF Control, TypeOK
    <3> QED BY <3>1, <3>2, <3>3, TypeParts DEF TypeOK, Stores, Flags, Control
  <2> QED BY <1>9, <2>1, <2>2 DEF Fault
<1>10. CASE Panic
  <2>1. /\ Return /\ UNCHANGED <<dbVars, flush>> /\ poisoned' = TRUE /\ error' = "panic"
        /\ faults' \in 0..MaxFaults
    BY <1>10, <1>a, <1>b DEF Panic
  <2> QED BY <1>a, <2>1, ReturnType DEF TypeOK, IsStore, Content
<1>11. CASE OtherFault
  <2>1. UNCHANGED <<dbVars, flushVars>> /\ faults' \in 0..MaxFaults
    BY <1>11, <1>a, <1>b DEF OtherFault
  <2>2. Stores'
    BY <2>1, TypeParts, StoresMoved
  <2>3. poisoned' \in BOOLEAN
    BY <1>11, TypeParts, Zenon DEF OtherFault, Flags
  <2>4. Flags'
    BY <2>1, <2>3, TypeParts DEF Flags
  <2>5. Control'
    BY <2>1, TypeParts DEF Control
  <2> QED BY <2>2, <2>4, <2>5, TypeParts DEF TypeOK, Stores, Flags, Control
<1>12. CASE Reopen
  <2>1. /\ Return /\ view' = disk /\ txn' = FALSE /\ poisoned' = FALSE /\ error' = "none"
        /\ UNCHANGED <<disk, flush, faults>>
    BY <1>12 DEF Reopen
  <2> QED BY <1>a, <2>1, ReturnType DEF TypeOK, IsStore, Content
<1>13. CASE UNCHANGED vars
  BY <1>13 DEF vars, TypeOK, IsStore, Content
<1> QED
  BY <1>1, <1>2, <1>3, <1>4, <1>5, <1>6, <1>7, <1>8, <1>9, <1>10, <1>11, <1>12, <1>13
     DEF Next, Progress

\* Initially there is nothing.
LEMMA TypeInit == Init => TypeOK
<1> SUFFICES ASSUME Init PROVE TypeOK
  OBVIOUS
<1>1. Stores
  BY EmptyStore DEF Init, Stores
<1>2. Flags
  BY DEF Init, Flags
<1>3. Control
  BY EmptyBatch, FlushAssumption DEF Init, Control
<1> QED
  BY <1>1, <1>2, <1>3, TypeParts

\* The tables and the memory of flush_parsed_batch keep to their types.
THEOREM TypeCorrect == Spec => []TypeOK
BY TypeInit, TypeStep, PTL DEF Spec

-----------------------------------------------------------------------------
(* The inductive invariant.                                                *)

\* What a statement sees is what is committed, unless a transaction is open; one
\* is open only inside replace_slots_batch, or for good behind a poisoned mutex.
Connection == /\ ~txn => view = disk
              /\ txn => at \in {"rows", "rollback"} \/ poisoned
              /\ poisoned => at = "idle"
              /\ at = "rows" => txn

\* The statement that empties a table of the slot, and the one that fills it.
DeleteAt == [account_locks |-> 1, token_balance_changes |-> 2, transactions |-> 3, blocks |-> 4]
AppendAt == [blocks |-> 4, transactions |-> 5, account_locks |-> 6, token_balance_changes |-> 7]

WrittenSlots == {batch[i] : i \in 1..(next - 1)}
IsCurrent(s) == next <= Len(batch) /\ batch[next] = s

\* The rows of a slot inside the transaction: those of the blocks done are new,
\* those of the block worked on are old, gone or new, the others are old.
RowsNow(t, s) ==
  IF s \in WrittenSlots \/ (IsCurrent(s) /\ pc > AppendAt[t]) THEN Content(t, s, flush)
  ELSE IF IsCurrent(s) /\ pc > DeleteAt[t] THEN {}
  ELSE RowsOf(disk, t, s)

FlushedRows == at = "rows" =>
                 \A t \in Tables, s \in Slots : RowsOf(view, t, s) = RowsNow(t, s)

\* The flush under way has committed nothing before COMMIT.
Committed == IF at \in {"begin", "rows", "rollback"} THEN flush - 1 ELSE flush

DiskWhole == \A s \in Slots :
               \/ \A t \in Tables : RowsOf(disk, t, s) = {}
               \/ \E f \in 1..Committed : \A t \in Tables : RowsOf(disk, t, s) = Content(t, s, f)

\* flush_parsed_batch starts with the first statement of its first block.
BeginsAtOnce == at = "begin" => next = 1 /\ pc = 1

IInv == TypeOK /\ BeginsAtOnce /\ Connection /\ NoOwnFailure /\ FlushedRows /\ DiskWhole

\* Which tables the statement at pc empties and fills.
LEMMA StatementTimes ==
  ASSUME pc \in 1..Len(Statements)
  PROVE  /\ \A t \in Tables : /\ AppendAt[t] \in Nat /\ DeleteAt[t] \in Nat
                             /\ DeleteAt[t] <= AppendAt[t] /\ AppendAt[t] < 8 /\ DeleteAt[t] > 0
         /\ \A t \in Tables \ {Stmt.table} : AppendAt[t] # pc /\ DeleteAt[t] # pc
         /\ Stmt.op = "delete" => DeleteAt[Stmt.table] = pc /\ AppendAt[Stmt.table] > pc
         /\ Stmt.op = "upsert" => DeleteAt[Stmt.table] = pc /\ AppendAt[Stmt.table] = pc
         /\ Stmt.op = "append" => DeleteAt[Stmt.table] < pc /\ AppendAt[Stmt.table] = pc
<1> USE DEF Stmt, Tables, DeleteAt, AppendAt
<1>1. pc \in {1, 2, 3, 4, 5, 6, 7}
  BY StatementList
<1>2. CASE pc = 1
  BY <1>2, StatementList
<1>3. CASE pc = 2
  BY <1>3, StatementList
<1>4. CASE pc = 3
  BY <1>4, StatementList
<1>5. CASE pc = 4
  BY <1>5, StatementList
<1>6. CASE pc = 5
  BY <1>6, StatementList
<1>7. CASE pc = 6
  BY <1>7, StatementList
<1>8. CASE pc = 7
  BY <1>8, StatementList
<1> QED
  BY <1>1, <1>2, <1>3, <1>4, <1>5, <1>6, <1>7, <1>8

\* What a statement does to the rows of each slot.
LEMMA CarriedRows ==
  ASSUME TypeOK, Statement, Carried
  PROVE  \A t \in Tables, s \in Slots :
           RowsOf(view, t, s)' =
             IF t = Stmt.table /\ s = Slot
             THEN CASE Stmt.op = "delete" -> {}
                    [] Stmt.op = "upsert" -> Content(t, s, flush)
                    [] Stmt.op = "append" -> RowsOf(view, t, s) \cup Content(t, s, flush)
             ELSE RowsOf(view, t, s)
<1>1. /\ Stmt.table \in Tables /\ Slot \in Slots /\ Stmt.op \in {"delete", "upsert", "append"}
  BY StatementStep
<1>2. /\ view'.rows[Stmt.table] = Written(Stmt.op, Stmt.table, Slot)
      /\ \A u \in Tables \ {Stmt.table} : view'.rows[u] = view.rows[u]
  BY <1>1 DEF Carried, TypeOK, IsStore
<1>3. \A r \in Content(Stmt.table, Slot, flush) : r.slot = Slot
  BY DEF Content
<1> SUFFICES ASSUME NEW t \in Tables, NEW s \in Slots
             PROVE  {r \in view'.rows[t] : r.slot = s} =
                      IF t = Stmt.table /\ s = Slot
                      THEN CASE Stmt.op = "delete" -> {}
                             [] Stmt.op = "upsert" -> Content(t, s, flush)
                             [] Stmt.op = "append" -> RowsOf(view, t, s) \cup Content(t, s, flush)
                      ELSE RowsOf(view, t, s)
  BY DEF RowsOf
<1>4. CASE t # Stmt.table
  BY <1>2, <1>4 DEF RowsOf
<1>5. CASE t = Stmt.table /\ Stmt.op = "delete"
  BY <1>2, <1>5 DEF RowsOf, Written, Without
<1>6. CASE t = Stmt.table /\ Stmt.op = "upsert"
  BY <1>2, <1>3, <1>6 DEF RowsOf, Written, Without
<1>7. CASE t = Stmt.table /\ Stmt.op = "append"
  BY <1>2, <1>3, <1>7 DEF RowsOf, Written
<1> QED
  BY <1>1, <1>4, <1>5, <1>6, <1>7

\* The key an append needs is free: its slot's rows were deleted before, and no
\* other slot has the key.
LEMMA KeysAreFree ==
  ASSUME IInv, Statement, Stmt.op = "append"
  PROVE  ~KeyTaken
<1>1. /\ Stmt.table \in Tables /\ Slot \in Slots /\ at = "rows" /\ next \in 1..Len(batch)
      /\ pc \in 1..Len(Statements)
  BY StatementStep DEF IInv
<1>2. DeleteAt[Stmt.table] < pc /\ AppendAt[Stmt.table] = pc
  BY <1>1, StatementTimes
<1>3. Slot \notin WrittenSlots /\ IsCurrent(Slot)
  BY <1>1, BatchType DEF IInv, TypeOK, WrittenSlots, IsCurrent, Slot
<1>4. RowsOf(view, Stmt.table, Slot) = {}
  <2>1. RowsNow(Stmt.table, Slot) = {}
    BY <1>1, <1>2, <1>3, StatementList DEF RowsNow
  <2> QED BY <1>1, <2>1 DEF IInv, FlushedRows
<1>5. SUFFICES ASSUME NEW r \in view.rows[Stmt.table], r.key \in Rows[Stmt.table][Slot]
               PROVE  FALSE
  BY DEF KeyTaken
<1>6. /\ r.slot \in Slots /\ r.key \in Rows[Stmt.table][r.slot]
      /\ r \in RowsOf(view, Stmt.table, r.slot)
  BY <1>1, <1>5, StoreRows DEF IInv, TypeOK
<1>7. r.slot = Slot
  BY <1>1, <1>5, <1>6, FlushAssumption
<1> QED
  BY <1>4, <1>6, <1>7

-----------------------------------------------------------------------------
(* Every step keeps the invariant.                                         *)

\* A transaction is open only where it should be.
LEMMA ConnectionStep ==
  ASSUME TypeOK, Connection, [Next]_vars
  PROVE  Connection'
<1> USE DEF Connection, dbVars, flushVars
<1>1. ASSUME NEW b \in Batches, Start(b)
      PROVE  Connection'
  BY <1>1 DEF Start
<1>2. CASE Begin
  BY <1>2 DEF Begin, Return
<1>3. CASE Statement
  <2>1. CASE Carried
    BY <1>3, <2>1, StatementStep DEF Carried
  <2>2. CASE at' = "rollback" /\ UNCHANGED <<dbVars, poisoned>>
    BY <1>3, <2>2, StatementStep
  <2> QED BY <1>3, <2>1, <2>2, StatementStep
<1>4. CASE Commit
  BY <1>4 DEF Commit
<1>5. CASE Rollback
  BY <1>5 DEF Rollback, Return
<1>6. CASE WriteStep
  BY <1>6 DEF WriteStep
<1>7. CASE NextSchedule
  BY <1>7 DEF NextSchedule
<1>8. CASE Done
  BY <1>8 DEF Done, Return
<1>9. CASE Fault
  BY <1>9 DEF Fault, Return
<1>10. CASE Panic
  BY <1>10 DEF Panic, Return
<1>11. CASE OtherFault
  <2>1. at = "idle" /\ UNCHANGED <<dbVars, flushVars>>
    BY <1>11 DEF OtherFault
  <2>2. poisoned' = poisoned \/ poisoned' = TRUE
    BY <1>11, Zenon DEF OtherFault
  <2>3. CASE poisoned' = poisoned
    BY <2>1, <2>3
  <2>4. CASE poisoned' = TRUE
    BY <2>1, <2>4
  <2> QED BY <2>2, <2>3, <2>4
<1>12. CASE Reopen
  BY <1>12 DEF Reopen, Return
<1>13. CASE UNCHANGED vars
  BY <1>13 DEF vars
<1> QED
  BY <1>1, <1>2, <1>3, <1>4, <1>5, <1>6, <1>7, <1>8, <1>9, <1>10, <1>11, <1>12, <1>13
     DEF Next, Progress

\* A flush does not fail by its own doing.
LEMMA NoOwnFailureStep ==
  ASSUME IInv, [Next]_vars
  PROVE  NoOwnFailure'
<1> USE DEF NoOwnFailure, dbVars, flushVars
<1>0. NoOwnFailure
  BY DEF IInv
<1>1. ASSUME NEW b \in Batches, Start(b)
      PROVE  NoOwnFailure'
  BY <1>1 DEF Start
<1>2. CASE Begin
  <2>1. ~txn
    BY <1>2 DEF Begin, IInv, Connection
  <2> QED BY <1>0, <1>2, <2>1 DEF Begin
<1>3. CASE Statement
  <2>1. ~(Stmt.op = "append" /\ KeyTaken)
    BY <1>3, KeysAreFree
  <2>2. Carried
    BY <1>3, <2>1, StatementStep DEF IInv
  <2> QED BY <1>0, <2>2 DEF Carried
<1>4. CASE Commit \/ Rollback \/ WriteStep \/ NextSchedule \/ Done
  BY <1>0, <1>4 DEF Commit, Rollback, WriteStep, NextSchedule, Done
<1>5. CASE Fault \/ Panic \/ OtherFault \/ Reopen
  BY <1>0, <1>5 DEF Fault, Panic, OtherFault, Reopen
<1>6. CASE UNCHANGED vars
  BY <1>0, <1>6 DEF vars
<1> QED
  BY <1>1, <1>2, <1>3, <1>4, <1>5, <1>6 DEF Next, Progress

\* What a statement does to the description of the rows.
LEMMA StatementRows ==
  ASSUME IInv, Statement, Carried
  PROVE  FlushedRows'
<1>1. /\ Stmt.table \in Tables /\ Slot \in Slots /\ at = "rows" /\ next \in 1..Len(batch)
      /\ pc \in 1..Len(Statements) /\ Stmt.op \in {"delete", "upsert", "append"}
  BY StatementStep DEF IInv
<1>2. Slot \notin WrittenSlots /\ IsCurrent(Slot) /\ Len(batch) \in Nat /\ Len(Statements) = 7
  BY <1>1, BatchType, StatementList DEF IInv, TypeOK, WrittenSlots, IsCurrent, Slot
<1>3. /\ UNCHANGED <<disk, batch, flush, at>>
      /\ \/ pc < 7 /\ pc' = pc + 1 /\ next' = next
         \/ pc = 7 /\ pc' = 1 /\ next' = next + 1
  BY <1>1, <1>2 DEF Carried, Advance, IInv, Connection
<1> SUFFICES ASSUME NEW t \in Tables, NEW s \in Slots
             PROVE  RowsOf(view, t, s)' = RowsNow(t, s)'
  BY DEF FlushedRows
<1>4. RowsOf(view, t, s) = RowsNow(t, s)
  BY <1>1 DEF IInv, FlushedRows
<1>5. RowsOf(disk, t, s)' = RowsOf(disk, t, s) /\ Content(t, s, flush)' = Content(t, s, flush)
  BY <1>3 DEF RowsOf, Content
<1>6. CASE s # Slot
  <2>1. RowsOf(view, t, s)' = RowsOf(view, t, s)
    BY <1>6, CarriedRows DEF IInv
  <2>2. ~IsCurrent(s)
    BY <1>6 DEF IsCurrent, Slot
  <2>3. CASE pc < 7
    <3>1. WrittenSlots' = WrittenSlots /\ ~IsCurrent(s)'
      BY <1>3, <2>2, <2>3 DEF WrittenSlots, IsCurrent
    <3> QED BY <1>4, <1>5, <2>1, <2>2, <3>1 DEF RowsNow
  <2>4. CASE pc = 7
    <3>1. s \in WrittenSlots' <=> s \in WrittenSlots
      BY <1>1, <1>3, <1>6, <2>4 DEF WrittenSlots, Slot
    <3>2. ~(pc' > AppendAt[t]) /\ ~(pc' > DeleteAt[t])
      BY <1>1, <1>3, <2>4, StatementTimes
    <3> QED BY <1>4, <1>5, <2>1, <2>2, <3>1, <3>2 DEF RowsNow
  <2> QED BY <1>3, <2>3, <2>4
<1>7. CASE s = Slot
  <2>1. RowsNow(t, s) = IF pc > AppendAt[t] THEN Content(t, s, flush)
                        ELSE IF pc > DeleteAt[t] THEN {} ELSE RowsOf(disk, t, s)
    BY <1>2, <1>7 DEF RowsNow
  <2>2. RowsOf(view, t, s)' = IF pc + 1 > AppendAt[t] THEN Content(t, s, flush)
                              ELSE IF pc + 1 > DeleteAt[t] THEN {} ELSE RowsOf(disk, t, s)
    <3>1. CASE t # Stmt.table
      <4>1. RowsOf(view, t, s)' = RowsNow(t, s)
        BY <1>4, <3>1, CarriedRows DEF IInv
      <4>2. AppendAt[t] # pc /\ DeleteAt[t] # pc /\ AppendAt[t] \in Nat /\ DeleteAt[t] \in Nat
        BY <1>1, <3>1, StatementTimes
      <4>3. (pc + 1 > AppendAt[t] <=> pc > AppendAt[t]) /\ (pc + 1 > DeleteAt[t] <=> pc > DeleteAt[t])
        BY <1>1, <4>2
      <4> QED BY <2>1, <4>1, <4>3
    <3>2. CASE t = Stmt.table /\ Stmt.op = "delete"
      <4>1. RowsOf(view, t, s)' = {} /\ DeleteAt[t] = pc /\ AppendAt[t] > pc /\ AppendAt[t] \in Nat
        BY <1>1, <1>7, <3>2, CarriedRows, StatementTimes DEF IInv
      <4> QED BY <1>1, <4>1
    <3>3. CASE t = Stmt.table /\ Stmt.op = "upsert"
      <4>1. RowsOf(view, t, s)' = Content(t, s, flush) /\ AppendAt[t] = pc
        BY <1>1, <1>7, <3>3, CarriedRows, StatementTimes DEF IInv
      <4> QED BY <1>1, <4>1
    <3>4. CASE t = Stmt.table /\ Stmt.op = "append"
      <4>1. /\ RowsOf(view, t, s)' = RowsOf(view, t, s) \cup Content(t, s, flush)
            /\ AppendAt[t] = pc /\ DeleteAt[t] < pc /\ DeleteAt[t] \in Nat
        BY <1>1, <1>7, <3>4, CarriedRows, StatementTimes DEF IInv
      <4>2. RowsNow(t, s) = {}
        BY <1>1, <2>1, <4>1
      <4> QED BY <1>1, <1>4, <4>1, <4>2
    <3> QED BY <1>1, <3>1, <3>2, <3>3, <3>4
  <2>3. CASE pc < 7
    <3>1. WrittenSlots' = WrittenSlots /\ IsCurrent(s)'
      BY <1>2, <1>3, <1>7, <2>3 DEF WrittenSlots, IsCurrent
    <3>2. RowsNow(t, s)' = IF pc' > AppendAt[t] THEN Content(t, s, flush)
                           ELSE IF pc' > DeleteAt[t] THEN {} ELSE RowsOf(disk, t, s)
      BY <1>2, <1>5, <1>7, <3>1 DEF RowsNow
    <3> QED BY <1>3, <2>2, <2>3, <3>2
  <2>4. CASE pc = 7
    <3>1. s \in WrittenSlots'
      <4>1. next \in 1..(next' - 1) /\ batch'[next] = s
        BY <1>1, <1>3, <1>7, <2>4 DEF Slot
      <4> QED BY <4>1 DEF WrittenSlots
    <3>2. pc + 1 > AppendAt[t]
      BY <1>1, <2>4, StatementTimes
    <3>3. RowsNow(t, s)' = Content(t, s, flush)
      BY <1>5, <3>1 DEF RowsNow
    <3> QED BY <2>2, <3>2, <3>3
  <2> QED BY <1>3, <2>3, <2>4
<1> QED
  BY <1>6, <1>7

\* The description of the rows is kept: BEGIN finds the view the committed one,
\* and no other step but a statement stays in the transaction.
LEMMA FlushedRowsStep ==
  ASSUME IInv, [Next]_vars
  PROVE  FlushedRows'
<1> USE DEF dbVars, flushVars
<1>1. CASE \E b \in Batches : Start(b)
  BY <1>1 DEF Start, FlushedRows
<1>2. CASE Begin
  <2>1. ~txn /\ view = disk
    BY <1>2 DEF Begin, IInv, Connection
  <2>2. next = 1 /\ pc = 1 /\ at = "begin"
    BY <1>2 DEF Begin, IInv, BeginsAtOnce
  <2>3. UNCHANGED <<disk, view, batch, next, pc, flush>>
    BY <1>2, <2>1 DEF Begin
  <2>4. ASSUME NEW t \in Tables, NEW s \in Slots
        PROVE  RowsOf(view, t, s)' = RowsNow(t, s)'
    <3>1. WrittenSlots' = {} /\ pc' = 1
      BY <2>2, <2>3 DEF WrittenSlots
    <3>2. ~(pc' > AppendAt[t]) /\ ~(pc' > DeleteAt[t])
      BY <3>1 DEF AppendAt, DeleteAt, Tables
    <3>3. RowsNow(t, s)' = RowsOf(disk, t, s)'
      BY <3>1, <3>2 DEF RowsNow
    <3> QED BY <2>1, <2>3, <3>3 DEF RowsOf
  <2> QED BY <2>4 DEF FlushedRows
<1>3. CASE Statement
  <2>1. CASE Carried
    BY <1>3, <2>1, StatementRows
  <2>2. CASE at' = "rollback"
    BY <2>2 DEF FlushedRows
  <2> QED BY <1>3, <2>1, <2>2, StatementStep DEF IInv
<1>4. CASE Commit \/ Rollback \/ WriteStep \/ NextSchedule \/ Done
  BY <1>4 DEF Commit, Rollback, WriteStep, NextSchedule, Done, Return, FlushedRows
<1>5. CASE Fault \/ Panic \/ OtherFault \/ Reopen
  BY <1>5 DEF Fault, Panic, OtherFault, Reopen, Return, FlushedRows
<1>6. CASE UNCHANGED vars
  BY <1>6 DEF vars, IInv, FlushedRows, RowsOf, RowsNow, WrittenSlots, IsCurrent, Content
<1> QED
  BY <1>1, <1>2, <1>3, <1>4, <1>5, <1>6 DEF Next, Progress

\* A step that leaves the committed rows as they are, and a flush that is over or
\* not, leaves the committed slots whole.
LEMMA DiskKept ==
  ASSUME TypeOK, TypeOK', DiskWhole, disk'.rows = disk.rows, Committed <= Committed'
  PROVE  DiskWhole'
<1>1. Committed \in Int /\ Committed' \in Int
  BY DEF TypeOK, Committed
<1>2. \A t \in Tables, s \in Slots : RowsOf(disk, t, s)' = RowsOf(disk, t, s)
  BY DEF RowsOf
<1>3. \A t \in Tables, s \in Slots, f \in Int : Content(t, s, f)' = Content(t, s, f)
  BY DEF Content
<1>4. \A f \in 1..Committed : f \in Int /\ f \in 1..Committed'
  BY <1>1
<1> QED
  BY <1>2, <1>3, <1>4 DEF DiskWhole

\* COMMIT leaves every slot whole: all blocks of the batch are written.
LEMMA CommitRows ==
  ASSUME IInv, Commit
  PROVE  /\ disk' = view /\ flush' = flush
         /\ \A t \in Tables, s \in Slots :
              RowsOf(disk, t, s)' = IF s \in Elems(batch) THEN Content(t, s, flush)
                                    ELSE RowsOf(disk, t, s)
<1>1. /\ at = "rows" /\ next > Len(batch) /\ disk' = view /\ flush' = flush
  BY DEF Commit
<1>2. next = Len(batch) + 1 /\ Len(batch) \in Nat
  BY <1>1, BatchType DEF IInv, TypeOK
<1>3. WrittenSlots = Elems(batch) /\ \A s \in Slots : ~IsCurrent(s)
  BY <1>2 DEF WrittenSlots, Elems, IsCurrent
<1>4. ASSUME NEW t \in Tables, NEW s \in Slots
      PROVE  RowsOf(disk, t, s)' = IF s \in Elems(batch) THEN Content(t, s, flush)
                                   ELSE RowsOf(disk, t, s)
  <2>1. RowsOf(view, t, s) = RowsNow(t, s)
    BY <1>1 DEF IInv, FlushedRows
  <2>2. RowsOf(disk, t, s)' = RowsOf(view, t, s)
    BY <1>1 DEF RowsOf
  <2> QED BY <1>3, <2>1, <2>2 DEF RowsNow
<1> QED
  BY <1>1, <1>4

\* What is committed of a slot stays whole.
LEMMA DiskWholeStep ==
  ASSUME IInv, TypeOK', [Next]_vars
  PROVE  DiskWhole'
<1> USE DEF dbVars, flushVars
<1>0. flush \in Nat /\ TypeOK /\ DiskWhole /\ (at # "idle" => flush # 0)
  BY FlushAssumption DEF IInv, TypeOK
<1>1. ASSUME NEW b \in Batches, Start(b)
      PROVE  DiskWhole'
  <2>1. disk' = disk /\ Committed' = flush /\ Committed = flush
    BY <1>0, <1>1 DEF Start, Committed
  <2> QED BY <1>0, <2>1, DiskKept
<1>2. CASE Begin
  <2>1. disk' = disk /\ Committed <= Committed'
    BY <1>0, <1>2 DEF Begin, Return, Committed
  <2> QED BY <1>0, <2>1, DiskKept
<1>3. CASE Statement
  <2>1. disk' = disk /\ at' \in {"rows", "rollback"} /\ flush' = flush /\ at = "rows"
    BY <1>3, StatementStep DEF IInv, Connection, Carried
  <2>2. Committed <= Committed'
    BY <1>0, <2>1 DEF Committed
  <2> QED BY <1>0, <2>1, <2>2, DiskKept
<1>4. CASE Commit
  <2>1. Committed = flush - 1 /\ Committed' = flush
    BY <1>4 DEF Commit, Committed
  <2>2. \A t \in Tables, s \in Slots, f \in 1..flush : Content(t, s, f)' = Content(t, s, f)
    BY DEF Content
  <2>3. \A s \in Slots : \/ \A t \in Tables : RowsOf(disk, t, s) = {}
                         \/ \E f \in 1..(flush - 1) : \A t \in Tables : RowsOf(disk, t, s) = Content(t, s, f)
    BY <1>0, <2>1 DEF DiskWhole
  <2>4. \A f \in 1..(flush - 1) : f \in 1..flush
    BY <1>0
  <2>5. flush \in 1..flush
    BY <1>0, <1>4 DEF Commit
  <2>6. ASSUME NEW s \in Slots
        PROVE  \/ \A t \in Tables : RowsOf(disk, t, s)' = {}
               \/ \E f \in 1..flush : \A t \in Tables : RowsOf(disk, t, s)' = Content(t, s, f)
    <3>1. CASE s \in Elems(batch)
      BY <1>4, <2>5, <3>1, CommitRows
    <3>2. CASE s \notin Elems(batch)
      <4>1. \A t \in Tables : RowsOf(disk, t, s)' = RowsOf(disk, t, s)
        BY <1>4, <3>2, CommitRows
      <4> QED BY <2>3, <2>4, <4>1
    <3> QED BY <3>1, <3>2
  <2> QED BY <2>1, <2>2, <2>6 DEF DiskWhole
<1>5. CASE Rollback \/ NextSchedule \/ Done
  <2>1. disk' = disk /\ Committed <= Committed'
    BY <1>0, <1>5 DEF Rollback, NextSchedule, Done, Return, Committed
  <2> QED BY <1>0, <2>1, DiskKept
<1>6. CASE WriteStep
  <2>1. view = disk
    BY <1>6 DEF WriteStep, IInv, Connection
  <2>2. disk'.rows = disk.rows
    BY <1>0, <1>6, <2>1, StepWritten
  <2>3. Committed <= Committed'
    BY <1>0, <1>6 DEF WriteStep, Committed
  <2> QED BY <1>0, <2>2, <2>3, DiskKept
<1>7. CASE Fault \/ Panic \/ OtherFault \/ Reopen
  <2>1. disk' = disk /\ flush' = flush
    BY <1>7 DEF Fault, Panic, OtherFault, Reopen
  <2>2. at' \in {"begin", "rows", "rollback"} => at \in {"begin", "rows", "rollback"}
    BY <1>7 DEF Fault, Panic, OtherFault, Reopen, Return
  <2>3. Committed <= Committed'
    BY <1>0, <2>1, <2>2 DEF Committed
  <2> QED BY <1>0, <2>1, <2>3, DiskKept
<1>8. CASE UNCHANGED vars
  <2>1. disk' = disk /\ Committed <= Committed'
    BY <1>0, <1>8 DEF vars, Committed
  <2> QED BY <1>0, <2>1, DiskKept
<1> QED
  BY <1>1, <1>2, <1>3, <1>4, <1>5, <1>6, <1>7, <1>8 DEF Next, Progress

\* A flush starts at its first block.
LEMMA BeginsAtOnceStep ==
  ASSUME TypeOK, BeginsAtOnce, [Next]_vars
  PROVE  BeginsAtOnce'
<1> USE DEF BeginsAtOnce, dbVars, flushVars
<1>1. CASE \E b \in Batches : Start(b)
  BY <1>1 DEF Start
<1>2. CASE Begin \/ Commit \/ Rollback \/ WriteStep \/ NextSchedule \/ Done
  BY <1>2 DEF Begin, Commit, Rollback, WriteStep, NextSchedule, Done, Return
<1>3. CASE Statement
  <2>1. at = "rows"
    BY <1>3, StatementStep
  <2>2. at' \in {"rows", "rollback"}
    BY <1>3, <2>1, StatementStep DEF Carried
  <2> QED BY <2>2
<1>4. CASE Fault \/ Panic \/ OtherFault \/ Reopen
  BY <1>4 DEF Fault, Panic, OtherFault, Reopen, Return
<1>5. CASE UNCHANGED vars
  BY <1>5 DEF vars
<1> QED
  BY <1>1, <1>2, <1>3, <1>4, <1>5 DEF Next, Progress

\* The invariant is inductive.
LEMMA InvariantStep == IInv /\ [Next]_vars => IInv'
<1> SUFFICES ASSUME IInv, [Next]_vars
             PROVE  IInv'
  OBVIOUS
<1>1. TypeOK'
  BY TypeStep DEF IInv
<1> QED
  BY <1>1, BeginsAtOnceStep, ConnectionStep, NoOwnFailureStep, FlushedRowsStep, DiskWholeStep
     DEF IInv

\* It holds of the empty database.
LEMMA InvariantInit == Init => IInv
<1> SUFFICES ASSUME Init
             PROVE  IInv
  OBVIOUS
<1>1. TypeOK
  BY TypeInit
<1>2. \A t \in Tables, s \in Slots : RowsOf(disk, t, s) = {}
  BY DEF Init, Empty, RowsOf
<1> QED
  BY <1>1, <1>2 DEF Init, IInv, BeginsAtOnce, Connection, NoOwnFailure, FlushedRows, DiskWhole

\* It gives what the runs check.
LEMMA InvariantGives == IInv => SlotsWhole /\ NoOwnFailure
<1> SUFFICES ASSUME IInv
             PROVE  SlotsWhole
  BY DEF IInv
<1>1. Committed \in Int /\ flush \in Int /\ Committed <= flush
  BY DEF IInv, TypeOK, Committed
<1>2. 1..Committed \subseteq 1..flush
  BY <1>1
<1> QED
  BY <1>2 DEF IInv, DiskWhole, SlotsWhole

\* What is committed of a slot is everything one flush had of it, or nothing.
THEOREM SlotsStayWhole == Spec => []SlotsWhole
BY InvariantInit, InvariantStep, InvariantGives, PTL DEF Spec

\* A flush never fails by what an earlier flush left behind.
THEOREM NoFlushFailsItself == Spec => []NoOwnFailure
BY InvariantInit, InvariantStep, InvariantGives, PTL DEF Spec

-----------------------------------------------------------------------------
(* The refinement.                                                         *)

\* The steps inside the transaction: NULL in the rows written so far.
StepsNow ==
  at = "rows" =>
    \A s \in Slots : \A sig \in Rows["transactions"][s] :
      view.step[sig] = IF s \in WrittenSlots \/ (IsCurrent(s) /\ pc > DeleteAt["transactions"])
                       THEN NoStep ELSE disk.step[sig]

\* A signature is that of one slot.
LEMMA OneSlot ==
  ASSUME NEW s1 \in Slots, NEW s2 \in Slots, NEW sig \in Rows["transactions"][s1],
         sig \in Rows["transactions"][s2]
  PROVE  s1 = s2
BY FlushAssumption DEF Tables

\* A statement about transactions takes the steps of its slot away, another none.
LEMMA StatementSteps ==
  ASSUME IInv, StepsNow, Statement, Carried
  PROVE  StepsNow'
<1>1. /\ Slot \in Slots /\ at = "rows" /\ next \in 1..Len(batch)
      /\ pc \in 1..Len(Statements) /\ Stmt.op \in {"delete", "upsert", "append"}
  BY StatementStep DEF IInv
<1>2. Slot \notin WrittenSlots /\ IsCurrent(Slot) /\ Len(batch) \in Nat /\ Len(Statements) = 7
  BY <1>1, BatchType, StatementList DEF IInv, TypeOK, WrittenSlots, IsCurrent, Slot
<1>3. /\ UNCHANGED <<disk, batch, flush, at>>
      /\ \/ pc < 7 /\ pc' = pc + 1 /\ next' = next
         \/ pc = 7 /\ pc' = 1 /\ next' = next + 1
  BY <1>1, <1>2 DEF Carried, Advance, IInv, Connection
<1> SUFFICES ASSUME NEW s \in Slots, NEW sig \in Rows["transactions"][s]
             PROVE  view'.step[sig] =
                      IF s \in WrittenSlots' \/ (IsCurrent(s)' /\ pc' > 3) THEN NoStep ELSE disk.step[sig]
  BY <1>3 DEF StepsNow, DeleteAt
<1>4. view.step[sig] = IF s \in WrittenSlots \/ (IsCurrent(s) /\ pc > 3) THEN NoStep ELSE disk.step[sig]
  BY <1>1 DEF StepsNow, DeleteAt
<1>5. sig \in Sigs
  BY DEF Sigs
<1>6. view'.step[sig] = IF Stmt.table = "transactions" /\ s = Slot THEN NoStep ELSE view.step[sig]
  <2>1. view'.step = NullSteps(Stmt.table, Slot)
    BY DEF Carried
  <2>2. sig \in Rows["transactions"][Slot] <=> s = Slot
    BY <1>1, OneSlot
  <2> QED BY <1>5, <2>1, <2>2 DEF NullSteps
<1>7. Stmt.table = "transactions" => pc \in {3, 5}
  BY <1>1, StatementList DEF Stmt
<1>8. pc = 3 => Stmt.table = "transactions"
  BY StatementList DEF Stmt
<1>9. CASE s # Slot
  <2>1. ~IsCurrent(s)
    BY <1>9 DEF IsCurrent, Slot
  <2>2. CASE pc < 7
    <3>1. WrittenSlots' = WrittenSlots /\ ~IsCurrent(s)'
      BY <1>3, <2>1, <2>2 DEF WrittenSlots, IsCurrent
    <3> QED BY <1>4, <1>6, <1>9, <2>1, <3>1
  <2>3. CASE pc = 7
    <3>1. s \in WrittenSlots' <=> s \in WrittenSlots
      BY <1>1, <1>3, <1>9, <2>3 DEF WrittenSlots, Slot
    <3>2. ~(pc' > 3)
      BY <1>1, <1>3, <2>3
    <3> QED BY <1>4, <1>6, <1>9, <2>1, <3>1, <3>2
  <2> QED BY <1>3, <2>2, <2>3
<1>10. CASE s = Slot
  <2>1. CASE pc < 7
    <3>1. WrittenSlots' = WrittenSlots /\ IsCurrent(s)' /\ pc' = pc + 1
      BY <1>2, <1>3, <1>10, <2>1 DEF WrittenSlots, IsCurrent
    <3> QED BY <1>1, <1>2, <1>4, <1>6, <1>7, <1>8, <1>10, <3>1
  <2>2. CASE pc = 7
    <3>1. next \in 1..(next' - 1) /\ batch'[next] = s
      BY <1>1, <1>3, <1>10, <2>2 DEF Slot
    <3>2. s \in WrittenSlots'
      BY <3>1 DEF WrittenSlots
    <3> QED BY <1>2, <1>4, <1>6, <1>10, <2>2, <3>2
  <2> QED BY <1>3, <2>1, <2>2
<1> QED
  BY <1>9, <1>10

\* The description of the steps is kept.
LEMMA StepsNowStep ==
  ASSUME IInv, StepsNow, [Next]_vars
  PROVE  StepsNow'
<1> USE DEF dbVars, flushVars
<1>1. CASE \E b \in Batches : Start(b)
  BY <1>1 DEF Start, StepsNow
<1>2. CASE Begin
  <2>1. ~txn /\ view = disk /\ next = 1 /\ pc = 1
    BY <1>2 DEF Begin, IInv, Connection, BeginsAtOnce
  <2>2. UNCHANGED <<disk, view, batch, next, pc, flush>>
    BY <1>2, <2>1 DEF Begin
  <2>3. WrittenSlots' = {} /\ ~(pc' > DeleteAt["transactions"])
    BY <2>1, <2>2 DEF WrittenSlots, DeleteAt
  <2> QED BY <2>1, <2>2, <2>3 DEF StepsNow
<1>3. CASE Statement
  <2>1. CASE Carried
    BY <1>3, <2>1, StatementSteps
  <2>2. CASE at' = "rollback"
    BY <2>2 DEF StepsNow
  <2> QED BY <1>3, <2>1, <2>2, StatementStep DEF IInv
<1>4. CASE Commit \/ Rollback \/ WriteStep \/ NextSchedule \/ Done
  BY <1>4 DEF Commit, Rollback, WriteStep, NextSchedule, Done, Return, StepsNow
<1>5. CASE Fault \/ Panic \/ OtherFault \/ Reopen
  BY <1>5 DEF Fault, Panic, OtherFault, Reopen, Return, StepsNow
<1>6. CASE UNCHANGED vars
  BY <1>6 DEF vars, StepsNow, WrittenSlots, IsCurrent
<1> QED
  BY <1>1, <1>2, <1>3, <1>4, <1>5, <1>6 DEF Next, Progress

\* The version of a slot whose rows are those of one flush, or that has none.
LEMMA VersionOf ==
  ASSUME NEW s \in Slots
  PROVE  /\ (\A t \in Tables : RowsOf(disk, t, s) = {}) => Version(s) = {}
         /\ \A f \in Int : (\A t \in Tables : RowsOf(disk, t, s) = Content(t, s, f)) => Version(s) = {f}
<1>1. ASSUME NEW f \in Int, \A t \in Tables : RowsOf(disk, t, s) = Content(t, s, f)
      PROVE  Version(s) = {f}
  <2>1. \A t \in Tables : \A r \in RowsOf(disk, t, s) : r.by = f
    BY <1>1 DEF Content
  <2>2. [slot |-> s, key |-> s, by |-> f] \in RowsOf(disk, "blocks", s)
    <3>1. Rows["blocks"][s] = {s}
      BY FlushAssumption
    <3> QED BY <1>1, <3>1 DEF Content, Tables
  <2>3. "blocks" \in Tables
    BY DEF Tables
  <2> QED BY <2>1, <2>2, <2>3 DEF Version
<1> QED
  BY <1>1 DEF Version

\* A version is that of a flush that has committed; a slot with none has no rows.
LEMMA VersionRange ==
  ASSUME IInv, NEW s \in Slots
  PROVE  /\ \A v \in Version(s) : v \in 1..Committed
         /\ Version(s) = {} => \A t \in Tables : RowsOf(disk, t, s) = {}
<1>1. Committed \in Int /\ Committed >= 0
  BY DEF IInv, TypeOK, Committed
<1>2. CASE \A t \in Tables : RowsOf(disk, t, s) = {}
  <2>1. Version(s) = {}
    BY <1>2, VersionOf
  <2> QED BY <1>2, <2>1
<1>3. ASSUME NEW f \in 1..Committed, \A t \in Tables : RowsOf(disk, t, s) = Content(t, s, f)
      PROVE  Version(s) = {f}
  BY <1>3, VersionOf
<1> QED
  BY <1>2, <1>3 DEF IInv, DiskWhole

\* COMMIT is the replacement of the batch's slots.
LEMMA CommitReplaces ==
  ASSUME IInv, StepsNow, Commit
  PROVE  Abstract!Next
<1>1. flush \in 1..MaxFlushes /\ Committed = flush - 1 /\ at = "rows"
  BY FlushAssumption DEF Commit, IInv, TypeOK, Committed
<1>2. Elems(batch) \in SUBSET Slots
  BY BatchType DEF IInv, TypeOK, Elems
<1>3. \A s \in Slots : \A v \in Version(s) : v < flush
  BY <1>1, VersionRange
<1>4. \A s \in Slots : Version(s)' = IF s \in Elems(batch) THEN {flush} ELSE Version(s)
  <2> SUFFICES ASSUME NEW s \in Slots
               PROVE  Version(s)' = IF s \in Elems(batch) THEN {flush} ELSE Version(s)
    OBVIOUS
  <2>0. Version(s)' = UNION {{r.by : r \in RowsOf(disk, t, s)'} : t \in Tables}
    BY DEF Version
  <2>1. CASE s \in Elems(batch)
    <3>1. \A t \in Tables : RowsOf(disk, t, s)' = Content(t, s, flush)
      BY <2>1, CommitRows
    <3>2. \A t \in Tables : \A r \in RowsOf(disk, t, s)' : r.by = flush
      BY <3>1 DEF Content
    <3>3. [slot |-> s, key |-> s, by |-> flush] \in RowsOf(disk, "blocks", s)' /\ "blocks" \in Tables
      <4>1. Rows["blocks"][s] = {s}
        BY FlushAssumption
      <4> QED BY <3>1, <4>1 DEF Content, Tables
    <3> QED BY <2>0, <2>1, <3>2, <3>3
  <2>2. CASE s \notin Elems(batch)
    <3>1. \A t \in Tables : RowsOf(disk, t, s)' = RowsOf(disk, t, s)
      BY <2>2, CommitRows
    <3> QED BY <2>0, <2>2, <3>1 DEF Version
  <2> QED BY <2>1, <2>2
<1>5. next > Len(batch) /\ disk' = view
  BY DEF Commit
<1>6. WrittenSlots = Elems(batch) /\ \A s \in Slots : ~IsCurrent(s)
  <2>1. next = Len(batch) + 1 /\ Len(batch) \in Nat
    BY <1>5, BatchType DEF IInv, TypeOK
  <2> QED BY <2>1 DEF WrittenSlots, Elems, IsCurrent
<1>7. ASSUME NEW s \in Slots, NEW sig \in Rows["transactions"][s]
      PROVE  disk'.step[sig] = IF s \in Elems(batch) THEN NoStep ELSE disk.step[sig]
  BY <1>1, <1>5, <1>6, <1>7 DEF StepsNow
<1>8. {sig \in Sigs : disk'.step[sig] # NoStep}
        = {sig \in Sigs : disk.step[sig] # NoStep} \ UNION {Rows["transactions"][s] : s \in Elems(batch)}
  <2> SUFFICES ASSUME NEW sig \in Sigs
               PROVE  disk'.step[sig] # NoStep
                        <=> /\ disk.step[sig] # NoStep
                            /\ sig \notin UNION {Rows["transactions"][s] : s \in Elems(batch)}
    OBVIOUS
  <2>1. PICK s \in Slots : sig \in Rows["transactions"][s]
    BY DEF Sigs
  <2>2. sig \in UNION {Rows["transactions"][u] : u \in Elems(batch)} <=> s \in Elems(batch)
    BY <1>2, <2>1, OneSlot
  <2>3. disk'.step[sig] = IF s \in Elems(batch) THEN NoStep ELSE disk.step[sig]
    BY <1>7, <2>1
  <2> QED BY <2>2, <2>3
<1>9. Abstract!Replace(Elems(batch), flush)
  BY <1>3, <1>4, <1>8 DEF Abstract!Replace
<1> QED
  BY <1>1, <1>2, <1>9 DEF Abstract!Next, Abstract!Replace

\* An UPDATE writes the step of a transaction that is stored, or nothing.
LEMMA StepWrites ==
  ASSUME IInv, WriteStep
  PROVE  Abstract!Next \/ UNCHANGED Abstract!vars
<1> DEFINE sig == Order[Slot][pc]
<1>1. view = disk
  BY DEF WriteStep, IInv, Connection
<1>2. TypeOK /\ Slot \in Slots /\ sig \in Rows["transactions"][Slot] /\ disk'.rows = disk.rows
  BY <1>1, StepWritten DEF IInv
<1>3. \A s \in Slots : Version(s)' = Version(s)
  BY <1>2 DEF Version, RowsOf
<1>4. sig \in Sigs /\ StepOf[sig] \in Nat
  BY <1>2, FlushAssumption DEF Sigs
<1>5. CASE \E r \in view.rows["transactions"] : r.key = sig
  <2>1. PICK r \in disk.rows["transactions"] : r.key = sig
    BY <1>1, <1>5
  <2>2. r \in RowsOf(disk, "transactions", r.slot) /\ r.slot \in Slots
        /\ r.key \in Rows["transactions"][r.slot]
    BY <1>2, <2>1, StoreRows DEF TypeOK, Tables
  <2>3. r.slot = Slot
    BY <1>2, <2>1, <2>2, OneSlot
  <2>4. Version(Slot) # {}
    <3>1. "transactions" \in Tables
      BY DEF Tables
    <3> QED BY <1>2, <2>2, <2>3, <3>1, VersionRange
  <2>5. disk'.step = [disk.step EXCEPT ![sig] = StepOf[sig]]
    BY <1>1, <1>2, <1>5, StepWritten
  <2>6. {x \in Sigs : disk'.step[x] # NoStep} = {x \in Sigs : disk.step[x] # NoStep} \cup {sig}
    BY <1>2, <1>4, <2>5 DEF TypeOK, IsStore, NoStep
  <2>7. Abstract!WriteStep(Slot, sig)
    BY <1>2, <1>3, <2>4, <2>6 DEF Abstract!WriteStep
  <2> QED BY <1>2, <2>7 DEF Abstract!Next, Abstract!WriteStep
<1>6. CASE ~\E r \in view.rows["transactions"] : r.key = sig
  <2>1. disk'.step = disk.step
    BY <1>1, <1>2, <1>6, StepWritten
  <2> QED BY <1>3, <2>1 DEF Abstract!vars
<1> QED
  BY <1>5, <1>6

\* Every step is one of the atomic store's, or changes nothing of it.
LEMMA RefinementStep ==
  ASSUME IInv, StepsNow, [Next]_vars
  PROVE  Abstract!Next \/ UNCHANGED Abstract!vars
<1> USE DEF dbVars, flushVars
<1>1. disk' = disk => UNCHANGED Abstract!vars
  BY DEF Abstract!vars, Version, RowsOf
<1>2. CASE (\E b \in Batches : Start(b)) \/ Begin \/ Rollback \/ NextSchedule \/ Done
  BY <1>1, <1>2 DEF Start, Begin, Rollback, NextSchedule, Done
<1>3. CASE Statement
  <2>1. disk' = disk
    BY <1>3, StatementStep DEF IInv, Connection, Carried
  <2> QED BY <1>1, <2>1
<1>4. CASE Commit
  BY <1>4, CommitReplaces
<1>5. CASE WriteStep
  BY <1>5, StepWrites
<1>6. CASE Fault \/ Panic \/ OtherFault \/ Reopen
  BY <1>1, <1>6 DEF Fault, Panic, OtherFault, Reopen
<1>7. CASE UNCHANGED vars
  BY <1>1, <1>7 DEF vars
<1> QED
  BY <1>2, <1>3, <1>4, <1>5, <1>6, <1>7 DEF Next, Progress

\* The empty database is the empty store.
LEMMA RefinementInit == Init => Abstract!Init /\ StepsNow
<1> SUFFICES ASSUME Init
             PROVE  Abstract!Init
  BY DEF Init, StepsNow
<1>1. \A s \in Slots : Version(s) = {}
  BY DEF Init, Empty, Tables, Version, RowsOf
<1>2. {sig \in Sigs : disk.step[sig] # NoStep} = {}
  BY DEF Init, Empty
<1> QED
  BY <1>1, <1>2 DEF Abstract!Init

\* flush_parsed_batch implements the store that replaces the blocks of a batch at
\* once and then writes steps, whatever fails, panics or is killed.
THEOREM ImplementsStore == Spec => RefinesAtomicStore
<1>1. Init => IInv /\ StepsNow /\ Abstract!Init
  BY InvariantInit, RefinementInit
<1>2. IInv /\ StepsNow /\ [Next]_vars => IInv' /\ StepsNow' /\ [Abstract!Next]_Abstract!vars
  BY InvariantStep, StepsNowStep, RefinementStep
<1> QED
  BY <1>1, <1>2, PTL DEF Spec, RefinesAtomicStore, Abstract!Spec

-----------------------------------------------------------------------------
(* The server.                                                             *)

\* The steps of a process that goes on.
Running == (\E b \in Batches : Start(b)) \/ Progress \/ Fault \/ Panic \/ OtherFault

\* A step of the server is one of a process that goes on, or its end.
LEMMA ServerRuns ==
  ASSUME [ServerNext]_allVars, ~Exit
  PROVE  Running \/ UNCHANGED vars
<1>1. ASSUME NEW r \in Requests, Ask(r) \/ RequestStep(r)
      PROVE  UNCHANGED vars
  BY <1>1 DEF Ask, RequestStep, Health, GetThread, Lock, LockPoisoned, QueryOne, QueryDepth, QueryTop
<1>2. ASSUME NEW r \in Requests, QueryFails(r)
      PROVE  Running
  BY <1>2 DEF QueryFails, Running
<1>3. CASE Submit \/ GetThread(Ingest) \/ Lock(Ingest) \/ OtherJob \/ IngestPoisoned \/ Open
  BY <1>3 DEF Submit, GetThread, Lock, OtherJob, IngestPoisoned, Open
<1>4. CASE FlushStart \/ FlushStep
  BY <1>4 DEF FlushStart, FlushStep, Running
<1>5. CASE FlushFault \/ FlushPanics \/ OtherPanics
  BY <1>5 DEF FlushFault, FlushPanics, OtherPanics, Running
<1>6. CASE UNCHANGED allVars
  BY <1>6 DEF allVars
<1> QED
  BY <1>1, <1>2, <1>3, <1>4, <1>5, <1>6 DEF ServerNext, IngestStep

\* Every step of the server is one of the connection's, or leaves it alone.
LEMMA ServerStep == [ServerNext]_allVars => [Next]_vars
<1>1. Running \/ Exit => Next
  BY DEF Running, Exit, Next
<1> QED BY <1>1, ServerRuns

\* With clients asking and jobs running around it, the flush still implements the
\* atomic store.
THEOREM ServerImplementsStore == ServerSpec => RefinesAtomicStore
<1>1. ServerInit => Init
  BY DEF ServerInit
<1>2. ServerSpec => Spec
  BY <1>1, ServerStep, PTL DEF ServerSpec, Spec
<1> QED
  BY <1>2, ImplementsStore, PTL

\* So what the server has committed of a slot is whole.
THEOREM ServerSlotsStayWhole == ServerSpec => []SlotsWhole
<1>1. ServerInit => Init
  BY DEF ServerInit
<1> QED
  BY <1>1, ServerStep, SlotsStayWhole, PTL DEF ServerSpec, Spec

-----------------------------------------------------------------------------
(* The mutex.                                                              *)

Places == {"away", "queued", "thread", "locked", "second", "done", "dropped"}

\* Where each client is; one that is under way has asked.
Whereabouts == /\ where \in [Clients -> Places]
               /\ \A r \in Requests : where[r] # "away" => asked[r] # "nothing"
               /\ answer = [r \in Requests |-> answer[r]] /\ seen = [r \in Requests |-> seen[r]]
               /\ asked = [r \in Requests |-> asked[r]]

\* One client at most has the mutex, which is not poisoned then.
MutexHeld == /\ \A c, d \in Holders : c = d
             /\ Holders # {} => ~poisoned

\* A flush under way is the ingest's job, with the mutex held.
FlushHolds == at # "idle" => where[Ingest] = "locked" /\ job = "flush"

\* What the first statement of a contention query found is still so.
SeenIsCurrent == \A r \in Requests : where[r] = "second" => seen[r] = Depth(view, Window[r])

ServerInv == IInv /\ Whereabouts /\ MutexHeld /\ FlushHolds /\ SeenIsCurrent

\* A request that has the mutex sees what is committed.
LEMMA HolderSeesDisk ==
  ASSUME ServerInv, NEW r \in Requests, r \in Holders
  PROVE  at = "idle" /\ view = disk /\ ~txn /\ where[Ingest] \notin {"locked", "second"}
<1>1. r # Ingest /\ r \in Clients /\ Ingest \in Clients
  BY ApiAssumption DEF Ingest, Clients
<1>2. where[Ingest] \notin {"locked", "second"}
  BY <1>1 DEF ServerInv, MutexHeld, Holders
<1>3. at = "idle" /\ ~poisoned
  BY <1>2 DEF ServerInv, FlushHolds, MutexHeld
<1> QED
  BY <1>2, <1>3 DEF ServerInv, IInv, Connection

\* One client moves.
LEMMA OneMoves ==
  ASSUME where \in [Clients -> Places], NEW c \in Clients, NEW p \in Places,
         where' = [where EXCEPT ![c] = p]
  PROVE  /\ where' \in [Clients -> Places] /\ where'[c] = p
         /\ \A d \in Clients \ {c} : where'[d] = where[d]
         /\ Holders' = IF p \in {"locked", "second"} THEN Holders \cup {c} ELSE Holders \ {c}
BY DEF Holders

\* The memory of the clients keeps to its types.
LEMMA WhereaboutsStep ==
  ASSUME Whereabouts, [ServerNext]_allVars
  PROVE  Whereabouts'
<1> USE DEF Whereabouts, Places, Clients, Ingest
<1>0. "ingest" \notin Requests
  BY ApiAssumption
<1>1. ASSUME NEW r \in Requests, Ask(r)
      PROVE  Whereabouts'
  <2>1. PICK what \in Asks[r] : /\ asked' = [asked EXCEPT ![r] = what]
                                /\ where' = [where EXCEPT ![r] = IF what = "health" THEN @ ELSE "queued"]
    BY <1>1 DEF Ask
  <2>2. UNCHANGED <<answer, seen>> /\ where[r] = "away"
    BY <1>1 DEF Ask
  <2>3. PICK p \in {"away", "queued"} : where' = [where EXCEPT ![r] = p]
    BY <2>1, <2>2
  <2>4. where' \in [Clients -> Places] /\ \A q \in Requests : where'[q] # "away" => where[q] # "away" \/ q = r
    BY <2>3
  <2>5. what # "nothing"
    BY ApiAssumption
  <2> QED BY <2>1, <2>2, <2>4, <2>5
<1>2. ASSUME NEW r \in Requests, RequestStep(r) \/ QueryFails(r)
      PROVE  Whereabouts'
  <2>1. PICK p \in Places : /\ where' = [where EXCEPT ![r] = p]
                            /\ where[r] # "away" \/ asked[r] # "nothing"
    BY <1>2 DEF RequestStep, QueryFails, Health, GetThread, Lock, LockPoisoned, QueryOne, QueryDepth,
                QueryTop, Respond
  <2>2. asked' = asked
    BY <1>2 DEF RequestStep, QueryFails, Health, GetThread, Lock, LockPoisoned, QueryOne, QueryDepth,
                QueryTop
  <2>3. answer' = answer \/ \E a : answer' = [answer EXCEPT ![r] = a]
    BY <1>2 DEF RequestStep, QueryFails, Health, GetThread, Lock, LockPoisoned, QueryOne, QueryDepth,
                QueryTop, Respond
  <2>4. seen' = seen \/ \E n : seen' = [seen EXCEPT ![r] = n]
    BY <1>2 DEF RequestStep, QueryFails, Health, GetThread, Lock, LockPoisoned, QueryOne, QueryDepth,
                QueryTop
  <2>5. answer' = [q \in Requests |-> answer'[q]]
    BY <2>3
  <2>6. seen' = [q \in Requests |-> seen'[q]]
    BY <2>4
  <2>7. where' \in [Clients -> Places] /\ \A q \in Requests : where'[q] # "away" => asked[q] # "nothing"
    BY <2>1
  <2> QED BY <2>2, <2>5, <2>6, <2>7
<1>3. CASE Submit \/ IngestStep \/ FlushFault \/ FlushPanics \/ OtherPanics \/ Open
  <2>1. UNCHANGED <<asked, answer, seen>>
    BY <1>3 DEF Submit, IngestStep, GetThread, Lock, FlushStart, FlushStep, FlushFault, FlushPanics,
                OtherJob, OtherPanics, IngestPoisoned, Open
  <2>2. where' = where \/ \E p \in Places : where' = [where EXCEPT !["ingest"] = p]
    BY <1>3 DEF Submit, IngestStep, GetThread, Lock, FlushStart, FlushStep, FlushFault, FlushPanics,
                OtherJob, OtherPanics, IngestPoisoned, Open, Leave
  <2> QED BY <1>0, <2>1, <2>2
<1>4. CASE Exit
  BY <1>0, <1>4 DEF Exit
<1>5. CASE UNCHANGED allVars
  BY <1>5 DEF allVars, serverVars
<1> QED
  BY <1>1, <1>2, <1>3, <1>4, <1>5 DEF ServerNext

\* The holder of the mutex goes on or leaves it, or a client takes it when nobody
\* has it and it is not poisoned.
LEMMA HoldersMove ==
  ASSUME ServerInv, [ServerNext]_allVars
  PROVE  \/ Holders' = {}
         \/ Holders' = Holders /\ poisoned' = poisoned
         \/ Holders = {} /\ ~poisoned /\ poisoned' = poisoned /\ \E c \in Clients : Holders' = {c}
<1> USE DEF Places, Clients, Ingest
<1>0. "ingest" \notin Requests /\ where \in [Clients -> Places]
  BY ApiAssumption DEF ServerInv, Whereabouts
<1>1. ASSUME NEW c \in Clients, GetThread(c) \/ Lock(c)
      PROVE  \/ Holders' = Holders /\ poisoned' = poisoned
             \/ Holders = {} /\ ~poisoned /\ poisoned' = poisoned /\ Holders' = {c}
  <2>1. CASE GetThread(c)
    <3>1. where' = [where EXCEPT ![c] = "thread"] /\ where[c] = "queued" /\ poisoned' = poisoned
      BY <2>1 DEF GetThread, vars
    <3> QED BY <1>0, <3>1, OneMoves DEF Holders
  <2>2. CASE Lock(c)
    <3>1. where' = [where EXCEPT ![c] = "locked"] /\ Holders = {} /\ ~poisoned /\ poisoned' = poisoned
      BY <2>2 DEF Lock, vars
    <3>2. Holders' = Holders \cup {c}
      BY <1>0, <3>1, OneMoves
    <3> QED BY <3>1, <3>2
  <2> QED BY <1>1, <2>1, <2>2
<1>2. ASSUME NEW r \in Requests, Ask(r)
      PROVE  Holders' = Holders /\ poisoned' = poisoned
  <2>1. PICK what \in Asks[r] : where' = [where EXCEPT ![r] = IF what = "health" THEN @ ELSE "queued"]
    BY <1>2 DEF Ask
  <2>2. asked[r] = "nothing" /\ where[r] = "away" /\ poisoned' = poisoned
    BY <1>2 DEF Ask, vars, ServerInv, Whereabouts
  <2>3. PICK p \in {"away", "queued"} : where' = [where EXCEPT ![r] = p]
    BY <2>1, <2>2
  <2>4. Holders' = Holders \ {r}
    BY <1>0, <2>3, OneMoves
  <2> QED BY <2>2, <2>4 DEF Holders
<1>3. ASSUME NEW r \in Requests, Health(r) \/ LockPoisoned(r)
      PROVE  Holders' = Holders /\ poisoned' = poisoned
  <2>1. where' = [where EXCEPT ![r] = "done"] /\ where[r] \in {"away", "thread"} /\ poisoned' = poisoned
    BY <1>3 DEF Health, LockPoisoned, Respond, vars
  <2>2. Holders' = Holders \ {r}
    BY <1>0, <2>1, OneMoves
  <2> QED BY <2>1, <2>2 DEF Holders
<1>4. ASSUME NEW c \in Holders
      PROVE  Holders = {c}
  BY <1>4 DEF ServerInv, MutexHeld
<1>5. ASSUME NEW r \in Requests, QueryOne(r) \/ QueryTop(r) \/ QueryFails(r)
      PROVE  Holders' = {}
  <2>1. where' = [where EXCEPT ![r] = "done"] /\ r \in Holders
    BY <1>5 DEF QueryOne, QueryTop, QueryFails, Respond, Holders
  <2>2. Holders' = Holders \ {r}
    BY <1>0, <2>1, OneMoves
  <2> QED BY <1>4, <2>1, <2>2
<1>6. ASSUME NEW r \in Requests, QueryDepth(r)
      PROVE  Holders' = Holders /\ poisoned' = poisoned
  <2>1. where' = [where EXCEPT ![r] = "second"] /\ r \in Holders /\ poisoned' = poisoned
    BY <1>6 DEF QueryDepth, Holders, vars
  <2>2. Holders' = Holders \cup {r}
    BY <1>0, <2>1, OneMoves
  <2> QED BY <2>1, <2>2
<1>7. ASSUME NEW p \in Places \ {"locked", "second"}, where' = [where EXCEPT !["ingest"] = p],
             "ingest" \in Holders
      PROVE  Holders' = {}
  <2>1. Holders' = Holders \ {"ingest"}
    BY <1>0, <1>7, OneMoves
  <2> QED BY <1>4, <1>7, <2>1
<1>8. ASSUME NEW p \in Places \ {"locked", "second"}, where' = [where EXCEPT !["ingest"] = p],
             "ingest" \notin Holders
      PROVE  Holders' = Holders
  <2>1. Holders' = Holders \ {"ingest"}
    BY <1>0, <1>8, OneMoves
  <2> QED BY <1>8, <2>1
<1>9. CASE Submit
  <2>1. where' = [where EXCEPT !["ingest"] = "queued"] /\ poisoned' = poisoned
    BY <1>9 DEF Submit, vars
  <2> QED BY <1>7, <1>8, <2>1
<1>10. CASE FlushStart \/ Open
  BY <1>10 DEF FlushStart, Start, Open, Holders, vars
<1>11. CASE FlushStep \/ FlushFault
  <2>1. poisoned' = poisoned /\ at # "idle"
    BY <1>11, StatementStep DEF FlushStep, FlushFault, Fault, Progress, Begin, Commit, Rollback, WriteStep,
                NextSchedule, Done, Statement, Carried, ServerInv, IInv, DeleteRows, UpsertBlock,
                AppendRows, AtStatement
  <2>2. "ingest" \in Holders
    BY <2>1 DEF ServerInv, FlushHolds, Holders
  <2>3. where' = where \/ where' = [where EXCEPT !["ingest"] = "away"]
    BY <1>11 DEF FlushStep, FlushFault, Leave
  <2>4. CASE where' = where
    BY <2>1, <2>4 DEF Holders
  <2>5. CASE where' = [where EXCEPT !["ingest"] = "away"]
    BY <1>7, <2>2, <2>5
  <2> QED BY <2>3, <2>4, <2>5
<1>12. CASE FlushPanics \/ OtherPanics
  <2>1. where' = [where EXCEPT !["ingest"] = "away"]
    BY <1>12 DEF FlushPanics, OtherPanics, Leave
  <2>2. "ingest" \in Holders
    BY <1>12 DEF FlushPanics, OtherPanics, Panic, ServerInv, FlushHolds, Holders
  <2> QED BY <1>7, <2>1, <2>2
<1>13. CASE OtherJob \/ IngestPoisoned
  <2>1. where' = [where EXCEPT !["ingest"] = "away"] /\ poisoned' = poisoned
    BY <1>13 DEF OtherJob, IngestPoisoned, Leave, vars
  <2> QED BY <1>7, <1>8, <2>1
<1>14. CASE Exit
  <2>1. \A c \in Clients : where'[c] \notin {"locked", "second"}
    BY <1>0, <1>14 DEF Exit, ServerInv, Whereabouts
  <2> QED BY <2>1 DEF Holders
<1>15. CASE UNCHANGED allVars
  BY <1>15 DEF allVars, serverVars, vars, Holders
<1> QED
  BY <1>1, <1>2, <1>3, <1>5, <1>6, <1>9, <1>10, <1>11, <1>12, <1>13, <1>14, <1>15
     DEF ServerNext, RequestStep, IngestStep

\* The mutex is held by one, and by nobody once it is poisoned.
LEMMA MutexStep ==
  ASSUME ServerInv, [ServerNext]_allVars
  PROVE  MutexHeld'
<1>1. CASE Holders' = {}
  BY <1>1 DEF MutexHeld
<1>2. CASE Holders' = Holders /\ poisoned' = poisoned
  BY <1>2 DEF MutexHeld, ServerInv
<1>3. CASE ~poisoned /\ poisoned' = poisoned /\ \E c \in Clients : Holders' = {c}
  BY <1>3 DEF MutexHeld
<1> QED
  BY <1>1, <1>2, <1>3, HoldersMove

\* A step of flush_parsed_batch is the ingest's, with the mutex held.
LEMMA FlushHasMutex ==
  ASSUME ServerInv, FlushStep \/ FlushFault \/ FlushPanics
  PROVE  at # "idle" /\ Ingest \in Holders
<1>1. at # "idle"
  BY StatementStep DEF FlushStep, FlushFault, FlushPanics, Fault, Panic, Progress, Begin, Commit, Rollback,
     WriteStep, NextSchedule, Done, Statement, DeleteRows, UpsertBlock, AppendRows, AtStatement
<1> QED
  BY <1>1 DEF ServerInv, FlushHolds, Holders, Clients

\* A flush is under way only while the ingest has the mutex for it.
LEMMA FlushHoldsStep ==
  ASSUME ServerInv, [ServerNext]_allVars
  PROVE  FlushHolds'
<1> USE DEF FlushHolds, Clients
<1>0. Ingest \notin Requests /\ where \in [Clients -> Places] /\ FlushHolds
  BY ApiAssumption DEF ServerInv, Whereabouts, Ingest
<1>1. ASSUME NEW r \in Requests, Ask(r) \/ RequestStep(r) \/ QueryFails(r)
      PROVE  FlushHolds'
  <2>1. UNCHANGED <<at, job>>
    BY <1>1 DEF Ask, RequestStep, QueryFails, Health, GetThread, Lock, LockPoisoned, QueryOne, QueryDepth,
                QueryTop, OtherFault, vars, flushVars
  <2>2. where'[Ingest] = where[Ingest]
    BY <1>0, <1>1 DEF Ask, RequestStep, QueryFails, Health, GetThread, Lock, LockPoisoned, QueryOne,
                QueryDepth, QueryTop, Respond
  <2> QED BY <1>0, <2>1, <2>2
<1>2. CASE Submit \/ GetThread(Ingest) \/ Lock(Ingest) \/ OtherJob \/ IngestPoisoned \/ OtherPanics
  <2>1. at = "idle"
    BY <1>0, <1>2 DEF Submit, GetThread, Lock, OtherJob, IngestPoisoned, OtherPanics
  <2>2. at' = at
    BY <1>2 DEF Submit, GetThread, Lock, OtherJob, IngestPoisoned, OtherPanics, OtherFault, vars, flushVars
  <2> QED BY <2>1, <2>2
<1>3. CASE FlushStart
  BY <1>3 DEF FlushStart
<1>4. CASE FlushStep \/ FlushFault
  <2>1. at # "idle"
    BY <1>4, FlushHasMutex
  <2>2. at' # "idle" => UNCHANGED <<where, job>>
    BY <1>4 DEF FlushStep, FlushFault
  <2> QED BY <1>0, <2>1, <2>2
<1>5. CASE FlushPanics \/ Exit
  BY <1>5 DEF FlushPanics, Panic, Exit, Reopen, Return
<1>6. CASE Open
  BY <1>0, <1>6 DEF Open, vars, flushVars
<1>7. CASE UNCHANGED allVars
  BY <1>0, <1>7 DEF allVars, serverVars, vars, flushVars
<1> QED
  BY <1>1, <1>2, <1>3, <1>4, <1>5, <1>6, <1>7 DEF ServerNext, IngestStep

\* No flush gets in between the two statements of a contention query.
LEMMA SeenIsCurrentStep ==
  ASSUME ServerInv, [ServerNext]_allVars
  PROVE  SeenIsCurrent'
<1> USE DEF Clients
<1>0. /\ Ingest \notin Requests /\ where \in [Clients -> Places] /\ SeenIsCurrent
      /\ seen = [q \in Requests |-> seen[q]]
  BY ApiAssumption DEF ServerInv, Whereabouts, Ingest
<1> SUFFICES ASSUME NEW r \in Requests, where'[r] = "second"
             PROVE  seen'[r] = Depth(view', Window[r])
  BY DEF SeenIsCurrent
<1>1. where[r] = "second" => seen[r] = Depth(view, Window[r])
  BY <1>0 DEF SeenIsCurrent
<1>2. ASSUME NEW q \in Requests, Ask(q) \/ Health(q) \/ GetThread(q) \/ Lock(q) \/ LockPoisoned(q)
                                 \/ QueryOne(q) \/ QueryFails(q)
      PROVE  where[r] = "second" /\ seen' = seen /\ view' = view
  <2>1. seen' = seen /\ view' = view
    BY <1>2 DEF Ask, Health, GetThread, Lock, LockPoisoned, QueryOne, QueryFails, OtherFault, vars, dbVars
  <2>2. \/ \E p \in {"done", "thread", "locked", "queued"} : where' = [where EXCEPT ![q] = p]
        \/ where' = [where EXCEPT ![q] = where[q]]
    BY <1>2 DEF Ask, Health, GetThread, Lock, LockPoisoned, QueryOne, QueryFails, Respond
  <2>3. where[r] = "second"
    BY <1>0, <2>2
  <2> QED BY <2>1, <2>3
<1>3. ASSUME NEW q \in Requests, QueryDepth(q)
      PROVE  view' = view /\ (IF q = r THEN seen'[r] = Depth(view, Window[r])
                              ELSE where[r] = "second" /\ seen'[r] = seen[r])
  <2>1. view' = view /\ seen' = [seen EXCEPT ![q] = Depth(view, Window[q])]
        /\ where' = [where EXCEPT ![q] = "second"]
    BY <1>3 DEF QueryDepth, vars, dbVars
  <2> QED BY <1>0, <2>1
<1>4. ASSUME NEW q \in Requests, QueryTop(q)
      PROVE  view' = view /\ where[r] = "second" /\ seen'[r] = seen[r]
  <2>1. view' = view /\ seen' = [seen EXCEPT ![q] = 0] /\ where' = [where EXCEPT ![q] = "done"]
    BY <1>4 DEF QueryTop, Respond, vars, dbVars
  <2> QED BY <1>0, <2>1
<1>5. CASE Submit \/ GetThread(Ingest) \/ Lock(Ingest) \/ FlushStart \/ OtherJob \/ IngestPoisoned
           \/ OtherPanics \/ Open
  <2>1. seen' = seen /\ view' = view
    BY <1>5 DEF Submit, GetThread, Lock, FlushStart, Start, OtherJob, IngestPoisoned, OtherPanics,
                OtherFault, Open, vars, dbVars
  <2>2. where' = where \/ \E p \in Places : where' = [where EXCEPT ![Ingest] = p]
    BY <1>5 DEF Submit, GetThread, Lock, FlushStart, OtherJob, IngestPoisoned, OtherPanics, Open, Leave,
                Places
  <2>3. where[r] = "second"
    BY <1>0, <2>2
  <2> QED BY <1>1, <2>1, <2>3
<1>6. CASE FlushStep \/ FlushFault \/ FlushPanics
  <2>1. Ingest \in Holders
    BY <1>6, FlushHasMutex
  <2>2. where[r] # "second"
    BY <1>0, <2>1 DEF ServerInv, MutexHeld, Holders
  <2>3. where' = where \/ where' = [where EXCEPT ![Ingest] = "away"]
    BY <1>6 DEF FlushStep, FlushFault, FlushPanics, Leave
  <2> QED BY <1>0, <2>2, <2>3
<1>7. CASE Exit
  <2>1. where'[r] # "second"
    BY <1>0, <1>7 DEF Exit, ServerInv, Whereabouts
  <2> QED BY <2>1
<1>8. CASE UNCHANGED allVars
  BY <1>1, <1>8 DEF allVars, serverVars, vars, dbVars
<1> QED
  BY <1>1, <1>2, <1>3, <1>4, <1>5, <1>6, <1>7, <1>8 DEF ServerNext, RequestStep, IngestStep

\* The server's invariant is inductive.
LEMMA ServerInvStep == ServerInv /\ [ServerNext]_allVars => ServerInv'
<1> SUFFICES ASSUME ServerInv, [ServerNext]_allVars
             PROVE  ServerInv'
  OBVIOUS
<1>1. IInv'
  BY ServerStep, InvariantStep DEF ServerInv
<1>2. Whereabouts'
  BY WhereaboutsStep DEF ServerInv
<1> QED
  BY <1>1, <1>2, MutexStep, FlushHoldsStep, SeenIsCurrentStep DEF ServerInv

\* It holds when the server starts.
LEMMA ServerInvInit == ServerInit => ServerInv
<1> SUFFICES ASSUME ServerInit
             PROVE  ServerInv
  OBVIOUS
<1>1. IInv /\ at = "idle"
  BY InvariantInit DEF ServerInit, Init
<1>2. Holders = {}
  BY DEF ServerInit, Holders
<1>3. Whereabouts /\ SeenIsCurrent
  BY DEF ServerInit, Whereabouts, SeenIsCurrent, Places, Clients
<1> QED
  BY <1>1, <1>2, <1>3 DEF ServerInv, MutexHeld, FlushHolds

\* A contention response is the summary of what is committed when it is given.
LEMMA CurrentAnswer ==
  ASSUME ServerInv, [ServerNext]_allVars, NEW r \in Requests,
         answer'[r] # answer[r], answer'[r].kind = "contention"
  PROVE  answer'[r] = Summary(disk, Window[r])
<1>0. answer = [q \in Requests |-> answer[q]]
  BY DEF ServerInv, Whereabouts
<1>1. \E q \in Requests : Health(q) \/ LockPoisoned(q) \/ QueryOne(q) \/ QueryTop(q) \/ QueryFails(q)
  BY DEF ServerNext, RequestStep, IngestStep, Ask, GetThread, Lock, QueryDepth, Submit, FlushStart, FlushStep,
         FlushFault, FlushPanics, OtherJob, OtherPanics, IngestPoisoned, Exit, Open, allVars, serverVars
<1>2. PICK q \in Requests : Health(q) \/ LockPoisoned(q) \/ QueryOne(q) \/ QueryTop(q) \/ QueryFails(q)
  BY <1>1
<1>3. CASE Health(q) \/ LockPoisoned(q) \/ QueryOne(q) \/ QueryFails(q)
  <2>1. answer' = [answer EXCEPT ![q] = Ok] \/ answer' = [answer EXCEPT ![q] = Answer500]
    BY <1>3 DEF Health, LockPoisoned, QueryOne, QueryFails, Respond
  <2>2. q = r
    BY <1>0, <2>1
  <2> QED BY <1>0, <2>1, <2>2 DEF Ok, Answer500
<1>4. CASE QueryTop(q)
  <2>1. answer' = [answer EXCEPT ![q] = [kind |-> "contention", depth |-> seen[q], top |-> Top(view, Window[q])]]
    BY <1>4 DEF QueryTop, Respond
  <2>2. q = r
    BY <1>0, <2>1
  <2>3. where[r] = "second" /\ r \in Holders
    BY <1>4, <2>2 DEF QueryTop, Holders, Clients
  <2>4. view = disk /\ seen[r] = Depth(disk, Window[r])
    BY <2>3, HolderSeesDisk DEF ServerInv, SeenIsCurrent
  <2> QED BY <1>0, <2>1, <2>2, <2>4 DEF Summary
<1> QED
  BY <1>2, <1>3, <1>4

\* Whatever clients ask and whatever fails, an answer is current and never shows
\* what was not committed.
THEOREM ContentionAnswersAreCurrent == ServerSpec => AnswersAreCurrent
<1>1. ServerInv /\ [ServerNext]_allVars
        => [\A r \in Requests : answer'[r] # answer[r] /\ answer'[r].kind = "contention" =>
              answer'[r] = Summary(disk, Window[r])]_allVars
  BY CurrentAnswer
<1> QED
  BY <1>1, ServerInvInit, ServerInvStep, PTL DEF ServerSpec, AnswersAreCurrent

-----------------------------------------------------------------------------
(* The schedule a reader sees.                                             *)

\* The transactions of the flush under way whose step is still to be written.
Unstepped ==
  CASE at = "rows" -> UNION {Rows["transactions"][s] : s \in Elems(batch)}
    [] at = "steps" -> {sig \in Sigs :
                          \E j \in next..Len(batch) : \E i \in 1..Len(Order[batch[j]]) :
                            sig = Order[batch[j]][i] /\ (j = next => i >= pc)}
    [] OTHER -> {}

\* As long as nothing has gone wrong, every other transaction has its step.
Scheduled ==
  faults = 0 => /\ at # "rollback"
                /\ \A r \in view.rows["transactions"] :
                     view.step[r.key] = StepOf[r.key] \/ r.key \in Unstepped

\* A row of transactions is one of its slot's.
LEMMA TransactionRow ==
  ASSUME IInv, NEW r \in view.rows["transactions"]
  PROVE  r.slot \in Slots /\ r.key \in Rows["transactions"][r.slot] /\ r.key \in Sigs
<1>1. "transactions" \in Tables /\ IsStore(view)
  BY DEF Tables, IInv, TypeOK
<1>2. r.slot \in Slots /\ r.key \in Rows["transactions"][r.slot]
  BY <1>1, StoreRows
<1> QED BY <1>2 DEF Sigs

\* A statement touches the steps of its own block only.
LEMMA ScheduledStatement ==
  ASSUME IInv, IInv', Scheduled, Statement
  PROVE  Scheduled'
<1>1. /\ at = "rows" /\ next \in 1..Len(batch) /\ Slot \in Slots
      /\ Stmt.table \in Tables /\ Stmt.op \in {"delete", "upsert", "append"}
  BY StatementStep DEF IInv
<1>2. CASE Carried
  <2>1. UNCHANGED <<at, batch, faults>>
    BY <1>2 DEF Carried
  <2>2. Unstepped' = Unstepped
    BY <1>1, <2>1 DEF Unstepped
  <2>3. Rows["transactions"][Slot] \subseteq Unstepped
    BY <1>1 DEF Unstepped, Slot, Elems
  <2>4. view'.step = NullSteps(Stmt.table, Slot)
    BY <1>2 DEF Carried
  <2>5. ASSUME faults = 0, NEW r \in view'.rows["transactions"]
        PROVE  view'.step[r.key] = StepOf[r.key] \/ r.key \in Unstepped
    <3>1. CASE r.key \in Rows["transactions"][Slot]
      BY <2>3, <3>1
    <3>2. CASE r.key \notin Rows["transactions"][Slot]
      <4>1. r \in view.rows["transactions"]
        <5>1. view'.rows = [view.rows EXCEPT ![Stmt.table] = Written(Stmt.op, Stmt.table, Slot)]
          BY <1>2 DEF Carried
        <5>2. DOMAIN view.rows = Tables
          BY DEF IInv, TypeOK, IsStore
        <5>3. CASE Stmt.table = "transactions"
          <6>1. r \in Written(Stmt.op, "transactions", Slot)
            BY <1>1, <5>1, <5>2, <5>3
          <6>2. r \notin Content("transactions", Slot, flush)
            BY <3>2 DEF Content
          <6> QED BY <1>1, <6>1, <6>2 DEF Written, Without
        <5>4. CASE Stmt.table # "transactions"
          BY <5>1, <5>2, <5>4 DEF Tables
        <5> QED BY <5>3, <5>4
      <4>2. r.key \in Sigs
        BY <4>1, TransactionRow
      <4>3. view'.step[r.key] = view.step[r.key]
        BY <2>4, <3>2, <4>2 DEF NullSteps
      <4> QED BY <2>5, <4>1, <4>3 DEF Scheduled
    <3> QED BY <3>1, <3>2
  <2> QED BY <1>1, <2>1, <2>2, <2>5 DEF Scheduled
<1>3. CASE error' = "key"
  BY <1>3 DEF IInv, NoOwnFailure
<1> QED BY <1>2, <1>3, StatementStep DEF IInv

\* COMMIT: the steps of the batch, and of no other block, are to be written.
LEMMA ScheduledCommit ==
  ASSUME IInv, Scheduled, Commit
  PROVE  Scheduled'
<1>1. /\ at = "rows" /\ at' = "steps" /\ next' = 1 /\ pc' = 1
      /\ UNCHANGED <<view, batch, faults>>
  BY DEF Commit
<1>2. ASSUME NEW sig \in Unstepped
      PROVE  sig \in Unstepped'
  <2>1. PICK s \in Elems(batch) : sig \in Rows["transactions"][s]
    BY <1>1, <1>2 DEF Unstepped
  <2>2. PICK j \in 1..Len(batch) : s = batch[j]
    BY <2>1 DEF Elems
  <2>3. s \in Slots
    BY <2>2, BatchType DEF IInv, TypeOK
  <2>4. PICK i \in 1..Len(Order[s]) : sig = Order[s][i]
    BY <2>1, <2>3, ScheduleAssumption
  <2>5. Len(Order[s]) \in Nat /\ i >= 1
    BY <2>3, <2>4, FlushAssumption, LenProperties
  <2>6. sig \in Sigs
    BY <2>1, <2>3 DEF Sigs
  <2> QED BY <1>1, <2>2, <2>4, <2>5, <2>6 DEF Unstepped
<1> QED BY <1>1, <1>2 DEF Scheduled

\* An UPDATE writes the next step.
LEMMA ScheduledWrite ==
  ASSUME IInv, Scheduled, WriteStep
  PROVE  Scheduled'
<1>1. /\ at = "steps" /\ pc' = pc + 1 /\ pc \in Nat
      /\ UNCHANGED <<at, batch, next, faults>>
  BY DEF WriteStep, IInv, TypeOK
<1> DEFINE sig == Order[Slot][pc]
<1>2. /\ view'.rows = view.rows
      /\ view'.step = IF \E r \in view.rows["transactions"] : r.key = sig
                      THEN [view.step EXCEPT ![sig] = StepOf[sig]] ELSE view.step
  BY StepWritten DEF IInv
<1>3. view.step \in [Sigs -> Nat \cup {NoStep}]
  BY DEF IInv, TypeOK, IsStore
<1>4. ASSUME NEW x \in Unstepped
      PROVE  x \in Unstepped' \/ x = sig
  <2>0. PICK j \in next..Len(batch) : \E i \in 1..Len(Order[batch[j]]) :
          x = Order[batch[j]][i] /\ (j = next => i >= pc)
    BY <1>1, <1>4 DEF Unstepped
  <2>1. PICK i \in 1..Len(Order[batch[j]]) :
          x = Order[batch[j]][i] /\ (j = next => i >= pc)
    BY <2>0
  <2>2. x \in Sigs
    BY <1>1, <1>4 DEF Unstepped
  <2>3. CASE j = next /\ i = pc
    BY <2>1, <2>3 DEF Slot
  <2>4. CASE ~(j = next /\ i = pc)
    <3>1. j = next => i >= pc + 1
      BY <1>1, <2>1, <2>4
    <3>2. x \in Unstepped'
      BY <1>1, <2>1, <2>2, <3>1 DEF Unstepped
    <3> QED BY <3>2
  <2> QED BY <2>3, <2>4
<1> HIDE DEF sig
<1>5. ASSUME faults = 0, NEW r \in view'.rows["transactions"]
      PROVE  view'.step[r.key] = StepOf[r.key] \/ r.key \in Unstepped'
  <2>1. r \in view.rows["transactions"] /\ r.key \in Sigs
    BY <1>2, <1>5, TransactionRow
  <2>2. CASE r.key = sig
    BY <1>2, <1>3, <2>1, <2>2
  <2>3. CASE r.key # sig
    <3>1. view'.step[r.key] = view.step[r.key]
      BY <1>2, <1>3, <2>1, <2>3
    <3> QED BY <1>4, <1>5, <2>1, <2>3, <3>1 DEF Scheduled
  <2> QED BY <2>2, <2>3
<1> QED BY <1>1, <1>5 DEF Scheduled

\* No step of a process that goes on leaves a block without its schedule.
LEMMA ScheduledStep ==
  ASSUME IInv, IInv', Scheduled, Running \/ UNCHANGED vars
  PROVE  Scheduled'
<1> USE DEF dbVars, flushVars
<1>1. CASE \E b \in Batches : Start(b)
  BY <1>1 DEF Start, Scheduled, Unstepped
<1>2. CASE Begin
  <2>1. error' # "nested"
    BY DEF IInv, NoOwnFailure
  <2>2. /\ at = "begin" /\ at' = "rows" /\ UNCHANGED <<view, faults>>
    BY <1>2, <2>1 DEF Begin
  <2>3. Unstepped = {}
    BY <2>2 DEF Unstepped
  <2> QED BY <2>2, <2>3 DEF Scheduled
<1>3. CASE Rollback
  BY <1>3 DEF Rollback, Scheduled
<1>4. CASE NextSchedule
  <2>1. /\ at = "steps" /\ next' = next + 1 /\ pc' = 1 /\ pc > Len(Order[Slot])
        /\ next \in Nat /\ next <= Len(batch) /\ pc \in Nat
        /\ UNCHANGED <<view, at, batch, faults>>
    BY <1>4 DEF NextSchedule, IInv, TypeOK
  <2>2. Slot \in Slots /\ Len(batch) \in Nat
    BY <2>1, BatchType DEF IInv, TypeOK, Slot
  <2>3. ASSUME NEW x \in Unstepped
        PROVE  x \in Unstepped'
    <3>0. PICK j \in next..Len(batch) : \E i \in 1..Len(Order[batch[j]]) :
            x = Order[batch[j]][i] /\ (j = next => i >= pc)
      BY <2>1, <2>3 DEF Unstepped
    <3>1. PICK i \in 1..Len(Order[batch[j]]) :
            x = Order[batch[j]][i] /\ (j = next => i >= pc)
      BY <3>0
    <3>2. x \in Sigs /\ Len(Order[Slot]) \in Nat
      BY <2>1, <2>2, <2>3, FlushAssumption, LenProperties DEF Unstepped
    <3>3. j # next
      BY <2>1, <3>1, <3>2 DEF Slot
    <3>4. j \in (next + 1)..Len(batch)
      BY <2>1, <2>2, <3>1, <3>3
    <3>5. i >= 1
      BY <3>1
    <3> QED BY <2>1, <3>1, <3>2, <3>4, <3>5 DEF Unstepped
  <2> QED BY <2>1, <2>3 DEF Scheduled
<1>5. CASE Done
  <2>1. /\ at = "steps" /\ at' = "idle" /\ next > Len(batch) /\ UNCHANGED <<view, faults>>
    BY <1>5 DEF Done, Return
  <2>2. next \in Nat /\ Len(batch) \in Nat
    BY BatchType DEF IInv, TypeOK
  <2>3. next..Len(batch) = {}
    BY <2>1, <2>2
  <2>4. Unstepped = {}
    BY <2>1, <2>3 DEF Unstepped
  <2> QED BY <2>1, <2>4 DEF Scheduled
<1>6. CASE Fault \/ Panic \/ OtherFault
  <2>1. faults' = faults + 1
    BY <1>6 DEF Fault, Panic, OtherFault
  <2>2. faults \in Nat
    BY DEF IInv, TypeOK
  <2>3. faults' # 0
    BY <2>1, <2>2
  <2> QED BY <2>3 DEF Scheduled
<1>7. CASE UNCHANGED vars
  BY <1>7 DEF vars, Scheduled, Unstepped
<1> QED
  BY <1>1, <1>2, <1>3, <1>4, <1>5, <1>6, <1>7, ScheduledStatement, ScheduledCommit, ScheduledWrite
     DEF Running, Progress

\* Where a client can be while the process is down.
Idle == {"away", "done", "dropped"}

\* A process that is down has no client under way; the first one that is up finds
\* every block scheduled unless something failed.
FirstRun == /\ run \in Nat \ {0}
            /\ process = "down" => \A c \in Clients : where[c] \in Idle
            /\ run = 1 /\ process # "down" => Scheduled

\* It stays so.
LEMMA FirstRunStep ==
  ASSUME ServerInv, ServerInv', FirstRun, [ServerNext]_allVars
  PROVE  FirstRun'
<1> USE DEF Clients
<1>1. CASE Exit
  <2>1. run' = run /\ process' = "down"
    BY <1>1 DEF Exit
  <2>2. ASSUME NEW c \in Clients
        PROVE  where'[c] \in Idle
    BY <1>1, <2>2 DEF Exit, Idle, ServerInv, Whereabouts
  <2> QED BY <2>1, <2>2 DEF FirstRun
<1>2. CASE Open
  <2>1. run' = run + 1 /\ run \in Nat \ {0} /\ process' # "down"
    BY <1>2 DEF Open, FirstRun
  <2> QED BY <2>1 DEF FirstRun
<1>3. CASE ~Exit /\ ~Open
  <2>1. run' = run /\ process' = process
    BY <1>3 DEF ServerNext, Ask, RequestStep, QueryFails, Health, GetThread, Lock, LockPoisoned, QueryOne,
                QueryDepth, QueryTop, Submit, IngestStep, FlushStart, FlushStep, FlushFault, FlushPanics,
                OtherJob, OtherPanics, IngestPoisoned, allVars, serverVars
  <2>2. process # "down" /\ run = 1 => Scheduled'
    BY <1>3, ServerRuns, ScheduledStep DEF FirstRun, ServerInv
  <2>3. ASSUME process = "down", NEW c \in Clients
        PROVE  where'[c] \in Idle
    <3>1. \A d \in Clients : where[d] \in Idle
      BY <2>3 DEF FirstRun
    <3>2. at = "idle"
      BY <3>1 DEF ServerInv, FlushHolds, Idle
    <3>3. ~FlushStep /\ ~FlushFault /\ ~FlushPanics
      BY <3>2, FlushHasMutex
    <3>4. where' = where
      BY <1>3, <2>3, <3>1, <3>3
         DEF ServerNext, Ask, RequestStep, QueryFails, Health, GetThread, Lock, LockPoisoned, QueryOne,
             QueryDepth, QueryTop, Submit, IngestStep, FlushStart, OtherJob, OtherPanics, IngestPoisoned,
             allVars, serverVars, Idle
    <3> QED BY <3>1, <3>4
  <2> QED BY <2>1, <2>2, <2>3 DEF FirstRun
<1> QED BY <1>1, <1>2, <1>3

\* It is so at the start, with nothing stored.
LEMMA FirstRunInit == ServerInit => FirstRun
<1> SUFFICES ASSUME ServerInit PROVE FirstRun
  OBVIOUS
<1>1. view.rows["transactions"] = {} /\ at = "idle"
  BY DEF ServerInit, Init, Empty, Tables
<1> QED BY <1>1 DEF ServerInit, FirstRun, Scheduled

\* A reader has the mutex, so no flush is under way.
LEMMA SchedulesSeen == ServerInv /\ FirstRun => ReadersSeeSchedules
<1> SUFFICES ASSUME ServerInv, FirstRun, Holders \cap Requests # {}, faults = 0, run = 1,
                    NEW t \in view.rows["transactions"]
             PROVE  view.step[t.key] = StepOf[t.key]
  BY DEF ReadersSeeSchedules
<1>1. PICK r \in Requests : r \in Holders
  OBVIOUS
<1>2. at = "idle"
  BY <1>1, HolderSeesDisk
<1>3. process # "down"
  BY <1>1 DEF FirstRun, Holders, Idle, Clients
<1>4. Unstepped = {}
  BY <1>2 DEF Unstepped
<1> QED BY <1>3, <1>4 DEF FirstRun, Scheduled

\* As long as nothing has gone wrong in the first run, a query meets no block
\* whose schedule is still to be written: flush_parsed_batch keeps the mutex from
\* BEGIN to its last UPDATE, and steps every transaction it has inserted.
THEOREM SchedulesAreSeen == ServerSpec => []ReadersSeeSchedules
<1>1. ServerInit => ServerInv /\ FirstRun
  BY ServerInvInit, FirstRunInit
<1>2. ServerInv /\ FirstRun /\ [ServerNext]_allVars => (ServerInv /\ FirstRun)'
  BY ServerInvStep, FirstRunStep
<1> QED BY <1>1, <1>2, SchedulesSeen, PTL DEF ServerSpec
===============================================================================
