----------------------------- MODULE Contention -----------------------------
(***************************************************************************)
(* build_schedule (crates/contention/src/lib.rs): one pass over a block's  *)
(* transactions that keeps, for every account, the step of its last write  *)
(* and the steps of the reads since, and gives each transaction the        *)
(* earliest step those allow.  The loop body is one action; the final      *)
(* depth and widths are another.                                           *)
(*                                                                         *)
(* A transaction is its two sets of locked accounts: the loops over        *)
(* tx.locks touch each account once, so their order does not matter.  The  *)
(* Vec of reader steps is a set: only its maximum and emptiness are used.  *)
(***************************************************************************)
EXTENDS Integers, Sequences, FiniteSetsExt

CONSTANTS Accounts,   \* the accounts a block may lock
          Blocks      \* the blocks build_schedule is called with

VARIABLES txs,        \* the argument: the block in execution order
          steps,      \* steps[i] is the step of txs[i], for those scheduled
          lastWrite,  \* AccountState.last_write_step, NoStep for None
          readers,    \* AccountState.reader_steps_since_write
          conflicts,  \* the ConflictEvents pushed so far
          result      \* NoResult, then the depth and widths returned

vars == <<txs, steps, lastWrite, readers, conflicts, result>>

NoStep == -1
NoResult == [depth |-> NoStep, width |-> <<>>]

Schedule == INSTANCE OrderPreservingSchedule

ASSUME BlocksAssumption == \A b \in Blocks : b \in Seq(Schedule!TxLocks)

-----------------------------------------------------------------------------
\* What a lock has to come after: a write after the last write and the reads
\* since, a read after the last write only.
WriteStep(a) == {lastWrite[a]} \ {NoStep}

\* Mutants: a writer forgets the readers, a reader waits for readers, a reader
\* does not wait for the writer.
BlockingStepsNoReaders(tx) == UNION {WriteStep(a) : a \in tx.writes \cup tx.reads}

BlockingStepsReadsConflict(tx) ==
  UNION {WriteStep(a) \cup readers[a] : a \in tx.writes \cup tx.reads}

BlockingStepsReadersPass(tx) == UNION {WriteStep(a) \cup readers[a] : a \in tx.writes}

BlockingSteps(tx) == (UNION {WriteStep(a) : a \in tx.writes \cup tx.reads})
                       \cup (UNION {readers[a] : a \in tx.writes})

EarliestStep(tx) == Max({0} \cup {b + 1 : b \in BlockingSteps(tx)})

\* Mutant: only earlier writes count.
HadPriorWrite(a) == lastWrite[a] # NoStep

HadPriorActivity(a) == lastWrite[a] # NoStep \/ readers[a] # {}

\* Only a write lock pushes an event.
NewConflicts(i, s) ==
  {[account |-> a, tx |-> i, step |-> s] : a \in {b \in txs[i].writes : HadPriorActivity(b)}}

\* A write makes a fresh account state; a read adds its step.
\* Mutant: only the last read is kept.
LastReaderOnly(tx, s) == [a \in Accounts |-> IF a \in tx.writes THEN {}
                                             ELSE IF a \in tx.reads THEN {s}
                                             ELSE readers[a]]

ReadersAfter(tx, s) == [a \in Accounts |-> IF a \in tx.writes THEN {}
                                           ELSE IF a \in tx.reads THEN readers[a] \cup {s}
                                           ELSE readers[a]]

Init == /\ txs \in Blocks
        /\ steps = <<>>
        /\ lastWrite = [a \in Accounts |-> NoStep]
        /\ readers = [a \in Accounts |-> {}]
        /\ conflicts = {}
        /\ result = NoResult

\* One iteration of the loop over txs.
ScheduleTx ==
  /\ Len(steps) < Len(txs)
  /\ LET i  == Len(steps) + 1
         tx == txs[i]
         s  == EarliestStep(tx)
     IN /\ steps' = Append(steps, s)
        /\ conflicts' = conflicts \cup NewConflicts(i, s)
        /\ lastWrite' = [a \in Accounts |-> IF a \in tx.writes THEN s ELSE lastWrite[a]]
        /\ readers' = ReadersAfter(tx, s)
  /\ UNCHANGED <<txs, result>>

\* The number of transactions of each step that has one.
WidthPerStep == [s \in Range(steps) |-> Cardinality({i \in DOMAIN steps : steps[i] = s})]

\* Mutant: the last step, not the number of steps.
DepthAsLastStep == IF steps = <<>> THEN 0 ELSE Max(Range(steps))

Depth == IF steps = <<>> THEN 0 ELSE Max(Range(steps)) + 1

Finish ==
  /\ Len(steps) = Len(txs)
  /\ result = NoResult
  /\ result' = [depth |-> Depth, width |-> WidthPerStep]
  /\ UNCHANGED <<txs, steps, lastWrite, readers, conflicts>>

Next == ScheduleTx \/ Finish

Spec == Init /\ [][Next]_vars

-----------------------------------------------------------------------------
Done == 1..Len(steps)

\* Steps are natural numbers, given to a prefix of the block, and the account
\* states hold steps.
TypeOK == /\ txs \in Seq(Schedule!TxLocks)
          /\ steps \in Seq(Nat) /\ Len(steps) <= Len(txs)
          /\ lastWrite \in [Accounts -> Nat \cup {NoStep}]
          /\ readers \in [Accounts -> SUBSET Nat]
          /\ conflicts \subseteq [account : Accounts, tx : Nat, step : Nat]

\* The account state is an exact summary of the transactions scheduled so far:
\* what it holds is the step of one of them, and what it forgets is covered by
\* a later write.  OrderPreserving and NoIdleWait rest on it.
AccountStateExact ==
  \A a \in Accounts :
    /\ lastWrite[a] # NoStep =>
         \E p \in Done : a \in txs[p].writes /\ steps[p] = lastWrite[a]
    /\ \A r \in readers[a] : \E p \in Done : a \in txs[p].reads /\ steps[p] = r
    /\ \A p \in Done :
         /\ a \in txs[p].writes => steps[p] <= lastWrite[a]
         /\ a \in txs[p].reads => steps[p] \in readers[a] \/ steps[p] < lastWrite[a]

\* A transaction can wait for earlier ones only: its step is at most their
\* number, whatever the block locks.
StepsBounded == \A p \in Done : steps[p] < p

\* A transaction starts only after every earlier transaction it conflicts
\* with: keeping one write step and the later readers per account forgets
\* nothing that matters (the module comment of lib.rs, lines 8-10).
OrderPreserving ==
  \A p, q \in Done :
    p < q /\ Schedule!Conflict(txs[p], txs[q]) => steps[p] < steps[q]

\* No transaction waits for nothing: one that does not run at step 0 runs
\* directly after an earlier transaction it conflicts with.
NoIdleWait ==
  \A q \in Done : steps[q] = 0 \/ \E p \in 1..(q - 1) :
                     /\ Schedule!Conflict(txs[p], txs[q])
                     /\ steps[p] = steps[q] - 1

\* A chain is a set of transactions in which each conflicts with the next.
IsChain(C) == \A p, q \in C :
                p < q /\ (\A r \in C : ~(p < r /\ r < q)) => Schedule!Conflict(txs[p], txs[q])

\* The depth returned is the length of the longest chain of conflicting
\* transactions: the least depth any order-preserving schedule can have, and
\* the widths returned cover exactly the steps below it, each with a
\* transaction, and every transaction once.
DepthIsLongestChain ==
  result # NoResult =>
    /\ result.depth = Max({Cardinality(C) : C \in {D \in SUBSET Done : IsChain(D)}})
    /\ DOMAIN result.width = 0..(result.depth - 1)
    /\ SumFunction(result.width) = Len(txs)

\* A write lock is reported as a conflict exactly when an earlier transaction
\* of the block locked the account, with the step the writer was given, which
\* is after the step of all of those: resetting the readers on a write loses
\* no report.
WriteConflictsReported ==
  \A q \in Done, a \in Accounts :
    LET earlier == {p \in 1..(q - 1) : a \in Schedule!Locked(txs[p])} IN
    /\ [account |-> a, tx |-> q, step |-> steps[q]] \in conflicts
         <=> a \in txs[q].writes /\ earlier # {}
    /\ \A e \in conflicts :
         e.tx = q /\ e.account = a =>
            e.step = steps[q] /\ \A p \in earlier : steps[p] < e.step

\* build_schedule gives the steps that the definition of an order-preserving
\* schedule, which looks at all earlier transactions, gives.
RefinesSchedule == Schedule!Spec
=============================================================================
