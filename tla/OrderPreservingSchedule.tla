----------------------- MODULE OrderPreservingSchedule -----------------------
(***************************************************************************)
(* What crates/contention promises about one block, without the per        *)
(* account bookkeeping build_schedule does it with: transactions are taken *)
(* in block order and each one is given the first step after every earlier *)
(* transaction it conflicts with.                                          *)
(***************************************************************************)
EXTENDS Integers, Sequences

CONSTANT Accounts    \* the accounts a block may lock

VARIABLES txs,       \* the block, in execution order
          steps      \* the steps given to the transactions seen so far

vars == <<txs, steps>>

\* A transaction holds a write lock or a read lock on an account, never both.
TxLocks == {t \in [writes : SUBSET Accounts, reads : SUBSET Accounts] :
              t.writes \cap t.reads = {}}

Locked(t) == t.writes \cup t.reads

\* "Two reads of the same account never conflict.  A write conflicts with
\* any read or write on the same account."
ConflictOn(a, t, u) == /\ a \in Locked(t) \cap Locked(u)
                       /\ a \in t.writes \cup u.writes

Conflict(t, u) == \E a \in Accounts : ConflictOn(a, t, u)

\* The steps of the scheduled transactions that conflict with transaction t.
ConflictingSteps(t) == {steps[p] : p \in {q \in 1..Len(steps) : Conflict(txs[q], t)}}

-----------------------------------------------------------------------------
Init == /\ txs \in Seq(TxLocks)
        /\ steps = <<>>

\* s is the first step after all the transactions that block t.
IsFirstFree(s, t) == /\ \A b \in ConflictingSteps(t) : b < s
                     /\ s = 0 \/ s - 1 \in ConflictingSteps(t)

ScheduleNext == /\ Len(steps) < Len(txs)
                /\ \E s \in 0..Len(steps) :
                     /\ IsFirstFree(s, txs[Len(steps) + 1])
                     /\ steps' = Append(steps, s)
                /\ UNCHANGED txs

Spec == Init /\ [][ScheduleNext]_vars
=============================================================================
