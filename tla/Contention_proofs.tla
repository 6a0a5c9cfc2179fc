-------------------------- MODULE Contention_proofs --------------------------
(***************************************************************************)
(* Proofs about build_schedule for blocks of any length over any accounts: *)
(* the schedule is order preserving, leaves no idle step, and is the one   *)
(* the abstract schedule gives; the conflicts of writes are reported; and  *)
(* the depth is the length of the longest chain of conflicts.              *)
(***************************************************************************)
EXTENDS Contention, SequenceTheorems, FiniteSetTheorems, TLAPS

\* The largest element of a non-empty, bounded set of naturals exists, so Max,
\* the loop of lib.rs that folds cur.max(r), is that element.
LEMMA MaxOfBounded ==
  ASSUME NEW S \in SUBSET Nat, NEW n \in Nat, S # {}, \A x \in S : x <= n
  PROVE  Max(S) \in S /\ \A x \in S : x <= Max(S)
<1> DEFINE T == {n - x : x \in S}
<1>1. T \subseteq Nat /\ T # {}
  <2>1. ASSUME NEW x \in S PROVE n - x \in Nat
    <3>1. x \in Nat /\ x <= n  OBVIOUS
    <3> QED BY <3>1
  <2>2. T \subseteq Nat
    BY <2>1
  <2>3. PICK x \in S : TRUE
    OBVIOUS
  <2>4. n - x \in T
    OBVIOUS
  <2> QED BY <2>2, <2>4
<1> DEFINE R == OpToRel(<, Nat)
<1>2. PICK t \in T : \A u \in T : ~ (<<u, t>> \in R)
  <2> HIDE DEF R, T
  <2>1. IsWellFoundedOn(R, Nat)
    BY NatLessThanWellFounded DEF R
  <2> QED BY <1>1, <2>1, WFMin
<1>3. \A u \in T : ~ (u < t)
  BY <1>1, <1>2 DEF OpToRel
<1>4. PICK x \in S : t = n - x
  BY <1>2
<1>5. \A y \in S : x >= y
  BY <1>3, <1>4
<1> QED
  BY <1>4, <1>5 DEF Max

\* What an iteration of the loop keeps: the properties wanted, and the account
\* state that summarises the transactions before it.
IInv == /\ TypeOK
        /\ AccountStateExact
        /\ StepsBounded
        /\ OrderPreserving
        /\ NoIdleWait

\* The steps a transaction is blocked by are steps of earlier transactions, so
\* EarliestStep is defined and at most the number of them.
LEMMA EarliestStepMax ==
  ASSUME TypeOK, AccountStateExact, StepsBounded, Len(steps) < Len(txs)
  PROVE  LET tx == txs[Len(steps) + 1]
             S  == {0} \cup {b + 1 : b \in BlockingSteps(tx)}
         IN /\ BlockingSteps(tx) \subseteq Nat
            /\ EarliestStep(tx) \in 0..Len(steps)
            /\ EarliestStep(tx) \in S
            /\ \A x \in S : x <= EarliestStep(tx)
<1> DEFINE tx == txs[Len(steps) + 1]
           B == BlockingSteps(tx)
           S == {0} \cup {b + 1 : b \in B}
<1>1. Len(steps) \in Nat /\ Len(txs) \in Nat /\ tx \in Schedule!TxLocks
  BY LenProperties, ElementOfSeq DEF TypeOK
<1>2. tx.writes \subseteq Accounts /\ tx.reads \subseteq Accounts
  BY <1>1 DEF Schedule!TxLocks
<1>3. ASSUME NEW b \in B PROVE b \in Nat /\ b < Len(steps)
  <2>1. PICK a \in Accounts : b \in WriteStep(a) \/ b \in readers[a]
    BY <1>2 DEF BlockingSteps
  <2>2. PICK p \in Done : steps[p] = b
    BY <2>1 DEF AccountStateExact, WriteStep, TypeOK
  <2>3. p \in Nat /\ p <= Len(steps) /\ steps[p] \in Nat /\ steps[p] < p
    BY <1>1, ElementOfSeq DEF StepsBounded, Done, TypeOK
  <2> QED BY <1>1, <2>2, <2>3
<1> HIDE DEF B
<1>4. S \in SUBSET Nat /\ S # {} /\ \A x \in S : x <= Len(steps)
  BY <1>1, <1>3
<1>5. Max(S) \in S /\ \A x \in S : x <= Max(S)
  <2> HIDE DEF S
  <2> QED BY <1>1, <1>4, MaxOfBounded
<1>6. EarliestStep(tx) = Max(S)
  BY DEF EarliestStep, B
<1>7. Max(S) \in 0..Len(steps)
  BY <1>1, <1>4, <1>5
<1> QED
  BY <1>3, <1>5, <1>6, <1>7 DEF B


\* Looking at the last write and the reads since is as good as looking at all
\* earlier transactions: EarliestStep is the first free step.
LEMMA EarliestIsFirstFree ==
  ASSUME TypeOK, AccountStateExact, StepsBounded, Len(steps) < Len(txs)
  PROVE  LET tx == txs[Len(steps) + 1]
         IN Schedule!IsFirstFree(EarliestStep(tx), tx)
<1> DEFINE tx == txs[Len(steps) + 1]
           E == EarliestStep(tx)
<1>1. /\ BlockingSteps(tx) \subseteq Nat
      /\ E \in Nat
      /\ E \in {0} \cup {b + 1 : b \in BlockingSteps(tx)}
      /\ \A x \in {0} \cup {b + 1 : b \in BlockingSteps(tx)} : x <= E
  BY EarliestStepMax, LenProperties DEF TypeOK
<1>2. /\ Len(steps) \in Nat /\ Len(txs) \in Nat
      /\ tx.writes \subseteq Accounts /\ tx.reads \subseteq Accounts
      /\ \A p \in Done : steps[p] \in Nat
  BY LenProperties, ElementOfSeq DEF TypeOK, Schedule!TxLocks, Done
<1>3. \A b \in BlockingSteps(tx) : b < E
  BY <1>1
<1>4. ASSUME NEW p \in Done, Schedule!Conflict(txs[p], tx)
      PROVE  steps[p] < E
  <2>1. PICK a \in Accounts : /\ a \in tx.writes \cup tx.reads
                              /\ a \in txs[p].writes \cup txs[p].reads
                              /\ a \in txs[p].writes \cup tx.writes
    BY <1>4 DEF Schedule!Conflict, Schedule!ConflictOn, Schedule!Locked
  <2>2. lastWrite[a] \in Nat \cup {NoStep} /\ steps[p] \in Nat
    BY <1>2 DEF TypeOK
  <2>3. lastWrite[a] # NoStep => lastWrite[a] \in BlockingSteps(tx)
    BY <2>1 DEF BlockingSteps, WriteStep
  <2>4. steps[p] <= lastWrite[a] => steps[p] < E
    BY <1>1, <1>3, <2>2, <2>3 DEF NoStep
  <2>5. CASE a \in txs[p].writes
    BY <2>4, <2>5 DEF AccountStateExact
  <2>6. CASE a \in txs[p].reads /\ a \in tx.writes
    <3>1. steps[p] \in readers[a] \/ steps[p] < lastWrite[a]
      BY <2>6 DEF AccountStateExact
    <3>2. CASE steps[p] \in readers[a]
      BY <1>3, <2>6, <3>2 DEF BlockingSteps
    <3>3. CASE steps[p] < lastWrite[a]
      BY <2>2, <2>4, <3>3 DEF NoStep
    <3> QED BY <3>1, <3>2, <3>3
  <2> QED BY <2>1, <2>5, <2>6
<1>5. ASSUME NEW b \in BlockingSteps(tx)
      PROVE  \E p \in Done : Schedule!Conflict(txs[p], tx) /\ steps[p] = b
  <2>1. CASE \E a \in tx.writes \cup tx.reads : b \in WriteStep(a)
    <3>1. PICK a \in tx.writes \cup tx.reads : b = lastWrite[a] /\ b # NoStep
      BY <2>1 DEF WriteStep
    <3>2. PICK p \in Done : a \in txs[p].writes /\ steps[p] = b
      BY <1>2, <3>1 DEF AccountStateExact
    <3> QED
      BY <1>2, <3>1, <3>2 DEF Schedule!Conflict, Schedule!ConflictOn, Schedule!Locked
  <2>2. CASE \E a \in tx.writes : b \in readers[a]
    <3>1. PICK a \in tx.writes : b \in readers[a]
      BY <2>2
    <3>2. PICK p \in Done : a \in txs[p].reads /\ steps[p] = b
      BY <1>2, <3>1 DEF AccountStateExact
    <3> QED
      BY <1>2, <3>1, <3>2 DEF Schedule!Conflict, Schedule!ConflictOn, Schedule!Locked
  <2> QED
    BY <1>5, <2>1, <2>2 DEF BlockingSteps
<1>6. \A b \in Schedule!ConflictingSteps(tx) : b < E
  BY <1>4 DEF Schedule!ConflictingSteps, Done
<1>7. E = 0 \/ E - 1 \in Schedule!ConflictingSteps(tx)
  <2>1. CASE E = 0
    BY <2>1
  <2>2. CASE \E b \in BlockingSteps(tx) : E = b + 1
    <3>1. PICK b \in BlockingSteps(tx) : E = b + 1
      BY <2>2
    <3>2. b \in Nat /\ E - 1 = b
      BY <1>1, <3>1
    <3>3. b \in Schedule!ConflictingSteps(tx)
      BY <1>5 DEF Schedule!ConflictingSteps, Done
    <3> QED BY <3>2, <3>3
  <2> QED BY <1>1, <2>1, <2>2
<1> QED
  BY <1>6, <1>7 DEF Schedule!IsFirstFree

-----------------------------------------------------------------------------
\* build_schedule starts with no account touched: the invariant holds.
LEMMA InitIInv == Init => IInv
<1> SUFFICES ASSUME Init PROVE IInv
  OBVIOUS
<1>1. steps \in Seq(Nat) /\ Len(steps) = 0 /\ Done = {}
  BY EmptySeq DEF Init, Done
<1>2. txs \in Seq(Schedule!TxLocks) /\ Len(txs) \in Nat
  BY BlocksAssumption, LenProperties DEF Init
<1>3. TypeOK
  BY <1>1, <1>2 DEF Init, TypeOK, NoStep
<1>4. AccountStateExact
  BY <1>1 DEF Init, AccountStateExact
<1> QED
  BY <1>1, <1>3, <1>4 DEF IInv, StepsBounded, OrderPreserving, NoIdleWait

\* One iteration of the loop keeps the invariant.
LEMMA ScheduleTxIInv == IInv /\ ScheduleTx => IInv'
<1> SUFFICES ASSUME IInv, ScheduleTx PROVE IInv'
  OBVIOUS
<1> DEFINE n  == Len(steps)
           tx == txs[n + 1]
           s  == EarliestStep(tx)
<1> USE DEF IInv
<1>1. /\ n \in Nat /\ n < Len(txs) /\ Len(txs) \in Nat
      /\ tx \in Schedule!TxLocks
      /\ tx.writes \in SUBSET Accounts /\ tx.reads \in SUBSET Accounts
      /\ tx.writes \cap tx.reads = {}
  BY LenProperties, ElementOfSeq DEF TypeOK, ScheduleTx, ReadersAfter, Schedule!TxLocks
<1>2. s \in Nat /\ s <= n
  BY <1>1, EarliestStepMax
<1>3. /\ \A b \in Schedule!ConflictingSteps(tx) : b < s
      /\ s = 0 \/ s - 1 \in Schedule!ConflictingSteps(tx)
  BY <1>1, EarliestIsFirstFree DEF Schedule!IsFirstFree
<1>4. /\ steps' = Append(steps, s)
      /\ conflicts' = conflicts \cup NewConflicts(n + 1, s)
      /\ lastWrite' = [a \in Accounts |-> IF a \in tx.writes THEN s ELSE lastWrite[a]]
      /\ readers' = [a \in Accounts |-> IF a \in tx.writes THEN {}
                                        ELSE IF a \in tx.reads THEN readers[a] \cup {s}
                                        ELSE readers[a]]
      /\ txs' = txs /\ result' = result
  BY DEF ScheduleTx, ReadersAfter
<1> HIDE DEF s, tx
<1>5. /\ steps' \in Seq(Nat) /\ Len(steps') = n + 1
      /\ \A p \in 1..n : steps'[p] = steps[p]
      /\ steps'[n + 1] = s
      /\ Done' = 1..(n + 1) /\ Done = 1..n
      /\ \A p \in Done : steps[p] \in Nat
  <2>1. steps \in Seq(Nat)
    BY DEF TypeOK
  <2> QED
    BY <1>1, <1>2, <1>4, <2>1, AppendProperties, ElementOfSeq DEF Done
<1>6. TypeOK'
  <2>1. NewConflicts(n + 1, s) \subseteq [account : Accounts, tx : Nat, step : Nat]
    BY <1>1, <1>2 DEF NewConflicts, tx
  <2>2. conflicts' \subseteq [account : Accounts, tx : Nat, step : Nat]
    BY <1>4, <2>1 DEF TypeOK
  <2>3. lastWrite' \in [Accounts -> Nat \cup {NoStep}]
    BY <1>2, <1>4 DEF TypeOK
  <2>4. readers' \in [Accounts -> SUBSET Nat]
    BY <1>2, <1>4 DEF TypeOK
  <2> QED
    BY <1>1, <1>4, <1>5, <2>2, <2>3, <2>4 DEF TypeOK
<1>7. \A p \in 1..n : Schedule!Conflict(txs[p], tx) => steps[p] < s
  BY <1>3, <1>5 DEF Schedule!ConflictingSteps
<1>8. StepsBounded'
  BY <1>1, <1>2, <1>5 DEF StepsBounded
<1>9. OrderPreserving'
  <2> SUFFICES ASSUME NEW p \in 1..(n + 1), NEW q \in 1..(n + 1),
                      p < q, Schedule!Conflict(txs[p], txs[q])
               PROVE  steps'[p] < steps'[q]
    BY <1>4, <1>5 DEF OrderPreserving, Schedule!Conflict, Schedule!ConflictOn, Schedule!Locked
  <2>1. CASE q = n + 1
    BY <1>1, <1>5, <1>7, <2>1 DEF tx
  <2>2. CASE q \in 1..n
    BY <1>1, <1>5, <2>2 DEF OrderPreserving
  <2> QED BY <1>1, <2>1, <2>2
<1>10. NoIdleWait'
  <2> SUFFICES ASSUME NEW q \in 1..(n + 1), steps'[q] # 0
               PROVE  \E p \in 1..(q - 1) : /\ Schedule!Conflict(txs[p], txs[q])
                                            /\ steps'[p] = steps'[q] - 1
    BY <1>4, <1>5 DEF NoIdleWait, Schedule!Conflict, Schedule!ConflictOn, Schedule!Locked
  <2>1. CASE q = n + 1
    <3>1. PICK p \in 1..n : Schedule!Conflict(txs[p], tx) /\ s - 1 = steps[p]
      BY <1>3, <1>5, <2>1 DEF Schedule!ConflictingSteps
    <3> QED BY <1>1, <1>5, <2>1, <3>1 DEF tx
  <2>2. CASE q \in 1..n
    <3>1. PICK p \in 1..(q - 1) : Schedule!Conflict(txs[p], txs[q]) /\ steps[p] = steps[q] - 1
      BY <1>5, <2>2 DEF NoIdleWait
    <3>2. q \in Nat /\ p \in 1..n /\ p < q
      BY <1>1, <2>2
    <3>3. steps'[p] = steps[p] /\ steps'[q] = steps[q]
      BY <1>5, <2>2, <3>2
    <3> QED BY <3>1, <3>3
  <2> QED BY <1>1, <2>1, <2>2
<1>11. AccountStateExact'
  <2> SUFFICES ASSUME NEW a \in Accounts
               PROVE  /\ lastWrite'[a] # NoStep =>
                           \E p \in 1..(n + 1) : a \in txs[p].writes /\ steps'[p] = lastWrite'[a]
                      /\ \A r \in readers'[a] :
                           \E p \in 1..(n + 1) : a \in txs[p].reads /\ steps'[p] = r
                      /\ \A p \in 1..(n + 1) :
                           /\ a \in txs[p].writes => steps'[p] <= lastWrite'[a]
                           /\ a \in txs[p].reads =>
                                steps'[p] \in readers'[a] \/ steps'[p] < lastWrite'[a]
    <3>1. txs' = txs /\ Done' = 1..(n + 1)
      BY <1>4, <1>5
    <3> HIDE DEF n
    <3> QED BY <3>1 DEF AccountStateExact, NoStep
  <2>1. /\ lastWrite[a] # NoStep =>
             \E p \in 1..n : a \in txs[p].writes /\ steps[p] = lastWrite[a]
        /\ \A r \in readers[a] : \E p \in 1..n : a \in txs[p].reads /\ steps[p] = r
        /\ \A p \in 1..n :
             /\ a \in txs[p].writes => steps[p] <= lastWrite[a]
             /\ a \in txs[p].reads => steps[p] \in readers[a] \/ steps[p] < lastWrite[a]
    BY <1>5 DEF AccountStateExact
  <2>2. 1..n \subseteq 1..(n + 1) /\ n + 1 \in 1..(n + 1) /\ 1..(n + 1) = 1..n \cup {n + 1}
    BY <1>1
  <2>3. CASE a \in tx.writes
    <3>1. lastWrite'[a] = s /\ readers'[a] = {} /\ a \notin tx.reads
      BY <1>1, <1>4, <2>3
    <3>2. ASSUME NEW p \in 1..n, a \in txs[p].writes \cup txs[p].reads
          PROVE  steps[p] < s
      BY <1>7, <2>3, <3>2 DEF Schedule!Conflict, Schedule!ConflictOn, Schedule!Locked
    <3>3. ASSUME NEW p \in 1..n
          PROVE  a \in txs[p].writes \cup txs[p].reads => steps'[p] < s /\ steps'[p] <= s
      BY <1>2, <1>5, <3>2
    <3>4. s <= s /\ steps'[n + 1] = s
      BY <1>2, <1>5
    <3> QED
      BY <2>2, <2>3, <3>1, <3>3, <3>4 DEF tx
  <2>4. CASE a \in tx.reads
    <3>1. lastWrite'[a] = lastWrite[a] /\ readers'[a] = readers[a] \cup {s} /\ a \notin tx.writes
      BY <1>1, <1>4, <2>4
    <3> QED
      BY <1>5, <2>1, <2>2, <2>4, <3>1 DEF tx
  <2>5. CASE a \notin tx.writes \cup tx.reads
    <3>1. lastWrite'[a] = lastWrite[a] /\ readers'[a] = readers[a]
      BY <1>4, <2>5
    <3> QED
      BY <1>5, <2>1, <2>2, <2>5, <3>1 DEF tx
  <2> QED BY <2>3, <2>4, <2>5
<1> QED
  BY <1>6, <1>8, <1>9, <1>10, <1>11

\* The final pass over the steps changes nothing the invariant speaks of.
LEMMA OtherIInv == IInv /\ (Finish \/ UNCHANGED vars) => IInv'
<1> SUFFICES ASSUME IInv, Finish \/ UNCHANGED vars PROVE IInv'
  OBVIOUS
<1>1. UNCHANGED <<txs, steps, lastWrite, readers, conflicts>>
  BY DEF Finish, vars
<1> QED
  BY <1>1 DEF IInv, TypeOK, AccountStateExact, StepsBounded, OrderPreserving, NoIdleWait, Done,
              Schedule!Conflict, Schedule!ConflictOn, Schedule!Locked

\* IInv is an invariant of build_schedule: its state stays well typed, and it
\* is an exact summary of the transactions scheduled.
THEOREM Invariance == Spec => []IInv
<1>1. Init => IInv
  BY InitIInv
<1>2. IInv /\ [Next]_vars => IInv'
  BY ScheduleTxIInv, OtherIInv DEF Next
<1> QED BY <1>1, <1>2, PTL DEF Spec

\* build_schedule's state stays well typed.
THEOREM TypeCorrect == Spec => []TypeOK
<1>1. IInv => TypeOK
  BY DEF IInv
<1> QED BY <1>1, Invariance, PTL

\* The account states summarise the scheduled prefix exactly (AccountState,
\* lib.rs lines 69-76), for every block.
THEOREM AccountStateIsExact == Spec => []AccountStateExact
<1>1. IInv => AccountStateExact
  BY DEF IInv
<1> QED BY <1>1, Invariance, PTL

\* Whatever the block, no transaction is scheduled before or beside an
\* earlier one it conflicts with.
THEOREM OrderIsPreserved == Spec => []OrderPreserving
<1>1. IInv => OrderPreserving
  BY DEF IInv
<1> QED BY <1>1, Invariance, PTL

\* Whatever the block, a transaction that does not run at once directly
\* follows an earlier one it conflicts with.
THEOREM NothingWaitsIdly == Spec => []NoIdleWait
<1>1. IInv => NoIdleWait
  BY DEF IInv
<1> QED BY <1>1, Invariance, PTL

\* build_schedule implements the abstract schedule: the bookkeeping per
\* account gives every transaction of every block the step the definition does.
THEOREM ImplementsSchedule == Spec => RefinesSchedule
<1>1. Init => Schedule!Init
  BY BlocksAssumption DEF Init, Schedule!Init
<1>2. IInv /\ [Next]_vars => [Schedule!ScheduleNext]_Schedule!vars
  <2> SUFFICES ASSUME IInv, [Next]_vars
               PROVE  [Schedule!ScheduleNext]_Schedule!vars
    OBVIOUS
  <2>1. CASE ScheduleTx
    <3> DEFINE tx == txs[Len(steps) + 1]
    <3>1. Len(steps) < Len(txs) /\ steps' = Append(steps, EarliestStep(tx)) /\ txs' = txs
      BY <2>1 DEF ScheduleTx, ReadersAfter
    <3>2. EarliestStep(tx) \in 0..Len(steps)
      BY <3>1, EarliestStepMax DEF IInv
    <3>3. Schedule!IsFirstFree(EarliestStep(tx), tx)
      BY <3>1, EarliestIsFirstFree DEF IInv
    <3> QED
      BY <3>1, <3>2, <3>3 DEF Schedule!ScheduleNext
  <2>2. CASE Finish
    BY <2>2 DEF Finish, Schedule!vars
  <2>3. CASE UNCHANGED vars
    BY <2>3 DEF vars, Schedule!vars
  <2> QED BY <2>1, <2>2, <2>3 DEF Next
<1> QED
  BY <1>1, <1>2, Invariance, PTL DEF Spec, RefinesSchedule, Schedule!Spec

-----------------------------------------------------------------------------
\* The transactions before the q-th that lock an account.
Earlier(q, a) == {p \in 1..(q - 1) : a \in Schedule!Locked(txs[p])}

\* The report of the q-th transaction's write lock.
Report(q, a) == [account |-> a, tx |-> q, step |-> steps[q]]

\* The events pushed are the reports of the write locks that came second, and
\* no other: what WriteConflictsReported says, in a form an iteration keeps.
ConflictsExact ==
  \A e : e \in conflicts <=>
           \E q \in Done : \E a \in txs[q].writes : Earlier(q, a) # {} /\ e = Report(q, a)

\* Resetting the readers on a write loses no activity: an account has some
\* exactly when a transaction already scheduled locked it.
LEMMA ActivityIsAnEarlierLock ==
  ASSUME TypeOK, AccountStateExact, NEW a \in Accounts
  PROVE  HadPriorActivity(a) <=> \E p \in Done : a \in Schedule!Locked(txs[p])
<1>1. ASSUME HadPriorActivity(a)
      PROVE  \E p \in Done : a \in Schedule!Locked(txs[p])
  BY <1>1 DEF HadPriorActivity, AccountStateExact, Schedule!Locked
<1>2. ASSUME NEW p \in Done, a \in Schedule!Locked(txs[p])
      PROVE  HadPriorActivity(a)
  <2>1. steps[p] \in Nat
    BY ElementOfSeq DEF TypeOK, Done
  <2>2. lastWrite[a] \in Nat \cup {NoStep}
    BY DEF TypeOK
  <2>3. CASE a \in txs[p].writes
    BY <2>1, <2>2, <2>3 DEF AccountStateExact, HadPriorActivity, NoStep
  <2>4. CASE a \in txs[p].reads
    BY <2>1, <2>2, <2>4 DEF AccountStateExact, HadPriorActivity, NoStep
  <2> QED
    BY <1>2, <2>3, <2>4 DEF Schedule!Locked
<1> QED
  BY <1>1, <1>2

\* An iteration of the loop reports its own write locks and no other.
LEMMA ScheduleTxConflicts == IInv /\ ConflictsExact /\ ScheduleTx => ConflictsExact'
<1> SUFFICES ASSUME IInv, ConflictsExact, ScheduleTx PROVE ConflictsExact'
  OBVIOUS
<1>0. PICK n \in Nat : n = Len(steps)
  BY LenProperties DEF IInv, TypeOK
<1> DEFINE tx == txs[n + 1]
           s  == EarliestStep(tx)
<1>1. /\ n < Len(txs) /\ Len(txs) \in Nat
      /\ tx.writes \subseteq Accounts
  BY <1>0, LenProperties, ElementOfSeq DEF IInv, TypeOK, ScheduleTx, Schedule!TxLocks
<1>2. /\ steps' = Append(steps, s)
      /\ conflicts' = conflicts \cup NewConflicts(n + 1, s)
      /\ txs' = txs
  BY <1>0 DEF ScheduleTx
<1> HIDE DEF s
<1>3. /\ \A p \in 1..n : steps'[p] = steps[p]
      /\ steps'[n + 1] = s
      /\ Done' = 1..n \cup {n + 1} /\ Done = 1..n
  <2>1. s \in Nat
    BY <1>0, <1>1, EarliestStepMax DEF IInv, s
  <2> QED
    BY <1>0, <1>1, <1>2, <2>1, AppendProperties DEF Done, IInv, TypeOK
<1>4. \A q \in 1..n, a \in Accounts : Report(q, a)' = Report(q, a)
  BY <1>3 DEF Report
<1>5. \A q, a : Earlier(q, a)' = Earlier(q, a)
  BY <1>2 DEF Earlier, Schedule!Locked
<1>6. \A a \in Accounts : HadPriorActivity(a) <=> Earlier(n + 1, a) # {}
  <2>1. 1..((n + 1) - 1) = 1..n
    BY <1>1
  <2> QED
    BY <1>3, <2>1, ActivityIsAnEarlierLock DEF IInv, Earlier
<1>7. \A e : e \in NewConflicts(n + 1, s) <=>
               \E a \in tx.writes : Earlier(n + 1, a) # {} /\ e = Report(n + 1, a)'
  <2>1. \A a : Report(n + 1, a)' = [account |-> a, tx |-> n + 1, step |-> s]
    BY <1>3 DEF Report
  <2> QED
    BY <1>1, <1>6, <2>1 DEF NewConflicts
<1>8. \A q \in 1..n : txs[q].writes \subseteq Accounts
  BY <1>1, ElementOfSeq DEF IInv, TypeOK, Schedule!TxLocks
<1> SUFFICES ASSUME NEW e
             PROVE  e \in conflicts' <=>
                      \E q \in Done' : \E a \in txs'[q].writes :
                         Earlier(q, a)' # {} /\ e = Report(q, a)'
  BY DEF ConflictsExact
<1>9. e \in conflicts <=>
        \E q \in 1..n : \E a \in txs[q].writes : Earlier(q, a) # {} /\ e = Report(q, a)
  BY <1>3 DEF ConflictsExact
<1>10. e \in conflicts <=>
        \E q \in 1..n : \E a \in txs'[q].writes : Earlier(q, a)' # {} /\ e = Report(q, a)'
  BY <1>2, <1>4, <1>5, <1>8, <1>9
<1>11. e \in NewConflicts(n + 1, s) <=>
        \E q \in {n + 1} : \E a \in txs'[q].writes : Earlier(q, a)' # {} /\ e = Report(q, a)'
  BY <1>2, <1>5, <1>7
<1> QED
  BY <1>2, <1>3, <1>10, <1>11

\* The final pass reports nothing.
LEMMA OtherConflicts == ConflictsExact /\ (Finish \/ UNCHANGED vars) => ConflictsExact'
<1> SUFFICES ASSUME ConflictsExact, Finish \/ UNCHANGED vars PROVE ConflictsExact'
  OBVIOUS
<1>1. UNCHANGED <<txs, steps, conflicts>>
  BY DEF Finish, vars
<1> QED
  BY <1>1 DEF ConflictsExact, Done, Earlier, Report, Schedule!Locked

\* Every write lock of an account already locked is reported once, with a step
\* after those of all the transactions that locked it, and nothing else is.
THEOREM ConflictsAreReported == Spec => []WriteConflictsReported
<1>1. Init => ConflictsExact
  <2> SUFFICES ASSUME Init PROVE ConflictsExact
    OBVIOUS
  <2>1. Done = {} /\ conflicts = {}
    BY DEF Init, Done
  <2> QED
    BY <2>1 DEF ConflictsExact
<1>2. IInv /\ ConflictsExact /\ [Next]_vars => ConflictsExact'
  BY ScheduleTxConflicts, OtherConflicts DEF Next
<1>3. IInv /\ ConflictsExact => WriteConflictsReported
  <2> SUFFICES ASSUME IInv, ConflictsExact, NEW q \in Done, NEW a \in Accounts
               PROVE  /\ Report(q, a) \in conflicts
                           <=> a \in txs[q].writes /\ Earlier(q, a) # {}
                      /\ \A e \in conflicts :
                           e.tx = q /\ e.account = a =>
                              e.step = steps[q] /\ \A p \in Earlier(q, a) : steps[p] < e.step
    BY DEF WriteConflictsReported, Report, Earlier
  <2>1. ASSUME NEW e \in conflicts, e.tx = q, e.account = a
        PROVE  e = Report(q, a) /\ a \in txs[q].writes /\ Earlier(q, a) # {}
    <3>1. PICK r \in Done : \E b \in txs[r].writes : Earlier(r, b) # {} /\ e = Report(r, b)
      BY DEF ConflictsExact
    <3>2. PICK b \in txs[r].writes : Earlier(r, b) # {} /\ e = Report(r, b)
      BY <3>1
    <3>3. e.tx = r /\ e.account = b
      BY <3>2 DEF Report
    <3> QED
      BY <2>1, <3>2, <3>3
  <2>2. Report(q, a).tx = q /\ Report(q, a).account = a /\ Report(q, a).step = steps[q]
    BY DEF Report
  <2>3. Report(q, a) \in conflicts <=> a \in txs[q].writes /\ Earlier(q, a) # {}
    BY <2>1, <2>2 DEF ConflictsExact
  <2>4. ASSUME a \in txs[q].writes, NEW p \in Earlier(q, a)
        PROVE  steps[p] < steps[q]
    <3>1. p \in Done /\ p < q /\ a \in Schedule!Locked(txs[p])
      BY LenProperties DEF Earlier, Done, IInv, TypeOK
    <3>2. Schedule!Conflict(txs[p], txs[q])
      BY <2>4, <3>1 DEF Schedule!Conflict, Schedule!ConflictOn, Schedule!Locked
    <3> QED
      BY <3>1, <3>2 DEF IInv, OrderPreserving
  <2> QED
    BY <2>1, <2>2, <2>3, <2>4
<1> QED
  BY <1>1, <1>2, <1>3, Invariance, PTL DEF Spec

-----------------------------------------------------------------------------
\* Any set of naturals has a least element: what replaces an induction over
\* the transactions of a block below.
LEMMA LeastExists ==
  ASSUME NEW S \in SUBSET Nat, S # {}
  PROVE  \E n \in S : \A m \in S : n <= m
<1> DEFINE R == OpToRel(<, Nat)
<1>1. PICK n \in S : \A m \in S : <<m, n>> \notin R
  <2>1. IsWellFoundedOn(R, Nat)
    BY NatLessThanWellFounded
  <2> HIDE DEF R
  <2> QED BY <2>1, WFMin
<1>2. \A m \in S : ~(m < n)
  BY <1>1 DEF OpToRel
<1> QED
  BY <1>2

\* The greatest element of a set, where it is known, is its Max.
LEMMA MaxIs ==
  ASSUME NEW S \in SUBSET Nat, NEW n \in S, \A m \in S : m <= n
  PROVE  Max(S) = n
<1>1. n \in Nat /\ S # {}
  OBVIOUS
<1>2. PICK k : k = Max(S)
  OBVIOUS
<1>3. k \in S /\ \A m \in S : m <= k
  BY <1>1, <1>2, MaxOfBounded, Zenon
<1>4. k <= n /\ n <= k /\ k \in Nat
  BY <1>3
<1> QED
  BY <1>1, <1>2, <1>4

\* The steps scheduled are naturals below their number, those of conflicting
\* transactions in order, and one that is not 0 follows that of a conflicting
\* transaction: IInv without the account states.
LEMMA StepFacts ==
  ASSUME IInv
  PROVE  /\ Len(steps) \in Nat /\ Done \in SUBSET Nat /\ DOMAIN steps = Done
         /\ \A p \in Done : steps[p] \in Nat /\ steps[p] < Len(steps)
         /\ \A p, q \in Done : p < q /\ Schedule!Conflict(txs[p], txs[q]) => steps[p] < steps[q]
         /\ \A q \in Done : steps[q] # 0 =>
              \E p \in Done : /\ p < q /\ Schedule!Conflict(txs[p], txs[q])
                              /\ steps[p] = steps[q] - 1
<1>1. steps \in Seq(Nat) /\ Len(steps) \in Nat /\ DOMAIN steps = Done
  BY LenProperties DEF IInv, TypeOK, Done
<1>2. Done \in SUBSET Nat /\ \A p \in Done : p <= Len(steps)
  BY <1>1 DEF Done
<1>3. \A p \in Done : steps[p] \in Nat /\ steps[p] < Len(steps)
  <2>1. \A p \in Done : steps[p] \in Nat
    BY <1>1, ElementOfSeq DEF Done
  <2> QED BY <1>1, <1>2, <2>1 DEF IInv, StepsBounded
<1>4. ASSUME NEW q \in Done, steps[q] # 0
      PROVE  \E p \in Done : /\ p < q /\ Schedule!Conflict(txs[p], txs[q])
                             /\ steps[p] = steps[q] - 1
  <2>1. PICK p \in 1..(q - 1) : Schedule!Conflict(txs[p], txs[q]) /\ steps[p] = steps[q] - 1
    BY <1>4 DEF IInv, NoIdleWait
  <2>2. p \in Done /\ p < q
    BY <1>1, <1>2 DEF Done
  <2> QED BY <2>1, <2>2
<1> QED
  BY <1>1, <1>2, <1>3, <1>4 DEF IInv, OrderPreserving

\* Along a chain the steps increase, not only from one to the next.
LEMMA ChainIncreases ==
  ASSUME IInv, NEW C \in SUBSET Done, IsChain(C)
  PROVE  \A p, q \in C : p < q => steps[p] < steps[q]
<1> DEFINE Gaps == {n \in Nat : \E p, q \in C : p < q /\ n = q - p /\ ~(steps[p] < steps[q])}
<1>1. \A p \in C : p \in Nat /\ steps[p] \in Nat
  BY StepFacts
<1>2. Gaps = {}
  <2> SUFFICES ASSUME Gaps # {} PROVE FALSE
    OBVIOUS
  <2>1. PICK n \in Gaps : \A m \in Gaps : n <= m
    <3> HIDE DEF Gaps
    <3>1. Gaps \in SUBSET Nat
      BY DEF Gaps
    <3> QED BY <3>1, LeastExists
  <2>2. PICK p \in C, q \in C : p < q /\ n = q - p /\ ~(steps[p] < steps[q])
    OBVIOUS
  <2>3. ~ Schedule!Conflict(txs[p], txs[q])
    BY <2>2, StepFacts
  <2>4. PICK r \in C : p < r /\ r < q
    BY <2>2, <2>3 DEF IsChain
  <2>5. r - p \in Nat /\ r - p < n /\ q - r \in Nat /\ q - r < n
    BY <1>1, <2>2, <2>4
  <2>6. r - p \notin Gaps /\ q - r \notin Gaps
    <3> HIDE DEF Gaps
    <3>1. Gaps \in SUBSET Nat
      BY DEF Gaps
    <3> QED BY <2>1, <2>5, <3>1
  <2>7. steps[p] < steps[r] /\ steps[r] < steps[q]
    BY <2>4, <2>5, <2>6
  <2> QED BY <1>1, <2>2, <2>7
<1> QED
  BY <1>1, <1>2

\* A chain has a transaction per step, so it is no longer than the steps used.
LEMMA ChainFits ==
  ASSUME IInv, NEW C \in SUBSET Done, IsChain(C),
         NEW d \in Nat, \A p \in Done : steps[p] < d
  PROVE  IsFiniteSet(C) /\ Cardinality(C) \in Nat /\ Cardinality(C) <= d
<1> DEFINE f == [p \in C |-> steps[p]]
<1>1. \A p \in C : p \in Nat /\ steps[p] \in 0..(d - 1)
  BY StepFacts
<1>2. f \in Injection(C, 0..(d - 1))
  <2>1. f \in [C -> 0..(d - 1)]
    BY <1>1
  <2>2. ASSUME NEW p \in C, NEW q \in C, f[p] = f[q] PROVE p = q
    <3>1. ~(p < q) /\ ~(q < p)
      BY <1>1, <2>2, ChainIncreases
    <3> QED BY <1>1, <3>1
  <2> QED BY <2>1, <2>2 DEF Injection, IsInjective
<1>3. IsFiniteSet(0..(d - 1)) /\ Cardinality(0..(d - 1)) = d
  BY FS_Interval
<1>4. IsFiniteSet(C) /\ Cardinality(C) <= Cardinality(0..(d - 1))
  <2> HIDE DEF f
  <2> QED BY <1>2, <1>3, FS_Injection
<1> QED
  BY <1>3, <1>4, FS_CardinalityType

\* A transaction is the last of a chain as long as its step is high, and every
\* step below its own is used: waiting for the one before leads to step 0.
ReachesDown(q) ==
  /\ \E C \in SUBSET Done : /\ IsChain(C) /\ q \in C /\ \A p \in C : p <= q
                            /\ IsFiniteSet(C) /\ Cardinality(C) = steps[q] + 1
  /\ \A v \in 0..steps[q] : \E p \in Done : steps[p] = v

LEMMA ChainsReachDown ==
  ASSUME IInv
  PROVE  \A q \in Done : ReachesDown(q)
<1> DEFINE Bad == {q \in Done : ~ ReachesDown(q)}
<1> SUFFICES ASSUME Bad # {} PROVE FALSE
  OBVIOUS
<1>1. PICK q \in Bad : \A p \in Bad : q <= p
  <2> HIDE DEF Bad
  <2>1. Bad \in SUBSET Nat
    BY StepFacts DEF Bad
  <2> QED BY <2>1, LeastExists
<1>2. q \in Done /\ q \in Nat /\ steps[q] \in Nat /\ \A p \in Done : p \in Nat /\ steps[p] \in Nat
  BY StepFacts
<1>3. CASE steps[q] = 0
  <2>1. IsChain({q})
    BY <1>2 DEF IsChain
  <2>2. IsFiniteSet({q}) /\ Cardinality({q}) = steps[q] + 1
    <3>1. IsFiniteSet({q}) /\ Cardinality({q}) = 1
      BY FS_Singleton
    <3>2. steps[q] + 1 = 1
      BY <1>3
    <3> QED BY <3>1, <3>2
  <2>3. \A v \in 0..steps[q] : v = steps[q]
    BY <1>3
  <2>4. ReachesDown(q)
    BY <1>2, <2>1, <2>2, <2>3 DEF ReachesDown
  <2> QED BY <2>4
<1>4. CASE steps[q] # 0
  <2>1. PICK p \in Done : /\ p < q /\ Schedule!Conflict(txs[p], txs[q])
                          /\ steps[p] = steps[q] - 1
    BY <1>2, <1>4, StepFacts
  <2>2. ReachesDown(p)
    <3>1. p \notin Bad
      <4> HIDE DEF Bad
      <4> QED BY <1>1, <1>2, <2>1
    <3> QED BY <3>1
  <2>3. PICK C \in SUBSET Done : /\ IsChain(C) /\ p \in C /\ \A r \in C : r <= p
                                 /\ IsFiniteSet(C) /\ Cardinality(C) = steps[p] + 1
    BY <2>2 DEF ReachesDown
  <2> DEFINE D == C \cup {q}
  <2>4. \A r \in C : r \in Nat /\ r < q
    BY <1>2, <2>1, <2>3
  <2>5. IsChain(D)
    <3> SUFFICES ASSUME NEW r \in D, NEW s \in D, r < s, \A t \in D : ~(r < t /\ t < s)
                 PROVE  Schedule!Conflict(txs[r], txs[s])
      BY DEF IsChain
    <3>1. CASE s = q
      <4>1. r \in C
        BY <1>2, <3>1
      <4>2. r = p
        BY <1>2, <2>1, <2>3, <2>4, <3>1, <4>1
      <4> QED BY <2>1, <3>1, <4>2
    <3>2. CASE s \in C
      <4>1. r \in C
        BY <1>2, <2>4, <3>2
      <4> QED BY <2>3, <3>2, <4>1 DEF IsChain
    <3> QED BY <3>1, <3>2
  <2>6. IsFiniteSet(D) /\ Cardinality(D) = steps[q] + 1
    <3>1. q \notin C
      BY <1>2, <2>4
    <3>2. IsFiniteSet(D) /\ Cardinality(D) = Cardinality(C) + 1
      BY <2>3, <3>1, FS_AddElement
    <3>3. Cardinality(C) + 1 = steps[q] + 1
      BY <1>2, <2>1, <2>3
    <3> QED BY <3>2, <3>3
  <2>7. D \in SUBSET Done /\ q \in D /\ \A r \in D : r <= q
    BY <1>2, <2>4
  <2>8. \A v \in 0..steps[q] : \E r \in Done : steps[r] = v
    <3> SUFFICES ASSUME NEW v \in 0..steps[q] PROVE \E r \in Done : steps[r] = v
      OBVIOUS
    <3>1. v = steps[q] \/ v \in 0..steps[p]
      BY <1>2, <2>1
    <3> QED BY <1>2, <2>2, <3>1 DEF ReachesDown
  <2>9. ReachesDown(q)
    <3> HIDE DEF D
    <3> QED BY <2>5, <2>6, <2>7, <2>8 DEF ReachesDown
  <2> QED BY <2>9
<1> QED
  BY <1>3, <1>4

\* The transactions whose step is one of T.
At(T) == {i \in Done : steps[i] \in T}

\* Taking a step out of a set of steps takes its width off their number.
LEMMA WidthsSplit ==
  ASSUME IInv, NEW T \in SUBSET Range(steps), NEW s \in T
  PROVE  /\ IsFiniteSet(At(T)) /\ Cardinality(At(T)) \in Nat
         /\ Cardinality(At(T)) = WidthPerStep[s] + Cardinality(At(T \ {s}))
<1> DEFINE own == {i \in DOMAIN steps : steps[i] = s}
           rest == At(T \ {s})
<1>1. IsFiniteSet(Done) /\ DOMAIN steps = Done
  <2>1. IsFiniteSet(1..Len(steps))
    BY StepFacts, FS_Interval
  <2> QED BY <2>1, StepFacts DEF Done
<1>2. own \in SUBSET Done /\ rest \in SUBSET Done /\ At(T) \in SUBSET Done
  BY <1>1 DEF At
<1>3. IsFiniteSet(own) /\ IsFiniteSet(rest) /\ IsFiniteSet(At(T))
  <2> HIDE DEF own, rest
  <2> QED BY <1>1, <1>2, FS_Subset
<1>4. At(T) = own \cup rest /\ own \cap rest = {}
  BY <1>1 DEF At
<1>5. WidthPerStep[s] = Cardinality(own)
  BY DEF WidthPerStep
<1>6. PICK m \in Nat, n \in Nat : Cardinality(own) = m /\ Cardinality(rest) = n
  <2> HIDE DEF own, rest
  <2> QED BY <1>3, FS_CardinalityType
<1>7. Cardinality(own \cup rest) = m + n - Cardinality(own \cap rest)
  <2> HIDE DEF own, rest
  <2> QED BY <1>3, <1>6, FS_Union
<1>8. Cardinality({}) = 0
  BY FS_EmptySet
<1>9. Cardinality(At(T)) = m + n
  <2>1. Cardinality(At(T)) = m + n - 0
    <3> HIDE DEF own, rest
    <3> QED BY <1>4, <1>7, <1>8, Zenon
  <2> QED BY <2>1
<1> QED
  <2> HIDE DEF own, rest
  <2>1. m + n \in Nat
    OBVIOUS
  <2>2. rest = At(T \ {s})
    BY DEF rest
  <2> QED BY <1>3, <1>5, <1>6, <1>9, <2>1, <2>2, Zenon

\* Whatever order SumFunction takes the steps in, the widths sum up to the
\* number of transactions.
LEMMA WidthsAddUp == ASSUME IInv PROVE SumFunction(WidthPerStep) = Len(steps)
<1> DEFINE S == Range(steps)
           g == [T \in SUBSET S |-> Cardinality(At(T))]
           Pick(T) == CHOOSE x \in T : TRUE
           Folds(h) == h = [T \in SUBSET S |->
                             IF T = {} THEN 0 ELSE WidthPerStep[Pick(T)] + h[T \ {Pick(T)}]]
<1>0. PICK n \in Nat : n = Len(steps)
  BY StepFacts
<1>1. DOMAIN WidthPerStep = S
  BY DEF WidthPerStep
<1>2. PICK h : SumFunction(WidthPerStep) = h[S] /\ h = CHOOSE k : Folds(k)
  <2>1. \A f : DOMAIN f = S => \E h : SumFunction(f) = h[S] /\
           h = CHOOSE k : k = [T \in SUBSET S |-> IF T = {} THEN 0 ELSE f[Pick(T)] + k[T \ {Pick(T)}]]
    BY Zenon DEF SumFunction, SumFunctionOnSet, FoldFunctionOnSet, MapThenFoldSet
  <2> HIDE DEF S, Pick
  <2> QED BY <1>1, <2>1, Zenon
<1>3. \A T \in SUBSET S : T # {} => Pick(T) \in T
  OBVIOUS
<1> HIDE DEF Pick
<1>4. At({}) = {} /\ Cardinality({}) = 0
  BY FS_EmptySet DEF At
<1>5. \A T \in SUBSET S :
         g[T] = IF T = {} THEN 0 ELSE WidthPerStep[Pick(T)] + g[T \ {Pick(T)}]
  <2> TAKE T \in SUBSET S
  <2>1. CASE T = {}
    BY <1>4, <2>1
  <2>2. CASE T # {}
    <3>1. Pick(T) \in T /\ T \ {Pick(T)} \in SUBSET S
      BY <1>3, <2>2
    <3>2. Cardinality(At(T)) = WidthPerStep[Pick(T)] + Cardinality(At(T \ {Pick(T)}))
      BY <3>1, WidthsSplit
    <3> QED BY <2>2, <3>1, <3>2
  <2> QED BY <2>1, <2>2
<1>6. Folds(g)
  <2>1. g = [T \in SUBSET S |-> g[T]]
    OBVIOUS
  <2> HIDE DEF g
  <2> QED BY <1>5, <2>1
<1>7. Folds(h)
  <2> HIDE DEF Folds, g
  <2> QED BY <1>2, <1>6, Zenon
<1>8. \A T \in SUBSET S :
         h[T] = IF T = {} THEN 0 ELSE WidthPerStep[Pick(T)] + h[T \ {Pick(T)}]
  BY <1>7
<1>9. IsFiniteSet(S)
  <2>1. S \subseteq 0..n
    BY <1>0, StepFacts DEF Range
  <2>2. IsFiniteSet(0..n)
    BY FS_Interval
  <2> HIDE DEF S
  <2> QED BY <2>1, <2>2, FS_Subset
<1> HIDE DEF g
<1>10. h[S] = g[S]
  <2> DEFINE F == {T \in SUBSET S : h[T] # g[T]}
             R == StrictSubsetOrdering(S)
  <2> SUFFICES ASSUME F # {} PROVE FALSE
    OBVIOUS
  <2>1. PICK T \in F : \A U \in F : <<U, T>> \notin R
    <3>1. IsWellFoundedOn(R, SUBSET S)
      BY <1>9, FS_StrictSubsetOrderingWellFounded, FS_FiniteSubsetsOfFinite
    <3> HIDE DEF R, F
    <3>2. F \subseteq SUBSET S
      BY DEF F
    <3> QED BY <3>1, <3>2, WFMin
  <2>2. T # {}
    BY <1>5, <1>8
  <2>3. Pick(T) \in T /\ T \in SUBSET S
    BY <1>3, <2>2
  <2>4. h[T \ {Pick(T)}] = g[T \ {Pick(T)}]
    <3>1. <<T \ {Pick(T)}, T>> \in R
      BY <2>3 DEF StrictSubsetOrdering
    <3> QED BY <2>1, <2>3, <3>1
  <2> QED BY <1>5, <1>8, <2>2, <2>3, <2>4
<1>11. g[S] = Len(steps)
  <2>1. At(S) = 1..Len(steps)
    BY StepFacts DEF At, Range, Done
  <2>2. Cardinality(1..n) = n
    <3>1. Cardinality(1..n) = IF 1 > n THEN 0 ELSE n - 1 + 1
      BY FS_Interval
    <3> QED BY <3>1
  <2> QED BY <1>0, <2>1, <2>2 DEF g
<1> QED
  BY <1>2, <1>10, <1>11

\* What is returned is computed once, from the steps of the whole block.
ResultInv == result # NoResult => result = [depth |-> Depth, width |-> WidthPerStep]
                                  /\ Len(steps) = Len(txs)

\* The highest step and the number of steps, where there are transactions.
LEMMA DepthFacts ==
  ASSUME IInv
  PROVE  /\ Depth \in Nat /\ \A p \in Done : steps[p] < Depth
         /\ Depth # 0 => \E q \in Done : steps[q] = Depth - 1
<1>1. CASE steps = <<>>
  <2>1. Done = {}
    BY <1>1 DEF Done
  <2> QED BY <1>1, <2>1 DEF Depth
<1>2. CASE steps # <<>>
  <2>1. PICK n \in Nat : n = Len(steps)
    BY StepFacts
  <2>2. n # 0
    BY <1>2, <2>1, EmptySeq DEF IInv, TypeOK
  <2>3. Range(steps) = {steps[p] : p \in Done}
    BY StepFacts DEF Range
  <2>4. Range(steps) \in SUBSET Nat /\ Range(steps) # {} /\ \A v \in Range(steps) : v <= n
    <3>1. 1 \in Done
      BY <2>1, <2>2 DEF Done
    <3> QED BY <2>1, <2>3, <3>1, StepFacts
  <2>5. PICK m : m = Max(Range(steps))
    OBVIOUS
  <2>6. m \in Range(steps) /\ \A v \in Range(steps) : v <= m
    BY <2>4, <2>5, MaxOfBounded, Zenon
  <2>7. Depth = m + 1 /\ m \in Nat
    BY <1>2, <2>4, <2>5, <2>6 DEF Depth
  <2> QED BY <2>3, <2>4, <2>6, <2>7
<1> QED
  BY <1>1, <1>2

\* No order-preserving schedule is shorter than the longest chain, and this
\* one is not longer: the depth is its length, every step below it is used,
\* and the widths cover the block.
THEOREM DepthIsLeast == Spec => []DepthIsLongestChain
<1>1. Init => ResultInv
  BY DEF Init, ResultInv
<1>2. ResultInv /\ IInv /\ [Next]_vars => ResultInv'
  <2> SUFFICES ASSUME ResultInv, IInv, [Next]_vars PROVE ResultInv'
    OBVIOUS
  <2>1. CASE ScheduleTx
    <3>1. Len(steps) < Len(txs) /\ result' = result
      BY <2>1 DEF ScheduleTx
    <3>2. Len(steps) \in Nat /\ Len(txs) \in Nat
      BY LenProperties DEF IInv, TypeOK
    <3>3. result' = NoResult
      BY <3>1, <3>2 DEF ResultInv
    <3> QED BY <3>3 DEF ResultInv, NoResult
  <2>2. CASE Finish
    BY <2>2 DEF Finish, ResultInv, Depth, WidthPerStep
  <2>3. CASE UNCHANGED vars
    BY <2>3 DEF vars, ResultInv, Depth, WidthPerStep
  <2> QED BY <2>1, <2>2, <2>3 DEF Next
<1>3. ResultInv /\ IInv => DepthIsLongestChain
  <2> SUFFICES ASSUME IInv, result # NoResult,
                      result = [depth |-> Depth, width |-> WidthPerStep],
                      Len(steps) = Len(txs)
               PROVE  /\ result.depth = Max({Cardinality(C) : C \in {D \in SUBSET Done : IsChain(D)}})
                      /\ DOMAIN result.width = 0..(result.depth - 1)
                      /\ SumFunction(result.width) = Len(txs)
    BY DEF ResultInv, DepthIsLongestChain
  <2> DEFINE Chains == {D \in SUBSET Done : IsChain(D)}
             Sizes == {Cardinality(C) : C \in Chains}
  <2>1. result.depth = Depth /\ result.width = WidthPerStep
    OBVIOUS
  <2>2. \A C \in Chains : Cardinality(C) \in Nat /\ Cardinality(C) <= Depth
    BY DepthFacts, ChainFits
  <2>3. \E C \in Chains : Cardinality(C) = Depth
    <3>1. CASE Depth = 0
      <4>1. {} \in Chains
        BY DEF IsChain
      <4>2. Cardinality({}) = 0
        BY FS_EmptySet
      <4> HIDE DEF Chains
      <4> QED BY <3>1, <4>1, <4>2
    <3>2. CASE Depth # 0
      <4>1. PICK q \in Done : steps[q] = Depth - 1
        BY <3>2, DepthFacts
      <4>2. PICK C \in SUBSET Done : IsChain(C) /\ Cardinality(C) = steps[q] + 1
        BY ChainsReachDown DEF ReachesDown
      <4>3. steps[q] + 1 = Depth
        BY <4>1, DepthFacts
      <4> QED BY <4>2, <4>3
    <3> QED BY <3>1, <3>2
  <2>4. Depth = Max(Sizes)
    <3>1. Sizes \in SUBSET Nat /\ Depth \in Sizes /\ \A n \in Sizes : n <= Depth
      <4> HIDE DEF Chains
      <4> QED BY <2>2, <2>3
    <3> HIDE DEF Sizes
    <3> QED BY <3>1, MaxIs
  <2>5. DOMAIN WidthPerStep = 0..(Depth - 1)
    <3>1. DOMAIN WidthPerStep = {steps[p] : p \in Done}
      BY StepFacts DEF WidthPerStep, Range
    <3>2. ASSUME NEW p \in Done PROVE steps[p] \in 0..(Depth - 1)
      BY StepFacts, DepthFacts
    <3>3. ASSUME NEW v \in 0..(Depth - 1) PROVE \E p \in Done : steps[p] = v
      <4>1. PICK q \in Done : steps[q] = Depth - 1
        BY DepthFacts
      <4> QED BY <4>1, ChainsReachDown DEF ReachesDown
    <3> QED BY <3>1, <3>2, <3>3
  <2>6. SumFunction(WidthPerStep) = Len(txs)
    BY WidthsAddUp
  <2> QED BY <2>1, <2>4, <2>5, <2>6
<1> QED
  BY <1>1, <1>2, <1>3, Invariance, PTL DEF Spec

-----------------------------------------------------------------------------
(* Optimality.                                                             *)

\* The schedules that start no transaction before or beside an earlier one it
\* conflicts with, whatever rule made them.
OrderedSchedules ==
  {other \in [Done -> Nat] :
      \A p, q \in Done : p < q /\ Schedule!Conflict(txs[p], txs[q]) => other[p] < other[q]}

\* No such schedule starts any transaction earlier.
EarliestOfAll ==
  \A other \in OrderedSchedules : \A q \in Done : steps[q] <= other[q]

\* "The earliest step this tx can run at" (lib.rs, line 89) is the earliest that
\* any schedule could give it: looking at one transaction at a time, build_schedule
\* loses nothing against a schedule that sees the whole block.
THEOREM NothingRunsEarlier == Spec => []EarliestOfAll
<1>1. IInv => EarliestOfAll
  <2> SUFFICES ASSUME IInv, NEW other \in OrderedSchedules PROVE \A q \in Done : steps[q] <= other[q]
    BY DEF EarliestOfAll
  <2> DEFINE Later == {q \in Done : ~ steps[q] <= other[q]}
  <2> SUFFICES ASSUME Later # {} PROVE FALSE
    OBVIOUS
  <2>1. PICK q \in Later : \A p \in Later : q <= p
    <3> HIDE DEF Later
    <3>1. Later \in SUBSET Nat
      BY StepFacts DEF Later
    <3> QED BY <3>1, LeastExists
  <2>2. /\ q \in Done /\ q \in Nat /\ ~ steps[q] <= other[q]
        /\ \A p \in Done : p \in Nat /\ steps[p] \in Nat /\ other[p] \in Nat
    BY StepFacts DEF OrderedSchedules
  <2>3. CASE steps[q] = 0
    BY <2>2, <2>3
  <2>4. CASE steps[q] # 0
    <3>1. PICK p \in Done : /\ p < q /\ Schedule!Conflict(txs[p], txs[q])
                            /\ steps[p] = steps[q] - 1
      BY <2>2, <2>4, StepFacts
    <3>2. p \notin Later
      <4> HIDE DEF Later
      <4> QED BY <2>1, <2>2, <3>1
    <3>3. steps[p] <= other[p]
      BY <3>2
    <3>4. other[p] < other[q]
      BY <2>2, <3>1 DEF OrderedSchedules
    <3> HIDE DEF Later
    <3> QED BY <2>2, <3>1, <3>3, <3>4
  <2> QED BY <2>3, <2>4
<1> QED BY <1>1, Invariance, PTL
=============================================================================
