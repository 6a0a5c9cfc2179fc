--------------------------- MODULE Pipeline_proofs ---------------------------
(***************************************************************************)
(* Proofs about the ingest pipeline for every slot count, concurrency,     *)
(* batch size and channel capacity, however often it is killed and run     *)
(* again: its state stays well typed, its stages end in order, no slot is  *)
(* lost between them or counted twice, what they hold is bounded, and the  *)
(* runs are those the abstract ingestion run promises.                     *)
(***************************************************************************)
EXTENDS Pipeline, SequenceTheorems, FiniteSetTheorems, TLAPS

-----------------------------------------------------------------------------
(* The elements of a channel or batch.                                     *)

\* An empty channel or batch holds nothing.
LEMMA ElemsEmpty == Elems(<<>>) = {}
  BY DEF Elems

\* What a channel or batch holds is of the type of its elements.
LEMMA ElemsType ==
  ASSUME NEW S, NEW q \in Seq(S)
  PROVE  Elems(q) \subseteq S
  BY DEF Elems

\* A send adds one element.
LEMMA ElemsAppend ==
  ASSUME NEW S, NEW q \in Seq(S), NEW m \in S
  PROVE  /\ Append(q, m) \in Seq(S)
         /\ Elems(Append(q, m)) = Elems(q) \cup {m}
<1>1. /\ Append(q, m) \in Seq(S) /\ Len(Append(q, m)) = Len(q) + 1 /\ Len(q) \in Nat
      /\ \A i \in 1..Len(q) : Append(q, m)[i] = q[i]
      /\ Append(q, m)[Len(q) + 1] = m
  BY AppendProperties, LenProperties
<1> DEFINE n == Len(q)
           r == Append(q, m)
<1>2. 1..(n + 1) = 1..n \cup {n + 1}
  BY <1>1
<1>3. Elems(r) = {r[i] : i \in 1..n \cup {n + 1}}
  BY <1>1, <1>2 DEF Elems
<1>4. {r[i] : i \in 1..n} = {q[i] : i \in 1..n}
  BY <1>1
<1> QED
  BY <1>1, <1>3, <1>4 DEF Elems

\* A receive removes the head.
LEMMA ElemsTail ==
  ASSUME NEW S, NEW q \in Seq(S), q # <<>>
  PROVE  /\ Head(q) \in S /\ Tail(q) \in Seq(S)
         /\ Elems(q) = {Head(q)} \cup Elems(Tail(q))
<1>1. /\ Head(q) \in S /\ Tail(q) \in Seq(S) /\ Len(q) \in Nat \ {0}
      /\ Len(Tail(q)) = Len(q) - 1 /\ Head(q) = q[1]
      /\ \A i \in 1..Len(Tail(q)) : Tail(q)[i] = q[i + 1]
  BY HeadTailProperties, EmptySeq
<1>2. ASSUME NEW x \in Elems(q)
      PROVE  x = Head(q) \/ x \in Elems(Tail(q))
  <2>1. PICK i \in 1..Len(q) : x = q[i]
    BY <1>2 DEF Elems
  <2>2. CASE i = 1
    BY <1>1, <2>1, <2>2
  <2>3. CASE i # 1
    <3>1. i - 1 \in 1..Len(Tail(q)) /\ (i - 1) + 1 = i
      BY <1>1, <2>3
    <3>2. Tail(q)[i - 1] = x
      BY <1>1, <2>1, <3>1
    <3> QED BY <3>1, <3>2 DEF Elems
  <2> QED BY <2>2, <2>3
<1>3. ASSUME NEW x \in Elems(Tail(q))
      PROVE  x \in Elems(q)
  <2>1. PICK i \in 1..Len(Tail(q)) : x = Tail(q)[i]
    BY <1>3 DEF Elems
  <2>2. i + 1 \in 1..Len(q) /\ x = q[i + 1]
    BY <1>1, <2>1
  <2> QED BY <2>2 DEF Elems
<1>4. Head(q) \in Elems(q)
  BY <1>1 DEF Elems
<1> QED
  BY <1>1, <1>2, <1>3, <1>4

-----------------------------------------------------------------------------
(* Type correctness.                                                       *)

\* The number of futures primed is at most the number of slots.
LEMMA PrimedType == /\ Primed \in Nat /\ Primed <= Count /\ Count \in Nat
                    /\ MaxConcurrency > 0 /\ Count > 0 => Primed > 0
  BY PipelineAssumption DEF Primed

\* What a task's memory holds when it holds nothing.
LEMMA EmptyType == <<>> \in Seq(Slots) /\ <<>> \in Seq(Outcome) /\ {} \in Option(Outcome)
<1>1. <<>> \in Seq(Slots)
  BY EmptySeq
<1>2. <<>> \in Seq(Outcome)
  BY EmptySeq
<1>3. {} \in Option(Outcome)
  BY DEF Option
<1> QED BY <1>1, <1>2, <1>3

\* The pool is primed with slots, and the next one to pop follows them.
LEMMA PrimedSlots == Primed + 1 \in 1..(Count + 1) /\ 1..Primed \subseteq Slots
  BY PrimedType DEF Slots

\* The command starts well typed.
LEMMA TypeInit == Init => TypeOK
<1> SUFFICES ASSUME Init PROVE TypeOK
  OBVIOUS
<1>1. /\ nextSlot \in 1..(Count + 1) /\ inFlight \subseteq Slots
      /\ sending \in Option(Outcome) /\ fetch \in {"running", "ok"}
      /\ fetchQ \in Seq(Outcome) /\ parsing \in Option(Outcome)
      /\ parse \in {"running", "ok", "error"}
  BY PrimedSlots, EmptyType DEF Init
<1>2. /\ parseQ \in Seq(Outcome) /\ storing \in Option(Outcome)
      /\ pending \in Seq(Slots) /\ flushing \in Seq(Slots)
      /\ storeAt \in {"recv", "commit", "steps"}
      /\ store \in {"running", "ok", "error"}
  BY EmptyType DEF Init
<1>3. counted \subseteq Outcome /\ final \in BOOLEAN /\ flushFailed \in BOOLEAN
  BY DEF Init
<1>4. /\ main \in {"fetch", "parse", "store", "candles", "ok", "err", "crashed"}
      /\ run \in 1..MaxRuns
      /\ dbStatus \in [Slots -> Kinds \cup {NoStatus}]
      /\ dbBlocks \in [Slots -> {"absent", "null", "partial", "full"}]
      /\ dbCandles \subseteq Slots
  BY PipelineAssumption DEF Init
<1> QED BY <1>1, <1>2, <1>3, <1>4 DEF TypeOK

\* The memory of a fresh process is well typed.
LEMMA TypeFresh ==
  ASSUME FreshMemory, main' \in {"fetch", "crashed"}, run' \in 1..MaxRuns,
         dbStatus' \in [Slots -> Kinds \cup {NoStatus}],
         dbBlocks' \in [Slots -> {"absent", "null", "partial", "full"}],
         dbCandles' \subseteq Slots
  PROVE  TypeOK'
<1>1. /\ nextSlot' \in 1..(Count + 1) /\ inFlight' \subseteq Slots
      /\ sending' \in Option(Outcome) /\ fetch' \in {"running", "ok"}
      /\ fetchQ' \in Seq(Outcome) /\ parsing' \in Option(Outcome)
      /\ parse' \in {"running", "ok", "error"}
  BY PrimedSlots, EmptyType DEF FreshMemory
<1>2. /\ parseQ' \in Seq(Outcome) /\ storing' \in Option(Outcome)
      /\ pending' \in Seq(Slots) /\ flushing' \in Seq(Slots)
      /\ storeAt' \in {"recv", "commit", "steps"}
      /\ store' \in {"running", "ok", "error"}
  BY EmptyType DEF FreshMemory
<1>3. counted' \subseteq Outcome /\ final' \in BOOLEAN /\ flushFailed' \in BOOLEAN
  BY DEF FreshMemory
<1> QED BY <1>1, <1>2, <1>3 DEF TypeOK

\* A kill or an error between two UPDATEs leaves well-typed rows.
LEMMA TypeInterrupted ==
  ASSUME TypeOK
  PROVE  Interrupted \subseteq [Slots -> {"absent", "null", "partial", "full"}]
<1>1. CASE storeAt = "steps" /\ flushing # <<>>
  <2>1. Head(flushing) \in Slots
    BY <1>1, ElemsTail DEF TypeOK
  <2> QED BY <1>1, <2>1 DEF TypeOK, Interrupted
<1>2. CASE ~(storeAt = "steps" /\ flushing # <<>>)
  BY <1>2 DEF TypeOK, Interrupted
<1> QED BY <1>1, <1>2

\* Type correctness, for each step of the fetch task.
LEMMA TypeFetch == TypeOK /\ FetchTask => TypeOK'
<1> SUFFICES ASSUME TypeOK, FetchTask PROVE TypeOK'
  OBVIOUS
<1> USE DEF TypeOK
<1>1. ASSUME DispatchNext
      PROVE  nextSlot' \in 1..(Count + 1) /\ inFlight' \subseteq Slots /\ sending' = {}
  <2>1. nextSlot \in Nat /\ nextSlot >= 1 /\ Count \in Nat
    BY PipelineAssumption
  <2>2. CASE nextSlot <= Count
    <3>1. nextSlot' = nextSlot + 1 /\ inFlight' = inFlight \cup {nextSlot} /\ sending' = {}
      BY <1>1, <2>2 DEF DispatchNext
    <3>2. nextSlot \in Slots /\ nextSlot + 1 \in 1..(Count + 1)
      BY <2>1, <2>2 DEF Slots
    <3> QED BY <3>1, <3>2
  <2>3. CASE ~(nextSlot <= Count)
    <3>1. nextSlot' = nextSlot /\ inFlight' = inFlight /\ sending' = {}
      BY <1>1, <2>3 DEF DispatchNext
    <3> QED BY <3>1
  <2> QED BY <2>2, <2>3
<1>2. CASE FetchNext
  <2>1. PICK s \in inFlight, k \in Kinds : /\ sending' = {[slot |-> s, kind |-> k]}
                                           /\ inFlight' = inFlight \ {s}
    BY <1>2 DEF FetchNext
  <2>2. [slot |-> s, kind |-> k] \in Outcome
    BY <2>1 DEF Outcome
  <2>3. sending' \in Option(Outcome) /\ inFlight' \subseteq Slots
    BY <2>1, <2>2 DEF Option
  <2> QED
    BY <1>2, <2>3 DEF FetchNext, parseVars, storeVars, dbVars
<1>3. CASE FetchSend
  <2>1. fetchQ' \in Seq(Outcome)
    BY <1>3, ElemsAppend DEF FetchSend, Option
  <2> QED
    BY <1>1, <1>3, <2>1 DEF FetchSend, Option, parseVars, storeVars, dbVars
<1>4. CASE FetchSendDropped
  BY <1>1, <1>4 DEF FetchSendDropped, Option, parseVars, storeVars, dbVars
<1>5. CASE FetchEnd
  BY <1>5 DEF FetchEnd, parseVars, storeVars, dbVars
<1> QED
  BY <1>2, <1>3, <1>4, <1>5 DEF FetchTask

\* Type correctness, for each step of the parse task.
LEMMA TypeParse == TypeOK /\ ParseTask => TypeOK'
<1> SUFFICES ASSUME TypeOK, ParseTask PROVE TypeOK'
  OBVIOUS
<1> USE DEF TypeOK
<1>1. CASE ParseRecv
  <2>1. Head(fetchQ) \in Outcome /\ Tail(fetchQ) \in Seq(Outcome)
    BY <1>1, ElemsTail DEF ParseRecv
  <2> QED
    BY <1>1, <2>1 DEF ParseRecv, Option, fetchVars, storeVars, dbVars
<1>2. CASE ParseSend
  <2>1. parseQ' \in Seq(Outcome)
    BY <1>2, ElemsAppend DEF ParseSend, Option
  <2> QED
    BY <1>2, <2>1 DEF ParseSend, Option, fetchVars, storeVars, dbVars
<1>3. CASE ParseBail
  BY <1>3 DEF ParseBail, Option, fetchVars, storeVars, dbVars
<1>4. CASE ParseEnd
  BY <1>4 DEF ParseEnd, fetchVars, storeVars, dbVars
<1> QED
  BY <1>1, <1>2, <1>3, <1>4 DEF ParseTask

\* Type correctness, for each step of the store task.
LEMMA TypeStore == TypeOK /\ StoreTask => TypeOK'
<1> SUFFICES ASSUME TypeOK, StoreTask PROVE TypeOK'
  OBVIOUS
<1> USE DEF TypeOK
<1>1. CASE StoreRecv
  <2>1. Head(parseQ) \in Outcome /\ Tail(parseQ) \in Seq(Outcome)
    BY <1>1, ElemsTail DEF StoreRecv
  <2> QED
    BY <1>1, <2>1 DEF StoreRecv, Option, fetchVars, parseVars, dbVars
<1>2. CASE StoreStatus
  <2> HIDE DEF TypeOK
  <2>1. PICK m \in storing :
          /\ dbStatus' = [dbStatus EXCEPT ![m.slot] = m.kind]
          /\ counted' = counted \cup {m}
          /\ \E batch \in {pending, Append(pending, m.slot)} :
               \/ storeAt' = "commit" /\ flushing' = batch /\ pending' = <<>>
               \/ pending' = batch /\ storeAt' = storeAt /\ flushing' = flushing
    BY <1>2, Zenon DEF StoreStatus
  <2>2. m \in Outcome /\ m.slot \in Slots /\ m.kind \in Kinds
    BY <2>1 DEF Option, Outcome, TypeOK
  <2>3. /\ storeAt' \in {"recv", "commit", "steps"}
        /\ pending' \in Seq(Slots) /\ flushing' \in Seq(Slots)
    <3>1. Append(pending, m.slot) \in Seq(Slots) /\ pending \in Seq(Slots)
      BY <2>2, ElemsAppend DEF TypeOK
    <3> QED BY <2>1, <3>1, EmptyType DEF TypeOK
  <2>4. counted' \subseteq Outcome /\ dbStatus' \in [Slots -> Kinds \cup {NoStatus}]
    BY <2>1, <2>2 DEF TypeOK
  <2>5. storing' \in Option(Outcome)
    BY <1>2, EmptyType DEF StoreStatus
  <2>6. UNCHANGED <<fetchVars, fetchQ, parseVars, parseQ, final, store, flushFailed, main, run,
                    dbBlocks, dbCandles>>
    BY <1>2 DEF StoreStatus
  <2> HIDE DEF Option, Outcome
  <2> QED
    BY <2>3, <2>4, <2>5, <2>6 DEF fetchVars, parseVars, TypeOK
<1>12. ASSUME StoreAbort
       PROVE  /\ storeAt' \in {"recv", "commit", "steps"} /\ final' \in BOOLEAN
              /\ store' \in {"running", "ok", "error"} /\ storing' \in Option(Outcome)
              /\ pending' \in Seq(Slots) /\ flushing' \in Seq(Slots)
              /\ parseQ' \in Seq(Outcome)
  BY <1>12, EmptyType DEF StoreAbort
<1>3. CASE StoreStatusError
  BY <1>3, <1>12 DEF StoreStatusError, fetchVars, parseVars, dbVars
<1>4. ASSUME FlushFails
      PROVE  /\ storeAt' \in {"recv", "commit", "steps"} /\ final' \in BOOLEAN
             /\ store' \in {"running", "ok", "error"} /\ storing' \in Option(Outcome)
             /\ pending' \in Seq(Slots) /\ flushing' \in Seq(Slots)
             /\ parseQ' \in Seq(Outcome) /\ flushFailed' \in BOOLEAN
  <2>1. CASE final
    BY <1>4, <1>12, <2>1 DEF FlushFails
  <2>2. CASE ~final
    BY <1>4, <2>2 DEF FlushFails
  <2> QED BY <2>1, <2>2
<1>5. CASE FlushCommit
  BY <1>5 DEF FlushCommit, fetchVars, parseVars
<1>6. CASE FlushRollback
  BY <1>4, <1>6 DEF FlushRollback, fetchVars, parseVars, dbVars
<1>7. CASE FlushSteps
  <2>1. Head(flushing) \in Slots /\ Tail(flushing) \in Seq(Slots)
    BY <1>7, ElemsTail DEF FlushSteps
  <2> QED
    BY <1>7, <2>1 DEF FlushSteps, fetchVars, parseVars
<1>8. CASE FlushStepsError
  BY <1>4, <1>8, TypeInterrupted DEF FlushStepsError, fetchVars, parseVars
<1>9. CASE FlushDone
  BY <1>9 DEF FlushDone, fetchVars, parseVars, dbVars
<1>10. CASE StoreFinalFlush
  BY <1>10 DEF StoreFinalFlush, fetchVars, parseVars, dbVars
<1>11. CASE StoreEnd
  BY <1>11 DEF StoreEnd, fetchVars, parseVars, dbVars
<1> QED
  BY <1>1, <1>2, <1>3, <1>5, <1>6, <1>7, <1>8, <1>9, <1>10, <1>11 DEF StoreTask, Flush

\* The pipeline's state stays well typed.
LEMMA TypeStep == TypeOK /\ [Next]_vars => TypeOK'
<1> SUFFICES ASSUME TypeOK, [Next]_vars PROVE TypeOK'
  OBVIOUS
<1>1. CASE MainTask
  BY <1>1 DEF TypeOK, MainTask, Join, JoinFetch, JoinParse, JoinStore, BuildCandles,
              fetchVars, parseVars, storeVars, dbVars
<1>2. CASE Crash
  <2>1. dbBlocks' \in [Slots -> {"absent", "null", "partial", "full"}]
    BY <1>2, TypeInterrupted DEF Crash
  <2> QED BY <1>2, <2>1, TypeFresh DEF Crash, TypeOK
<1>3. CASE Restart
  BY <1>3, TypeFresh, PipelineAssumption DEF Restart, TypeOK, dbVars
<1>4. CASE UNCHANGED vars
  BY <1>4 DEF TypeOK, vars, fetchVars, parseVars, storeVars, dbVars
<1> QED
  BY <1>1, <1>2, <1>3, <1>4, TypeFetch, TypeParse, TypeStore DEF Next, Stopped

\* Every variable of the pipeline keeps its type, for every range, capacity,
\* batch size and concurrency.
THEOREM TypeCorrect == Spec => []TypeOK
  BY TypeInit, TypeStep, PTL DEF Spec

-----------------------------------------------------------------------------
(* The stages end in order.                                                *)

\* At the start no task has ended.
LEMMA OrderInit == Init => StageOrder
  BY PrimedType, PipelineAssumption DEF Init, StageOrder, Primed

\* Stage order, for each step of the fetch task.
LEMMA OrderFetch == TypeOK /\ StageOrder /\ FetchTask => StageOrder'
<1> SUFFICES ASSUME TypeOK, StageOrder, FetchTask PROVE StageOrder'
  OBVIOUS
<1>1. ASSUME DispatchNext, inFlight' = {}
      PROVE  nextSlot' = Count + 1
  BY <1>1, PipelineAssumption DEF DispatchNext, TypeOK
<1>2. CASE FetchNext
  BY <1>2 DEF FetchNext, StageOrder, parseVars, storeVars
<1>3. CASE FetchSend
  BY <1>1, <1>3 DEF FetchSend, DispatchNext, StageOrder, parseVars, storeVars
<1>4. CASE FetchSendDropped
  BY <1>1, <1>4 DEF FetchSendDropped, DispatchNext, StageOrder, parseVars, storeVars
<1>5. CASE FetchEnd
  BY <1>5 DEF FetchEnd, StageOrder, parseVars, storeVars
<1> QED
  BY <1>2, <1>3, <1>4, <1>5 DEF FetchTask

\* Stage order, for each step of the parse task.
LEMMA OrderParse == TypeOK /\ StageOrder /\ ParseTask => StageOrder'
<1> SUFFICES ASSUME TypeOK, StageOrder, ParseTask PROVE StageOrder'
  OBVIOUS
<1>1. CASE ParseRecv
  BY <1>1 DEF ParseRecv, StageOrder, fetchVars, storeVars
<1>2. CASE ParseSend
  BY <1>2 DEF ParseSend, StageOrder, fetchVars, storeVars
<1>3. CASE ParseBail
  BY <1>3 DEF ParseBail, StageOrder, TypeOK, fetchVars, storeVars
<1>4. CASE ParseEnd
  BY <1>4 DEF ParseEnd, StageOrder, fetchVars, storeVars
<1> QED
  BY <1>1, <1>2, <1>3, <1>4 DEF ParseTask

\* Stage order, for each step of the store task.
LEMMA OrderStore == TypeOK /\ StageOrder /\ StoreTask => StageOrder'
<1> SUFFICES ASSUME TypeOK, StageOrder, StoreTask PROVE StageOrder'
  OBVIOUS
<1>1. CASE StoreRecv
  BY <1>1 DEF StoreRecv, StageOrder, fetchVars, parseVars
<1>2. CASE StoreStatus
  <2>1. \/ storeAt' = "commit"
        \/ storeAt' = storeAt /\ flushing' = flushing
    BY <1>2, Zenon DEF StoreStatus
  <2>2. store = "running" /\ UNCHANGED <<fetchVars, fetchQ, parseVars, parseQ, store, main>>
    BY <1>2 DEF StoreStatus
  <2> QED
    BY <2>1, <2>2 DEF StageOrder, fetchVars, parseVars
<1>3. ASSUME StoreAbort, store = "running",
             UNCHANGED <<fetchVars, fetchQ, parseVars, main>>
      PROVE  StageOrder'
  BY <1>3 DEF StoreAbort, StageOrder, fetchVars, parseVars
<1>4. CASE StoreStatusError
  BY <1>3, <1>4 DEF StoreStatusError
<1>5. ASSUME FlushFails, store = "running", storeAt # "recv",
             UNCHANGED <<fetchVars, fetchQ, parseVars, main>>
      PROVE  StageOrder'
  <2>1. CASE final
    BY <1>3, <1>5, <2>1 DEF FlushFails
  <2>2. CASE ~final
    <3>1. storeAt' = "recv" /\ flushing' = <<>> /\ UNCHANGED <<store, storing, pending, parseQ>>
      BY <1>5, <2>2 DEF FlushFails
    <3> QED
      BY <1>5, <3>1 DEF StageOrder, fetchVars, parseVars
  <2> QED BY <2>1, <2>2
<1>6. CASE FlushCommit
  BY <1>6 DEF FlushCommit, StageOrder, fetchVars, parseVars
<1>7. CASE FlushRollback
  BY <1>5, <1>7 DEF FlushRollback
<1>8. CASE FlushSteps
  BY <1>8 DEF FlushSteps, StageOrder, fetchVars, parseVars
<1>9. CASE FlushStepsError
  BY <1>5, <1>9 DEF FlushStepsError
<1>10. CASE FlushDone
  BY <1>10 DEF FlushDone, StageOrder, fetchVars, parseVars
<1>11. CASE StoreFinalFlush
  BY <1>11 DEF StoreFinalFlush, StageOrder, fetchVars, parseVars
<1>12. CASE StoreEnd
  BY <1>12 DEF StoreEnd, StageOrder, TypeOK, fetchVars, parseVars
<1> QED
  BY <1>1, <1>2, <1>4, <1>6, <1>7, <1>8, <1>9, <1>10, <1>11, <1>12 DEF StoreTask, Flush

\* In the memory of a fresh process no task has ended.
LEMMA OrderFresh ==
  ASSUME FreshMemory, main' \in {"fetch", "crashed"}
  PROVE  StageOrder'
  BY PrimedType, PipelineAssumption DEF FreshMemory, StageOrder, Primed

\* Stage order, for each step of the process.
LEMMA OrderStep == TypeOK /\ StageOrder /\ [Next]_vars => StageOrder'
<1> SUFFICES ASSUME TypeOK, StageOrder, [Next]_vars PROVE StageOrder'
  OBVIOUS
<1>1. CASE MainTask
  BY <1>1 DEF StageOrder, TypeOK, MainTask, Join, JoinFetch, JoinParse, JoinStore, BuildCandles,
              fetchVars, parseVars, storeVars
<1>2. CASE Crash
  BY <1>2, OrderFresh DEF Crash
<1>3. CASE Restart
  BY <1>3, OrderFresh DEF Restart
<1>4. CASE UNCHANGED vars
  BY <1>4 DEF StageOrder, vars, fetchVars, parseVars, storeVars
<1> QED
  BY <1>1, <1>2, <1>3, <1>4, OrderFetch, OrderParse, OrderStore DEF Next, Stopped

\* No task ends, and no join returns, before everything it waits for is done.
THEOREM StagesEndInOrder == Spec => []StageOrder
  BY TypeInit, TypeStep, OrderInit, OrderStep, PTL DEF Spec

-----------------------------------------------------------------------------
(* No slot is lost between the stages.                                     *)

\* The slots of an empty, a singleton and a joint set of outcomes.
LEMMA SlotsOfSets ==
  /\ SlotsOf({}) = {}
  /\ \A m : SlotsOf({m}) = {m.slot}
  /\ \A S, T : SlotsOf(S \cup T) = SlotsOf(S) \cup SlotsOf(T)
  BY DEF SlotsOf

\* At the start the slots popped are those the pool was primed with.
LEMMA LostInit == Init => NothingLost
<1> SUFFICES ASSUME Init PROVE 1..(nextSlot - 1) = InTransit \cup SlotsOf(counted)
  BY DEF NothingLost
<1>1. 1..(nextSlot - 1) = inFlight
  BY PrimedType DEF Init
<1> QED
  BY <1>1, SlotsOfSets, ElemsEmpty DEF Init, InTransit

\* The same in the memory of a fresh process.
LEMMA LostFresh == FreshMemory => NothingLost'
<1> SUFFICES ASSUME FreshMemory
             PROVE  1..(nextSlot' - 1) = InTransit' \cup SlotsOf(counted)'
  BY DEF NothingLost
<1>1. 1..(nextSlot' - 1) = inFlight'
  BY PrimedType DEF FreshMemory
<1>2. /\ SlotsOf(sending)' = {} /\ SlotsOf(Elems(fetchQ))' = {} /\ SlotsOf(parsing)' = {}
      /\ SlotsOf(Elems(parseQ))' = {} /\ SlotsOf(storing)' = {} /\ SlotsOf(counted)' = {}
  BY SlotsOfSets, ElemsEmpty DEF FreshMemory
<1> QED
  BY <1>1, <1>2 DEF InTransit

\* No slot is lost by a step of the fetch task.
LEMMA LostFetch == TypeOK /\ StageOrder /\ NothingLost /\ FetchTask => NothingLost'
<1> SUFFICES ASSUME TypeOK, StageOrder, NothingLost, FetchTask, parse' # "error", store' # "error"
             PROVE  1..(nextSlot' - 1) = InTransit' \cup SlotsOf(counted)'
  BY DEF NothingLost
<1>1. UNCHANGED <<parsing, parse, parseQ, storing, store, counted>>
  BY DEF FetchTask, FetchNext, FetchSend, FetchSendDropped, FetchEnd, parseVars, storeVars
<1>2. 1..(nextSlot - 1) = InTransit \cup SlotsOf(counted)
  BY <1>1 DEF NothingLost
<1>3. ASSUME DispatchNext
      PROVE  \E X : /\ 1..(nextSlot' - 1) = 1..(nextSlot - 1) \cup X
                    /\ inFlight' = inFlight \cup X
  <2>1. CASE nextSlot <= Count
    <3>1. nextSlot' = nextSlot + 1 /\ inFlight' = inFlight \cup {nextSlot}
      BY <1>3, <2>1 DEF DispatchNext
    <3>2. 1..nextSlot = 1..(nextSlot - 1) \cup {nextSlot} /\ (nextSlot + 1) - 1 = nextSlot
      BY PipelineAssumption DEF TypeOK
    <3> QED BY <3>1, <3>2
  <2>2. CASE ~(nextSlot <= Count)
    <3>1. nextSlot' = nextSlot /\ inFlight' = inFlight \cup {}
      BY <1>3, <2>2 DEF DispatchNext
    <3> QED BY <3>1
  <2> QED BY <2>1, <2>2
<1>4. CASE FetchNext
  <2>1. PICK s \in inFlight, k \in Kinds :
          sending' = {[slot |-> s, kind |-> k]} /\ inFlight' = inFlight \ {s}
    BY <1>4 DEF FetchNext
  <2>2. SlotsOf(sending') = {s} /\ SlotsOf(sending) = {}
    <3>1. SlotsOf({[slot |-> s, kind |-> k]}) = {s}
      BY DEF SlotsOf
    <3> QED BY <1>4, <2>1, <3>1, SlotsOfSets DEF FetchNext
  <2>3. inFlight = inFlight' \cup SlotsOf(sending') /\ nextSlot' = nextSlot /\ fetchQ' = fetchQ
    BY <1>4, <2>1, <2>2 DEF FetchNext
  <2> QED
    BY <1>1, <1>2, <2>2, <2>3 DEF InTransit
<1>5. CASE FetchSend
  <2>1. PICK m \in sending : fetchQ' = Append(fetchQ, m)
    BY <1>5 DEF FetchSend
  <2>2. sending = {m} /\ m \in Outcome /\ sending' = {}
    BY <1>5, <2>1 DEF TypeOK, Option, FetchSend, DispatchNext
  <2>3. Elems(fetchQ') = Elems(fetchQ) \cup {m}
    BY <2>1, <2>2, ElemsAppend DEF TypeOK
  <2>4. SlotsOf(Elems(fetchQ')) = SlotsOf(Elems(fetchQ)) \cup SlotsOf(sending)
    BY <2>2, <2>3, SlotsOfSets
  <2>5. DispatchNext /\ SlotsOf(sending') = {}
    BY <1>5, <2>2, SlotsOfSets DEF FetchSend
  <2>6. PICK X : /\ 1..(nextSlot' - 1) = 1..(nextSlot - 1) \cup X
                 /\ inFlight' = inFlight \cup X
    BY <1>3, <2>5
  <2> QED
    BY <1>1, <1>2, <2>4, <2>5, <2>6 DEF InTransit
<1>6. CASE FetchSendDropped
  BY <1>1, <1>6 DEF FetchSendDropped, TypeOK, StageOrder
<1>7. CASE FetchEnd
  BY <1>1, <1>2, <1>7 DEF FetchEnd, InTransit
<1> QED
  BY <1>4, <1>5, <1>6, <1>7 DEF FetchTask

\* No slot is lost by a step of the parse task.
LEMMA LostParse == TypeOK /\ NothingLost /\ ParseTask => NothingLost'
<1> SUFFICES ASSUME TypeOK, NothingLost, ParseTask, parse' # "error", store' # "error"
             PROVE  1..(nextSlot' - 1) = InTransit' \cup SlotsOf(counted)'
  BY DEF NothingLost
<1>1. UNCHANGED <<nextSlot, inFlight, sending, storing, store, counted>>
  BY DEF ParseTask, ParseRecv, ParseSend, ParseBail, ParseEnd, fetchVars, storeVars
<1>2. parse # "error"
  BY DEF ParseTask, ParseRecv, ParseSend, ParseBail, ParseEnd
<1>3. 1..(nextSlot - 1) = InTransit \cup SlotsOf(counted)
  BY <1>1, <1>2 DEF NothingLost
<1>4. CASE ParseRecv
  <2>1. Elems(fetchQ) = {Head(fetchQ)} \cup Elems(Tail(fetchQ))
    BY <1>4, ElemsTail DEF ParseRecv, TypeOK
  <2>2. /\ SlotsOf(Elems(fetchQ)) = SlotsOf(parsing') \cup SlotsOf(Elems(fetchQ'))
        /\ SlotsOf(parsing) = {} /\ parseQ' = parseQ
    BY <1>4, <2>1, SlotsOfSets DEF ParseRecv
  <2> QED
    BY <1>1, <1>3, <2>2 DEF InTransit
<1>5. CASE ParseSend
  <2>1. PICK m \in parsing : parseQ' = Append(parseQ, m)
    BY <1>5 DEF ParseSend
  <2>2. parsing = {m} /\ m \in Outcome /\ parsing' = {} /\ fetchQ' = fetchQ
    BY <1>5, <2>1 DEF TypeOK, Option, ParseSend
  <2>3. Elems(parseQ') = Elems(parseQ) \cup parsing
    BY <2>1, <2>2, ElemsAppend DEF TypeOK
  <2>4. /\ SlotsOf(Elems(parseQ')) = SlotsOf(Elems(parseQ)) \cup SlotsOf(parsing)
        /\ SlotsOf(parsing') = {}
    BY <2>2, <2>3, SlotsOfSets
  <2> QED
    BY <1>1, <1>3, <2>2, <2>4 DEF InTransit
<1>6. CASE ParseBail
  BY <1>6 DEF ParseBail
<1>7. CASE ParseEnd
  BY <1>1, <1>3, <1>7 DEF ParseEnd, InTransit
<1> QED
  BY <1>4, <1>5, <1>6, <1>7 DEF ParseTask

\* No slot is lost by a step of the store task.
LEMMA LostStore == TypeOK /\ NothingLost /\ StoreTask => NothingLost'
<1> SUFFICES ASSUME TypeOK, NothingLost, StoreTask, parse' # "error", store' # "error"
             PROVE  1..(nextSlot' - 1) = InTransit' \cup SlotsOf(counted)'
  BY DEF NothingLost
<1>1. UNCHANGED <<nextSlot, inFlight, sending, fetchQ, parsing, parse>>
  BY DEF StoreTask, Flush, StoreRecv, StoreStatus, StoreStatusError, FlushCommit, FlushRollback,
         FlushSteps, FlushStepsError, FlushDone, StoreFinalFlush, StoreEnd, fetchVars, parseVars
<1>2. store # "error"
  BY DEF StoreTask, Flush, StoreRecv, StoreStatus, StoreStatusError, FlushCommit, FlushRollback,
         FlushSteps, FlushStepsError, FlushDone, StoreFinalFlush, StoreEnd
<1>3. 1..(nextSlot - 1) = InTransit \cup SlotsOf(counted)
  BY <1>1, <1>2 DEF NothingLost
<1>4. ASSUME UNCHANGED <<parseQ, storing, counted>>
      PROVE  1..(nextSlot' - 1) = InTransit' \cup SlotsOf(counted)'
  BY <1>1, <1>3, <1>4 DEF InTransit
<1>5. CASE StoreRecv
  <2>1. Elems(parseQ) = {Head(parseQ)} \cup Elems(Tail(parseQ))
    BY <1>5, ElemsTail DEF StoreRecv, TypeOK
  <2>2. /\ SlotsOf(Elems(parseQ)) = SlotsOf(storing') \cup SlotsOf(Elems(parseQ'))
        /\ SlotsOf(storing) = {} /\ counted' = counted
    BY <1>5, <2>1, SlotsOfSets DEF StoreRecv
  <2> QED
    BY <1>1, <1>3, <2>2 DEF InTransit
<1>6. CASE StoreStatus
  <2>1. PICK m \in storing : counted' = counted \cup {m}
    BY <1>6, Zenon DEF StoreStatus
  <2>2. storing = {m} /\ storing' = {} /\ parseQ' = parseQ
    BY <1>6, <2>1 DEF TypeOK, Option, StoreStatus
  <2>3. SlotsOf(counted') = SlotsOf(counted) \cup SlotsOf(storing) /\ SlotsOf(storing') = {}
    BY <2>1, <2>2, SlotsOfSets
  <2> QED
    BY <1>1, <1>3, <2>2, <2>3 DEF InTransit
<1>7. ASSUME FlushFails
      PROVE  UNCHANGED <<parseQ, storing>>
  <2>1. CASE final
    BY <1>7, <2>1 DEF FlushFails, StoreAbort
  <2>2. CASE ~final
    BY <1>7, <2>2 DEF FlushFails
  <2> QED BY <2>1, <2>2
<1>8. CASE StoreStatusError
  BY <1>8 DEF StoreStatusError, StoreAbort
<1>9. CASE FlushRollback \/ FlushStepsError
  BY <1>4, <1>7, <1>9 DEF FlushRollback, FlushStepsError
<1>10. CASE FlushCommit \/ FlushSteps \/ FlushDone \/ StoreFinalFlush \/ StoreEnd
  BY <1>4, <1>10 DEF FlushCommit, FlushSteps, FlushDone, StoreFinalFlush, StoreEnd
<1> QED
  BY <1>5, <1>6, <1>8, <1>9, <1>10 DEF StoreTask, Flush

\* No slot is lost by a step of the process.
LEMMA LostStep == TypeOK /\ StageOrder /\ NothingLost /\ [Next]_vars => NothingLost'
<1> SUFFICES ASSUME TypeOK, StageOrder, NothingLost, [Next]_vars PROVE NothingLost'
  OBVIOUS
<1>1. CASE MainTask
  BY <1>1 DEF NothingLost, InTransit, MainTask, Join, BuildCandles,
              fetchVars, parseVars, storeVars
<1>2. CASE Crash \/ Restart
  BY <1>2, LostFresh DEF Crash, Restart
<1>3. CASE UNCHANGED vars
  BY <1>3 DEF NothingLost, InTransit, vars, fetchVars, parseVars, storeVars
<1> QED
  BY <1>1, <1>2, <1>3, LostFetch, LostParse, LostStore DEF Next, Stopped

\* Unless a stage fails, every slot taken from the work list is in a future, a
\* channel or a task's hands, or counted: whatever the interleaving, no slot
\* is lost between the stages.
THEOREM NoSlotIsLost == Spec => []NothingLost
<1> DEFINE I == TypeOK /\ StageOrder /\ NothingLost
<1>1. Init => I
  BY TypeInit, OrderInit, LostInit
<1>2. I /\ [Next]_vars => I'
  BY TypeStep, OrderStep, LostStep
<1>3. I => NothingLost
  OBVIOUS
<1> QED BY <1>1, <1>2, <1>3, PTL DEF Spec

-----------------------------------------------------------------------------
(* What is counted is recorded, and a successful run has counted it all.   *)

\* At the start nothing is counted.
LEMMA RecordedInit == Init => CountedIsRecorded
  BY DEF Init, CountedIsRecorded

\* A fresh process has counted nothing.
LEMMA RecordedFresh == FreshMemory => CountedIsRecorded'
  BY DEF FreshMemory, CountedIsRecorded

\* Steps that leave the counters, the batches and the tables alone.
LEMMA RecordedSame ==
  ASSUME CountedIsRecorded,
         UNCHANGED <<counted, pending, flushing, flushFailed, store, dbStatus, dbBlocks>>
  PROVE  CountedIsRecorded'
  BY DEF CountedIsRecorded, KindsCounted

\* Counters and tables agree after each step of the store task.
LEMMA RecordedStore == TypeOK /\ StageOrder /\ CountedIsRecorded /\ StoreTask => CountedIsRecorded'
<1> SUFFICES ASSUME TypeOK, StageOrder, CountedIsRecorded, StoreTask
             PROVE  CountedIsRecorded'
  OBVIOUS
<1>1. CASE StoreRecv
  BY <1>1, RecordedSame DEF StoreRecv, dbVars
<1>2. CASE StoreStatus
  <2>1. PICK m \in storing :
          /\ dbStatus' = [dbStatus EXCEPT ![m.slot] = m.kind]
          /\ counted' = counted \cup {m}
          /\ \E batch :
               /\ batch = IF m.kind = "ingested" THEN Append(pending, m.slot) ELSE pending
               /\ \/ flushing' = batch /\ pending' = <<>> /\ storeAt' = "commit"
                  \/ pending' = batch /\ flushing' = flushing
    BY <1>2, Zenon DEF StoreStatus
  <2>2. m \in Outcome /\ m.slot \in Slots /\ m.kind \in Kinds
    BY <2>1 DEF Option, Outcome, TypeOK
  <2>3. /\ storeAt = "recv" /\ store = "running"
        /\ UNCHANGED <<store, flushFailed, dbBlocks>>
    BY <1>2 DEF StoreStatus
  <2>4. ASSUME NEW c \in counted'
        PROVE  dbStatus'[c.slot] \in KindsCounted(c.slot)'
    <3>1. CASE c.slot = m.slot
      <4>1. dbStatus'[c.slot] = m.kind
        BY <2>1, <2>2, <3>1 DEF TypeOK
      <4> QED BY <2>1, <3>1, <4>1 DEF KindsCounted
    <3>2. CASE c.slot # m.slot
      <4>1. c \in counted
        BY <2>1, <3>2
      <4>2. dbStatus'[c.slot] = dbStatus[c.slot]
        BY <2>1, <2>2, <3>2, <4>1 DEF TypeOK, Outcome
      <4>3. dbStatus[c.slot] \in KindsCounted(c.slot)
        BY <4>1 DEF CountedIsRecorded
      <4>4. KindsCounted(c.slot) \subseteq KindsCounted(c.slot)'
        BY <2>1 DEF KindsCounted
      <4> QED
        BY <4>2, <4>3, <4>4
    <3> QED BY <3>1, <3>2
  <2>5. ASSUME ~flushFailed, flushing = <<>>, NEW c \in counted', c.kind = "ingested"
        PROVE  c.slot \in Elems(pending') \cup Elems(flushing') \/ dbBlocks'[c.slot] = "full"
    <3>1. PICK batch :
            /\ batch = IF m.kind = "ingested" THEN Append(pending, m.slot) ELSE pending
            /\ \/ flushing' = batch
               \/ pending' = batch /\ flushing' = flushing
      BY <2>1
    <3>2. Elems(batch) = IF m.kind = "ingested" THEN Elems(pending) \cup {m.slot}
                         ELSE Elems(pending)
      <4>1. Elems(Append(pending, m.slot)) = Elems(pending) \cup {m.slot}
        BY <2>2, ElemsAppend DEF TypeOK
      <4> QED BY <3>1, <4>1
    <3>3. Elems(batch) \subseteq Elems(pending') \cup Elems(flushing')
      BY <3>1
    <3>4. CASE c = m
      BY <2>5, <3>2, <3>3, <3>4
    <3>5. CASE c # m
      <4>1. c \in counted /\ store # "error"
        BY <2>1, <2>3, <3>5
      <4>2. c.slot \in Elems(pending) \/ dbBlocks[c.slot] = "full"
        BY <2>5, <4>1, ElemsEmpty DEF CountedIsRecorded
      <4> QED BY <2>3, <3>2, <3>3, <4>2
    <3> QED BY <3>4, <3>5
  <2>6. flushing = <<>>
    BY <2>3 DEF StageOrder
  <2> QED
    BY <2>3, <2>4, <2>5, <2>6 DEF CountedIsRecorded
<1>3. ASSUME UNCHANGED <<counted, dbStatus>>, store' = "error" \/ flushFailed'
      PROVE  CountedIsRecorded'
  <2>1. \A m \in counted' : dbStatus'[m.slot] \in KindsCounted(m.slot)'
    BY <1>3 DEF CountedIsRecorded, KindsCounted
  <2> QED BY <1>3, <2>1 DEF CountedIsRecorded
<1>4. CASE StoreStatusError
  BY <1>3, <1>4 DEF StoreStatusError, StoreAbort, dbVars
<1>5. CASE FlushRollback \/ FlushStepsError
  <2>1. UNCHANGED <<counted, dbStatus>> /\ FlushFails
    BY <1>5 DEF FlushRollback, FlushStepsError, dbVars
  <2>2. CASE final
    BY <1>3, <2>1, <2>2 DEF FlushFails, StoreAbort
  <2>3. CASE ~final
    BY <1>3, <2>1, <2>3 DEF FlushFails
  <2> QED BY <2>2, <2>3
\* The other steps of a flush keep every block in the batch or stored.
<1>6. ASSUME UNCHANGED <<counted, dbStatus, store, flushFailed>>, store = "running",
             \A s \in Slots :
               s \in Elems(pending) \cup Elems(flushing) \/ dbBlocks[s] = "full" =>
                 s \in Elems(pending') \cup Elems(flushing') \/ dbBlocks'[s] = "full"
      PROVE  CountedIsRecorded'
  <2>1. \A m \in counted' : dbStatus'[m.slot] \in KindsCounted(m.slot)'
    BY <1>6 DEF CountedIsRecorded, KindsCounted
  <2>2. \A m \in counted : m.slot \in Slots
    BY DEF TypeOK, Outcome
  <2>3. ASSUME ~flushFailed, NEW m \in counted, m.kind = "ingested"
        PROVE  m.slot \in Elems(pending') \cup Elems(flushing') \/ dbBlocks'[m.slot] = "full"
    BY <1>6, <2>2, <2>3 DEF CountedIsRecorded
  <2> QED
    BY <1>6, <2>1, <2>3 DEF CountedIsRecorded
<1>7. CASE FlushCommit
  <2>1. /\ UNCHANGED <<counted, dbStatus, store, flushFailed, pending, flushing>>
        /\ store = "running"
        /\ \A s \in Slots : s \notin Elems(flushing) => dbBlocks'[s] = dbBlocks[s]
    BY <1>7 DEF FlushCommit
  <2> QED BY <1>6, <2>1
<1>8. CASE FlushSteps
  <2>1. /\ UNCHANGED <<counted, dbStatus, store, flushFailed, pending>>
        /\ store = "running" /\ flushing' = Tail(flushing)
        /\ dbBlocks' = [dbBlocks EXCEPT ![Head(flushing)] = "full"]
    BY <1>8 DEF FlushSteps
  <2>2. Elems(flushing) = {Head(flushing)} \cup Elems(flushing') /\ Head(flushing) \in Slots
    BY <1>8, <2>1, ElemsTail DEF FlushSteps, TypeOK
  <2>3. \A s \in Slots : dbBlocks'[s] = IF s = Head(flushing) THEN "full" ELSE dbBlocks[s]
    BY <2>1 DEF TypeOK
  <2> QED BY <1>6, <2>1, <2>2, <2>3
<1>9. CASE FlushDone
  BY <1>9, RecordedSame DEF FlushDone, dbVars
<1>10. CASE StoreFinalFlush
  <2>1. /\ UNCHANGED <<counted, dbStatus, dbBlocks, store, flushFailed>> /\ store = "running"
        /\ flushing' = pending /\ storeAt = "recv"
    BY <1>10 DEF StoreFinalFlush, dbVars
  <2>2. Elems(flushing) = {}
    BY <2>1, ElemsEmpty DEF StageOrder
  <2> QED BY <1>6, <2>1, <2>2
<1>11. CASE StoreEnd
  <2>1. UNCHANGED <<counted, pending, flushing, flushFailed, dbStatus, dbBlocks>>
    BY <1>11 DEF StoreEnd, dbVars
  <2>2. store = "running"
    BY <1>11 DEF StoreEnd
  <2> QED BY <2>1, <2>2 DEF CountedIsRecorded, KindsCounted
<1> QED
  BY <1>1, <1>2, <1>4, <1>5, <1>7, <1>8, <1>9, <1>10, <1>11 DEF StoreTask, Flush

\* Counters and tables agree after each step of the process.
LEMMA RecordedStep ==
  TypeOK /\ StageOrder /\ CountedIsRecorded /\ [Next]_vars => CountedIsRecorded'
<1> SUFFICES ASSUME TypeOK, StageOrder, CountedIsRecorded, [Next]_vars
             PROVE  CountedIsRecorded'
  OBVIOUS
<1>1. CASE FetchTask
  BY <1>1, RecordedSame DEF FetchTask, FetchNext, FetchSend, FetchSendDropped, FetchEnd,
                            storeVars, dbVars
<1>2. CASE ParseTask
  BY <1>2, RecordedSame DEF ParseTask, ParseRecv, ParseSend, ParseBail, ParseEnd,
                            storeVars, dbVars
<1>3. CASE MainTask
  BY <1>3, RecordedSame DEF MainTask, Join, BuildCandles, storeVars, dbVars
<1>4. CASE Crash \/ Restart
  BY <1>4, RecordedFresh DEF Crash, Restart
<1>5. CASE UNCHANGED vars
  BY <1>5, RecordedSame DEF vars, storeVars, dbVars
<1> QED
  BY <1>1, <1>2, <1>3, <1>4, <1>5, RecordedStore DEF Next, Stopped

\* What makes success complete: all of the above together.
IInv == TypeOK /\ StageOrder /\ NothingLost /\ CountedIsRecorded /\ SuccessIsComplete

\* Only the step that builds the candles makes a run succeed; it finds every
\* stage ended and every batch flushed, and reads all the blocks stored.
LEMMA SuccessStep == IInv /\ [Next]_vars => SuccessIsComplete'
<1> SUFFICES ASSUME IInv, [Next]_vars, main' = "ok", MaxConcurrency > 0
             PROVE  /\ SlotsOf(counted)' = Slots
                    /\ \A s \in Slots : dbStatus'[s] \in KindsCounted(s)'
                    /\ ~flushFailed' => \A m \in counted' : m.kind = "ingested" =>
                                          dbBlocks'[m.slot] = "full" /\ m.slot \in dbCandles'
  BY DEF SuccessIsComplete
<1> USE DEF IInv
<1>1. CASE FetchTask \/ ParseTask \/ StoreTask
  <2>1. Live
    BY <1>1 DEF FetchTask, ParseTask, StoreTask
  <2>2. main' = main
    BY <1>1 DEF FetchTask, FetchNext, FetchSend, FetchSendDropped, FetchEnd,
                ParseTask, ParseRecv, ParseSend, ParseBail, ParseEnd,
                StoreTask, Flush, StoreRecv, StoreStatus, StoreStatusError, FlushCommit,
                FlushRollback, FlushSteps, FlushStepsError, FlushDone, StoreFinalFlush, StoreEnd
  <2> QED BY <2>1, <2>2 DEF Live
<1>2. CASE Join
  BY <1>2 DEF Join, JoinFetch, JoinParse, JoinStore
<1>3. CASE BuildCandles
  <2>1. /\ main = "candles"
        /\ dbCandles' = {s \in Slots : dbBlocks[s] # "absent"}
        /\ UNCHANGED <<counted, flushFailed, dbStatus, dbBlocks>>
    BY <1>3 DEF BuildCandles, storeVars
  <2>2. /\ store = "ok" /\ parse = "ok" /\ fetch = "ok"
        /\ inFlight = {} /\ sending = {} /\ fetchQ = <<>> /\ parsing = {}
        /\ parseQ = <<>> /\ storing = {} /\ pending = <<>> /\ flushing = <<>>
        /\ nextSlot = Count + 1
    BY <2>1 DEF StageOrder
  <2>3. InTransit = {}
    BY <2>2, SlotsOfSets, ElemsEmpty DEF InTransit
  <2>4. SlotsOf(counted) = Slots
    <3>1. 1..(nextSlot - 1) = SlotsOf(counted)
      BY <2>2, <2>3 DEF NothingLost
    <3>2. nextSlot - 1 = Count
      BY <2>2, PipelineAssumption
    <3> QED BY <3>1, <3>2 DEF Slots
  <2>5. ASSUME NEW s \in Slots
        PROVE  dbStatus[s] \in KindsCounted(s)
    <3>1. PICK m \in counted : m.slot = s
      BY <2>4 DEF SlotsOf
    <3> QED BY <3>1 DEF CountedIsRecorded
  <2>6. ASSUME ~flushFailed, NEW m \in counted, m.kind = "ingested"
        PROVE  dbBlocks[m.slot] = "full" /\ m.slot \in dbCandles'
    <3>1. dbBlocks[m.slot] = "full"
      BY <2>2, <2>6, ElemsEmpty DEF CountedIsRecorded
    <3>2. m.slot \in Slots
      BY DEF TypeOK, Outcome
    <3> QED BY <2>1, <3>1, <3>2
  <2> QED
    BY <2>1, <2>4, <2>5, <2>6 DEF KindsCounted
<1>4. CASE Crash \/ Restart
  BY <1>4 DEF Crash, Restart
<1>5. CASE UNCHANGED vars
  <2>1. main = "ok" /\ UNCHANGED <<counted, flushFailed, dbStatus, dbBlocks, dbCandles>>
    BY <1>5 DEF vars, storeVars, dbVars
  <2> QED BY <2>1 DEF SuccessIsComplete, KindsCounted
<1> QED
  BY <1>1, <1>2, <1>3, <1>4, <1>5 DEF Next, MainTask, Stopped

\* IInv holds at the start.
LEMMA InvInit == Init => IInv
<1>1. Init => SuccessIsComplete
  BY DEF Init, SuccessIsComplete
<1> QED
  BY <1>1, TypeInit, OrderInit, LostInit, RecordedInit DEF IInv

\* IInv is inductive.
LEMMA InvStep == IInv /\ [Next]_vars => IInv'
  BY TypeStep, OrderStep, LostStep, RecordedStep, SuccessStep DEF IInv

\* IInv is an invariant of the pipeline.
THEOREM Invariance == Spec => []IInv
  BY InvInit, InvStep, PTL DEF Spec

\* A run that returns success has counted every slot of the range and recorded
\* its outcome, and, unless it logged a flush error, has stored every block it
\* counted as ingested with its schedule and built the candles from it:
\* however the tasks interleaved, and whatever earlier runs left behind.
THEOREM SuccessCompletes == Spec => []SuccessIsComplete
<1>1. IInv => SuccessIsComplete
  BY DEF IInv
<1> QED BY <1>1, Invariance, PTL

\* What the counters say is in the database (main.rs, lines 211-257), in every
\* run, for every range and batch size.
THEOREM CountersAreRecorded == Spec => []CountedIsRecorded
<1>1. IInv => CountedIsRecorded
  BY DEF IInv
<1> QED BY <1>1, Invariance, PTL

-----------------------------------------------------------------------------
(* How many slots the stages hold.                                         *)

\* A channel or batch holds at most as many elements as it is long.
LEMMA ElemsBound ==
  ASSUME NEW S, NEW q \in Seq(S)
  PROVE  /\ IsFiniteSet(Elems(q)) /\ Len(q) \in Nat
         /\ Cardinality(Elems(q)) \in Nat /\ Cardinality(Elems(q)) <= Len(q)
<1> DEFINE f == [i \in 1..Len(q) |-> q[i]]
<1>1. Len(q) \in Nat
  OBVIOUS
<1>2. IsFiniteSet(1..Len(q)) /\ Cardinality(1..Len(q)) = Len(q)
  BY <1>1, FS_Interval
<1>3. f \in Surjection(1..Len(q), Elems(q))
  BY DEF Surjection, Elems
<1>4. IsFiniteSet(Elems(q)) /\ Cardinality(Elems(q)) <= Len(q)
  BY <1>2, <1>3, FS_Surjection
<1> QED BY <1>1, <1>4, FS_CardinalityType

\* Outcomes are of at most as many slots as there are outcomes.
LEMMA SlotsOfBound ==
  ASSUME NEW M, IsFiniteSet(M)
  PROVE  /\ IsFiniteSet(SlotsOf(M)) /\ Cardinality(M) \in Nat
         /\ Cardinality(SlotsOf(M)) \in Nat /\ Cardinality(SlotsOf(M)) <= Cardinality(M)
<1> DEFINE f == [m \in M |-> m.slot]
<1>1. f \in Surjection(M, SlotsOf(M))
  BY DEF Surjection, SlotsOf
<1>2. IsFiniteSet(SlotsOf(M)) /\ Cardinality(SlotsOf(M)) <= Cardinality(M)
  BY <1>1, FS_Surjection
<1> QED BY <1>2, FS_CardinalityType

\* A channel's outcomes are of at most as many slots as it is long.
LEMMA ChannelBound ==
  ASSUME NEW q \in Seq(Outcome)
  PROVE  /\ IsFiniteSet(SlotsOf(Elems(q))) /\ Cardinality(SlotsOf(Elems(q))) \in Nat
         /\ Cardinality(SlotsOf(Elems(q))) <= Len(q) /\ Len(q) \in Nat
<1>1. /\ IsFiniteSet(Elems(q)) /\ Cardinality(Elems(q)) \in Nat
      /\ Cardinality(Elems(q)) <= Len(q) /\ Len(q) \in Nat
  BY ElemsBound
<1>2. /\ IsFiniteSet(SlotsOf(Elems(q))) /\ Cardinality(SlotsOf(Elems(q))) \in Nat
      /\ Cardinality(SlotsOf(Elems(q))) <= Cardinality(Elems(q))
  BY <1>1, SlotsOfBound
<1> QED BY <1>1, <1>2

\* What a task has in its hands is nothing or one outcome.
LEMMA OptionBound ==
  ASSUME NEW S, NEW x \in Option(S)
  PROVE  IsFiniteSet(x) /\ Cardinality(x) = IF x = {} THEN 0 ELSE 1
<1>1. CASE x = {}
  BY <1>1, FS_EmptySet
<1>2. CASE x # {}
  <2>1. PICK y \in S : x = {y}
    BY <1>2 DEF Option
  <2> QED BY <1>2, <2>1, FS_Singleton
<1> QED BY <1>1, <1>2

\* A union has at most as many elements as its parts together.
LEMMA UnionBound ==
  ASSUME NEW A, IsFiniteSet(A), NEW B, IsFiniteSet(B)
  PROVE  /\ IsFiniteSet(A \cup B) /\ Cardinality(A \cup B) \in Nat
         /\ Cardinality(A) \in Nat /\ Cardinality(B) \in Nat
         /\ Cardinality(A \cup B) <= Cardinality(A) + Cardinality(B)
         /\ A \cap B = {} => Cardinality(A \cup B) = Cardinality(A) + Cardinality(B)
<1>1. /\ IsFiniteSet(A \cup B)
      /\ Cardinality(A \cup B) = Cardinality(A) + Cardinality(B) - Cardinality(A \cap B)
  BY FS_Union
<1>2. IsFiniteSet(A \cap B)
  BY FS_Intersection
<1>3. /\ Cardinality(A) \in Nat /\ Cardinality(B) \in Nat /\ Cardinality(A \cup B) \in Nat
      /\ Cardinality(A \cap B) \in Nat
  BY <1>1, <1>2, FS_CardinalityType
<1>4. A \cap B = {} => Cardinality(A \cap B) = 0
  BY FS_EmptySet
<1> QED BY <1>1, <1>3, <1>4

\* Sums are ordered as their terms are.
LEMMA SumsOfSix ==
  ASSUME NEW a \in Nat, NEW b \in Nat, NEW c \in Nat, NEW d \in Nat, NEW e \in Nat,
         NEW g \in Nat, NEW v \in Nat, NEW w \in Nat, NEW x \in Nat, NEW y \in Nat,
         NEW z \in Nat, b <= v, c <= w, d <= x, e <= y, g <= z
  PROVE  a + b + c + d + e + g <= a + v + w + x + y + z
  OBVIOUS

\* The same for the six places a slot can be in.
LEMMA UnionOfSix ==
  ASSUME NEW A, IsFiniteSet(A), NEW B, IsFiniteSet(B), NEW C, IsFiniteSet(C),
         NEW D, IsFiniteSet(D), NEW E, IsFiniteSet(E), NEW F, IsFiniteSet(F)
  PROVE  LET U == A \cup B \cup C \cup D \cup E \cup F IN
         /\ IsFiniteSet(U) /\ Cardinality(U) \in Nat
         /\ Cardinality(U) <= Cardinality(A) + Cardinality(B) + Cardinality(C)
                                + Cardinality(D) + Cardinality(E) + Cardinality(F)
<1> DEFINE ab == A \cup B
           abc == ab \cup C
           abcd == abc \cup D
           abcde == abcd \cup E
           all == abcde \cup F
<1>1. /\ IsFiniteSet(ab) /\ Cardinality(ab) \in Nat
      /\ Cardinality(A) \in Nat /\ Cardinality(B) \in Nat
      /\ Cardinality(ab) <= Cardinality(A) + Cardinality(B)
  BY UnionBound
<1> HIDE DEF ab
<1>2. /\ IsFiniteSet(abc) /\ Cardinality(abc) \in Nat /\ Cardinality(C) \in Nat
      /\ Cardinality(abc) <= Cardinality(ab) + Cardinality(C)
  BY <1>1, UnionBound
<1> HIDE DEF abc
<1>3. /\ IsFiniteSet(abcd) /\ Cardinality(abcd) \in Nat /\ Cardinality(D) \in Nat
      /\ Cardinality(abcd) <= Cardinality(abc) + Cardinality(D)
  BY <1>2, UnionBound
<1> HIDE DEF abcd
<1>4. /\ IsFiniteSet(abcde) /\ Cardinality(abcde) \in Nat /\ Cardinality(E) \in Nat
      /\ Cardinality(abcde) <= Cardinality(abcd) + Cardinality(E)
  BY <1>3, UnionBound
<1> HIDE DEF abcde
<1>5. /\ IsFiniteSet(all) /\ Cardinality(all) \in Nat /\ Cardinality(F) \in Nat
      /\ Cardinality(all) <= Cardinality(abcde) + Cardinality(F)
  BY <1>4, UnionBound
<1>6. all = A \cup B \cup C \cup D \cup E \cup F
  BY DEF ab, abc, abcd, abcde, all
<1> HIDE DEF all
<1>7. Cardinality(all) <= Cardinality(A) + Cardinality(B) + Cardinality(C)
                            + Cardinality(D) + Cardinality(E) + Cardinality(F)
  BY <1>1, <1>2, <1>3, <1>4, <1>5
<1> QED BY <1>5, <1>6, <1>7

\* The slots in a place or counted, and how much the places and the counters
\* add up to: NothingTwice says that the two agree.
Accounted == InTransit \cup SlotsOf(counted)

Held  == Cardinality(inFlight) + Cardinality(sending) + Len(fetchQ) + Cardinality(parsing)
           + Len(parseQ) + Cardinality(storing)
Tally == Held + Cardinality(counted)

\* The places and the counters hold finitely many outcomes.
Finite == IsFiniteSet(counted)

\* Every place holds finitely many outcomes, a task at most one.
LEMMA Finiteness ==
  ASSUME TypeOK
  PROVE  /\ IsFiniteSet(inFlight) /\ Cardinality(inFlight) \in Nat
         /\ IsFiniteSet(sending) /\ Cardinality(sending) = IF sending = {} THEN 0 ELSE 1
         /\ IsFiniteSet(parsing) /\ Cardinality(parsing) = IF parsing = {} THEN 0 ELSE 1
         /\ IsFiniteSet(storing) /\ Cardinality(storing) = IF storing = {} THEN 0 ELSE 1
         /\ Len(fetchQ) \in Nat /\ Len(parseQ) \in Nat
<1>1. IsFiniteSet(inFlight)
  <2>1. IsFiniteSet(1..Count)
    BY PrimedType, FS_Interval
  <2> QED BY <2>1, FS_Subset DEF TypeOK, Slots
<1>2. Cardinality(inFlight) \in Nat
  BY <1>1, FS_CardinalityType
<1>3. sending \in Option(Outcome) /\ parsing \in Option(Outcome) /\ storing \in Option(Outcome)
  BY DEF TypeOK
<1>4. Len(fetchQ) \in Nat /\ Len(parseQ) \in Nat
  BY DEF TypeOK
<1> QED BY <1>1, <1>2, <1>3, <1>4, OptionBound

\* The slots in transit are at most what the places hold.
LEMMA TransitBound ==
  ASSUME TypeOK
  PROVE  /\ IsFiniteSet(InTransit) /\ Cardinality(InTransit) \in Nat
         /\ Held \in Nat /\ Cardinality(InTransit) <= Held
<1> DEFINE b == SlotsOf(sending)
           c == SlotsOf(Elems(fetchQ))
           d == SlotsOf(parsing)
           e == SlotsOf(Elems(parseQ))
           g == SlotsOf(storing)
<1>1. IsFiniteSet(inFlight) /\ Cardinality(inFlight) \in Nat
  BY Finiteness
<1>2. IsFiniteSet(b) /\ Cardinality(b) \in Nat /\ Cardinality(sending) \in Nat
      /\ Cardinality(b) <= Cardinality(sending)
  BY Finiteness, SlotsOfBound
<1>3. IsFiniteSet(c) /\ Cardinality(c) \in Nat /\ Cardinality(c) <= Len(fetchQ) /\ Len(fetchQ) \in Nat
  BY ChannelBound DEF TypeOK
<1>4. IsFiniteSet(d) /\ Cardinality(d) \in Nat /\ Cardinality(parsing) \in Nat
      /\ Cardinality(d) <= Cardinality(parsing)
  BY Finiteness, SlotsOfBound
<1>5. IsFiniteSet(e) /\ Cardinality(e) \in Nat /\ Cardinality(e) <= Len(parseQ) /\ Len(parseQ) \in Nat
  BY ChannelBound DEF TypeOK
<1>6. IsFiniteSet(g) /\ Cardinality(g) \in Nat /\ Cardinality(storing) \in Nat
      /\ Cardinality(g) <= Cardinality(storing)
  BY Finiteness, SlotsOfBound
<1>7. InTransit = inFlight \cup b \cup c \cup d \cup e \cup g
  BY DEF InTransit
<1> HIDE DEF b, c, d, e, g
<1>8. /\ IsFiniteSet(InTransit) /\ Cardinality(InTransit) \in Nat
      /\ Cardinality(InTransit) <= Cardinality(inFlight) + Cardinality(b) + Cardinality(c)
                                     + Cardinality(d) + Cardinality(e) + Cardinality(g)
  BY <1>1, <1>2, <1>3, <1>4, <1>5, <1>6, <1>7, UnionOfSix, Zenon
<1>9. /\ Held \in Nat
      /\ Cardinality(inFlight) + Cardinality(b) + Cardinality(c)
           + Cardinality(d) + Cardinality(e) + Cardinality(g) <= Held
  <2>1. /\ Cardinality(sending) \in Nat /\ Cardinality(parsing) \in Nat
        /\ Cardinality(storing) \in Nat /\ Len(fetchQ) \in Nat /\ Len(parseQ) \in Nat
    BY <1>2, <1>3, <1>4, <1>5, <1>6
  <2>2. Held \in Nat
    BY <1>1, <2>1 DEF Held
  <2>3. /\ Cardinality(b) <= Cardinality(sending) /\ Cardinality(c) <= Len(fetchQ)
        /\ Cardinality(d) <= Cardinality(parsing) /\ Cardinality(e) <= Len(parseQ)
        /\ Cardinality(g) <= Cardinality(storing)
    BY <1>2, <1>3, <1>4, <1>5, <1>6
  <2>4. /\ Cardinality(b) \in Nat /\ Cardinality(c) \in Nat /\ Cardinality(d) \in Nat
        /\ Cardinality(e) \in Nat /\ Cardinality(g) \in Nat
    BY <1>2, <1>3, <1>4, <1>5, <1>6
  <2>5. Held = Cardinality(inFlight) + Cardinality(sending) + Len(fetchQ)
                 + Cardinality(parsing) + Len(parseQ) + Cardinality(storing)
    BY DEF Held
  <2> QED BY <1>1, <2>1, <2>2, <2>3, <2>4, <2>5, SumsOfSix
<1>10. Cardinality(InTransit) <= Held
  BY <1>1, <1>2, <1>3, <1>4, <1>5, <1>6, <1>8, <1>9
<1> QED BY <1>8, <1>9, <1>10, Zenon

\* So are the slots accounted for, with the counters.
LEMMA TallyBound ==
  ASSUME TypeOK, Finite
  PROVE  /\ IsFiniteSet(Accounted) /\ Cardinality(Accounted) \in Nat
         /\ Held \in Nat /\ Cardinality(counted) \in Nat /\ Tally \in Nat
         /\ Cardinality(Accounted) <= Tally
<1>1. /\ IsFiniteSet(SlotsOf(counted)) /\ Cardinality(counted) \in Nat
      /\ Cardinality(SlotsOf(counted)) <= Cardinality(counted)
  BY SlotsOfBound DEF Finite
<1>2. /\ IsFiniteSet(Accounted) /\ Cardinality(Accounted) \in Nat
      /\ Cardinality(SlotsOf(counted)) \in Nat /\ Cardinality(InTransit) \in Nat
      /\ Cardinality(Accounted) <= Cardinality(InTransit) + Cardinality(SlotsOf(counted))
  BY <1>1, TransitBound, UnionBound DEF Accounted
<1>3. Held \in Nat /\ Cardinality(InTransit) <= Held
  BY TransitBound
<1> QED BY <1>1, <1>2, <1>3 DEF Tally

\* No slot is counted twice exactly when there are as many slots as the tally.
LEMMA TwiceIsTally == NothingTwice <=> Cardinality(Accounted) = Tally
  BY DEF NothingTwice, Accounted, Tally, Held

\* TallyBound in the next state.
LEMMA TallyBoundNext ==
  ASSUME TypeOK', Finite'
  PROVE  (/\ IsFiniteSet(Accounted) /\ Cardinality(Accounted) \in Nat
          /\ Held \in Nat /\ Cardinality(counted) \in Nat /\ Tally \in Nat
          /\ Cardinality(Accounted) <= Tally)'
  BY TallyBound, PTL

\* A bound reached from both sides is met.
LEMMA Squeezed ==
  ASSUME NEW a \in Nat, NEW b \in Nat, NEW x \in Nat, NEW d \in Nat, NEW t \in Nat,
         NEW k \in Nat, a <= b, b <= x + d, d <= k, x <= t, a = t + k
  PROVE  x = t
  OBVIOUS

\* Finiteness in the next state.
LEMMA FinitenessNext ==
  ASSUME TypeOK'
  PROVE  (/\ IsFiniteSet(inFlight) /\ Cardinality(inFlight) \in Nat
          /\ IsFiniteSet(sending) /\ Cardinality(sending) = IF sending = {} THEN 0 ELSE 1
          /\ IsFiniteSet(parsing) /\ Cardinality(parsing) = IF parsing = {} THEN 0 ELSE 1
          /\ IsFiniteSet(storing) /\ Cardinality(storing) = IF storing = {} THEN 0 ELSE 1
          /\ Len(fetchQ) \in Nat /\ Len(parseQ) \in Nat)'
  BY Finiteness, PTL

\* A step keeps the two equal if it takes the slots N from the work list,
\* gives up k outcomes, those of the slots D, and keeps the others.
LEMMA Transfer ==
  ASSUME TypeOK, TypeOK', Finite, Finite', NothingTwice,
         NEW N, IsFiniteSet(N), N \cap Accounted = {},
         NEW D, IsFiniteSet(D), NEW k \in Nat, Cardinality(D) <= k,
         Accounted \cup N \subseteq Accounted' \cup D,
         Tally' + k = Tally + Cardinality(N)
  PROVE  NothingTwice'
<1>1. /\ IsFiniteSet(Accounted) /\ Cardinality(Accounted) = Tally /\ Tally \in Nat
  BY TallyBound, TwiceIsTally
<1>2. /\ IsFiniteSet(Accounted \cup N) /\ Cardinality(N) \in Nat
      /\ Cardinality(Accounted \cup N) = Tally + Cardinality(N)
  BY <1>1, UnionBound
<1>3. /\ IsFiniteSet(Accounted') /\ Cardinality(Accounted') \in Nat /\ Tally' \in Nat
      /\ Cardinality(Accounted') <= Tally'
  BY TallyBoundNext
<1>4. /\ IsFiniteSet(Accounted' \cup D) /\ Cardinality(Accounted' \cup D) \in Nat
      /\ Cardinality(D) \in Nat
      /\ Cardinality(Accounted' \cup D) <= Cardinality(Accounted') + Cardinality(D)
  BY <1>3, UnionBound
<1>5. Cardinality(Accounted \cup N) <= Cardinality(Accounted' \cup D)
  BY <1>4, FS_Subset
<1>6. Cardinality(Accounted') = Tally'
  <2>1. Cardinality(Accounted \cup N) = Tally' + k
    BY <1>2
  <2> QED BY <1>2, <1>3, <1>4, <1>5, <2>1, Squeezed
<1>7. NothingTwice' <=> Cardinality(Accounted') = Tally'
  BY DEF NothingTwice, Accounted, Tally, Held
<1> QED BY <1>6, <1>7

\* A step that only moves outcomes, and adds none to those held.
LEMMA Moved ==
  ASSUME TypeOK, TypeOK', Finite, Finite', NothingTwice,
         Accounted \subseteq Accounted', Tally' <= Tally
  PROVE  NothingTwice' /\ Tally' = Tally
<1>1. IsFiniteSet(Accounted) /\ Cardinality(Accounted) = Tally /\ Tally \in Nat
  BY TallyBound, TwiceIsTally
<1>2. /\ IsFiniteSet(Accounted') /\ Cardinality(Accounted') \in Nat /\ Tally' \in Nat
      /\ Cardinality(Accounted') <= Tally'
  BY TallyBoundNext
<1>3. Cardinality(Accounted) <= Cardinality(Accounted')
  BY <1>2, FS_Subset
<1>4. Cardinality(Accounted') = Tally' /\ Tally' = Tally
  BY <1>1, <1>2, <1>3
<1>5. NothingTwice' <=> Cardinality(Accounted') = Tally'
  BY DEF NothingTwice, Accounted, Tally, Held
<1> QED BY <1>4, <1>5

\* Only slots taken from the work list are accounted for.
Popped == Accounted \subseteq 1..(nextSlot - 1)

\* A send or a receive moves one outcome.
LEMMA OneMoved ==
  ASSUME NEW S, NEW q \in Seq(S)
  PROVE  /\ \A m \in S : Len(Append(q, m)) = Len(q) + 1
         /\ q # <<>> => Len(Tail(q)) = Len(q) - 1 /\ Len(q) >= 1
  OBVIOUS

\* on_outcome has returned: one more slot is taken, if there is one.
LEMMA Dispatched ==
  ASSUME TypeOK, TypeOK', Finite, Finite', Popped, NothingTwice, DispatchNext,
         UNCHANGED <<parsing, parseQ, storing, counted>>,
         NEW D, IsFiniteSet(D), NEW k \in Nat, Cardinality(D) <= k,
         SlotsOf(sending) \cup SlotsOf(Elems(fetchQ)) \subseteq SlotsOf(Elems(fetchQ')) \cup D,
         SlotsOf(Elems(fetchQ')) \subseteq SlotsOf(sending) \cup SlotsOf(Elems(fetchQ)),
         Len(fetchQ') + k = Len(fetchQ) + Cardinality(sending)
  PROVE  NothingTwice' /\ Popped'
<1>1. nextSlot \in Nat /\ nextSlot >= 1 /\ Count \in Nat
  BY PipelineAssumption DEF TypeOK
<1>2. SlotsOf(sending') = {} /\ sending' = {}
  BY SlotsOfSets DEF DispatchNext
<1>3. PICK N : /\ N = {} \/ N = {nextSlot}
               /\ inFlight' = inFlight \cup N
               /\ 1..(nextSlot' - 1) = 1..(nextSlot - 1) \cup N
  <2>1. CASE nextSlot <= Count
    <3>1. inFlight' = inFlight \cup {nextSlot} /\ nextSlot' = nextSlot + 1
      BY <2>1 DEF DispatchNext
    <3>2. 1..(nextSlot' - 1) = 1..(nextSlot - 1) \cup {nextSlot}
      BY <1>1, <3>1
    <3> QED BY <3>1, <3>2
  <2>2. CASE ~(nextSlot <= Count)
    <3>1. inFlight' = inFlight \cup {} /\ nextSlot' = nextSlot
      BY <2>2 DEF DispatchNext
    <3> QED BY <3>1
  <2> QED BY <2>1, <2>2
<1>4. nextSlot \notin Accounted
  BY <1>1 DEF Popped
<1>5. IsFiniteSet(N) /\ N \cap Accounted = {}
  <2>1. CASE N = {}
    BY <2>1, FS_EmptySet
  <2>2. CASE N = {nextSlot}
    BY <1>4, <2>2, FS_Singleton
  <2> QED BY <1>3, <2>1, <2>2
<1>6. /\ Accounted \cup N \subseteq Accounted' \cup D
      /\ Accounted' \subseteq Accounted \cup N
  BY <1>2, <1>3 DEF Accounted, InTransit
<1>7. Cardinality(inFlight') = Cardinality(inFlight) + Cardinality(N)
  <2>1. IsFiniteSet(inFlight) /\ inFlight \cap N = {}
    BY <1>5, Finiteness DEF Accounted, InTransit
  <2> QED BY <1>3, <1>5, <2>1, UnionBound
<1>8. Tally' + k = Tally + Cardinality(N)
  <2>1. /\ Cardinality(inFlight) \in Nat /\ Cardinality(sending) \in Nat
        /\ Cardinality(parsing) \in Nat /\ Cardinality(storing) \in Nat
        /\ Len(fetchQ) \in Nat /\ Len(parseQ) \in Nat /\ Cardinality(counted) \in Nat
        /\ Len(fetchQ') \in Nat /\ Cardinality(N) \in Nat
    <3>1. Len(fetchQ') \in Nat
      BY DEF TypeOK
    <3>2. Cardinality(N) \in Nat
      BY <1>5, FS_CardinalityType
    <3>3. Cardinality(counted) \in Nat
      BY TallyBound
    <3> QED BY <3>1, <3>2, <3>3, Finiteness
  <2>2. Cardinality(sending') = 0
    BY <1>2, FS_EmptySet
  <2>3. /\ parsing' = parsing /\ parseQ' = parseQ /\ storing' = storing /\ counted' = counted
    OBVIOUS
  <2>4. PICK i \in Nat, s \in Nat, f \in Nat, g \in Nat, n \in Nat, c \in Nat :
          /\ i = Cardinality(inFlight) /\ s = Cardinality(sending) /\ f = Len(fetchQ)
          /\ g = Len(fetchQ') /\ n = Cardinality(N) /\ c = Cardinality(counted)
    BY <2>1
  <2>5. PICK p \in Nat, q \in Nat, r \in Nat :
          p = Cardinality(parsing) /\ q = Len(parseQ) /\ r = Cardinality(storing)
    BY <2>1
  <2>6. Tally = i + s + f + p + q + r + c
    BY <2>4, <2>5, Zenon DEF Tally, Held
  <2>7. Tally' = (i + n) + 0 + g + p + q + r + c
    BY <1>7, <2>2, <2>3, <2>4, <2>5, Zenon DEF Tally, Held
  <2>8. g + k = f + s
    BY <2>4
  <2>9. (i + n) + 0 + g + p + q + r + c + k = i + s + f + p + q + r + c + n
    BY <2>8
  <2>10. Tally' + k = Tally + n
    BY <2>6, <2>7, <2>9, Zenon
  <2> QED BY <2>4, <2>10, Zenon
<1> QED BY <1>3, <1>5, <1>6, <1>8, Transfer DEF Popped

\* The tally changes by what its parts change by.
LEMMA TallyChange ==
  ASSUME TypeOK, TypeOK', Finite, Finite'
  PROVE  /\ Tally \in Nat /\ Tally' \in Nat
         /\ Tally' - Tally = (Cardinality(inFlight') - Cardinality(inFlight))
                               + (Cardinality(sending') - Cardinality(sending))
                               + (Len(fetchQ') - Len(fetchQ))
                               + (Cardinality(parsing') - Cardinality(parsing))
                               + (Len(parseQ') - Len(parseQ))
                               + (Cardinality(storing') - Cardinality(storing))
                               + (Cardinality(counted') - Cardinality(counted))
<1>1. PICK i \in Nat, s \in Nat, f \in Nat, p \in Nat, q \in Nat, r \in Nat, n \in Nat :
        /\ i = Cardinality(inFlight) /\ s = Cardinality(sending) /\ f = Len(fetchQ)
        /\ p = Cardinality(parsing) /\ q = Len(parseQ) /\ r = Cardinality(storing)
        /\ n = Cardinality(counted)
  BY Finiteness, TallyBound
<1>2. PICK j \in Nat, t \in Nat, k \in Nat, u \in Nat, v \in Nat, w \in Nat, m \in Nat :
        /\ j = Cardinality(inFlight') /\ t = Cardinality(sending') /\ k = Len(fetchQ')
        /\ u = Cardinality(parsing') /\ v = Len(parseQ') /\ w = Cardinality(storing')
        /\ m = Cardinality(counted')
  <2>1. /\ Cardinality(inFlight') \in Nat /\ Cardinality(sending') \in Nat
        /\ Cardinality(parsing') \in Nat /\ Cardinality(storing') \in Nat
        /\ Len(fetchQ') \in Nat /\ Len(parseQ') \in Nat
    BY FinitenessNext
  <2> QED BY <2>1, TallyBoundNext
<1>3. Tally = i + s + f + p + q + r + n
  BY <1>1, Zenon DEF Tally, Held
<1>4. Tally' = j + t + k + u + v + w + m
  BY <1>2, Zenon DEF Tally, Held
<1>5. (j + t + k + u + v + w + m) - (i + s + f + p + q + r + n)
        = (j - i) + (t - s) + (k - f) + (u - p) + (v - q) + (w - r) + (m - n)
  OBVIOUS
<1>6. Tally' - Tally = (j - i) + (t - s) + (k - f) + (u - p) + (v - q) + (w - r) + (m - n)
  BY <1>3, <1>4, <1>5, Zenon
<1>7. Tally \in Nat /\ Tally' \in Nat
  BY <1>3, <1>4
<1> QED BY <1>1, <1>2, <1>6, <1>7, Zenon

\* The parts a step leaves alone.
LEMMA TallySame ==
  ASSUME TypeOK, Finite
  PROVE  /\ inFlight' = inFlight => Cardinality(inFlight') - Cardinality(inFlight) = 0
         /\ sending' = sending => Cardinality(sending') - Cardinality(sending) = 0
         /\ fetchQ' = fetchQ => Len(fetchQ') - Len(fetchQ) = 0
         /\ parsing' = parsing => Cardinality(parsing') - Cardinality(parsing) = 0
         /\ parseQ' = parseQ => Len(parseQ') - Len(parseQ) = 0
         /\ storing' = storing => Cardinality(storing') - Cardinality(storing) = 0
         /\ counted' = counted => Cardinality(counted') - Cardinality(counted) = 0
  BY Finiteness, TallyBound

\* A step of the fetch task.
LEMMA TwiceFetch ==
  ASSUME TypeOK, TypeOK', Finite, NothingTwice, Popped, FetchTask
  PROVE  NothingTwice' /\ Popped' /\ Finite'
<1>1. UNCHANGED <<parsing, parseQ, storing, counted>> /\ Finite'
  BY DEF FetchTask, FetchNext, FetchSend, FetchSendDropped, FetchEnd, parseVars, storeVars, Finite
<1>2. CASE FetchNext
  <2>1. PICK s \in inFlight, k \in Kinds : /\ sending' = {[slot |-> s, kind |-> k]}
                                           /\ inFlight' = inFlight \ {s}
    BY <1>2 DEF FetchNext
  <2>2. sending = {} /\ fetchQ' = fetchQ /\ nextSlot' = nextSlot
    BY <1>2 DEF FetchNext
  <2>3. SlotsOf(sending') = {s}
    BY <2>1, SlotsOfSets DEF SlotsOf
  <2>4. inFlight = inFlight' \cup {s} /\ SlotsOf(sending) = {}
    BY <2>1, <2>2, SlotsOfSets
  <2>5. SlotsOf(Elems(fetchQ))' = SlotsOf(Elems(fetchQ))
    BY <2>2
  <2>6. Accounted' = Accounted
    BY <1>1, <2>3, <2>4, <2>5 DEF Accounted, InTransit
  <2>7. Tally' = Tally
    <3>1. Cardinality(inFlight') - Cardinality(inFlight) = -1
      <4>1. Cardinality(inFlight') = Cardinality(inFlight) - 1 /\ Cardinality(inFlight) \in Nat
        BY <2>1, Finiteness, FS_RemoveElement
      <4> QED BY <4>1
    <3>2. Cardinality(sending') - Cardinality(sending) = 1
      <4>1. Cardinality(sending') = 1
        BY <2>1, FS_Singleton
      <4>2. Cardinality(sending) = 0
        BY <2>2, FS_EmptySet
      <4> QED BY <4>1, <4>2
    <3>3. Tally' - Tally = -1 + 1 + 0 + 0 + 0 + 0 + 0
      BY <1>1, <2>2, <3>1, <3>2, TallySame, TallyChange, Zenon
    <3> QED BY <1>1, <3>3, TallyChange
  <2> QED BY <1>1, <2>2, <2>6, <2>7, TallyChange, Moved DEF Popped
<1>3. CASE FetchSend
  <2>1. PICK m \in sending : fetchQ' = Append(fetchQ, m)
    BY <1>3 DEF FetchSend
  <2>2. sending = {m} /\ m \in Outcome
    BY <2>1 DEF TypeOK, Option
  <2>3. Elems(fetchQ') = Elems(fetchQ) \cup {m}
    BY <2>1, <2>2, ElemsAppend DEF TypeOK
  <2>7. SlotsOf(Elems(fetchQ')) = SlotsOf(Elems(fetchQ)) \cup SlotsOf(sending)
    BY <2>2, <2>3, SlotsOfSets
  <2>4. Len(fetchQ') + 0 = Len(fetchQ) + Cardinality(sending)
    <3>1. Len(fetchQ') = Len(fetchQ) + 1 /\ Len(fetchQ) \in Nat
      BY <2>1, <2>2, OneMoved DEF TypeOK
    <3>2. Cardinality(sending) = 1
      BY <2>2, FS_Singleton
    <3> QED BY <3>1, <3>2
  <2>5. IsFiniteSet({}) /\ Cardinality({}) <= 0
    BY FS_EmptySet
  <2>6. DispatchNext
    BY <1>3 DEF FetchSend
  <2> QED BY <1>1, <2>4, <2>5, <2>6, <2>7, Dispatched
<1>4. CASE FetchSendDropped
  <2>1. DispatchNext /\ fetchQ' = fetchQ
    BY <1>4 DEF FetchSendDropped
  <2>2. /\ IsFiniteSet(SlotsOf(sending)) /\ Cardinality(SlotsOf(sending)) <= Cardinality(sending)
        /\ Cardinality(sending) \in Nat
    BY Finiteness, SlotsOfBound
  <2> QED BY <1>1, <2>1, <2>2, Dispatched
<1>5. CASE FetchEnd
  <2>1. UNCHANGED <<inFlight, sending, fetchQ, nextSlot>>
    BY <1>5 DEF FetchEnd
  <2> QED BY <1>1, <2>1 DEF NothingTwice, Popped, Accounted, InTransit
<1> QED BY <1>1, <1>2, <1>3, <1>4, <1>5 DEF FetchTask

\* A step of the parse task.
LEMMA TwiceParse ==
  ASSUME TypeOK, TypeOK', Finite, NothingTwice, Popped, ParseTask
  PROVE  NothingTwice' /\ Popped' /\ Finite'
<1>1. UNCHANGED <<nextSlot, inFlight, sending, storing, counted>> /\ Finite'
  BY DEF ParseTask, ParseRecv, ParseSend, ParseBail, ParseEnd, fetchVars, storeVars, Finite
<1>2. CASE ParseRecv
  <2>1. /\ fetchQ # <<>> /\ fetchQ' = Tail(fetchQ) /\ parseQ' = parseQ
        /\ parsing = {} /\ parsing' = {Head(fetchQ)}
    BY <1>2 DEF ParseRecv
  <2>2. Elems(fetchQ) = {Head(fetchQ)} \cup Elems(fetchQ')
    BY <2>1, ElemsTail DEF TypeOK
  <2>3. SlotsOf(Elems(fetchQ)) = SlotsOf(parsing') \cup SlotsOf(Elems(fetchQ')) /\ SlotsOf(parsing) = {}
    BY <2>1, <2>2, SlotsOfSets
  <2>4. Accounted' = Accounted
    BY <1>1, <2>1, <2>3 DEF Accounted, InTransit
  <2>5. Len(fetchQ') - Len(fetchQ) = -1
    <3>1. Len(fetchQ') = Len(fetchQ) - 1 /\ Len(fetchQ) \in Nat
      BY <2>1, OneMoved DEF TypeOK
    <3> QED BY <3>1
  <2>6. Cardinality(parsing') - Cardinality(parsing) = 1
    <3>1. Cardinality(parsing) = 0
      BY <2>1, FS_EmptySet
    <3>2. Cardinality(parsing') = 1
      BY <2>1, FS_Singleton
    <3> QED BY <3>1, <3>2
  <2>7. Tally' - Tally = 0 + 0 + -1 + 1 + 0 + 0 + 0
    BY <1>1, <2>1, <2>5, <2>6, TallySame, TallyChange, Zenon
  <2>8. Tally' <= Tally
    BY <1>1, <2>7, TallyChange
  <2> QED BY <1>1, <2>4, <2>8, Moved DEF Popped
<1>3. CASE ParseSend
  <2>1. PICK m \in parsing : parseQ' = Append(parseQ, m)
    BY <1>3 DEF ParseSend
  <2>2. parsing = {m} /\ m \in Outcome /\ parsing' = {} /\ fetchQ' = fetchQ
    BY <1>3, <2>1 DEF TypeOK, Option, ParseSend
  <2>3. Elems(parseQ') = Elems(parseQ) \cup {m}
    BY <2>1, <2>2, ElemsAppend DEF TypeOK
  <2>4. SlotsOf(Elems(parseQ')) = SlotsOf(Elems(parseQ)) \cup SlotsOf(parsing) /\ SlotsOf(parsing') = {}
    BY <2>2, <2>3, SlotsOfSets
  <2>5. Accounted' = Accounted
    BY <1>1, <2>2, <2>4 DEF Accounted, InTransit
  <2>6. Len(parseQ') - Len(parseQ) = 1
    <3>1. Len(parseQ') = Len(parseQ) + 1 /\ Len(parseQ) \in Nat
      BY <2>1, <2>2, OneMoved DEF TypeOK
    <3> QED BY <3>1
  <2>7. Cardinality(parsing') - Cardinality(parsing) = -1
    <3>1. Cardinality(parsing) = 1
      BY <2>2, FS_Singleton
    <3>2. Cardinality(parsing') = 0
      BY <2>2, FS_EmptySet
    <3> QED BY <3>1, <3>2
  <2>8. Tally' - Tally = 0 + 0 + 0 + -1 + 1 + 0 + 0
    BY <1>1, <2>2, <2>6, <2>7, TallySame, TallyChange, Zenon
  <2>9. Tally' <= Tally
    BY <1>1, <2>8, TallyChange
  <2> QED BY <1>1, <2>5, <2>9, Moved DEF Popped
<1>4. CASE ParseBail
  <2>1. parsing' = {} /\ fetchQ' = <<>> /\ parseQ' = parseQ
    BY <1>4 DEF ParseBail
  <2> DEFINE D == SlotsOf(parsing) \cup SlotsOf(Elems(fetchQ))
  <2>2. /\ IsFiniteSet(SlotsOf(parsing)) /\ Cardinality(SlotsOf(parsing)) \in Nat
        /\ Cardinality(parsing) \in Nat /\ Cardinality(SlotsOf(parsing)) <= Cardinality(parsing)
    BY Finiteness, SlotsOfBound
  <2>3. /\ IsFiniteSet(SlotsOf(Elems(fetchQ))) /\ Cardinality(SlotsOf(Elems(fetchQ))) \in Nat
        /\ Cardinality(SlotsOf(Elems(fetchQ))) <= Len(fetchQ) /\ Len(fetchQ) \in Nat
    BY ChannelBound DEF TypeOK
  <2>5. /\ IsFiniteSet(D) /\ Cardinality(D) \in Nat
        /\ Cardinality(D) <= Cardinality(SlotsOf(parsing)) + Cardinality(SlotsOf(Elems(fetchQ)))
    BY <2>2, <2>3, UnionBound
  <2>6. SlotsOf(Elems(fetchQ')) = {} /\ SlotsOf(parsing') = {}
    BY <2>1, ElemsEmpty, SlotsOfSets
  <2>7. Accounted \subseteq Accounted' \cup D /\ Accounted' \subseteq Accounted
    BY <1>1, <2>1, <2>6 DEF Accounted, InTransit
  <2> HIDE DEF D
  <2>8. PICK p \in Nat, f \in Nat : p = Cardinality(parsing) /\ f = Len(fetchQ)
    BY <2>2, <2>3
  <2>9. Cardinality(D) <= p + f
    BY <2>2, <2>3, <2>5, <2>8
  <2>10. /\ Cardinality(parsing') - Cardinality(parsing) = -p
         /\ Len(fetchQ') - Len(fetchQ) = -f
    <3>1. Cardinality(parsing') = 0 /\ Len(fetchQ') = 0
      BY <2>1, FS_EmptySet
    <3> QED BY <2>8, <3>1
  <2>11. Tally' - Tally = 0 + 0 + -f + -p + 0 + 0 + 0
    BY <1>1, <2>1, <2>10, TallySame, TallyChange, Zenon
  <2>12. IsFiniteSet({}) /\ Cardinality({}) = 0
    BY FS_EmptySet
  <2>13. Tally' + (p + f) = Tally + 0
    BY <1>1, <2>11, TallyChange
  <2>14. p + f \in Nat
    OBVIOUS
  <2>15. Accounted \cup {} \subseteq Accounted' \cup D
    BY <2>7
  <2> DEFINE k == p + f
  <2>16. k \in Nat /\ Cardinality(D) <= k /\ Tally' + k = Tally + Cardinality({})
    BY <2>9, <2>12, <2>13, <2>14
  <2> HIDE DEF k
  <2>17. NothingTwice'
    BY <1>1, <2>5, <2>12, <2>15, <2>16, Transfer
  <2> QED BY <1>1, <2>7, <2>17 DEF Popped
<1>5. CASE ParseEnd
  <2>1. UNCHANGED <<fetchQ, parsing, parseQ>>
    BY <1>5 DEF ParseEnd
  <2> QED BY <1>1, <2>1 DEF NothingTwice, Popped, Accounted, InTransit
<1> QED BY <1>1, <1>2, <1>3, <1>4, <1>5 DEF ParseTask

\* The store task gives up what it holds and what its channel holds.
LEMMA StoreDrops ==
  ASSUME TypeOK, TypeOK', Finite, Finite', NothingTwice, Popped,
         UNCHANGED <<nextSlot, inFlight, sending, fetchQ, parsing, counted>>,
         storing' = {}, parseQ' = <<>>
  PROVE  NothingTwice' /\ Popped'
<1> DEFINE D == SlotsOf(storing) \cup SlotsOf(Elems(parseQ))
<1>1. /\ IsFiniteSet(SlotsOf(storing)) /\ Cardinality(SlotsOf(storing)) \in Nat
      /\ Cardinality(storing) \in Nat /\ Cardinality(SlotsOf(storing)) <= Cardinality(storing)
  BY Finiteness, SlotsOfBound
<1>2. /\ IsFiniteSet(SlotsOf(Elems(parseQ))) /\ Cardinality(SlotsOf(Elems(parseQ))) \in Nat
      /\ Cardinality(SlotsOf(Elems(parseQ))) <= Len(parseQ) /\ Len(parseQ) \in Nat
  BY ChannelBound DEF TypeOK
<1>4. /\ IsFiniteSet(D) /\ Cardinality(D) \in Nat
      /\ Cardinality(D) <= Cardinality(SlotsOf(storing)) + Cardinality(SlotsOf(Elems(parseQ)))
  BY <1>1, <1>2, UnionBound
<1>5. SlotsOf(Elems(parseQ')) = {} /\ SlotsOf(storing') = {}
  BY ElemsEmpty, SlotsOfSets
<1>6. Accounted \cup {} \subseteq Accounted' \cup D /\ Accounted' \subseteq Accounted
  BY <1>5 DEF Accounted, InTransit
<1> HIDE DEF D
<1>7. PICK r \in Nat, q \in Nat : r = Cardinality(storing) /\ q = Len(parseQ)
  BY <1>1, <1>2
<1>8. Cardinality(D) <= r + q
  BY <1>1, <1>2, <1>4, <1>7
<1>9. /\ Cardinality(storing') - Cardinality(storing) = -r
      /\ Len(parseQ') - Len(parseQ) = -q
  <2>1. Cardinality(storing') = 0 /\ Len(parseQ') = 0
    BY FS_EmptySet
  <2> QED BY <1>7, <2>1
<1>10. Tally' - Tally = 0 + 0 + 0 + 0 + -q + -r + 0
  BY <1>9, TallySame, TallyChange, Zenon
<1>11. IsFiniteSet({}) /\ Cardinality({}) = 0
  BY FS_EmptySet
<1>12. Tally' + (r + q) = Tally + 0
  BY <1>10, TallyChange
<1> DEFINE k == r + q
<1>13. k \in Nat /\ Cardinality(D) <= k /\ Tally' + k = Tally + Cardinality({})
  BY <1>8, <1>11, <1>12
<1> HIDE DEF k
<1>14. NothingTwice'
  BY <1>4, <1>6, <1>11, <1>13, Transfer
<1> QED BY <1>6, <1>14 DEF Popped

\* A step of the store task.
LEMMA TwiceStore ==
  ASSUME TypeOK, TypeOK', Finite, NothingTwice, Popped, StoreTask
  PROVE  NothingTwice' /\ Popped' /\ Finite'
<1>1. UNCHANGED <<nextSlot, inFlight, sending, fetchQ, parsing>>
  BY DEF StoreTask, Flush, StoreRecv, StoreStatus, StoreStatusError, FlushCommit, FlushRollback,
         FlushSteps, FlushStepsError, FlushDone, StoreFinalFlush, StoreEnd, fetchVars, parseVars
<1>2. CASE UNCHANGED <<parseQ, storing, counted>>
  BY <1>1, <1>2 DEF NothingTwice, Popped, Accounted, InTransit, Finite
<1>3. CASE StoreRecv
  <2>1. /\ parseQ # <<>> /\ parseQ' = Tail(parseQ) /\ counted' = counted
        /\ storing = {} /\ storing' = {Head(parseQ)}
    BY <1>3 DEF StoreRecv
  <2>2. Elems(parseQ) = {Head(parseQ)} \cup Elems(parseQ')
    BY <2>1, ElemsTail DEF TypeOK
  <2>3. SlotsOf(Elems(parseQ)) = SlotsOf(storing') \cup SlotsOf(Elems(parseQ')) /\ SlotsOf(storing) = {}
    BY <2>1, <2>2, SlotsOfSets
  <2>4. Accounted' = Accounted /\ Finite'
    BY <1>1, <2>1, <2>3 DEF Accounted, InTransit, Finite
  <2>5. Len(parseQ') - Len(parseQ) = -1
    <3>1. Len(parseQ') = Len(parseQ) - 1 /\ Len(parseQ) \in Nat
      BY <2>1, OneMoved DEF TypeOK
    <3> QED BY <3>1
  <2>6. Cardinality(storing') - Cardinality(storing) = 1
    <3>1. Cardinality(storing) = 0
      BY <2>1, FS_EmptySet
    <3>2. Cardinality(storing') = 1
      BY <2>1, FS_Singleton
    <3> QED BY <3>1, <3>2
  <2>7. Tally' - Tally = 0 + 0 + 0 + 0 + -1 + 1 + 0
    BY <1>1, <2>1, <2>4, <2>5, <2>6, TallySame, TallyChange, Zenon
  <2>8. Tally' <= Tally
    BY <2>4, <2>7, TallyChange
  <2> QED BY <1>1, <2>4, <2>8, Moved DEF Popped
<1>4. CASE StoreStatus
  <2>1. PICK m \in storing : counted' = counted \cup {m}
    BY <1>4, Zenon DEF StoreStatus
  <2>2. storing = {m} /\ storing' = {} /\ parseQ' = parseQ
    BY <1>4, <2>1 DEF TypeOK, Option, StoreStatus
  <2>3. SlotsOf(counted') = SlotsOf(counted) \cup SlotsOf(storing) /\ SlotsOf(storing') = {}
    BY <2>1, <2>2, SlotsOfSets
  <2>4. Accounted' = Accounted
    BY <1>1, <2>2, <2>3 DEF Accounted, InTransit
  <2>5. /\ Finite' /\ Cardinality(counted) \in Nat /\ Cardinality(counted') \in Nat
        /\ Cardinality(counted') - Cardinality(counted) <= 1
    <3>1. IsFiniteSet({m}) /\ Cardinality({m}) = 1
      BY FS_Singleton
    <3>2. /\ IsFiniteSet(counted \cup {m}) /\ Cardinality(counted \cup {m}) \in Nat
          /\ Cardinality(counted) \in Nat /\ Cardinality({m}) \in Nat
          /\ Cardinality(counted \cup {m}) <= Cardinality(counted) + Cardinality({m})
      BY <3>1, UnionBound DEF Finite
    <3>3. Cardinality(counted') <= Cardinality(counted) + 1 /\ Cardinality(counted') \in Nat
      BY <2>1, <3>1, <3>2
    <3> QED BY <2>1, <3>2, <3>3 DEF Finite
  <2>6. Cardinality(storing') - Cardinality(storing) = -1
    <3>1. Cardinality(storing) = 1
      BY <2>2, FS_Singleton
    <3>2. Cardinality(storing') = 0
      BY <2>2, FS_EmptySet
    <3> QED BY <3>1, <3>2
  <2>7. PICK h \in Int : h = Cardinality(counted') - Cardinality(counted)
    BY <2>5
  <2>8. Tally' - Tally = 0 + 0 + 0 + 0 + 0 + -1 + h
    BY <1>1, <2>2, <2>5, <2>6, <2>7, TallySame, TallyChange, Zenon
  <2>9. Tally' <= Tally
    BY <2>5, <2>7, <2>8, TallyChange
  <2> QED BY <1>1, <2>4, <2>5, <2>9, Moved DEF Popped
<1>5. CASE StoreAbort /\ counted' = counted
  BY <1>1, <1>5, StoreDrops DEF StoreAbort, Finite
<1>6. CASE StoreStatusError
  BY <1>5, <1>6 DEF StoreStatusError
<1>7. CASE FlushRollback \/ FlushStepsError
  <2>1. FlushFails /\ counted' = counted
    BY <1>7 DEF FlushRollback, FlushStepsError
  <2>2. CASE final
    BY <1>5, <2>1, <2>2 DEF FlushFails
  <2>3. CASE ~final
    BY <1>2, <2>1, <2>3 DEF FlushFails
  <2> QED BY <2>2, <2>3
<1>8. CASE FlushCommit \/ FlushSteps \/ FlushDone \/ StoreFinalFlush \/ StoreEnd
  BY <1>2, <1>8 DEF FlushCommit, FlushSteps, FlushDone, StoreFinalFlush, StoreEnd
<1> QED
  BY <1>3, <1>4, <1>6, <1>7, <1>8 DEF StoreTask, Flush

\* The invariant that bounds the counters.
OnceInv == NothingTwice /\ Popped /\ Finite

\* What a fresh process holds: the slots it was primed with.
Fresh == /\ inFlight = 1..Primed /\ nextSlot = Primed + 1 /\ sending = {} /\ fetchQ = <<>>
         /\ parsing = {} /\ parseQ = <<>> /\ storing = {} /\ counted = {}

\* Each of them is in one future.
LEMMA TwiceFresh ==
  ASSUME Fresh
  PROVE  OnceInv
<1> USE DEF Fresh
<1>1. Accounted = 1..Primed
  BY SlotsOfSets, ElemsEmpty DEF Accounted, InTransit
<1>2. Cardinality(1..Primed) = Primed /\ Primed \in Nat
  <2>1. Primed \in Nat /\ 1 \in Int /\ Primed \in Int
    BY PrimedType
  <2>2. IF 1 > Primed THEN Cardinality(1..Primed) = 0 ELSE Cardinality(1..Primed) = Primed - 1 + 1
    BY <2>1, FS_Interval
  <2> QED BY <2>1, <2>2
<1>3. Cardinality({}) = 0 /\ IsFiniteSet({}) /\ Len(<<>>) = 0
  BY FS_EmptySet
<1>4. Tally = Primed + 0 + 0 + 0 + 0 + 0 + 0
  BY <1>2, <1>3, Zenon DEF Tally, Held
<1>5. Cardinality(Accounted) = Tally
  BY <1>1, <1>2, <1>4
<1>6. 1..Primed \subseteq 1..(nextSlot - 1)
  BY <1>2
<1> QED BY <1>1, <1>3, <1>5, <1>6, TwiceIsTally DEF Popped, Finite, OnceInv

\* The same when the process is killed or started again.
LEMMA TwiceFreshNext == FreshMemory => OnceInv'
<1>1. FreshMemory => Fresh'
  BY DEF FreshMemory, Fresh
<1>2. Fresh' => OnceInv'
  BY TwiceFresh, PTL
<1> QED BY <1>1, <1>2

\* No step of the process puts a slot in two places or counts it twice.
LEMMA OnceStep == TypeOK /\ OnceInv /\ [Next]_vars => OnceInv'
<1> SUFFICES ASSUME TypeOK, OnceInv, [Next]_vars PROVE OnceInv'
  OBVIOUS
<1>1. TypeOK' /\ NothingTwice /\ Popped /\ Finite
  BY TypeStep DEF OnceInv
<1>2. CASE UNCHANGED <<nextSlot, inFlight, sending, fetchQ, parsing, parseQ, storing, counted>>
  BY <1>2 DEF OnceInv, NothingTwice, Popped, Accounted, InTransit, Finite
<1>3. CASE MainTask \/ UNCHANGED vars
  BY <1>2, <1>3 DEF MainTask, Join, BuildCandles, vars, fetchVars, parseVars, storeVars
<1>4. CASE Crash \/ Restart
  BY <1>4, TwiceFreshNext DEF Crash, Restart
<1>5. CASE FetchTask
  BY <1>1, <1>5, TwiceFetch DEF OnceInv
<1>6. CASE ParseTask
  BY <1>1, <1>6, TwiceParse DEF OnceInv
<1>7. CASE StoreTask
  BY <1>1, <1>7, TwiceStore DEF OnceInv
<1> QED BY <1>3, <1>4, <1>5, <1>6, <1>7 DEF Next, Stopped

\* Nor does the start.
LEMMA OnceInit == Init => OnceInv
  BY TwiceFresh DEF Init, Fresh

\* A slot is in one future, one channel or one task's hands, or is counted, and
\* counted once: whatever the interleaving of the tasks and whichever stage
\* fails, the counters that run_ingest logs count no slot twice.
THEOREM CountedOnce == Spec => []NothingTwice
<1>1. Init => TypeOK /\ OnceInv
  BY TypeInit, OnceInit
<1>2. TypeOK /\ OnceInv /\ [Next]_vars => (TypeOK /\ OnceInv)'
  BY TypeStep, OnceStep
<1>3. OnceInv => NothingTwice
  BY DEF OnceInv
<1> QED BY <1>1, <1>2, <1>3, PTL DEF Spec

-----------------------------------------------------------------------------
(* The command implements the abstract ingestion run.                     *)

\* The outcome whose status is being written is of a slot not yet counted.
LEMMA StoringIsNew ==
  ASSUME TypeOK, OnceInv, NEW m \in storing
  PROVE  m.slot \notin SlotsOf(counted)
<1> SUFFICES ASSUME m.slot \in SlotsOf(counted) PROVE FALSE
  OBVIOUS
<1> DEFINE b == SlotsOf(sending)
           c == SlotsOf(Elems(fetchQ))
           d == SlotsOf(parsing)
           e == SlotsOf(Elems(parseQ))
           g == SlotsOf(counted)
<1>1. IsFiniteSet(inFlight) /\ Cardinality(inFlight) \in Nat
  BY Finiteness
<1>2. /\ IsFiniteSet(b) /\ Cardinality(b) \in Nat /\ Cardinality(sending) \in Nat
      /\ Cardinality(b) <= Cardinality(sending)
  BY Finiteness, SlotsOfBound
<1>3. IsFiniteSet(c) /\ Cardinality(c) \in Nat /\ Cardinality(c) <= Len(fetchQ) /\ Len(fetchQ) \in Nat
  BY ChannelBound DEF TypeOK
<1>4. /\ IsFiniteSet(d) /\ Cardinality(d) \in Nat /\ Cardinality(parsing) \in Nat
      /\ Cardinality(d) <= Cardinality(parsing)
  BY Finiteness, SlotsOfBound
<1>5. IsFiniteSet(e) /\ Cardinality(e) \in Nat /\ Cardinality(e) <= Len(parseQ) /\ Len(parseQ) \in Nat
  BY ChannelBound DEF TypeOK
<1>6. IsFiniteSet(g) /\ Cardinality(g) \in Nat /\ Cardinality(counted) \in Nat
      /\ Cardinality(g) <= Cardinality(counted)
  BY SlotsOfBound DEF OnceInv, Finite
<1>7. storing = {m}
  BY DEF TypeOK, Option
<1>8. Accounted = inFlight \cup b \cup c \cup d \cup e \cup g
  BY <1>7, SlotsOfSets DEF Accounted, InTransit
<1> HIDE DEF b, c, d, e, g
<1>9. Cardinality(Accounted) <= Cardinality(inFlight) + Cardinality(b) + Cardinality(c)
                                  + Cardinality(d) + Cardinality(e) + Cardinality(g)
  BY <1>1, <1>2, <1>3, <1>4, <1>5, <1>6, <1>8, UnionOfSix, Zenon
<1>10. PICK i \in Nat, s \in Nat, f \in Nat, p \in Nat, q \in Nat, n \in Nat :
         /\ i = Cardinality(inFlight) /\ s = Cardinality(sending) /\ f = Len(fetchQ)
         /\ p = Cardinality(parsing) /\ q = Len(parseQ) /\ n = Cardinality(counted)
  BY <1>1, <1>2, <1>3, <1>4, <1>5, <1>6
<1>11. PICK u \in Nat, v \in Nat, w \in Nat, x \in Nat, y \in Nat :
         /\ u = Cardinality(b) /\ v = Cardinality(c) /\ w = Cardinality(d)
         /\ x = Cardinality(e) /\ y = Cardinality(g)
  BY <1>2, <1>3, <1>4, <1>5, <1>6
<1>12. u <= s /\ v <= f /\ w <= p /\ x <= q /\ y <= n
  BY <1>2, <1>3, <1>4, <1>5, <1>6, <1>10, <1>11
<1>13. Cardinality(storing) = 1
  BY <1>7, FS_Singleton
<1>14. Tally = i + s + f + p + q + 1 + n
  BY <1>10, <1>13, Zenon DEF Tally, Held
<1>15. Cardinality(Accounted) <= i + u + v + w + x + y
  BY <1>9, <1>10, <1>11, Zenon
<1>16. Cardinality(Accounted) = Tally
  BY TwiceIsTally DEF OnceInv
<1>17. i + s + f + p + q + 1 + n <= i + u + v + w + x + y
  BY <1>14, <1>15, <1>16, Zenon
<1> QED BY <1>12, <1>17

\* The command starts as the abstract run does.
LEMMA RefinesInit == Init => Abstract!Init
  BY DEF Init, Abstract!Init, Live, SlotsOf, Slots

\* A task's step other than the write of a status is invisible.
LEMMA RefinesStutter ==
  ASSUME UNCHANGED <<main, run, counted, dbStatus>>
  PROVE  UNCHANGED Abstract!vars
  BY DEF Abstract!vars, Live, SlotsOf

\* A write of a status records a new slot, the candles or a failed join end the
\* run, a kill and a restart are themselves, and the rest is invisible.
LEMMA RefinesStep ==
  ASSUME MaxConcurrency > 0, IInv, OnceInv, IInv', [Next]_vars
  PROVE  [Abstract!Next]_(Abstract!vars)
<1> USE DEF IInv
<1>1. CASE FetchTask \/ ParseTask \/ (StoreTask /\ ~StoreStatus)
  <2>1. UNCHANGED <<main, run, counted, dbStatus>>
    BY <1>1 DEF FetchTask, FetchNext, FetchSend, FetchSendDropped, FetchEnd,
                ParseTask, ParseRecv, ParseSend, ParseBail, ParseEnd,
                StoreTask, Flush, StoreRecv, StoreStatusError, FlushCommit, FlushRollback,
                FlushSteps, FlushStepsError, FlushDone, StoreFinalFlush, StoreEnd,
                storeVars, dbVars
  <2> QED BY <2>1, RefinesStutter
<1>2. CASE StoreTask /\ StoreStatus
  <2>1. PICK m \in storing : /\ counted' = counted \cup {m}
                             /\ dbStatus' = [dbStatus EXCEPT ![m.slot] = m.kind]
    BY <1>2, Zenon DEF StoreStatus
  <2>2. m.slot \in Slots /\ m.kind \in Kinds
    BY <2>1 DEF TypeOK, Option, Outcome
  <2>3. m.slot \notin SlotsOf(counted)
    BY <2>1, StoringIsNew
  <2>4. SlotsOf(counted)' = SlotsOf(counted) \cup {m.slot}
    <3>1. SlotsOf(counted \cup {m}) = SlotsOf(counted) \cup {m.slot}
      BY DEF SlotsOf
    <3> QED BY <2>1, <3>1, Zenon
  <2>5. main' = main /\ run' = run /\ Live
    BY <1>2 DEF StoreTask, StoreStatus
  <2>6. Live' /\ run' = run
    BY <2>5 DEF Live
  <2>7. Abstract!Record(m.slot, m.kind)
    BY <2>1, <2>3, <2>4, <2>5, <2>6 DEF Abstract!Record
  <2> QED BY <2>2, <2>7 DEF Abstract!Next
<1>3. CASE Join
  <2>1. UNCHANGED <<run, counted, dbStatus>>
    BY <1>3 DEF Join, storeVars, dbVars
  <2>2. Live /\ (Live' \/ main' = "err")
    BY <1>3 DEF Join, JoinFetch, JoinParse, JoinStore, Live
  <2>3. UNCHANGED SlotsOf(counted)
    BY <2>1
  <2>4. CASE Live'
    BY <2>1, <2>2, <2>3, <2>4 DEF Abstract!vars
  <2>5. CASE ~Live'
    <3>1. Abstract!Fail
      BY <2>1, <2>2, <2>3, <2>5 DEF Abstract!Fail
    <3> QED BY <3>1 DEF Abstract!Next
  <2> QED BY <2>4, <2>5
<1>4. CASE BuildCandles
  <2>1. UNCHANGED <<run, counted, dbStatus, SlotsOf(counted)>>
    BY <1>4 DEF BuildCandles, storeVars
  <2>2. Live /\ ~Live' /\ main' \in {"ok", "err"}
    BY <1>4 DEF BuildCandles, Live
  <2>3. CASE main' = "ok"
    <3>1. SlotsOf(counted)' = Slots
      BY <2>3 DEF SuccessIsComplete
    <3>2. Abstract!Succeed
      BY <2>1, <2>2, <2>3, <3>1 DEF Abstract!Succeed
    <3> QED BY <3>2 DEF Abstract!Next
  <2>4. CASE main' = "err"
    <3>1. Abstract!Fail
      BY <2>1, <2>2, <2>4 DEF Abstract!Fail
    <3> QED BY <3>1 DEF Abstract!Next
  <2> QED BY <2>2, <2>3, <2>4
<1>5. CASE Crash
  <2>1. /\ Live /\ ~Live' /\ main' = "crashed" /\ UNCHANGED <<run, dbStatus>>
        /\ SlotsOf(counted)' = {}
    BY <1>5, SlotsOfSets DEF Crash, FreshMemory, Live
  <2>2. Abstract!Kill
    BY <2>1 DEF Abstract!Kill
  <2> QED BY <2>2 DEF Abstract!Next
<1>6. CASE Restart
  <2>1. /\ ~Live /\ Live' /\ run < MaxRuns /\ run' = run + 1 /\ dbStatus' = dbStatus
        /\ SlotsOf(counted)' = {}
    BY <1>6, SlotsOfSets DEF Restart, FreshMemory, Live, dbVars
  <2>2. main # "running"
    BY DEF TypeOK
  <2>3. Abstract!Restart
    BY <2>1, <2>2 DEF Abstract!Restart
  <2> QED BY <2>3 DEF Abstract!Next
<1>7. CASE UNCHANGED vars
  BY <1>7, RefinesStutter DEF vars, storeVars, dbVars
<1> QED BY <1>1, <1>2, <1>3, <1>4, <1>5, <1>6, <1>7 DEF Next, MainTask, Stopped

\* The three tasks, their channels and the joins of run_ingest implement the
\* abstract ingestion run: one outcome recorded for each slot of the range in
\* each run, and success only when all of them are.  With --max-concurrency 0
\* they do not: the pool is empty, and the command succeeds with nothing.
THEOREM ImplementsIngestRun ==
  ASSUME MaxConcurrency > 0
  PROVE  Spec => RefinesIngestRun
<1> DEFINE I == IInv /\ OnceInv
<1>1. Init => I /\ Abstract!Init
  <2>1. Init => IInv
    BY InvInit
  <2> QED BY <2>1, OnceInit, RefinesInit
<1>2. I /\ [Next]_vars => I' /\ [Abstract!Next]_(Abstract!vars)
  <2> SUFFICES ASSUME IInv, OnceInv, [Next]_vars
               PROVE  I' /\ [Abstract!Next]_(Abstract!vars)
    OBVIOUS
  <2>1. TypeOK /\ IInv'
    BY InvStep DEF IInv
  <2>2. OnceInv'
    BY <2>1, OnceStep
  <2> QED BY <2>1, <2>2, RefinesStep
<1> QED BY <1>1, <1>2, PTL DEF Spec, RefinesIngestRun, Abstract!Spec

-----------------------------------------------------------------------------
(* The memory the stages hold.                                             *)

\* The number of blocks at which a batch is flushed.
LEMMA BatchLimit ==
  /\ Max({1, BatchSize}) \in Nat /\ Max({1, BatchSize}) >= 1
  /\ Max({1, BatchSize}) >= BatchSize
  /\ \A n \in Nat : n < BatchSize => n < Max({1, BatchSize})
  /\ \A n \in Nat : n < Max({1, BatchSize}) => n + 1 <= Max({1, BatchSize})
<1>1. BatchSize \in Nat
  BY PipelineAssumption
<1>2. \E x \in {1, BatchSize} : \A y \in {1, BatchSize} : x >= y
  <2>1. CASE BatchSize >= 1
    BY <1>1, <2>1
  <2>2. CASE ~(BatchSize >= 1)
    BY <1>1, <2>2
  <2> QED BY <2>1, <2>2
<1>3. /\ Max({1, BatchSize}) \in {1, BatchSize}
      /\ \A y \in {1, BatchSize} : Max({1, BatchSize}) >= y
  BY <1>2 DEF Max
<1> DEFINE l == Max({1, BatchSize})
<1> HIDE DEF l
<1>4. l \in {1, BatchSize} /\ l >= 1 /\ l >= BatchSize
  BY <1>3 DEF l
<1>5. /\ l \in Nat
      /\ \A n \in Nat : n < BatchSize => n < l
      /\ \A n \in Nat : n < l => n + 1 <= l
  BY <1>1, <1>4
<1> QED BY <1>4, <1>5 DEF l

\* The pool and the two channels never hold more than they are made for.
Bounded == /\ Cardinality(inFlight) + Cardinality(sending) <= MaxConcurrency
           /\ Len(fetchQ) <= Capacity /\ Len(parseQ) <= Capacity

\* A batch grows by the outcome being stored, and only between two flushes.
Batches == /\ Len(pending) + Len(flushing) <= Max({1, BatchSize})
           /\ storeAt = "recv" => Len(pending) < Max({1, BatchSize})
           /\ storeAt # "recv" => pending = <<>> /\ storing = {}

\* One place freed in the pool is filled by one slot.
LEMMA BoundedDispatch ==
  ASSUME TypeOK, Bounded, DispatchNext, sending # {}
  PROVE  Cardinality(inFlight') + Cardinality(sending') <= MaxConcurrency
<1>1. /\ IsFiniteSet(inFlight) /\ Cardinality(inFlight) \in Nat /\ Cardinality(sending) = 1
  BY Finiteness
<1>2. MaxConcurrency \in Nat /\ Cardinality(inFlight) + 1 <= MaxConcurrency
  BY <1>1, PipelineAssumption DEF Bounded
<1>3. Cardinality(sending') = 0
  BY FS_EmptySet DEF DispatchNext
<1>4. inFlight' = inFlight \/ inFlight' = inFlight \cup {nextSlot}
  BY DEF DispatchNext
<1>5. Cardinality(inFlight') \in Nat /\ Cardinality(inFlight') <= Cardinality(inFlight) + 1
  <2>1. IsFiniteSet({nextSlot}) /\ Cardinality({nextSlot}) = 1
    BY FS_Singleton
  <2>2. /\ Cardinality(inFlight \cup {nextSlot}) \in Nat
        /\ Cardinality(inFlight \cup {nextSlot}) <= Cardinality(inFlight) + 1
    BY <1>1, <2>1, UnionBound
  <2> QED BY <1>1, <1>4, <2>2
<1> QED BY <1>1, <1>2, <1>3, <1>5

\* The pool and fetchQ keep within their bounds in a step of the fetch task.
LEMMA BoundedFetch == TypeOK /\ Bounded /\ FetchTask => Bounded'
<1> SUFFICES ASSUME TypeOK, Bounded, FetchTask PROVE Bounded'
  OBVIOUS
<1>1. parseQ' = parseQ
  BY DEF FetchTask, FetchNext, FetchSend, FetchSendDropped, FetchEnd
<1>2. CASE FetchNext
  <2>1. PICK s \in inFlight, k \in Kinds : /\ sending' = {[slot |-> s, kind |-> k]}
                                           /\ inFlight' = inFlight \ {s}
    BY <1>2 DEF FetchNext
  <2>2. sending = {} /\ fetchQ' = fetchQ
    BY <1>2 DEF FetchNext
  <2>3. Cardinality(sending') = 1
    BY <2>1, FS_Singleton
  <2>4. Cardinality(sending) = 0
    BY <2>2, FS_EmptySet
  <2>5. Cardinality(inFlight') = Cardinality(inFlight) - 1 /\ Cardinality(inFlight) \in Nat
    BY <2>1, Finiteness, FS_RemoveElement
  <2>6. Cardinality(inFlight') + Cardinality(sending') <= MaxConcurrency
    BY <2>3, <2>4, <2>5, PipelineAssumption DEF Bounded
  <2> QED BY <1>1, <2>2, <2>6 DEF Bounded
<1>3. CASE FetchSend
  <2>1. PICK m \in sending : fetchQ' = Append(fetchQ, m)
    BY <1>3 DEF FetchSend
  <2>2. m \in Outcome /\ sending # {} /\ DispatchNext /\ Len(fetchQ) < Capacity
    BY <1>3, <2>1 DEF TypeOK, Option, FetchSend
  <2>3. Len(fetchQ') = Len(fetchQ) + 1 /\ Len(fetchQ) \in Nat
    BY <2>1, <2>2, OneMoved DEF TypeOK
  <2>4. Len(fetchQ') <= Capacity
    BY <2>2, <2>3, PipelineAssumption
  <2> QED BY <1>1, <2>2, <2>4, BoundedDispatch DEF Bounded
<1>4. CASE FetchSendDropped
  BY <1>1, <1>4, BoundedDispatch DEF FetchSendDropped, Bounded
<1>5. CASE FetchEnd
  BY <1>5 DEF FetchEnd, Bounded
<1> QED BY <1>2, <1>3, <1>4, <1>5 DEF FetchTask

\* Both channels do in a step of the parse task.
LEMMA BoundedParse == TypeOK /\ Bounded /\ ParseTask => Bounded'
<1> SUFFICES ASSUME TypeOK, Bounded, ParseTask PROVE Bounded'
  OBVIOUS
<1>1. UNCHANGED <<inFlight, sending>>
  BY DEF ParseTask, ParseRecv, ParseSend, ParseBail, ParseEnd, fetchVars
<1>2. Capacity \in Nat /\ Len(fetchQ) \in Nat /\ Len(parseQ) \in Nat
  BY PipelineAssumption, Finiteness
<1>3. CASE ParseRecv
  <2>1. fetchQ # <<>> /\ fetchQ' = Tail(fetchQ) /\ parseQ' = parseQ
    BY <1>3 DEF ParseRecv
  <2>2. Len(fetchQ') = Len(fetchQ) - 1
    BY <2>1, OneMoved DEF TypeOK
  <2> QED BY <1>1, <1>2, <2>1, <2>2 DEF Bounded
<1>4. CASE ParseSend
  <2>1. PICK m \in parsing : parseQ' = Append(parseQ, m)
    BY <1>4 DEF ParseSend
  <2>2. m \in Outcome /\ Len(parseQ) < Capacity /\ fetchQ' = fetchQ
    BY <1>4, <2>1 DEF TypeOK, Option, ParseSend
  <2>3. Len(parseQ') = Len(parseQ) + 1
    BY <2>1, <2>2, OneMoved DEF TypeOK
  <2> QED BY <1>1, <1>2, <2>2, <2>3 DEF Bounded
<1>5. CASE ParseBail
  <2>1. Len(fetchQ') = 0 /\ parseQ' = parseQ
    BY <1>5 DEF ParseBail
  <2> QED BY <1>1, <1>2, <2>1 DEF Bounded
<1>6. CASE ParseEnd
  BY <1>1, <1>6 DEF ParseEnd, Bounded
<1> QED BY <1>3, <1>4, <1>5, <1>6 DEF ParseTask

\* parseQ does in a step of the store task.
LEMMA BoundedStore == TypeOK /\ Bounded /\ StoreTask => Bounded'
<1> SUFFICES ASSUME TypeOK, Bounded, StoreTask PROVE Bounded'
  OBVIOUS
<1>1. UNCHANGED <<inFlight, sending, fetchQ>>
  BY DEF StoreTask, Flush, StoreRecv, StoreStatus, StoreStatusError, FlushCommit, FlushRollback,
         FlushSteps, FlushStepsError, FlushDone, StoreFinalFlush, StoreEnd, fetchVars
<1>2. Capacity \in Nat /\ Len(parseQ) \in Nat
  BY PipelineAssumption, Finiteness
<1>3. Len(parseQ') <= Len(parseQ) \/ Len(parseQ') = 0
  <2>1. CASE StoreRecv
    <3>1. Len(parseQ') = Len(parseQ) - 1
      BY <2>1, OneMoved DEF StoreRecv, TypeOK
    <3> QED BY <1>2, <3>1
  <2>2. CASE StoreStatusError
    BY <2>2 DEF StoreStatusError, StoreAbort
  <2>3. CASE FlushRollback \/ FlushStepsError
    <3>1. FlushFails
      BY <2>3 DEF FlushRollback, FlushStepsError
    <3>2. parseQ' = <<>> \/ parseQ' = parseQ
      BY <3>1 DEF FlushFails, StoreAbort
    <3> QED BY <1>2, <3>2
  <2>4. CASE parseQ' = parseQ
    BY <1>2, <2>4
  <2> QED
    BY <2>1, <2>2, <2>3, <2>4 DEF StoreTask, Flush, StoreStatus, FlushCommit, FlushSteps,
                                  FlushDone, StoreFinalFlush, StoreEnd
<1>4. Len(parseQ') \in Nat \/ Len(parseQ') = 0
  BY TypeStep DEF Next, TypeOK
<1> QED BY <1>1, <1>2, <1>3, <1>4 DEF Bounded

\* Steps of the store task keep the batch within its limit.
LEMMA BatchesStore == TypeOK /\ StageOrder /\ Batches /\ StoreTask => Batches'
<1> SUFFICES ASSUME TypeOK, StageOrder, Batches, StoreTask PROVE Batches'
  OBVIOUS
<1>1. Max({1, BatchSize}) \in Nat /\ Max({1, BatchSize}) >= 1
  BY BatchLimit
<1> DEFINE L == Max({1, BatchSize})
<1>2. ASSUME pending' = <<>>, flushing' = <<>>, storing' = {} \/ storeAt' = "recv"
      PROVE  Batches'
  <2>1. Len(pending') = 0 /\ Len(flushing') = 0
    BY <1>2
  <2> QED BY <1>1, <1>2, <2>1 DEF Batches
<1>3. CASE StoreRecv
  BY <1>3 DEF StoreRecv, Batches
<1>4. CASE StoreStatus
  <2>1. PICK batch :
          /\ \E m \in storing :
               batch = IF m.kind = "ingested" THEN Append(pending, m.slot) ELSE pending
          /\ IF Len(batch) >= BatchSize
             THEN storeAt' = "commit" /\ flushing' = batch /\ pending' = <<>>
             ELSE pending' = batch /\ storeAt' = storeAt /\ flushing' = flushing
    BY <1>4, Zenon DEF StoreStatus
  <2>2. storeAt = "recv" /\ store = "running" /\ storing' = {} /\ flushing = <<>>
    BY <1>4 DEF StoreStatus, StageOrder
  <2>3. Len(pending) \in Nat /\ Len(pending) < L
    BY <2>2 DEF Batches, TypeOK
  <2>4. Len(batch) \in Nat /\ Len(batch) <= Len(pending) + 1
    <3>1. PICK m \in storing :
            batch = IF m.kind = "ingested" THEN Append(pending, m.slot) ELSE pending
      BY <2>1
    <3>2. m.slot \in Slots
      BY DEF TypeOK, Option, Outcome
    <3>3. Len(Append(pending, m.slot)) = Len(pending) + 1
      BY <3>2, OneMoved DEF TypeOK
    <3> QED BY <2>3, <3>1, <3>3
  <2>5. CASE Len(batch) >= BatchSize
    <3>1. storeAt' = "commit" /\ flushing' = batch /\ pending' = <<>>
      BY <2>1, <2>5
    <3>2. Len(pending') + Len(flushing') <= L
      <4>1. Len(pending') = 0 /\ Len(flushing') = Len(batch)
        BY <3>1
      <4> HIDE DEF L
      <4> QED BY <1>1, <2>3, <2>4, <4>1 DEF L
    <3> QED BY <2>2, <3>1, <3>2 DEF Batches
  <2>6. CASE ~(Len(batch) >= BatchSize)
    <3>1. pending' = batch /\ storeAt' = "recv" /\ flushing' = <<>>
      BY <2>1, <2>2, <2>6
    <3>2. Len(batch) < L
      BY <2>4, <2>6, BatchLimit, PipelineAssumption
    <3>3. Len(pending') + Len(flushing') <= L
      <4>1. Len(flushing') = 0 /\ Len(pending') = Len(batch)
        BY <3>1
      <4> HIDE DEF L
      <4> QED BY <1>1, <2>4, <3>2, <4>1 DEF L
    <3> QED BY <3>1, <3>2, <3>3 DEF Batches
  <2> QED BY <2>5, <2>6
<1>5. CASE StoreStatusError
  BY <1>2, <1>5 DEF StoreStatusError, StoreAbort
<1>6. CASE FlushRollback \/ FlushStepsError
  <2>1. FlushFails /\ storeAt # "recv"
    BY <1>6 DEF FlushRollback, FlushStepsError
  <2>2. pending = <<>>
    BY <2>1 DEF Batches
  <2>3. pending' = <<>> /\ flushing' = <<>> /\ storeAt' = "recv"
    BY <2>1, <2>2 DEF FlushFails, StoreAbort
  <2> QED BY <1>2, <2>3
<1>7. CASE FlushCommit
  BY <1>7 DEF FlushCommit, Batches
<1>8. CASE FlushSteps
  <2>1. /\ flushing # <<>> /\ flushing' = Tail(flushing)
        /\ storeAt # "recv" /\ UNCHANGED <<storeAt, pending, storing>>
    BY <1>8 DEF FlushSteps
  <2>2. Len(flushing') = Len(flushing) - 1 /\ Len(flushing) \in Nat
    BY <2>1, OneMoved DEF TypeOK
  <2>3. Len(pending) \in Nat /\ Len(pending) + Len(flushing) <= L /\ pending' = pending
    BY <2>1 DEF Batches, TypeOK
  <2>4. Len(pending') + Len(flushing') <= L
    <3> HIDE DEF L
    <3> QED BY <1>1, <2>2, <2>3 DEF L
  <2> QED BY <2>1, <2>4 DEF Batches
<1>9. CASE FlushDone
  <2>1. pending = <<>> /\ pending' = pending /\ flushing' = <<>> /\ storeAt' = "recv"
    BY <1>9 DEF FlushDone, Batches
  <2> QED BY <1>2, <2>1
<1>10. CASE StoreFinalFlush
  <2>1. /\ flushing' = pending /\ pending' = <<>> /\ storing' = {} /\ storeAt' = "commit"
        /\ storeAt = "recv"
    BY <1>10 DEF StoreFinalFlush
  <2>2. Len(pending) \in Nat /\ Len(pending) < L
    BY <2>1 DEF Batches, TypeOK
  <2>3. Len(pending') + Len(flushing') <= L
    <3>1. Len(pending') = 0 /\ Len(flushing') = Len(pending)
      BY <2>1
    <3> HIDE DEF L
    <3> QED BY <1>1, <2>2, <3>1 DEF L
  <2> QED BY <2>1, <2>3 DEF Batches
<1>11. CASE StoreEnd
  BY <1>11 DEF StoreEnd, Batches
<1> QED
  BY <1>3, <1>4, <1>5, <1>6, <1>7, <1>8, <1>9, <1>10, <1>11 DEF StoreTask, Flush

\* A fresh process with no batch.
FreshBatches == Fresh /\ pending = <<>> /\ flushing = <<>> /\ storeAt = "recv"

\* It is within its bounds.
LEMMA BoundedFresh ==
  ASSUME FreshBatches
  PROVE  Bounded /\ Batches
<1> USE DEF FreshBatches
<1>1. Cardinality(1..Primed) = Primed /\ Primed \in Nat /\ Primed <= MaxConcurrency
  <2>1. Primed \in Nat /\ 1 \in Int /\ Primed \in Int
    BY PrimedType
  <2>2. IF 1 > Primed THEN Cardinality(1..Primed) = 0 ELSE Cardinality(1..Primed) = Primed - 1 + 1
    BY <2>1, FS_Interval
  <2>3. Primed <= MaxConcurrency
    BY PipelineAssumption DEF Primed
  <2> QED BY <2>1, <2>2, <2>3
<1>2. Cardinality({}) = 0 /\ Len(<<>>) = 0
  BY FS_EmptySet
<1>3. Bounded
  BY <1>1, <1>2, PipelineAssumption DEF Bounded, Fresh
<1>4. Batches
  BY <1>2, BatchLimit DEF Batches
<1> QED BY <1>3, <1>4

\* The same when the process is killed or started again.
LEMMA BoundedFreshNext == FreshMemory => (Bounded /\ Batches)'
<1>1. FreshMemory => FreshBatches'
  BY DEF FreshMemory, Fresh, FreshBatches
<1>2. FreshBatches' => (Bounded /\ Batches)'
  BY BoundedFresh, PTL
<1> QED BY <1>1, <1>2

\* What bounds the memory.
BoundInv == TypeOK /\ StageOrder /\ Bounded /\ Batches

\* What bounds the memory is inductive.
LEMMA BoundStep == BoundInv /\ [Next]_vars => BoundInv'
<1> SUFFICES ASSUME TypeOK, StageOrder, Bounded, Batches, [Next]_vars PROVE BoundInv'
  BY DEF BoundInv
<1>1. TypeOK' /\ StageOrder'
  BY TypeStep, OrderStep
<1>2. CASE FetchTask \/ ParseTask
  <2>1. UNCHANGED <<pending, flushing, storeAt, storing>>
    BY <1>2 DEF FetchTask, FetchNext, FetchSend, FetchSendDropped, FetchEnd,
                ParseTask, ParseRecv, ParseSend, ParseBail, ParseEnd, storeVars
  <2> QED BY <1>1, <1>2, <2>1, BoundedFetch, BoundedParse DEF BoundInv, Batches
<1>3. CASE StoreTask
  BY <1>1, <1>3, BoundedStore, BatchesStore DEF BoundInv
<1>4. CASE MainTask \/ UNCHANGED vars
  <2>1. UNCHANGED <<inFlight, sending, fetchQ, parseQ, pending, flushing, storeAt, storing>>
    BY <1>4 DEF MainTask, Join, BuildCandles, vars, fetchVars, parseVars, storeVars
  <2> QED BY <1>1, <2>1 DEF BoundInv, Bounded, Batches
<1>5. CASE Crash \/ Restart
  BY <1>1, <1>5, BoundedFreshNext DEF Crash, Restart, BoundInv
<1> QED BY <1>2, <1>3, <1>4, <1>5 DEF Next, Stopped

\* The bounds of the places add up to the bound of the memory.
LEMMA SumOfBounds ==
  ASSUME NEW i \in Nat, NEW s \in Nat, NEW f \in Nat, NEW p \in Nat, NEW q \in Nat, NEW r \in Nat,
         NEW x \in Nat, NEW y \in Nat, NEW l \in Nat, NEW c \in Nat, NEW m \in Nat, NEW t \in Nat,
         i + s <= m, f <= c, q <= c, p <= 1, r + x + y <= l,
         t <= i + s + f + p + q + r
  PROVE  t + x + y <= m + 2 * c + 1 + l
  OBVIOUS

\* The bounds of the places, and of the batch, bound the memory.
LEMMA BoundedIsBounded == BoundInv => BoundedMemory
<1> SUFFICES ASSUME TypeOK, StageOrder, Bounded, Batches
             PROVE  /\ Cardinality(inFlight) + Cardinality(sending) <= MaxConcurrency
                    /\ Cardinality(InTransit) + Len(pending) + Len(flushing) <= MemoryBound
  BY DEF BoundInv, BoundedMemory
<1>1. PICK i \in Nat, s \in Nat, f \in Nat, p \in Nat, q \in Nat, r \in Nat :
        /\ i = Cardinality(inFlight) /\ s = Cardinality(sending) /\ f = Len(fetchQ)
        /\ p = Cardinality(parsing) /\ q = Len(parseQ) /\ r = Cardinality(storing)
        /\ p <= 1
  BY Finiteness
<1>2. PICK x \in Nat, y \in Nat, l \in Nat, c \in Nat, m \in Nat, t \in Nat :
        /\ x = Len(pending) /\ y = Len(flushing) /\ l = Max({1, BatchSize})
        /\ c = Capacity /\ m = MaxConcurrency /\ t = Cardinality(InTransit)
  <2>1. Len(pending) \in Nat /\ Len(flushing) \in Nat
    BY DEF TypeOK
  <2>2. Max({1, BatchSize}) \in Nat /\ Cardinality(InTransit) \in Nat
    BY BatchLimit, TransitBound
  <2>3. Capacity \in Nat /\ MaxConcurrency \in Nat
    BY PipelineAssumption
  <2> QED BY <2>1, <2>2, <2>3
<1>3. i + s <= m /\ f <= c /\ q <= c
  BY <1>1, <1>2, Zenon DEF Bounded
<1>4. t <= i + s + f + p + q + r
  <2>1. Held = i + s + f + p + q + r
    BY <1>1, Zenon DEF Held
  <2> QED BY <1>2, <2>1, TransitBound, Zenon
<1>5. r + x + y <= l
  <2>1. (x < l /\ flushing = <<>>) \/ (storing = {} /\ x + y <= l)
    <3>1. CASE storeAt = "recv"
      <4>1. Len(pending) < Max({1, BatchSize})
        BY <3>1 DEF Batches
      <4>2. flushing = <<>>
        BY <3>1 DEF StageOrder
      <4> QED BY <1>2, <4>1, <4>2, Zenon
    <3>2. CASE storeAt # "recv"
      <4>1. Len(pending) + Len(flushing) <= Max({1, BatchSize}) /\ storing = {}
        BY <3>2 DEF Batches
      <4> QED BY <1>2, <4>1, Zenon
    <3> QED BY <3>1, <3>2
  <2>2. r <= 1 /\ (storing = {} => r = 0)
    <3>1. Cardinality(storing) = IF storing = {} THEN 0 ELSE 1
      BY Finiteness
    <3> QED BY <1>1, <3>1
  <2>3. flushing = <<>> => y = 0
    BY <1>2
  <2>4. CASE x < l /\ flushing = <<>>
    <3>1. x < l /\ y = 0 /\ r <= 1
      BY <2>2, <2>3, <2>4
    <3> QED BY <3>1
  <2>5. CASE storing = {} /\ x + y <= l
    <3>1. r = 0 /\ x + y <= l
      BY <2>2, <2>5
    <3> QED BY <3>1
  <2> QED BY <2>1, <2>4, <2>5
<1>6. t + x + y <= m + 2 * c + 1 + l
  <2>1. p <= 1
    BY <1>1
  <2> QED BY <1>3, <1>4, <1>5, <2>1, SumOfBounds
<1>7. Cardinality(InTransit) + Len(pending) + Len(flushing) <= MemoryBound
  BY <1>2, <1>6, Zenon DEF MemoryBound
<1>8. Cardinality(inFlight) + Cardinality(sending) <= MaxConcurrency
  BY DEF Bounded
<1> QED BY <1>7, <1>8

\* Backpressure: whichever stage stalls, the outcomes and blocks the process
\* holds are bounded by --max-concurrency, the two channels and one batch,
\* however long the range.
THEOREM MemoryIsBounded == Spec => []BoundedMemory
<1>1. Init => BoundInv
  <2>1. Init => FreshBatches
    BY DEF Init, Fresh, FreshBatches
  <2> QED BY <2>1, TypeInit, OrderInit, BoundedFresh DEF BoundInv
<1> QED BY <1>1, BoundStep, BoundedIsBounded, PTL DEF Spec
=============================================================================
