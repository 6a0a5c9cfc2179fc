------------------------------ MODULE IngestRun ------------------------------
(***************************************************************************)
(* What `block-analysis ingest` promises about a slot range, whatever      *)
(* stages it is built from: a run records one outcome for each slot, it    *)
(* succeeds only when every slot has one, and it may fail, be killed and   *)
(* be started again, when it goes over the whole range once more.          *)
(***************************************************************************)
EXTENDS Naturals

CONSTANTS Slots,     \* the range start_slot .. start_slot + count - 1
          Kinds,     \* the outcomes a slot can have
          NoStatus,  \* "no row in ingestion_status"
          MaxRuns    \* bound on the number of runs

VARIABLES run,       \* which run this is
          phase,     \* "running", or how the run ended: "ok", "err", "crashed"
          recorded,  \* the slots this run has recorded an outcome for
          status     \* the ingestion_status table

vars == <<run, phase, recorded, status>>

Init == /\ run = 1
        /\ phase = "running"
        /\ recorded = {}
        /\ status = [s \in Slots |-> NoStatus]

Record(s, k) == /\ phase = "running"
                /\ s \notin recorded
                /\ recorded' = recorded \cup {s}
                /\ status' = [status EXCEPT ![s] = k]
                /\ UNCHANGED <<run, phase>>

Succeed == /\ phase = "running"
           /\ recorded = Slots
           /\ phase' = "ok"
           /\ UNCHANGED <<run, recorded, status>>

Fail == /\ phase = "running"
        /\ phase' = "err"
        /\ UNCHANGED <<run, recorded, status>>

\* Only the table survives a kill.
Kill == /\ phase = "running"
        /\ phase' = "crashed"
        /\ recorded' = {}
        /\ UNCHANGED <<run, status>>

Restart == /\ phase # "running"
           /\ run < MaxRuns
           /\ run' = run + 1
           /\ phase' = "running"
           /\ recorded' = {}
           /\ UNCHANGED status

Next == \/ \E s \in Slots, k \in Kinds : Record(s, k)
        \/ Succeed \/ Fail \/ Kill \/ Restart

Spec == Init /\ [][Next]_vars
=============================================================================
