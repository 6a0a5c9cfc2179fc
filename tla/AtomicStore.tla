----------------------------- MODULE AtomicStore -----------------------------
(***************************************************************************)
(* What flush_parsed_batch (crates/cli/src/main.rs) promises about the     *)
(* database: the blocks of a batch replace the earlier versions of the     *)
(* same slots all at once, and only then does one transaction after the    *)
(* other get its schedule step.                                            *)
(***************************************************************************)
EXTENDS Naturals

CONSTANTS Slots,   \* the slots that may be ingested
          Flushes, \* the numbers of the flushes, from 1
          SigsOf   \* the signatures of each slot's transactions

VARIABLES version,  \* the flush a slot's rows come from, {f}; {} when it has none
          stepped   \* the signatures whose schedule step is stored

vars == <<version, stepped>>

Sigs == UNION {SigsOf[s] : s \in Slots}

Init == version = [s \in Slots |-> {}] /\ stepped = {}

\* A batch commits as the flush numbered f, the first with that number.
Replace(S, f) == /\ \A s \in Slots : \A v \in version[s] : v < f
                 /\ version' = [s \in Slots |-> IF s \in S THEN {f} ELSE version[s]]
                 /\ stepped' = stepped \ UNION {SigsOf[s] : s \in S}

WriteStep(s, sig) == /\ version[s] # {} /\ sig \in SigsOf[s]
                     /\ stepped' = stepped \cup {sig}
                     /\ UNCHANGED version

Next == \/ \E S \in SUBSET Slots, f \in Flushes : Replace(S, f)
        \/ \E s \in Slots : \E sig \in SigsOf[s] : WriteStep(s, sig)

Spec == Init /\ [][Next]_vars
=============================================================================
