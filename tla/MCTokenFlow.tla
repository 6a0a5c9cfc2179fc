---------------------------- MODULE MCTokenFlow ----------------------------
EXTENDS TokenFlow

CONSTANT Sampled,   \* the amounts a balance is taken from
         Other      \* the other mint

(* Every transaction over the indices whose accounts keep their mint: the   *)
(* first wsols accounts hold wrapped SOL.  Only how many do matters.         *)
MCTransactions ==
    LET balances(m) == {Absent} \cup [mint : {m}, amount : Sampled]
        lists(wsols) == {f \in [Indices -> balances(Wsol) \cup balances(Other)] :
                            \A i \in Indices : f[i] \in balances(IF i <= wsols THEN Wsol ELSE Other)}
    IN  UNION {[pre : lists(wsols), post : lists(wsols), failed : BOOLEAN] :
                 wsols \in {0} \cup Indices}
=============================================================================
