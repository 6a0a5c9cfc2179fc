------------------------------ MODULE MCApiServer ------------------------------
(* Two blocks for ApiServer: two transactions that write one account, and one *)
(* that writes it as well and reads another.                                  *)
EXTENDS ApiServer, TLC

Lock2(sig, account, write) == [sig |-> sig, account |-> account, write |-> write]

SlotsDef  == {11, 12}
OrderDef  == (11 :> <<"a", "b">>) @@ (12 :> <<"c">>)
StepOfDef == ("a" :> 0) @@ ("b" :> 1) @@ ("c" :> 0)
RowsDef   == [blocks |-> [s \in SlotsDef |-> {s}],
              transactions |-> (11 :> {"a", "b"}) @@ (12 :> {"c"}),
              account_locks |-> (11 :> {Lock2("a", "x", TRUE), Lock2("b", "x", TRUE)})
                                  @@ (12 :> {Lock2("c", "x", TRUE), Lock2("c", "y", FALSE)}),
              token_balance_changes |-> (11 :> {<<"a", "mint">>}) @@ (12 :> {})]
AsksDef == [r \in Requests |-> IF r = "q1" THEN {"contention"} ELSE {"health", "query"}]
WindowDef == [r \in Requests |-> <<11, 12>>]
=============================================================================
