------------------------------ MODULE TokenFlow ------------------------------
(***************************************************************************)
(* What becomes of one transaction's token balances on their way to a      *)
(* candle: decoded into one net change per mint (rpc_client.rs), passed on *)
(* or dropped (main.rs, parse_block), stored (repository.rs), read back    *)
(* and turned into trades (ohlcv).  One action per hand-over.              *)
(*                                                                         *)
(* Amounts are unsigned integers of Width bits.  The two lists of balances *)
(* are functions of the account index, which is unique in each.            *)
(***************************************************************************)
EXTENDS Integers, FiniteSets, Functions

CONSTANTS Width,         \* bits of an amount: 64 in the code
          Indices,       \* account indices of the transaction
          Mints,         \* token mints
          Wsol,          \* WSOL_MINT
          Dust,          \* DUST_THRESHOLD_SOL, in raw units
          Absent,        \* "the account is not in the list"
          Transactions   \* the transactions considered

Amounts == 0..2^Width - 1
Balance == {Absent} \cup [mint : Mints, amount : Amounts]
RawTx == [pre : [Indices -> Balance], post : [Indices -> Balance], failed : BOOLEAN]

ASSUME FlowAssumption == /\ Width \in Nat \ {0} /\ Dust \in Nat /\ Wsol \in Mints
                         /\ IsFiniteSet(Indices)
                         /\ Transactions \subseteq RawTx

VARIABLES tx,      \* the raw transaction
          stage,   \* what has been done with it
          rows,    \* its balance rows: decoded, handed on, stored, read back
          trades   \* the trades inferred

vars == <<tx, stage, rows, trades>>

AsUnsigned(n) == n % 2^Width
AsSigned(n) == IF n < 2^(Width - 1) THEN n ELSE n - 2^Width
Abs(n) == IF n < 0 THEN -n ELSE n
-----------------------------------------------------------------------------
(* The change of one account, with the mint of the list it is found in.  An *)
(* account of post has what pre says or 0 before, one only in pre has 0 after.*)
(* Mutant: an account closed by the transaction is dropped. *)
AccountChangeOpenOnly(t, i) ==
    LET before == t.pre[i]  after == t.post[i] IN
    IF after # Absent
    THEN [mint |-> after.mint, pre |-> IF before = Absent THEN 0 ELSE before.amount,
          post |-> after.amount]
    ELSE [mint |-> before.mint, pre |-> 0, post |-> 0]

AccountChange(t, i) ==
    LET before == t.pre[i]  after == t.post[i] IN
    IF after # Absent
    THEN [mint |-> after.mint, pre |-> IF before = Absent THEN 0 ELSE before.amount,
          post |-> after.amount]
    ELSE [mint |-> before.mint, pre |-> before.amount, post |-> 0]

Touched(t) == {i \in Indices : t.pre[i] # Absent \/ t.post[i] # Absent}

(* coalesce_token_deltas and coalesce_token_balance_rows: one row per mint  *)
(* whose net is not zero, on the side of its sign, cast back to Width bits. *)
NetRow(m, net) == IF net > 0 THEN [mint |-> m, pre |-> 0, post |-> AsUnsigned(net)]
                             ELSE [mint |-> m, pre |-> AsUnsigned(-net), post |-> 0]

Coalesced(net) == {NetRow(m, net[m]) : m \in {k \in Mints : net[k] # 0}}

NetOfTx(t) == [m \in Mints |->
    SumFunction([i \in {k \in Touched(t) : AccountChange(t, k).mint = m} |->
                    AccountChange(t, i).post - AccountChange(t, i).pre])]

(* Mutant: the last row of a mint replaces the ones before. *)
NetOfRowsLast(R) == [m \in Mints |->
    IF \E r \in R : r.mint = m
    THEN LET r == CHOOSE r \in R : r.mint = m IN r.post
    ELSE 0]

NetOfRows(R) == [m \in Mints |->
    SumFunction([r \in {x \in R : x.mint = m} |-> r.post - r.pre])]

(* External: DuckDB refuses a negative number for a UBIGINT column. *)
Accepted(r) == AsSigned(r.pre) >= 0 /\ AsSigned(r.post) >= 0

Delta(r) == r.post - r.pre

(* infer_trades: the wSOL row, if its change is not zero, against every mint *)
(* that moved the other way, unless the SOL volume is dust.                  *)
(* Mutant: a same-direction change counts as a trade. *)
OppositeAny(r, sol) == Delta(r) # 0

Opposite(r, sol) == Delta(r) # 0 /\ ((Delta(r) > 0) # (Delta(sol) > 0))

InferTrades(R) ==
    UNION {{[mint |-> r.mint, sol |-> Abs(Delta(sol)), tokens |-> Abs(Delta(r))] :
              r \in {x \in R : x.mint # Wsol /\ Opposite(x, sol)}} :
           sol \in {x \in R : x.mint = Wsol /\ Delta(x) # 0 /\ Abs(Delta(x)) >= Dust}}
-----------------------------------------------------------------------------
Init == /\ tx \in Transactions
        /\ stage = "raw" /\ rows = {} /\ trades = {}

(* build_token_deltas, in the fetch task. *)
Decode == /\ stage = "raw" /\ stage' = "decoded"
          /\ rows' = Coalesced(NetOfTx(tx))
          /\ UNCHANGED <<tx, trades>>

(* parse_block: "OHLCV excludes failed transactions". *)
(* Mutant: failed transactions are handed on. *)
ParseAll == /\ stage = "decoded" /\ stage' = "parsed"
            /\ UNCHANGED <<tx, rows, trades>>

Parse == /\ stage = "decoded" /\ stage' = "parsed"
         /\ rows' = IF tx.failed THEN {} ELSE rows
         /\ UNCHANGED <<tx, trades>>

(* replace_slot_data_inner: coalesced once more; one refused row fails the  *)
(* batch, which is rolled back.                                             *)
Store == /\ stage = "parsed"
         /\ LET coalesced == Coalesced(NetOfRows(rows)) IN
            IF \A r \in coalesced : Accepted(r)
            THEN stage' = "stored" /\ rows' = coalesced
            ELSE stage' = "rejected" /\ rows' = {}
         /\ UNCHANGED <<tx, trades>>

(* build_and_store_candles, up to the trades. *)
Infer == /\ stage = "stored" /\ stage' = "inferred"
         /\ trades' = InferTrades(rows)
         /\ UNCHANGED <<tx, rows>>

Next == Decode \/ Parse \/ Store \/ Infer

Spec == Init /\ [][Next]_vars
-----------------------------------------------------------------------------
(* What the accounts of a mint hold together, in one of the two lists. *)
Holdings(list, m) ==
    SumFunction([i \in {k \in Indices : list[k] # Absent /\ list[k].mint = m} |-> list[i].amount])

(* A mint's supply, hence what any accounts hold of it, is itself a Width-bit *)
(* number, and an account keeps its mint while it exists.                     *)
WithinSupply == \A m \in Mints : {Holdings(tx.pre, m), Holdings(tx.post, m)} \subseteq Amounts
MintsKept == \A i \in Indices :
    (tx.pre[i] # Absent /\ tx.post[i] # Absent) => tx.pre[i].mint = tx.post[i].mint

(* The row of a mint is the exact change of what the transaction's accounts  *)
(* hold of it: matching the lists by index, adding account by account and    *)
(* casting back loses nothing, opened and closed accounts included.          *)
NetIsExact ==
    (stage = "decoded" /\ WithinSupply /\ MintsKept) =>
        \A m \in Mints :
            LET of == {r \in rows : r.mint = m}
                change == Holdings(tx.post, m) - Holdings(tx.pre, m)
            IN  IF change = 0 THEN of = {} ELSE {Delta(r) : r \in of} = {change}

(* Storage nets the rows it is given a second time: for rows that come from  *)
(* decode that changes nothing, so what is read back is what was decoded.    *)
StoredAsDecoded ==
    (stage \in {"stored", "inferred"} /\ WithinSupply /\ MintsKept) =>
        rows = IF tx.failed THEN {} ELSE Coalesced(NetOfTx(tx))

(* A trade is inferred for a mint exactly when its holdings and those of     *)
(* wrapped SOL moved in opposite directions, the latter by more than dust,   *)
(* in a transaction that succeeded.                                          *)
TradesAreSwaps ==
    (stage = "inferred" /\ WithinSupply /\ MintsKept) =>
        \A m \in Mints \ {Wsol} :
            LET change(k) == Holdings(tx.post, k) - Holdings(tx.pre, k) IN
            (\E t \in trades : t.mint = m)
              <=> /\ ~tx.failed
                  /\ change(m) * change(Wsol) < 0
                  /\ Abs(change(Wsol)) >= Dust
=============================================================================
