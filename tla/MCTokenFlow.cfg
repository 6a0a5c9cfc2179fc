\* Three accounts of wrapped SOL and another mint, amounts of three bits.
CONSTANTS
    Width = 3
    Indices = {1, 2, 3}
    sol = sol
    usdc = usdc
    Mints = {sol, usdc}
    Wsol = sol
    Dust = 2
    Absent = Absent
    Sampled = {0, 3, 5}
    Other = usdc
    Transactions <- MCTransactions
SPECIFICATION Spec
INVARIANTS NetIsExact StoredAsDecoded TradesAreSwaps
\* A transaction whose trades are inferred, or whose batch is refused, is done with.
CHECK_DEADLOCK FALSE
