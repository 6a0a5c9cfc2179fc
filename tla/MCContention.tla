---------------------------- MODULE MCContention ----------------------------
EXTENDS Contention

CONSTANT MaxTxs   \* longest block checked

\* Every block of at most MaxTxs transactions.
MCBlocks ==
  LET locks == {t \in [writes : SUBSET Accounts, reads : SUBSET Accounts] :
                  t.writes \cap t.reads = {}}
  IN UNION {[1..n -> locks] : n \in 0..MaxTxs}
=============================================================================
