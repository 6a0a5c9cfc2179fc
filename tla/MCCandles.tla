----------------------------- MODULE MCCandles -----------------------------
EXTENDS Candles

CONSTANT LastTime   \* bound on block times

(* Every chain of slots with times that do not go back, at most one of them *)
(* missing, and two prices.                                                 *)
MCChains ==
    {c \in [Slots -> [time : 0..LastTime \cup {NoTime}, price : {1, 2}, volume : {1}]] :
        /\ Cardinality({s \in Slots : c[s].time = NoTime}) <= 1
        /\ \A s, t \in Slots : (s < t /\ NoTime \notin {c[s].time, c[t].time})
                                  => c[s].time <= c[t].time}
=============================================================================
