------------------------------- MODULE Candles -------------------------------
(***************************************************************************)
(* The candle table over several runs of `ingest` (main.rs,                *)
(* build_and_store_candles; ohlcv, build_candles; repository.rs,           *)
(* upsert_candles).  Each run stores some slots of its range and then      *)
(* builds candles from all rows stored in that range, at each interval,    *)
(* upserting one row per bucket.                                           *)
(*                                                                         *)
(* One mint is modelled: mints do not meet in any row.  A slot has at most *)
(* one trade of it, whose time is the slot's block_time.                   *)
(***************************************************************************)
EXTENDS Integers, FiniteSetsExt, Functions

CONSTANTS Slots,      \* slot numbers
          Intervals,  \* candle widths: 60 and 300 seconds
          NoTime,     \* a block without block_time
          Chains,     \* the trades the slots of the chain may have
          MaxRuns     \* bound on the number of runs

ASSUME CandlesAssumption ==
    /\ Slots \subseteq Nat /\ IsFiniteSet(Slots)
    /\ Intervals \subseteq Nat \ {0} /\ MaxRuns \in Nat
    /\ Chains \subseteq [Slots -> [time : Int \cup {NoTime}, price : Int, volume : Int]]

VARIABLES chain,    \* slot -> [time, price, volume]; never changes: finalized
          stored,   \* the slots whose rows are in the database
          candles,  \* the table: (interval, bucket) -> candle
          built,    \* history: the slots the last complete candle pass read
          runs      \* how many runs there were

vars == <<chain, stored, candles, built, runs>>

Bucket(t, iv) == (t \div iv) * iv

(* The order of the trades of a set of slots, as the place of each: that of *)
(* their times and, among equal times, the one the hash map of snapshots    *)
(* happens to give.                                                         *)
Timed(S) == {s \in S : chain[s].time # NoTime}
(* Mutant: the trades are not sorted. *)
OrdersUnsorted(S) == Bijection(Timed(S), 1..Cardinality(Timed(S)))

Orders(S) == {place \in Bijection(Timed(S), 1..Cardinality(Timed(S))) :
                \A r, s \in Timed(S) : place[r] < place[s] => chain[r].time <= chain[s].time}

InBucket(S, key) == {s \in S : Bucket(chain[s].time, key[1]) = key[2]}

PricesOf(S) == {chain[s].price : s \in S}

VolumeOf(S) == SumFunction([s \in S |-> chain[s].volume])

First(S, place) == CHOOSE s \in S : \A r \in S : place[s] <= place[r]
Last(S, place) == CHOOSE s \in S : \A r \in S : place[r] <= place[s]

(* Mutant: the low starts at zero. *)
CandleLowZero(S, place) ==
    [open |-> chain[First(S, place)].price, close |-> chain[Last(S, place)].price,
     high |-> Max(PricesOf(S)), low |-> Min(PricesOf(S) \cup {0}), volume |-> VolumeOf(S)]

Candle(S, place) ==
    [open |-> chain[First(S, place)].price, close |-> chain[Last(S, place)].price,
     high |-> Max(PricesOf(S)), low |-> Min(PricesOf(S)), volume |-> VolumeOf(S)]

KeysOf(S) == {<<iv, Bucket(chain[s].time, iv)>> : iv \in Intervals, s \in S}

(* Mutant: ON CONFLICT DO NOTHING. *)
UpsertNothing(place, keys) == [k \in DOMAIN candles \cup keys |->
    IF k \in DOMAIN candles THEN candles[k] ELSE Candle(InBucket(DOMAIN place, k), place)]

(* The upserts of a pass that stops early: all candles of the first interval *)
(* come before those of the second, and buckets before later ones.           *)
Comes(j, k) == j[1] < k[1] \/ (j[1] = k[1] /\ j[2] < k[2])

CutsOf(S) == {K \in SUBSET KeysOf(S) : \A k \in K, j \in KeysOf(S) : Comes(j, k) => j \in K}

(* INSERT ... ON CONFLICT DO UPDATE, for some of the buckets. *)
Upsert(place, keys) == [k \in DOMAIN candles \cup keys |->
    IF k \in keys THEN Candle(InBucket(DOMAIN place, k), place) ELSE candles[k]]
-----------------------------------------------------------------------------
Init == /\ chain \in Chains
        /\ stored = {} /\ candles = <<>> /\ built = {} /\ runs = 0

SlotRange(first, last) == {s \in Slots : first <= s /\ s <= last}

(* A run over a range that gets the blocks `got` and succeeds. *)
Ingest(range, got) ==
    /\ runs < MaxRuns
    /\ stored' = stored \cup got
    /\ \E place \in Orders(stored' \cap range) :
         candles' = Upsert(place, KeysOf(DOMAIN place))
    /\ built' = stored' \cap range
    /\ runs' = runs + 1
    /\ UNCHANGED chain

(* One that is killed, or fails, somewhere before it is done. *)
IngestCut(range, got) ==
    /\ runs < MaxRuns
    /\ stored' = stored \cup got
    /\ \E place \in Orders(stored' \cap range) :
         \E keys \in CutsOf(DOMAIN place) : candles' = Upsert(place, keys)
    /\ built' = {}
    /\ runs' = runs + 1
    /\ UNCHANGED chain

Next == \E first, last \in Slots :
          /\ first <= last
          /\ \E got \in SUBSET SlotRange(first, last) :
                Ingest(SlotRange(first, last), got) \/ IngestCut(SlotRange(first, last), got)

Spec == Init /\ [][Next]_vars
-----------------------------------------------------------------------------
SlotsIn(S, key) == InBucket(Timed(S), key)

(* What a candle of the trades of S must say; open and close leave room for *)
(* trades of the same second only.                                           *)
Summarises(c, S) ==
    LET prices == PricesOf(S)
        earliest == {s \in S : \A r \in S : chain[s].time <= chain[r].time}
        latest == {s \in S : \A r \in S : chain[r].time <= chain[s].time}
    IN  /\ c.high \in prices /\ \A p \in prices : p <= c.high
        /\ c.low \in prices /\ \A p \in prices : c.low <= p
        /\ c.volume = VolumeOf(S)
        /\ \E s \in earliest : c.open = chain[s].price
        /\ \E s \in latest : c.close = chain[s].price

(* Whatever ranges the runs had and wherever they stopped, a candle is that  *)
(* of some stored trades of its bucket: prices and volume are never mixed    *)
(* from two runs or two buckets.                                             *)
CandlesAreReal ==
    \A k \in DOMAIN candles :
        \E S \in SUBSET SlotsIn(stored, k) : S # {} /\ Summarises(candles[k], S)

(* A bucket all of whose stored slots lie in the range of the last complete  *)
(* run has the candle of all its stored trades, however stale what an        *)
(* earlier run left there.                                                   *)
WholeBucketsExact ==
    \A s \in Timed(built), iv \in Intervals :
        LET key == <<iv, Bucket(chain[s].time, iv)>>
            all == SlotsIn(stored, key)
        IN  all \subseteq built => key \in DOMAIN candles /\ Summarises(candles[key], all)

(* The two candle series of the last run tell one story: over a whole bucket *)
(* of the wider interval, the narrower candles add up to it.                 *)
SeriesAgree ==
    \A k \in DOMAIN candles, narrow \in Intervals :
        LET parts == {j \in DOMAIN candles : j[1] = narrow /\ Bucket(j[2], k[1]) = k[2]}
            first == CHOOSE j \in parts : \A i \in parts : j[2] <= i[2]
            last == CHOOSE j \in parts : \A i \in parts : i[2] <= j[2]
        IN  (/\ k[1] % narrow = 0 /\ SlotsIn(stored, k) # {} /\ SlotsIn(stored, k) \subseteq built) =>
              /\ candles[k].high = Max({candles[j].high : j \in parts})
              /\ candles[k].low = Min({candles[j].low : j \in parts})
              /\ candles[k].volume = SumFunction([j \in parts |-> candles[j].volume])
              /\ candles[k].open = candles[first].open
              /\ candles[k].close = candles[last].close

(* repository.rs:9-10: "Re-running ingestion for an already-ingested slot    *)
(* always converges to the same end state".  A complete run that stores      *)
(* nothing new leaves every candle as it was.  Only the table's volumes are  *)
(* compared: a run over part of a bucket replaces its candle by one of that  *)
(* part.                                                                     *)
RerunKeepsVolumes ==
    [][(stored' = stored /\ built' # {}) =>
          \A k \in DOMAIN candles : candles'[k].volume = candles[k].volume]_vars
=============================================================================
