--------------------------- MODULE Dashboard_proofs ---------------------------
(***************************************************************************)
(* That the page only asks for series that have candles, whatever is built *)
(* meanwhile and in whatever order responses arrive, and that it ends up   *)
(* showing the series of its menus when no response is overtaken: for any  *)
(* set of mints and any number of builds and requests.                     *)
(***************************************************************************)
EXTENDS Dashboard, FiniteSetTheorems, TLAPS

(* A row of /api/tokens. *)
Rows == [mint : Mints, intervals : SUBSET Intervals]

Requests == [of : Series \cup {Tokens},
             state : {"sent", "served", "failed", "over"},
             body : Seq(Rows) \cup Seq(Nat)]

(* The page's variables and the store stay well typed. *)
TypeOK == /\ stored \in [Series -> Nat] /\ builds \in Nat
          /\ list \in Seq(Rows)
          /\ fetches \in Seq(Requests)

(* Candles of the series are stored. *)
HasCandles(s) == stored[s] > 0

(* Every token of the list has an interval, and candles at each. *)
Listed(tokens) == \A j \in 1..Len(tokens) :
    /\ tokens[j].intervals # {}
    /\ \A i \in tokens[j].intervals : HasCandles(<<tokens[j].mint, i>>)

(* The menus show a series that has candles, or no token. *)
MenusOffer == /\ list = <<>> => mint = None
              /\ list # <<>> => /\ mint \in Mints /\ options \subseteq Intervals
                                /\ interval \in options
                                /\ \A i \in options : HasCandles(<<mint, i>>)

(* So does every request, and what is on its way back. *)
Offers(f) == /\ f.of # Tokens => HasCandles(f.of)
             /\ (f.state = "served" /\ f.of = Tokens) => f.body \in Seq(Rows) /\ Listed(f.body)
             /\ (f.state = "served" /\ f.of # Tokens) => f.body[1] > 0

AllOffer(sent) == \A k \in 1..Len(sent) : Offers(sent[k])

RequestsOffer == AllOffer(fetches)

IInv == TypeOK /\ Listed(list) /\ MenusOffer /\ RequestsOffer /\ NeverNoData

(* The request for the tokens is none for candles. *)
LEMMA TokensIsNoSeries == Tokens \notin Series
  BY DEF Tokens, Series

(* A candle once built stays: what was offered can still be drawn. *)
LEMMA CandlesStay ==
    ASSUME TypeOK, Build
    PROVE  /\ stored' \in [Series -> Nat] /\ builds' \in Nat
           /\ \A s \in Series : HasCandles(s) => HasCandles(s)'
  <1>1. builds' \in Nat /\ builds' > 0
    BY DEF Build, TypeOK
  <1>2. PICK traded \in SUBSET Mints : \E minutes, fives \in SUBSET traded :
           /\ fives # {} => minutes = traded
           /\ stored' = [s \in Series |-> IF s[1] \in (IF s[2] = "1m" THEN minutes ELSE fives)
                                          THEN builds' ELSE stored[s]]
    BY DEF Build
  <1> PICK minutes \in SUBSET traded, fives \in SUBSET traded :
           stored' = [s \in Series |-> IF s[1] \in (IF s[2] = "1m" THEN minutes ELSE fives)
                                       THEN builds' ELSE stored[s]]
    BY <1>2
  <1>3. ASSUME NEW s \in Series
        PROVE  stored'[s] \in Nat /\ (stored[s] > 0 => stored'[s] > 0)
    <2>1. stored'[s] = builds' \/ stored'[s] = stored[s]
      BY <1>2
    <2>2. stored[s] \in Nat
      BY DEF TypeOK
    <2> QED BY <1>1, <2>1, <2>2
  <1>4. stored' \in [Series -> Nat]
    <2>1. \A s \in Series : stored'[s] \in Nat
      BY <1>3
    <2>2. stored' = [s \in Series |-> stored'[s]]
      BY <1>2
    <2> QED BY <2>1, <2>2, Zenon
  <1> QED BY <1>1, <1>3, <1>4 DEF HasCandles

(* query_tokens lists what has candles, and query_ohlcv returns them. *)
LEMMA TokensAreListed ==
    ASSUME TypeOK, NEW body \in Answers(Tokens)
    PROVE  body \in Seq(Rows) /\ Listed(body)
  <1>1. query_tokens \subseteq Rows
    <2>1. \A m \in Mints : IntervalsOf(m) \in SUBSET Intervals
      BY DEF IntervalsOf
    <2> QED BY <2>1 DEF query_tokens, Rows
  <1>2. body \in SetToSeqs(query_tokens)
    BY DEF Answers
  <1>3. IsFiniteSet(query_tokens)
    <2> DEFINE N == {n \in Mints : IntervalsOf(n) # {}}
               f == [m \in N |-> [mint |-> m, intervals |-> IntervalsOf(m)]]
    <2>1. IsFiniteSet(N)
      BY PageAssumption, FS_Subset
    <2>2. f \in Surjection(N, query_tokens)
      BY DEF query_tokens, Surjection
    <2> HIDE DEF f, N
    <2> QED BY <2>1, <2>2, FS_Surjection
  <1>4. PICK n \in Nat : n = Cardinality(query_tokens)
    BY <1>3, FS_CardinalityType
  <1>5. body \in [1..n -> query_tokens]
    BY <1>2, <1>4 DEF SetToSeqs
  <1>6. body \in Seq(Rows) /\ Len(body) = n
    BY <1>1, <1>5
  <1>7. ASSUME NEW j \in 1..n
        PROVE  /\ body[j].intervals # {}
               /\ \A i \in body[j].intervals : HasCandles(<<body[j].mint, i>>)
    <2>1. body[j] \in query_tokens
      BY <1>5
    <2>2. PICK m \in Mints : /\ IntervalsOf(m) # {}
                             /\ body[j] = [mint |-> m, intervals |-> IntervalsOf(m)]
      BY <2>1 DEF query_tokens
    <2>3. body[j].mint = m /\ body[j].intervals = IntervalsOf(m)
      BY <2>2
    <2> QED BY <2>2, <2>3 DEF IntervalsOf, HasCandles
  <1> QED BY <1>6, <1>7 DEF Listed

LEMMA CandlesAreServed ==
    ASSUME TypeOK, NEW s \in Series, HasCandles(s), NEW body \in Answers(s)
    PROVE  body \in Seq(Nat) /\ body[1] > 0
  <1>1. body = <<stored[s]>> /\ stored[s] \in Nat
    BY TokensIsNoSeries DEF Answers, TypeOK
  <1> QED BY <1>1 DEF HasCandles

(* The menu shows one interval at least of a token that is listed. *)
LEMMA SyncOffers ==
    ASSUME NEW tokens \in Seq(Rows), Listed(tokens), NEW m,
           \E j \in 1..Len(tokens) : tokens[j].mint = m,
           syncIntervalOptions(tokens, m)
    PROVE  /\ m \in Mints /\ options' \subseteq Intervals
           /\ interval' \in options'
           /\ \A i \in options' : HasCandles(<<m, i>>)
  <1>1. \A j \in 1..Len(tokens) : tokens[j] \in Rows
    OBVIOUS
  <1>2. PICK j \in 1..Len(tokens) : tokens[j].mint = m
    OBVIOUS
  <1>3. \A i : i \in options' <=>
           \E n \in 1..Len(tokens) : tokens[n].mint = m /\ i \in tokens[n].intervals
    BY DEF syncIntervalOptions
  <1>4. m \in Mints /\ options' \subseteq Intervals
    BY <1>1, <1>2, <1>3 DEF Rows
  <1>5. \A i \in options' : HasCandles(<<m, i>>)
    BY <1>3 DEF Listed
  <1>6. options' # {}
    BY <1>2, <1>3 DEF Listed
  <1>7. interval' \in options'
    BY <1>4, <1>6 DEF syncIntervalOptions, Intervals
  <1> QED BY <1>4, <1>5, <1>7

(* Putting another request in the place of one. *)
LEMMA ReplacedOffers ==
    ASSUME TypeOK, RequestsOffer, NEW k \in 1..Len(fetches),
           NEW f \in Requests, Offers(f), NEW sent, sent = [fetches EXCEPT ![k] = f]
    PROVE  sent \in Seq(Requests) /\ AllOffer(sent) /\ Len(sent) = Len(fetches)
  <1>1. fetches \in Seq(Requests)
    BY DEF TypeOK
  <1>2. sent \in Seq(Requests) /\ Len(sent) = Len(fetches)
    BY <1>1
  <1>3. \A j \in 1..Len(fetches) : sent[j] = IF j = k THEN f ELSE fetches[j]
    BY <1>1
  <1> QED BY <1>2, <1>3 DEF AllOffer, RequestsOffer

(* A request that is over offers nothing that it did not ask for. *)
LEMMA OverOffers ==
    ASSUME TypeOK, RequestsOffer, NEW k \in 1..Len(fetches)
    PROVE  Over(k) \in Seq(Requests) /\ AllOffer(Over(k)) /\ Len(Over(k)) = Len(fetches)
  <1> DEFINE f == [fetches[k] EXCEPT !.state = "over", !.body = <<>>]
  <1>1. fetches[k] \in Requests
    BY DEF TypeOK
  <1>2. f \in Requests /\ f.of = fetches[k].of /\ f.state = "over"
    <2>1. <<>> \in Seq(Nat)
      OBVIOUS
    <2> QED BY <1>1, <2>1 DEF Requests
  <1>3. Offers(f)
    BY <1>2 DEF Offers, RequestsOffer, AllOffer
  <1>4. Over(k) = [fetches EXCEPT ![k] = f]
    BY DEF Over
  <1> HIDE DEF f
  <1> QED BY <1>2, <1>3, <1>4, ReplacedOffers

(* loadOhlcv asks for what the menus show, which has candles. *)
LEMMA LoadOffers ==
    ASSUME NEW sent \in Seq(Requests), AllOffer(sent), NEW m, NEW i, loadOhlcv(sent, m, i),
           (m # None /\ i # None) => m \in Mints /\ i \in Intervals /\ HasCandles(<<m, i>>)
    PROVE  fetches' \in Seq(Requests) /\ AllOffer(fetches')
  <1>1. CASE m = None \/ i = None
    BY <1>1 DEF loadOhlcv
  <1>2. CASE ~(m = None \/ i = None)
    <2> DEFINE f == Request(<<m, i>>)
    <2>1. fetches' = Append(sent, f)
      BY <1>2 DEF loadOhlcv
    <2>2. <<m, i>> \in Series /\ <<m, i>> # Tokens /\ HasCandles(<<m, i>>)
      BY <1>2, TokensIsNoSeries DEF Series
    <2>3. f.of = <<m, i>> /\ f.state = "sent" /\ f.body = <<>>
      BY DEF Request
    <2>4. f \in Requests
      <3>1. <<>> \in Seq(Nat)
        OBVIOUS
      <3> QED BY <2>2, <3>1 DEF Request, Requests
    <2>5. Offers(f)
      BY <2>2, <2>3 DEF Offers
    <2> HIDE DEF f
    <2>6. fetches' \in Seq(Requests) /\ Len(fetches') = Len(sent) + 1
          /\ \A j \in 1..Len(fetches') : fetches'[j] = IF j = Len(sent) + 1 THEN f ELSE sent[j]
      BY <2>1, <2>4
    <2>7. \A j \in 1..Len(fetches') : Offers(fetches'[j])
      <3>1. \A j \in 1..Len(fetches') : j = Len(sent) + 1 \/ j \in 1..Len(sent)
        BY <2>6
      <3> QED BY <2>5, <2>6, <3>1 DEF AllOffer
    <2> QED BY <2>6, <2>7 DEF AllOffer
  <1> QED BY <1>1, <1>2

(* With the store as it was, offering is what it was. *)
LEMMA OfferingStays ==
    ASSUME stored' = stored, AllOffer(fetches'), fetches' \in Seq(Requests), TypeOK,
           list' \in Seq(Rows), builds' = builds
    PROVE  TypeOK' /\ RequestsOffer'
  BY DEF TypeOK, RequestsOffer, AllOffer, Offers, HasCandles, Listed

-----------------------------------------------------------------------------
LEMMA BuildIInv == ASSUME IInv, Build PROVE IInv'
  <1>1. /\ list' = list /\ mint' = mint /\ options' = options /\ interval' = interval
        /\ fetches' = fetches /\ chart' = chart
    BY DEF Build, page
  <1>2. /\ stored' \in [Series -> Nat] /\ builds' \in Nat
        /\ \A s \in Series : HasCandles(s) => HasCandles(s)'
    BY CandlesStay DEF IInv
  <1>3. TypeOK'
    BY <1>1, <1>2 DEF IInv, TypeOK
  <1>4. ASSUME NEW tokens \in Seq(Rows), Listed(tokens)
        PROVE  \A j \in 1..Len(tokens) :
                  /\ tokens[j].intervals # {}
                  /\ \A i \in tokens[j].intervals : HasCandles(<<tokens[j].mint, i>>)'
    <2> TAKE j \in 1..Len(tokens)
    <2>1. tokens[j] \in Rows
      OBVIOUS
    <2>2. \A i \in tokens[j].intervals : <<tokens[j].mint, i>> \in Series
      BY <2>1 DEF Rows, Series
    <2> QED BY <1>2, <1>4, <2>2 DEF Listed
  <1>5. Listed(list)'
    <2>1. list \in Seq(Rows) /\ Listed(list)
      BY DEF IInv, TypeOK
    <2> QED BY <1>1, <1>4, <2>1 DEF Listed
  <1>6. MenusOffer'
    <2>1. list # <<>> => \A i \in options : <<mint, i>> \in Series
      BY DEF IInv, MenusOffer, Series
    <2> QED BY <1>1, <1>2, <2>1 DEF IInv, MenusOffer
  <1>7. RequestsOffer'
    <2> SUFFICES ASSUME NEW k \in 1..Len(fetches) PROVE Offers(fetches[k])'
      BY <1>1 DEF RequestsOffer, AllOffer
    <2>1. fetches[k] \in Requests /\ Offers(fetches[k])
      BY DEF IInv, TypeOK, RequestsOffer, AllOffer
    <2>2. fetches[k].of # Tokens => HasCandles(fetches[k].of)'
      <3>1. fetches[k].of # Tokens => fetches[k].of \in Series /\ HasCandles(fetches[k].of)
        BY <2>1 DEF Offers, Requests
      <3> QED BY <1>1, <1>2, <3>1 DEF HasCandles
    <2>3. (fetches[k].body \in Seq(Rows) /\ Listed(fetches[k].body)) => Listed(fetches[k].body)'
      BY <1>1, <1>4 DEF Listed
    <2> QED BY <1>1, <2>1, <2>2, <2>3 DEF Offers
  <1>8. NeverNoData'
    BY <1>1 DEF IInv, NeverNoData
  <1> QED BY <1>3, <1>5, <1>6, <1>7, <1>8 DEF IInv

(* A step that leaves the menus, the chart and the store as they are. *)
LEMMA PageStays ==
    ASSUME IInv, UNCHANGED <<stored, builds, page>>, NeverNoData',
           fetches' \in Seq(Requests), AllOffer(fetches')
    PROVE  IInv'
  <1>1. /\ stored' = stored /\ builds' = builds /\ list' = list /\ mint' = mint
        /\ options' = options /\ interval' = interval
    BY DEF page
  <1>2. TypeOK' /\ RequestsOffer'
    BY <1>1, OfferingStays DEF IInv, TypeOK
  <1>3. Listed(list)' /\ MenusOffer'
    BY <1>1 DEF IInv, Listed, MenusOffer, HasCandles
  <1> QED BY <1>2, <1>3 DEF IInv

LEMMA ServeIInv == ASSUME IInv, NEW k \in 1..Len(fetches), Serve(k) PROVE IInv'
  <1>1. PICK body \in Answers(fetches[k].of) :
           fetches' = [fetches EXCEPT ![k] = [@ EXCEPT !.state = "served", !.body = body]]
    BY DEF Serve
  <1> DEFINE f == [fetches[k] EXCEPT !.state = "served", !.body = body]
  <1>2. fetches[k] \in Requests /\ Offers(fetches[k]) /\ TypeOK
    BY DEF IInv, TypeOK, RequestsOffer, AllOffer
  <1>3. /\ fetches[k].of = Tokens => body \in Seq(Rows) /\ Listed(body)
        /\ fetches[k].of # Tokens => body \in Seq(Nat) /\ body[1] > 0
    BY <1>2, TokensAreListed, CandlesAreServed DEF Offers, Requests
  <1>4. f \in Requests /\ f.of = fetches[k].of /\ f.state = "served" /\ f.body = body
    BY <1>2, <1>3 DEF Requests
  <1>5. Offers(f)
    BY <1>2, <1>3, <1>4 DEF Offers
  <1>6. fetches' = [fetches EXCEPT ![k] = f]
    BY <1>1
  <1> HIDE DEF f
  <1>7. fetches' \in Seq(Requests) /\ AllOffer(fetches')
    BY <1>2, <1>4, <1>5, <1>6, ReplacedOffers DEF IInv
  <1>8. NeverNoData'
    BY DEF Serve, IInv, NeverNoData
  <1> QED BY <1>7, <1>8, PageStays DEF Serve

LEMMA FailIInv == ASSUME IInv, NEW k \in 1..Len(fetches), Fail(k) PROVE IInv'
  <1> DEFINE f == [fetches[k] EXCEPT !.state = "failed"]
  <1>1. fetches[k] \in Requests /\ Offers(fetches[k]) /\ TypeOK
    BY DEF IInv, TypeOK, RequestsOffer, AllOffer
  <1>2. f \in Requests /\ f.of = fetches[k].of /\ f.state = "failed"
    BY <1>1 DEF Requests
  <1>3. Offers(f)
    BY <1>1, <1>2 DEF Offers
  <1>4. fetches' = [fetches EXCEPT ![k] = f]
    BY DEF Fail
  <1> HIDE DEF f
  <1>5. fetches' \in Seq(Requests) /\ AllOffer(fetches')
    BY <1>1, <1>2, <1>3, <1>4, ReplacedOffers DEF IInv
  <1>6. NeverNoData'
    BY DEF Fail, IInv, NeverNoData
  <1> QED BY <1>5, <1>6, PageStays DEF Fail

LEMMA ChooseMintIInv == ASSUME IInv, NEW m \in Mints, ChooseMint(m) PROVE IInv'
  <1>1. /\ stored' = stored /\ builds' = builds /\ list' = list /\ chart' = chart /\ mint' = m
        /\ syncIntervalOptions(list, m) /\ loadOhlcv(fetches, m, interval')
        /\ \E j \in 1..Len(list) : list[j].mint = m
    BY DEF ChooseMint
  <1>2. TypeOK /\ list \in Seq(Rows) /\ fetches \in Seq(Requests) /\ Listed(list) /\ AllOffer(fetches)
    BY DEF IInv, TypeOK, RequestsOffer
  <1>3. /\ options' \subseteq Intervals /\ interval' \in options'
        /\ \A i \in options' : HasCandles(<<m, i>>)
    BY <1>1, <1>2, SyncOffers
  <1>4. fetches' \in Seq(Requests) /\ AllOffer(fetches')
    BY <1>1, <1>2, <1>3, LoadOffers
  <1>5. TypeOK' /\ RequestsOffer'
    BY <1>1, <1>2, <1>4, OfferingStays
  <1>6. Listed(list)'
    BY <1>1, <1>2 DEF Listed, HasCandles
  <1>7. list # <<>>
    BY <1>1
  <1>8. MenusOffer'
    BY <1>1, <1>3, <1>7 DEF MenusOffer, HasCandles
  <1>9. NeverNoData'
    BY <1>1 DEF IInv, NeverNoData
  <1> QED BY <1>5, <1>6, <1>8, <1>9 DEF IInv

LEMMA ChooseIntervalIInv ==
    ASSUME IInv, NEW i \in Intervals, ChooseInterval(i)
    PROVE  IInv'
  <1>1. /\ stored' = stored /\ builds' = builds /\ list' = list /\ chart' = chart /\ mint' = mint
        /\ options' = options /\ interval' = i /\ i \in options /\ loadOhlcv(fetches, mint, i)
    BY DEF ChooseInterval
  <1>2. TypeOK /\ list \in Seq(Rows) /\ fetches \in Seq(Requests) /\ Listed(list) /\ AllOffer(fetches)
    BY DEF IInv, TypeOK, RequestsOffer
  <1>3. mint # None => mint \in Mints /\ HasCandles(<<mint, i>>)
    BY <1>1 DEF IInv, MenusOffer
  <1>4. fetches' \in Seq(Requests) /\ AllOffer(fetches')
    BY <1>1, <1>2, <1>3, LoadOffers
  <1>5. TypeOK' /\ RequestsOffer'
    BY <1>1, <1>2, <1>4, OfferingStays
  <1>6. Listed(list)'
    BY <1>1, <1>2 DEF Listed, HasCandles
  <1>7. MenusOffer'
    BY <1>1 DEF IInv, MenusOffer, HasCandles
  <1>8. NeverNoData'
    BY <1>1 DEF IInv, NeverNoData
  <1> QED BY <1>5, <1>6, <1>7, <1>8 DEF IInv

LEMMA LoadClickedIInv == ASSUME IInv, LoadClicked PROVE IInv'
  <1>1. loadOhlcv(fetches, mint, interval) /\ UNCHANGED <<stored, builds, page, chart>>
    BY DEF LoadClicked
  <1>2. fetches \in Seq(Requests) /\ AllOffer(fetches)
    BY DEF IInv, TypeOK, RequestsOffer
  <1>3. mint # None => mint \in Mints /\ interval \in Intervals /\ HasCandles(<<mint, interval>>)
    BY DEF IInv, MenusOffer
  <1>4. fetches' \in Seq(Requests) /\ AllOffer(fetches')
    BY <1>1, <1>2, <1>3, LoadOffers
  <1>5. NeverNoData'
    BY <1>1 DEF IInv, NeverNoData
  <1> QED BY <1>1, <1>4, <1>5, PageStays

LEMMA TokensArriveIInv == ASSUME IInv, NEW k \in 1..Len(fetches), TokensArrive(k) PROVE IInv'
  <1> DEFINE tokens == fetches[k].body
  <1>1. /\ stored' = stored /\ builds' = builds /\ chart' = chart /\ list' = tokens
        /\ mint' = IF tokens = <<>> THEN None ELSE tokens[1].mint
        /\ syncIntervalOptions(tokens, mint')
        /\ loadOhlcv(Over(k), mint', interval')
    BY DEF TokensArrive
  <1>2. tokens \in Seq(Rows) /\ Listed(tokens)
    BY DEF IInv, RequestsOffer, AllOffer, Offers, TokensArrive
  <1>3. TypeOK /\ Over(k) \in Seq(Requests) /\ AllOffer(Over(k))
    BY OverOffers DEF IInv
  <1> HIDE DEF tokens
  <1>4. tokens # <<>> => \E j \in 1..Len(tokens) : tokens[j].mint = mint'
    BY <1>1, <1>2
  <1>5. tokens # <<>> => /\ mint' \in Mints /\ options' \subseteq Intervals /\ interval' \in options'
                         /\ \A i \in options' : HasCandles(<<mint', i>>)
    BY <1>1, <1>2, <1>4, SyncOffers
  <1>6. fetches' \in Seq(Requests) /\ AllOffer(fetches')
    BY <1>1, <1>3, <1>5, LoadOffers
  <1>7. TypeOK' /\ RequestsOffer'
    BY <1>1, <1>2, <1>3, <1>6, OfferingStays
  <1>8. Listed(list)'
    BY <1>1, <1>2 DEF Listed, HasCandles
  <1>9. MenusOffer'
    BY <1>1, <1>5 DEF MenusOffer, HasCandles
  <1>10. NeverNoData'
    BY <1>1 DEF IInv, NeverNoData
  <1> QED BY <1>7, <1>8, <1>9, <1>10 DEF IInv

LEMMA ArrivalIInv ==
    ASSUME IInv, NEW k \in 1..Len(fetches), CandlesArrive(k) \/ FailureArrives(k)
    PROVE  IInv'
  <1>1. UNCHANGED <<stored, builds, page>> /\ fetches' = Over(k)
    BY DEF CandlesArrive, FailureArrives
  <1>2. fetches' \in Seq(Requests) /\ AllOffer(fetches')
    BY <1>1, OverOffers DEF IInv
  <1>3. CASE CandlesArrive(k)
    <2>1. chart' = [series |-> fetches[k].of, candles |-> fetches[k].body[1]]
      BY <1>3 DEF CandlesArrive
    <2>2. fetches[k].body[1] > 0
      BY <1>3 DEF CandlesArrive, IInv, RequestsOffer, AllOffer, Offers
    <2>3. NeverNoData'
      BY <2>1, <2>2 DEF NeverNoData
    <2> QED BY <1>1, <1>2, <2>3, PageStays
  <1>4. CASE FailureArrives(k)
    <2>1. NeverNoData'
      BY <1>4 DEF FailureArrives, IInv, NeverNoData
    <2> QED BY <1>1, <1>2, <2>1, PageStays
  <1> QED BY <1>3, <1>4

LEMMA StutterIInv == ASSUME IInv, UNCHANGED vars PROVE IInv'
  BY DEF vars, page, IInv, TypeOK, Listed, MenusOffer, RequestsOffer, AllOffer, Offers,
         HasCandles, NeverNoData

(* The page's menus, requests and chart stay about series that have candles. *)
THEOREM Invariance == Spec => []IInv
  <1>1. Init => IInv
    <2> SUFFICES ASSUME Init PROVE IInv
      OBVIOUS
    <2> DEFINE f == Request(Tokens)
    <2>1. f \in Requests /\ f.of = Tokens /\ f.state = "sent"
      <3>1. <<>> \in Seq(Nat)
        OBVIOUS
      <3> QED BY <3>1 DEF Request, Requests
    <2>2. Offers(f)
      BY <2>1 DEF Offers
    <2> HIDE DEF f
    <2>3. fetches = <<f>> /\ list = <<>> /\ mint = None /\ chart = NoChart
      BY DEF Init, f
    <2>4. fetches \in Seq(Requests) /\ RequestsOffer
      BY <2>1, <2>2, <2>3 DEF RequestsOffer, AllOffer
    <2>5. TypeOK
      BY <2>3, <2>4 DEF Init, TypeOK
    <2>6. Listed(list) /\ MenusOffer /\ NeverNoData
      BY <2>3 DEF Listed, MenusOffer, NeverNoData
    <2> QED BY <2>4, <2>5, <2>6 DEF IInv
  <1>2. IInv /\ [Next]_vars => IInv'
    BY BuildIInv, ServeIInv, FailIInv, ChooseMintIInv, ChooseIntervalIInv,
       LoadClickedIInv, TokensArriveIInv, ArrivalIInv, StutterIInv DEF Next
  <1> QED BY <1>1, <1>2, PTL DEF Spec

(* Whatever is built and chosen, and whenever responses arrive, the chart    *)
(* never says "No data for this range".                                      *)
THEOREM ChartHasData == Spec => []NeverNoData
  <1>1. IInv => NeverNoData
    BY DEF IInv
  <1> QED BY <1>1, Invariance, PTL

-----------------------------------------------------------------------------
(* The first request is the one for the tokens. *)
AsksTokensOnce(s) == 1 <= Len(s) /\ \A k \in 1..Len(s) : s[k].of = Tokens <=> k = 1

(* The requests that are over come before those that are not. *)
InTurn(s) == \A j, k \in 1..Len(s) : (j < k /\ s[k].state = "over") => s[j].state = "over"

(* The chart is that of the last request that is over. *)
Drawn(s, c) == \A k \in 1..Len(s) :
    (k # 1 /\ s[k].state = "over" /\ (k = Len(s) \/ s[k + 1].state # "over"))
      => c.series = s[k].of

(* The last request sent is for what the menus show. *)
LastIsSelected == list # <<>> => /\ 1 < Len(fetches)
                                 /\ fetches[Len(fetches)].of = <<mint, interval>>

OrderInv == /\ AsksTokensOnce(fetches) /\ LastIsSelected
            /\ inOrder => InTurn(fetches) /\ Drawn(fetches, chart)

(* What loadOhlcv sends is the last request and not over. *)
LEMMA LoadIsLast ==
    ASSUME NEW sent \in Seq(Requests), NEW m, NEW i, loadOhlcv(sent, m, i),
           m \in Mints, i \in Intervals, AsksTokensOnce(sent)
    PROVE  /\ AsksTokensOnce(fetches') /\ 1 < Len(fetches')
           /\ fetches'[Len(fetches')].of = <<m, i>>
           /\ InTurn(sent) => InTurn(fetches')
           /\ \A c : Drawn(sent, c) => Drawn(fetches', c)
  <1> DEFINE f == Request(<<m, i>>)
  <1>1. m # None /\ i # None
    BY PageAssumption DEF Intervals, None
  <1>2. fetches' = Append(sent, f)
    BY <1>1 DEF loadOhlcv
  <1>3. f.of = <<m, i>> /\ f.state = "sent"
    BY DEF Request
  <1>4. <<m, i>> # Tokens
    BY TokensIsNoSeries DEF Series
  <1> HIDE DEF f
  <1>5. PICK n \in Nat : n = Len(sent)
    OBVIOUS
  <1>6. /\ Len(fetches') = n + 1 /\ fetches'[n + 1] = f
        /\ \A j \in 1..n : fetches'[j] = sent[j]
    BY <1>2, <1>5
  <1>7. 1 <= n
    BY <1>5 DEF AsksTokensOnce
  <1>8. AsksTokensOnce(fetches')
    <2> SUFFICES ASSUME NEW k \in 1..(n + 1) PROVE fetches'[k].of = Tokens <=> k = 1
      <3>1. 1 <= n + 1
        OBVIOUS
      <3> QED BY <1>6, <3>1 DEF AsksTokensOnce
    <2>1. CASE k = n + 1
      <3>1. fetches'[k] = f /\ f.of # Tokens
        BY <1>3, <1>4, <1>6, <2>1, Zenon
      <3>2. k # 1
        BY <1>7, <2>1
      <3> QED BY <3>1, <3>2, Zenon
    <2>2. CASE k # n + 1
      <3>1. k \in 1..n
        BY <2>2
      <3> QED BY <1>5, <1>6, <3>1 DEF AsksTokensOnce
    <2> QED BY <2>1, <2>2
  <1>9. InTurn(sent) => InTurn(fetches')
    <2> SUFFICES ASSUME InTurn(sent), NEW j \in 1..(n + 1), NEW k \in 1..(n + 1),
                        j < k, fetches'[k].state = "over"
                 PROVE  fetches'[j].state = "over"
      BY <1>6 DEF InTurn
    <2>1. k # n + 1
      BY <1>3, <1>6
    <2>2. j \in 1..n /\ k \in 1..n
      BY <2>1
    <2> QED BY <1>5, <1>6, <2>2 DEF InTurn
  <1>10. ASSUME NEW c, Drawn(sent, c) PROVE Drawn(fetches', c)
    <2> SUFFICES ASSUME NEW k \in 1..(n + 1), k # 1, fetches'[k].state = "over",
                        k = n + 1 \/ fetches'[k + 1].state # "over"
                 PROVE  c.series = fetches'[k].of
      BY <1>6 DEF Drawn
    <2>1. k # n + 1
      BY <1>3, <1>6
    <2>2. k \in 1..n /\ fetches'[k] = sent[k]
      BY <1>6, <2>1
    <2>3. k = n \/ sent[k + 1].state # "over"
      <3>1. CASE k # n
        <4>1. k + 1 \in 1..n
          BY <2>2, <3>1
        <4> QED BY <1>6, <2>1, <4>1
      <3> QED BY <3>1
    <2> QED BY <1>5, <1>10, <2>2, <2>3 DEF Drawn
  <1> QED BY <1>3, <1>6, <1>7, <1>8, <1>9, <1>10

(* Another state of a request that is not over and does not become so. *)
LEMMA AnswerKeepsOrder ==
    ASSUME IInv, OrderInv, NEW k \in 1..Len(fetches), NEW f \in Requests,
           fetches' = [fetches EXCEPT ![k] = f], f.of = fetches[k].of,
           f.state # "over", fetches[k].state # "over",
           UNCHANGED <<page, chart, inOrder>>
    PROVE  OrderInv'
  <1>1. PICK n \in Nat : n = Len(fetches)
    BY DEF IInv, TypeOK
  <1>2. Len(fetches') = n
    BY <1>1 DEF IInv, TypeOK
  <1>3. \A j \in 1..n : /\ fetches'[j].of = fetches[j].of
                        /\ fetches'[j].state = "over" <=> fetches[j].state = "over"
    BY <1>1 DEF IInv, TypeOK
  <1>4. AsksTokensOnce(fetches')
    BY <1>1, <1>2, <1>3 DEF OrderInv, AsksTokensOnce
  <1>5. LastIsSelected'
    BY <1>1, <1>2, <1>3 DEF OrderInv, LastIsSelected, page
  <1>6. InTurn(fetches) => InTurn(fetches')
    BY <1>1, <1>2, <1>3 DEF InTurn
  <1>7. Drawn(fetches, chart) => Drawn(fetches', chart)
    <2> SUFFICES ASSUME Drawn(fetches, chart), NEW j \in 1..n, j # 1, fetches'[j].state = "over",
                        j = n \/ fetches'[j + 1].state # "over"
                 PROVE  chart.series = fetches'[j].of
      BY <1>2 DEF Drawn
    <2>1. j = n \/ j + 1 \in 1..n
      OBVIOUS
    <2> QED BY <1>1, <1>3, <2>1 DEF Drawn
  <1> QED BY <1>4, <1>5, <1>6, <1>7 DEF OrderInv

(* The request over next, in order, is the last that is.                     *)
LEMMA OverInTurn ==
    ASSUME IInv, OrderInv, NEW k \in 1..Len(fetches), fetches[k].state # "over"
    PROVE  /\ Over(k) \in Seq(Requests) /\ Len(Over(k)) = Len(fetches)
           /\ AsksTokensOnce(Over(k))
           /\ \A j \in 1..Len(fetches) : Over(k)[j].of = fetches[j].of
           /\ (inOrder /\ ~Overtakes(k)) =>
                 /\ InTurn(Over(k))
                 /\ \A c : (k # 1 => c.series = fetches[k].of) => Drawn(Over(k), c)
  <1>1. PICK n \in Nat : n = Len(fetches)
    BY DEF IInv, TypeOK
  <1>2. Over(k) \in Seq(Requests) /\ Len(Over(k)) = n
    BY <1>1, OverOffers DEF IInv
  <1>3. \A j \in 1..n : /\ Over(k)[j].of = fetches[j].of
                        /\ Over(k)[j].state = IF j = k THEN "over" ELSE fetches[j].state
    <2>1. \A j \in 1..n : fetches[j] \in Requests
      BY <1>1 DEF IInv, TypeOK
    <2> QED BY <1>1, <2>1 DEF Over, IInv, TypeOK, Requests
  <1>4. AsksTokensOnce(Over(k))
    BY <1>1, <1>2, <1>3 DEF OrderInv, AsksTokensOnce
  <1>5. ASSUME inOrder, ~Overtakes(k)
        PROVE  \A j \in 1..n : Over(k)[j].state = "over" <=> j <= k
    <2> TAKE j \in 1..n
    <2>1. InTurn(fetches)
      BY <1>5 DEF OrderInv
    <2>2. CASE j < k
      <3>1. j \in 1..(k - 1)
        BY <1>1, <2>2
      <3> QED BY <1>3, <1>5, <2>2, <3>1 DEF Overtakes
    <2>3. CASE j = k
      BY <1>3, <2>3
    <2>4. CASE k < j
      BY <1>1, <1>3, <2>1, <2>4 DEF InTurn
    <2>5. k \in Nat /\ j \in Nat
      BY <1>1
    <2> QED BY <2>2, <2>3, <2>4, <2>5
  <1>6. ASSUME inOrder, ~Overtakes(k) PROVE InTurn(Over(k))
    BY <1>1, <1>2, <1>5, <1>6 DEF InTurn
  <1>7. ASSUME inOrder, ~Overtakes(k), NEW c, k # 1 => c.series = fetches[k].of
        PROVE  Drawn(Over(k), c)
    <2> SUFFICES ASSUME NEW j \in 1..n, j # 1, Over(k)[j].state = "over",
                        j = n \/ Over(k)[j + 1].state # "over"
                 PROVE  c.series = Over(k)[j].of
      BY <1>2 DEF Drawn
    <2>1. j = k
      <3>1. j <= k
        BY <1>5, <1>7
      <3>2. CASE j = n
        BY <1>1, <3>1, <3>2
      <3>3. CASE j # n
        <4>1. j + 1 \in 1..n
          BY <3>3
        <4>2. ~(j + 1 <= k)
          BY <1>5, <1>7, <3>3, <4>1
        <4> QED BY <1>1, <3>1, <4>2
      <3> QED BY <3>2, <3>3
    <2> QED BY <1>3, <1>7, <2>1
  <1> QED BY <1>1, <1>2, <1>3, <1>4, <1>6, <1>7

(* A request for what the menus then show is sent last. *)
LEMMA LoadKeepsOrder ==
    ASSUME NEW sent \in Seq(Requests), loadOhlcv(sent, mint', interval'),
           AsksTokensOnce(sent), IInv',
           (inOrder' => InTurn(sent) /\ Drawn(sent, chart'))
    PROVE  OrderInv'
  <1>1. CASE list' = <<>>
    <2>1. mint' = None /\ fetches' = sent
      BY <1>1 DEF IInv, MenusOffer, loadOhlcv
    <2> QED BY <1>1, <2>1 DEF OrderInv, LastIsSelected
  <1>2. CASE list' # <<>>
    <2>1. mint' \in Mints /\ interval' \in Intervals
      BY <1>2 DEF IInv, MenusOffer
    <2> QED BY <2>1, LoadIsLast DEF OrderInv, LastIsSelected
  <1> QED BY <1>1, <1>2

LEMMA StepOrder == ASSUME IInv, OrderInv, [Next]_vars PROVE OrderInv'
  <1>0. IInv'
    BY BuildIInv, ServeIInv, FailIInv, ChooseMintIInv, ChooseIntervalIInv,
       LoadClickedIInv, TokensArriveIInv, ArrivalIInv, StutterIInv DEF Next
  <1>1. fetches \in Seq(Requests) /\ AsksTokensOnce(fetches)
        /\ (inOrder => InTurn(fetches) /\ Drawn(fetches, chart))
    BY DEF IInv, TypeOK, OrderInv
  <1>2. CASE Build \/ UNCHANGED vars
    BY <1>2 DEF Build, vars, page, OrderInv, LastIsSelected, AsksTokensOnce, InTurn, Drawn
  <1>3. ASSUME NEW k \in 1..Len(fetches), Serve(k) \/ Fail(k) PROVE OrderInv'
    <2>1. fetches[k] \in Requests
      BY <1>1
    <2>2. CASE Serve(k)
      <3>1. PICK body : /\ body \in Seq(Rows) \cup Seq(Nat)
                        /\ fetches' = [fetches EXCEPT ![k] = [@ EXCEPT !.state = "served", !.body = body]]
        <4>1. PICK body \in Answers(fetches[k].of) :
                 fetches' = [fetches EXCEPT ![k] = [@ EXCEPT !.state = "served", !.body = body]]
          BY <2>2 DEF Serve
        <4>2. TypeOK /\ Offers(fetches[k])
          BY DEF IInv, RequestsOffer, AllOffer
        <4>3. body \in Seq(Rows) \cup Seq(Nat)
          BY <2>1, <4>2, TokensAreListed, CandlesAreServed DEF Offers, Requests
        <4> QED BY <4>1, <4>3
      <3> DEFINE f == [fetches[k] EXCEPT !.state = "served", !.body = body]
      <3>2. f \in Requests /\ f.of = fetches[k].of /\ f.state = "served"
        BY <2>1, <3>1 DEF Requests
      <3>3. fetches' = [fetches EXCEPT ![k] = f]
        BY <3>1
      <3> HIDE DEF f
      <3> QED BY <2>2, <3>2, <3>3, AnswerKeepsOrder DEF Serve
    <2>3. CASE Fail(k)
      <3> DEFINE f == [fetches[k] EXCEPT !.state = "failed"]
      <3>1. f \in Requests /\ f.of = fetches[k].of /\ f.state = "failed"
        BY <2>1 DEF Requests
      <3>2. fetches' = [fetches EXCEPT ![k] = f]
        BY <2>3 DEF Fail
      <3> HIDE DEF f
      <3> QED BY <2>3, <3>1, <3>2, AnswerKeepsOrder DEF Fail
    <2> QED BY <1>3, <2>2, <2>3
  <1>4. ASSUME NEW m \in Mints, ChooseMint(m) PROVE OrderInv'
    BY <1>0, <1>1, <1>4, LoadKeepsOrder DEF ChooseMint
  <1>5. ASSUME NEW i \in Intervals, ChooseInterval(i) PROVE OrderInv'
    BY <1>0, <1>1, <1>5, LoadKeepsOrder DEF ChooseInterval
  <1>6. CASE LoadClicked
    BY <1>0, <1>1, <1>6, LoadKeepsOrder DEF LoadClicked, page
  <1>7. ASSUME NEW k \in 1..Len(fetches), TokensArrive(k) PROVE OrderInv'
    <2>1. /\ fetches[k].state # "over" /\ fetches[k].of = Tokens
          /\ inOrder' = (inOrder /\ ~Overtakes(k)) /\ chart' = chart
          /\ loadOhlcv(Over(k), mint', interval')
      BY <1>7 DEF TokensArrive
    <2>2. k = 1
      BY <1>1, <2>1 DEF AsksTokensOnce
    <2>3. /\ Over(k) \in Seq(Requests) /\ AsksTokensOnce(Over(k))
          /\ (inOrder /\ ~Overtakes(k)) => InTurn(Over(k)) /\ Drawn(Over(k), chart)
      BY <2>1, <2>2, OverInTurn
    <2> QED BY <1>0, <2>1, <2>3, LoadKeepsOrder
  <1>8. ASSUME NEW k \in 1..Len(fetches), CandlesArrive(k) PROVE OrderInv'
    <2>1. /\ fetches[k].state # "over" /\ fetches' = Over(k) /\ UNCHANGED page
          /\ inOrder' = (inOrder /\ ~Overtakes(k)) /\ chart'.series = fetches[k].of
      BY <1>8 DEF CandlesArrive
    <2>2. /\ AsksTokensOnce(fetches') /\ Len(fetches') = Len(fetches)
          /\ \A j \in 1..Len(fetches) : fetches'[j].of = fetches[j].of
          /\ (inOrder /\ ~Overtakes(k)) => InTurn(fetches') /\ Drawn(fetches', chart')
      BY <2>1, OverInTurn
    <2>3. LastIsSelected'
      BY <1>1, <2>1, <2>2 DEF OrderInv, LastIsSelected, page
    <2> QED BY <2>1, <2>2, <2>3 DEF OrderInv
  <1>9. ASSUME NEW k \in 1..Len(fetches), FailureArrives(k) PROVE OrderInv'
    <2>1. fetches[k].state # "over" /\ fetches' = Over(k) /\ UNCHANGED page /\ inOrder' = FALSE
      BY <1>9 DEF FailureArrives
    <2>2. /\ AsksTokensOnce(fetches') /\ Len(fetches') = Len(fetches)
          /\ \A j \in 1..Len(fetches) : fetches'[j].of = fetches[j].of
      BY <2>1, OverInTurn
    <2>3. LastIsSelected'
      BY <1>1, <2>1, <2>2 DEF OrderInv, LastIsSelected, page
    <2> QED BY <2>1, <2>2, <2>3 DEF OrderInv
  <1> QED BY <1>2, <1>3, <1>4, <1>5, <1>6, <1>7, <1>8, <1>9 DEF Next

(* When every response has arrived, none overtaken and none failed, the      *)
(* chart is that of the menus.                                               *)
THEOREM ChartFollowsMenus == Spec => []ChartIsSelected
  <1>1. Init => OrderInv
    <2> SUFFICES ASSUME Init PROVE OrderInv
      OBVIOUS
    <2> DEFINE f == Request(Tokens)
    <2>1. f.of = Tokens /\ f.state = "sent"
      BY DEF Request
    <2> HIDE DEF f
    <2>2. fetches = <<f>> /\ list = <<>>
      BY DEF Init, f
    <2> QED BY <2>1, <2>2 DEF OrderInv, AsksTokensOnce, LastIsSelected, InTurn, Drawn
  <1>2. IInv /\ OrderInv => ChartIsSelected
    <2> SUFFICES ASSUME IInv, OrderInv, inOrder, list # <<>>,
                        \A k \in 1..Len(fetches) : fetches[k].state = "over"
                 PROVE  chart.series = <<mint, interval>>
      BY DEF ChartIsSelected
    <2>1. PICK n \in Nat : n = Len(fetches)
      BY DEF IInv, TypeOK
    <2>2. 1 < n /\ fetches[n].of = <<mint, interval>> /\ fetches[n].state = "over"
      BY <2>1 DEF OrderInv, LastIsSelected
    <2> QED BY <2>1, <2>2 DEF OrderInv, Drawn
  <1> QED BY <1>1, <1>2, StepOrder, Invariance, PTL DEF Spec
=============================================================================
