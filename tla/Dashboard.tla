------------------------------- MODULE Dashboard -------------------------------
(***************************************************************************)
(* The page's token and interval menus and its candle chart                *)
(* (static/dashboard.js) over /api/tokens and /api/ohlcv                   *)
(* (crates/storage/src/repository.rs), while candles are being built.      *)
(* Responses arrive in any order, and a request may fail.                  *)
(*                                                                         *)
(* A series is a mint and an interval.  Its candles are the number of the  *)
(* build that last wrote them, 0 when it has none: candles are never       *)
(* deleted.                                                                *)
(***************************************************************************)
EXTENDS Naturals, Sequences, SequencesExt

CONSTANTS Mints,     \* the mints traded
          MaxBuilds, \* bound: runs of build_and_store_candles
          MaxFetches \* bound: requests of the page

Intervals == {"1m", "5m"}
Series    == Mints \X Intervals
None      == "none"

\* The value of an empty menu is not a mint.
ASSUME PageAssumption == IsFiniteSet(Mints) /\ None \notin Mints

VARIABLES
  stored,   \* the build each series is from, 0 when it has no candles
  builds,   \* how many builds there were
  list,     \* tokenList, in the order of the menu: [mint, intervals]
  mint,     \* the value of token-select, None when it is empty
  options,  \* the options of interval-select
  interval, \* its value, None when it is empty
  fetches,  \* the requests in the order sent: .of, Tokens or a series; .state,
            \* "sent", "served", "failed" or "over"; .body
  chart,    \* the series drawn and its candles, or NoChart
  inOrder   \* no request has failed, and none was overtaken by a later one

page == <<list, mint, options, interval>>
vars == <<stored, builds, page, fetches, chart, inOrder>>

Tokens     == <<"tokens">>
Request(of) == [of |-> of, state |-> "sent", body |-> <<>>]
NoChart    == [series |-> <<>>, candles |-> 0]

\* index.html offers both intervals before any token is known; loadTokens is
\* called once, when the page is loaded.
Init == /\ stored = [s \in Series |-> 0] /\ builds = 0
        /\ list = <<>> /\ mint = None /\ options = Intervals /\ interval = "1m"
        /\ fetches = <<Request(Tokens)>>
        /\ chart = NoChart /\ inOrder = TRUE

-----------------------------------------------------------------------------
(* The server.                                                             *)

\* build_and_store_candles writes the 1m candles of every mint traded, then the
\* 5m ones, with the mutex held.  It may end anywhere on the way.
Build == /\ builds < MaxBuilds /\ builds' = builds + 1
         /\ \E traded \in SUBSET Mints : \E minutes, fives \in SUBSET traded :
              /\ fives # {} => minutes = traded
              /\ stored' = [s \in Series |->
                              IF s[1] \in (IF s[2] = "1m" THEN minutes ELSE fives)
                              THEN builds' ELSE stored[s]]
         /\ UNCHANGED <<page, fetches, chart, inOrder>>

IntervalsOf(m) == {i \in Intervals : stored[<<m, i>>] > 0}

\* Mutant: a mint is listed with or without candles.
AllTokens == {[mint |-> m, intervals |-> IntervalsOf(m)] : m \in Mints}

\* query_tokens: the mints with candles, and the intervals whose count is not 0.
query_tokens == {[mint |-> m, intervals |-> IntervalsOf(m)] :
                   m \in {n \in Mints : IntervalsOf(n) # {}}}

\* The rows of query_tokens come most candles first, which is any order as far
\* as the page can tell.  query_ohlcv gives the candles of the series.
Answers(of) == IF of = Tokens THEN SetToSeqs(query_tokens) ELSE {<<stored[of]>>}

Serve(k) == /\ fetches[k].state = "sent"
            /\ \E body \in Answers(fetches[k].of) :
                 fetches' = [fetches EXCEPT ![k] = [@ EXCEPT !.state = "served", !.body = body]]
            /\ UNCHANGED <<stored, builds, page, chart, inOrder>>

\* A 500, whose body is not JSON, or no response at all.
Fail(k) == /\ fetches[k].state = "sent"
           /\ fetches' = [fetches EXCEPT ![k].state = "failed"]
           /\ UNCHANGED <<stored, builds, page, chart, inOrder>>

-----------------------------------------------------------------------------
(* The page.                                                               *)

\* syncIntervalOptions, for the token the menu shows then: its intervals, the
\* first one selected.
syncIntervalOptions(tokens, m) ==
  LET found == {tokens[j].intervals : j \in {n \in 1..Len(tokens) : tokens[n].mint = m}} IN
  /\ options' = UNION found
  /\ interval' = IF "1m" \in options' THEN "1m" ELSE IF "5m" \in options' THEN "5m" ELSE None

\* loadOhlcv, up to its fetch.
loadOhlcv(sent, m, i) == fetches' = IF m = None \/ i = None THEN sent
                                    ELSE Append(sent, Request(<<m, i>>))

MayFetch == Len(fetches) < MaxFetches

\* Mutant: the chart is loaded before the intervals are those of the token.
ChooseMintLoadFirst(m) == /\ MayFetch /\ mint # m /\ \E j \in 1..Len(list) : list[j].mint = m
                          /\ mint' = m
                          /\ syncIntervalOptions(list, m)
                          /\ loadOhlcv(fetches, m, interval)
                          /\ UNCHANGED <<stored, builds, list, chart, inOrder>>

ChooseMint(m) == /\ MayFetch /\ mint # m /\ \E j \in 1..Len(list) : list[j].mint = m
                 /\ mint' = m
                 /\ syncIntervalOptions(list, m)
                 /\ loadOhlcv(fetches, m, interval')
                 /\ UNCHANGED <<stored, builds, list, chart, inOrder>>

ChooseInterval(i) == /\ MayFetch /\ interval # i /\ i \in options
                     /\ interval' = i
                     /\ loadOhlcv(fetches, mint, i)
                     /\ UNCHANGED <<stored, builds, list, mint, options, chart, inOrder>>

LoadClicked == /\ MayFetch
               /\ loadOhlcv(fetches, mint, interval)
               /\ UNCHANGED <<stored, builds, page, chart, inOrder>>

Over(k) == [fetches EXCEPT ![k] = [@ EXCEPT !.state = "over", !.body = <<>>]]
Overtakes(k) == \E j \in 1..(k - 1) : fetches[j].state # "over"

\* The rest of loadTokens, and loadOhlcv after it.
TokensArrive(k) == /\ fetches[k].state = "served" /\ fetches[k].of = Tokens
                   /\ LET tokens == fetches[k].body IN
                      /\ list' = tokens
                      /\ mint' = IF tokens = <<>> THEN None ELSE tokens[1].mint
                      /\ syncIntervalOptions(tokens, mint')
                      /\ loadOhlcv(Over(k), mint', interval')
                   /\ inOrder' = (inOrder /\ ~Overtakes(k))
                   /\ UNCHANGED <<stored, builds, chart>>

\* The rest of loadOhlcv: whatever the menus show by then.
CandlesArrive(k) == /\ fetches[k].state = "served" /\ fetches[k].of # Tokens
                    /\ chart' = [series |-> fetches[k].of, candles |-> fetches[k].body[1]]
                    /\ fetches' = Over(k)
                    /\ inOrder' = (inOrder /\ ~Overtakes(k))
                    /\ UNCHANGED <<stored, builds, page>>

\* fetch or resp.json() rejects, and the handler ends there.
FailureArrives(k) == /\ fetches[k].state = "failed"
                     /\ fetches' = Over(k)
                     /\ inOrder' = FALSE
                     /\ UNCHANGED <<stored, builds, page, chart>>

Next == \/ Build \/ LoadClicked
        \/ \E m \in Mints : ChooseMint(m)
        \/ \E i \in Intervals : ChooseInterval(i)
        \/ \E k \in 1..Len(fetches) : \/ Serve(k) \/ Fail(k)
                                      \/ TokensArrive(k) \/ CandlesArrive(k) \/ FailureArrives(k)

Spec == Init /\ [][Next]_vars

-----------------------------------------------------------------------------
\* The chart never says "No data for this range": whatever is asked for and
\* whenever it arrives, the menus only offer series that have candles.  (The
\* comment of query_tokens: the dropdown "must not list balance-activity mints
\* with no inferred OHLCV".)
NeverNoData == chart # NoChart => chart.candles > 0

\* When every response has arrived, in the order of the requests and without a
\* failure, the chart is that of the menus, and there is one as soon as a token
\* is listed.  (A response that is overtaken is drawn over the later one.)
ChartIsSelected ==
  inOrder /\ list # <<>> /\ (\A k \in 1..Len(fetches) : fetches[k].state = "over") =>
    chart.series = <<mint, interval>>
=============================================================================
