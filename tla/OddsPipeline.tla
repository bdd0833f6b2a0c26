---------------------------- MODULE OddsPipeline ----------------------------
(***************************************************************************)
(* From a price signal to the price a bettor sees: Odds Management         *)
(* (internal/oddsmanagement/service.go) consumes price updates and placed  *)
(* bets in two goroutines, writes the table odds and publishes             *)
(* odds-updated; the cache updater (internal/odds/cache_updater.go) copies *)
(* it to Redis; the lag checker (internal/betacceptance/lag_checker.go)    *)
(* asks how far the group is on bet-placed.  One market of two selections, *)
(* one partition per topic.                                                *)
(*                                                                         *)
(* The feed probabilities are written by the catalog's own consumer of the *)
(* same topic, one selection at a time, ahead of this one or behind it:    *)
(* the query may find any pair of values, of one upsert or of two.         *)
(* handleEvent dispatches on topic names as Bet History does; Dispatched   *)
(* says for which topics the names agree.                                  *)
(***************************************************************************)
EXTENDS OddsArithmetic, Claims, Sequences, FiniteSets

CONSTANTS
    Probs,        \* feed probabilities in hundredths, 0 for none
    Vigs,         \* the vigs in use
    BetEvents,    \* messages in bet-placed: [sel, stake, parses]
    Before,       \* decimal odds that an earlier bet may have shortened
    HashBits,     \* width of the market id's FNV-1a hash (32 in the code)
    Hash,         \* that hash
    Partitions,   \* number of partitions of bet-placed
    Dispatched,   \* subset of {"feed", "bets"}
    MaxMessages,  \* bound: messages in the two topics together
    MaxFaults,    \* bound on failures ...
    Faults        \* ... and their kinds

Sels    == {"s0", "s1"}
Other(s) == CHOOSE o \in Sels : o # s
Workers == {"feed", "bets"}

ASSUME PipelineAssumption ==
    /\ Probs \subseteq {0} \cup 2..98 /\ Vigs \subseteq {110, 115}
    /\ BetEvents \subseteq [sel : Sels, stake : Nat, parses : BOOLEAN]
    /\ Before \subseteq Nat /\ \A d \in Before : d >= 10049
    /\ HashBits \in Nat \ {0} /\ Hash \in 0..(2^HashBits - 1) /\ Partitions \in Nat \ {0}
    /\ Dispatched \subseteq Workers
    /\ MaxMessages \in Nat /\ MaxFaults \in Nat
    /\ Faults \subseteq {"db", "kafka", "redis", "crash"}

VARIABLES
    feedLog,   \* market-data-normalised: event types, "malformed" for what is not JSON
    betLog,    \* bet-placed: [sel, stake, parses]
    cg,        \* cg[w]: claims of odds-management-cg
    work,      \* work[w]: prices still to be written and published
    at,        \* at[w]: step of the handler
    odds,      \* the table odds: [sel, decimal, american, src]
    updates,   \* odds-updated, by the row each event is about (it has the unrounded decimal)
    cache_cg,  \* the claim of odds-cache-updater-cg on odds-updated
    cache_at,  \* "mark" between the SET and MarkMessage, "idle" otherwise
    cache,     \* cache[s]: offset + 1 of the event whose price Redis holds, 0 for none
    lag,       \* the call of IsLagging in progress: [at, latest]
    lagCache,  \* lagcheck key in Redis: [lag, covers], covers: the log end it is about
    faults     \* the kinds of the failures so far

feedSide  == <<feedLog, betLog>>
manager   == <<cg, work, at, odds, updates>>
updater   == <<cache_cg, cache_at, cache>>
checker   == <<lag, lagCache>>
vars      == <<feedSide, manager, updater, checker, faults>>

NoLag == [lag |-> 0, covers |-> -1]
Quiet == [at |-> "idle", latest |-> 0]

\* The claim of a group that has handled the first n messages.
Through(n) == [next |-> n, committed |-> n, handled |-> 0..(n - 1), failed |-> {}]

\* A price that a bet on s0 left behind, the last of many perhaps.
EarlierBet  == [sel |-> "s0", stake |-> 5001, parses |-> TRUE]
EarlierRows == {[sel |-> "s0", decimal |-> o.decimal, american |-> o.american, src |-> <<"bets", 0>>] :
                    o \in UNION {AdjustedOffers(d) : d \in Before}}

\* A new market, or one with an earlier price that everyone has dealt with.
PipelineInit ==
    /\ \E past \in {<<>>} \cup {<<row>> : row \in EarlierRows} :
          /\ odds = past /\ updates = past
          /\ betLog = [i \in 1..Len(past) |-> EarlierBet]
          /\ cg = [w \in Workers |-> IF w = "bets" THEN Through(Len(past)) ELSE NewClaim]
          /\ cache_cg = Through(Len(past))
          /\ cache = [s \in Sels |-> IF s = "s0" THEN Len(past) ELSE 0]
    /\ feedLog = <<>> /\ cache_at = "idle"
    /\ work = [w \in Workers |-> <<>>] /\ at = [w \in Workers |-> "idle"]
    /\ lag = Quiet /\ lagCache = NoLag
    /\ faults = <<>>

Fails(kind) ==
    /\ kind \in Faults /\ Len(faults) < MaxFaults
    /\ faults' = Append(faults, kind)

-----------------------------------------------------------------------------
FeedTypes == {"price.update", "other", "malformed"}

FeedArrives(type) ==
    /\ Len(feedLog) + Len(betLog) < MaxMessages
    /\ feedLog' = Append(feedLog, type)
    /\ UNCHANGED <<betLog, manager, updater, checker, faults>>

BetArrives(bet) ==
    /\ Len(feedLog) + Len(betLog) < MaxMessages
    /\ betLog' = Append(betLog, bet)
    /\ UNCHANGED <<feedLog, manager, updater, checker, faults>>

\* handleEvent goes on to write `prices', or returns nil when there are none.
Prepares(w, prices) ==
    /\ work' = [work EXCEPT ![w] = prices]
    /\ at' = [at EXCEPT ![w] = IF prices = <<>> THEN "commit" ELSE "write"]
    /\ UNCHANGED <<cg, odds, updates>>

\* handleEvent returns an error.
Errs(w) ==
    /\ cg' = [cg EXCEPT ![w] = Skipped(@)]
    /\ work' = [work EXCEPT ![w] = <<>>]
    /\ at' = [at EXCEPT ![w] = "idle"]

Price(s, o, w) == [sel |-> s, decimal |-> o.decimal, american |-> o.american, src |-> <<w, cg[w].next>>]

\* The prices ComputeMarketOdds may leave of s: one, or none.
Quotes(s, prob, k) ==
      {<<Price(s, o, "feed")>> : o \in IF MayBePriced(prob[s], prob[Other(s)], k)
                                       THEN MarketOffers(prob[s], prob[Other(s)], k) ELSE {}}
 \cup {q \in {<<>>} : MayBeZeroed(prob[s], prob[Other(s)], k)}

\* handleNormalisedFeed up to the first write.  The query finds the probabilities
\* prob[s], -1 for NULL or no row; the vig k depends on the sport and on the event's
\* status, which the catalog changes as well.
HandleNormalisedFeed(k, prob) ==
    /\ at["feed"] = "idle" /\ cg["feed"].next < Len(feedLog)
    /\ LET type == IF "feed" \in Dispatched THEN feedLog[cg["feed"].next + 1] ELSE "other"
       IN \/ /\ type = "other" \/ (type = "price.update" /\ \E s \in Sels : prob[s] <= 0)
             /\ Prepares("feed", <<>>) /\ UNCHANGED faults
          \/ /\ type = "price.update" /\ \A s \in Sels : prob[s] > 0
             /\ \E q0 \in Quotes("s0", prob, k), q1 \in Quotes("s1", prob, k) : Prepares("feed", q0 \o q1)
             /\ UNCHANGED faults
          \/ /\ \/ type = "malformed" /\ UNCHANGED faults
                \/ type = "price.update" /\ Fails("db")
             /\ Errs("feed") /\ UNCHANGED <<odds, updates>>
    /\ UNCHANGED <<feedSide, updater, checker>>

\* SELECT ... ORDER BY updated_at DESC LIMIT 1: index of the latest row of s, or 0.
LatestRow(s) ==
    LET rows == {i \in DOMAIN odds : odds[i].sel = s}
    IN IF rows = {} THEN 0 ELSE CHOOSE i \in rows : \A j \in rows : j <= i

\* handleBetPlaced up to the write.  Any error of the SELECT counts as `no odds'.
HandleBetPlaced ==
    /\ at["bets"] = "idle" /\ cg["bets"].next < Len(betLog)
    /\ LET bet == betLog[cg["bets"].next + 1]
           row == LatestRow(bet.sel)
           mine == "bets" \in Dispatched
           liable == mine /\ row # 0 /\ Liable(bet.stake, odds[row].decimal)
       IN \/ /\ mine /\ ~bet.parses
             /\ Errs("bets") /\ UNCHANGED <<odds, updates, faults>>
          \/ /\ bet.parses /\ liable
             /\ \E o \in AdjustedOffers(odds[row].decimal) : Prepares("bets", <<Price(bet.sel, o, "bets")>>)
             /\ UNCHANGED faults
          \/ /\ mine => bet.parses /\ ~liable
             /\ Prepares("bets", <<>>) /\ UNCHANGED faults
          \/ /\ mine /\ bet.parses
             /\ Fails("db") /\ Prepares("bets", <<>>)
    /\ UNCHANGED <<feedSide, updater, checker>>

\* writeOddsAndPublish, the INSERT.
WriteOdds(w) ==
    /\ at[w] = "write"
    /\ \/ /\ odds' = Append(odds, Head(work[w]))
          /\ at' = [at EXCEPT ![w] = "publish"]
          /\ UNCHANGED <<cg, work, faults>>
       \/ /\ Fails("db") /\ Errs(w)
          /\ UNCHANGED odds
    /\ UNCHANGED <<feedSide, updates, updater, checker>>

\* Mutant: the error of SendMessage is dropped.
PublishErrorIgnored(w) ==
    /\ at[w] = "publish"
    /\ work' = [work EXCEPT ![w] = Tail(@)]
    /\ at' = [at EXCEPT ![w] = IF Len(work[w]) = 1 THEN "commit" ELSE "write"]
    /\ \/ updates' = Append(updates, Head(work[w])) /\ UNCHANGED faults
       \/ Fails("kafka") /\ UNCHANGED updates
    /\ UNCHANGED <<feedSide, cg, odds, updater, checker>>

\* writeOddsAndPublish, the event; a failed send may have reached the broker.
PublishOdds(w) ==
    /\ at[w] = "publish"
    /\ \/ /\ updates' = Append(updates, Head(work[w]))
          /\ work' = [work EXCEPT ![w] = Tail(@)]
          /\ at' = [at EXCEPT ![w] = IF Len(work[w]) = 1 THEN "commit" ELSE "write"]
          /\ UNCHANGED <<cg, faults>>
       \/ Fails("kafka") /\ Errs(w) /\ updates' \in {updates, Append(updates, Head(work[w]))}
    /\ UNCHANGED <<feedSide, odds, updater, checker>>

\* MarkMessage and Commit.
CommitOffset(w) ==
    /\ at[w] = "commit"
    /\ at' = [at EXCEPT ![w] = "idle"]
    /\ \/ cg' = [cg EXCEPT ![w] = Handled(@)] /\ UNCHANGED faults
       \/ cg' = [cg EXCEPT ![w] = HandledUncommitted(@)] /\ Fails("kafka")
    /\ UNCHANGED <<feedSide, work, odds, updates, updater, checker>>

ManagerRestarts ==
    /\ Fails("crash")
    /\ cg' = [w \in Workers |-> Restarted(cg[w])]
    /\ work' = [w \in Workers |-> <<>>] /\ at' = [w \in Workers |-> "idle"]
    /\ UNCHANGED <<feedSide, odds, updates, updater, checker>>

-----------------------------------------------------------------------------
\* Mutant: SETNX instead of SET.
SetIfAbsent(s, k) == cache' = [cache EXCEPT ![s] = IF @ = 0 THEN k ELSE @]

Set(s, k) == cache' = [cache EXCEPT ![s] = k]

\* handleMessage of the cache updater; a SET that fails may have been applied.
CacheOdds ==
    /\ cache_at = "idle" /\ cache_cg.next < Len(updates)
    /\ LET k == cache_cg.next + 1
       IN \/ /\ Set(updates[k].sel, k)
             /\ cache_at' = "mark"
             /\ UNCHANGED <<cache_cg, faults>>
          \/ /\ Fails("redis")
             /\ cache_cg' = Skipped(cache_cg)
             /\ Set(updates[k].sel, k) \/ UNCHANGED cache
             /\ UNCHANGED cache_at
    /\ UNCHANGED <<feedSide, manager, checker>>

\* MarkMessage and Commit of the cache updater.
CacheCommits ==
    /\ cache_at = "mark" /\ cache_at' = "idle"
    /\ \/ cache_cg' = Handled(cache_cg) /\ UNCHANGED faults
       \/ cache_cg' = HandledUncommitted(cache_cg) /\ Fails("kafka")
    /\ UNCHANGED <<feedSide, manager, cache, checker>>

\* The TTL of 48 hours ends, or Redis evicts the key.
CacheExpires(s) ==
    /\ cache[s] # 0
    /\ Fails("redis")
    /\ cache' = [cache EXCEPT ![s] = 0]
    /\ UNCHANGED <<feedSide, manager, cache_cg, cache_at, checker>>

UpdaterRestarts ==
    /\ Fails("crash")
    /\ cache_cg' = Restarted(cache_cg) /\ cache_at' = "idle"
    /\ UNCHANGED <<feedSide, manager, cache, checker>>

-----------------------------------------------------------------------------
\* Mutant: a group that has never committed has no lag.
CommittedOrNewest == IF cg["bets"].committed = 0 THEN lag.latest ELSE cg["bets"].committed

\* What Kafka answers for a group that has not committed yet is -1.
CommittedOffset == IF cg["bets"].committed = 0 THEN -1 ELSE cg["bets"].committed

\* IsLagging misses the cache, or cannot reach it, and asks for the log end.  A
\* negative partition is none: the call fails and the bet is rejected.
LagReadsLatest ==
    /\ lag.at = "idle"
    /\ IF lagCache = NoLag THEN UNCHANGED faults ELSE Fails("redis")
    /\ PartitionForMarket(Hash, HashBits, Partitions) >= 0
    /\ lag' = [at |-> "committed", latest |-> Len(betLog)]
    /\ UNCHANGED <<feedSide, manager, updater, lagCache>>

Lag == LET n == lag.latest - CommittedOffset IN IF n < 0 THEN 0 ELSE n

\* It asks for the committed offset, stores the lag for 200 ms and answers; the SET
\* may fail.
LagReadsCommitted ==
    /\ lag.at = "committed"
    /\ lag' = Quiet
    /\ \/ lagCache' = [lag |-> Lag, covers |-> lag.latest] /\ UNCHANGED faults
       \/ Fails("redis") /\ UNCHANGED lagCache
    /\ UNCHANGED <<feedSide, manager, updater>>

LagCacheExpires ==
    /\ lagCache # NoLag
    /\ lagCache' = NoLag
    /\ UNCHANGED <<feedSide, manager, updater, lag, faults>>

-----------------------------------------------------------------------------
ManagerStep(w) == WriteOdds(w) \/ PublishOdds(w) \/ CommitOffset(w)

PipelineNext ==
    \/ \E type \in FeedTypes : FeedArrives(type)
    \/ \E bet \in BetEvents : BetArrives(bet)
    \/ \E k \in Vigs, prob \in [Sels -> Probs \cup {-1}] : HandleNormalisedFeed(k, prob)
    \/ HandleBetPlaced
    \/ \E w \in Workers : ManagerStep(w)
    \/ ManagerRestarts
    \/ CacheOdds \/ CacheCommits \/ UpdaterRestarts
    \/ \E s \in Sels : CacheExpires(s)
    \/ LagReadsLatest \/ LagReadsCommitted \/ LagCacheExpires

PipelineSpec == PipelineInit /\ [][PipelineNext]_vars

-----------------------------------------------------------------------------
PriceRow == [sel : Sels, decimal : Nat, american : Int, src : Workers \X Nat]

PipelineTypeOK ==
    /\ feedLog \in Seq(FeedTypes) /\ betLog \in Seq([sel : Sels, stake : Nat, parses : BOOLEAN])
    /\ cg \in [Workers -> Claim] /\ work \in [Workers -> Seq(PriceRow)]
    /\ at \in [Workers -> {"idle", "write", "publish", "commit"}]
    /\ odds \in Seq(PriceRow) /\ updates \in Seq(PriceRow)
    /\ cache_cg \in Claim /\ cache_at \in {"idle", "mark"} /\ cache \in [Sels -> 0..Len(updates)]
    /\ lag \in [at : {"idle", "committed"}, latest : Nat]
    /\ lagCache \in [lag : Nat, covers : Nat \cup {-1}]
    /\ faults \in Seq(Faults) /\ Len(faults) <= MaxFaults

Crashed == \E i \in DOMAIN faults : faults[i] = "crash"

\* service.go:20, offsets are committed "only AFTER writing new odds to the DB AND
\* publishing odds.updated": whatever fails, of a message whose handler succeeded no
\* price stays in the table that was not published.  (After a crash between the two a
\* second attempt may compute another price, or none, and leave the first behind.)
HandledIsPublished ==
    ~Crashed => \A i \in DOMAIN odds :
                   odds[i].src[2] \in cg[odds[i].src[1]].handled =>
                       \E k \in DOMAIN updates : updates[k] = odds[i]

\* The house has the edge in every book: of the two prices one signal leads to, the
\* product of the profits stays below 1 / 1.1^2, so that backing both sides loses as
\* much as on a 20-cent line, although the probabilities they were computed from may
\* belong to different upserts.
BookHasMargin ==
    \A i, j \in DOMAIN odds :
        /\ odds[i].sel = "s0" /\ odds[j].sel = "s1"
        /\ odds[i].src = odds[j].src /\ ~Crashed
        => (odds[i].decimal - 10000) * (odds[j].decimal - 10000) < 83000000

\* An American price is one of that notation (+100 and more, -100 and less) and stands
\* for the profit of a decimal price, within two per cent.
SamePrice(profit, american) ==
    LET close(x, y) == 50 * (x - y) <= y /\ 50 * (y - x) <= y
    IN /\ profit > 0
       /\ \/ american >= 100 /\ close(100 * american, profit)
          \/ american <= -100 /\ close(profit * (-american), 1000000)

\* However many large bets shorten a price, it leaves the bettor a profit, and the two
\* numbers of a row (service.go:253-257) are one price, although one is computed from
\* the unrounded float and the other rounded by the column: at even money, and at the
\* shortest odds, which rounding keeps from ever reaching 1.
AmericanIsFaithful == \A i \in DOMAIN odds : SamePrice(odds[i].decimal - 10000, odds[i].american)

\* The cache catches up (cache_updater.go:55-58, "double-processing is safe"): when the
\* updater is through the topic, again perhaps after a restart between a SET and its
\* commit, Redis holds the latest published price of each selection, unless the key has
\* gone or the SET of that event failed.  A failed one is not retried as
\* cache_updater.go:129 says, "so we retry on restart": the next success commits
\* past it.
QuietCacheIsLatest ==
    cache_cg.next = Len(updates) =>
        \A s \in Sels, k \in DOMAIN updates :
            /\ updates[k].sel = s
            /\ \A j \in (k + 1)..Len(updates) : updates[j].sel # s
            => cache[s] \in {0, k} \/ k - 1 \in cache_cg.failed

\* What an answer `not lagging', cached or fresh, says of the bets that were in the
\* partition when the log end was read: the group has handled them, except those that
\* failed and that it passed by when it handled a later one.  "Processed all messages"
\* (lag_checker.go:30, and service.go:20-21, 107-108) is more than what holds.
NotLaggingIsTried ==
    lagCache.lag = 0 =>
        \A k \in 0..(lagCache.covers - 1) :
            \/ k \in cg["bets"].handled
            \/ k \in cg["bets"].failed /\ \E j \in cg["bets"].handled : j > k
=============================================================================
