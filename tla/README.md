# A TLA+ model of the sportsbook

The repository is a sports-betting platform in Go: microservices around Kafka, Postgres and
Redis, and a React frontend. This directory holds TLA+ modules for every service that keeps state
(wallet, bet placement, settlement, history, odds, catalog, market data), the TLC configurations
that check them on small instances, and TLAPS proofs of the main results for every instance.

## The system

| Component | State | Operations | Talks to |
|---|---|---|---|
| Account & Wallet (`internal/wallet`) | `balances`, `user_limits`, `ledger_entries` | Deposit, Withdraw, DeductBalance, CreditBalance, ConfirmTransaction; GetBalance, GetUserLimits read | Postgres; called over gRPC |
| Cashier (`cmd/cashier`) | none | deposit, withdraw, balance | wallet |
| Bet acceptance flow (`internal/betacceptance/bet_flow.go`) | idempotency keys in Redis, `outbox` | PlaceBet in nine steps | Redis (session, odds, market, keys), wallet, Postgres |
| Outbox relay (`outbox.go`) | `outbox`, a batch in memory | poll, send, mark published | Postgres, Kafka `bet-placed` |
| Lag checker (`lag_checker.go`) | 200 ms cache in Redis | IsLagging | Kafka admin |
| Settlement (`internal/settlement`) | `pending_bets`, `settlements` | settle the bets of a resulted market | wallet, Kafka `bet-settled` |
| Bet history (`internal/bethistory`) | `bets` | placed, settled, voided | Kafka, wallet |
| Odds management (`internal/oddsmanagement`) | odds tables | price a market, publish `odds.updated` | Kafka, Postgres |
| Odds cache updater (`internal/odds`) | odds in Redis | consume `odds.updated` | Kafka, Redis |
| Catalog (`internal/catalog`) | markets, events, status cache, WebSocket clients | upsert, score, suspend/open/close, warm, broadcast | Kafka, Postgres, Redis |
| Market data (`internal/marketdata`, `internal/polymarket`) | token registry, event matcher, feeds | poll, normalise, publish | third parties, Kafka |
| Identity (`internal/identity`) | users, sessions | Register, Login, ValidateToken | Postgres, Redis |
| Frontend (`frontend/src`) | view state | snapshot and update over WebSocket, bet slip | HTTP, WebSocket |

A bet travels like this: `PlaceBet` checks the idempotency key, market status, odds, limits and
lag; writes an outbox row PENDING; deducts the stake by an RPC; marks the row READY_TO_PUBLISH;
stores the key and answers ACCEPTED. The relay, a goroutine of each service instance, polls for
READY rows, sends them to Kafka and marks them PUBLISHED. Consumers record, price and later
settle the bet, and Settlement credits the wallet.

What is hard here: handlers of one user racing on a balance, under two kinds of locks; three
stores (wallet database, outbox database, Redis) and topics without a common transaction; calls
that fail after they took effect; processes that die between two stores; at-least-once delivery
with handlers that fail; caches written from two sides; goroutines that share maps and channels.
`PROJECT.json` lists these places line by line under `hazards`. What makes a component correct:

- wallet: the balance moves with its ledger row and once for each, no overdraft, acknowledged means recorded, retries
  are harmless, no deadlock;
- bet flow: nothing accepted or published without the stake, nothing rejected and published,
  every released row published, limits and idempotency keys hold;
- settlement and history: a bet is credited for an outcome some result gave it and once per delivery,
  each event is applied, My Bets tells the truth;
- odds: every price computed is published and cached, has a margin and is shown faithfully; `not
  lagging` means that the bets were priced in or failed;
- catalog: an operator's decision outlives the feed, the status cache recovers, a browser sees the
  current state or leaves;
- market data: no lost wake-up, every token subscribed and the final score published in the end,
  the main line well chosen.

## Modules

| Module | Contents |
|---|---|
| `WalletLedger` | The wallet's contract: every RPC that moves money as one atomic step on the tables. |
| `WalletService` | The handlers of `service.go` as concurrent calls, implements `WalletLedger`. |
| `BetAcceptance` | PlaceBet, outbox, relays, idempotency keys and topic, composed with `WalletLedger`. |
| `Claims` | What a consumer group keeps of one partition, as all consumers use it. |
| `Delivery` | The consumers' contract: tried in order, committed after the try, back to the commit on restart. |
| `Settlement` | The settlement consumer on `WalletLedger`. |
| `BetHistory` | The history consumer with its three topics, beside `Settlement`. |
| `BetLifecycle` | Settlement, Bet History and the wallet together; two claims implement `Delivery`. |
| `OddsArithmetic` | Vig, decimal and American odds, the liability adjustment, the partition function, on integers. |
| `OddsPipeline` | Odds Management, the cache updater and the lag checker. |
| `Catalog` | The feed consumer of the catalog: upserts statement by statement, scores, auto-commit. |
| `StatusCache` | setMarketStatus, the cache warmer and the TTL of `market:status:{id}`. |
| `LiveView` | WebSocket clients, the Broadcaster, the consumer of odds-updated. |
| `CatalogService` | The catalog process: the three above share tables and die together. |
| `Normalisers` | Which messages a provider's event becomes, and references for the choice of main markets. |
| `Feeds` | The ingestion process: pollers, token registry, event matcher, WebSockets, publishing. |
| `LedgerProofs`, `WalletProofs`, `BetProofs`, `DeliveryProofs`, `LifecycleProofs`, `OddsProofs`, `FeedsProofs`, `CatalogProofs` | The theorems. |
| `MCWallet`, `MCBet`, `MCLifecycle`, `MCOdds`, `MCCatalog`, `MCFeeds` | The instances for TLC. |

**WalletService.** A call is at a location (`pc`): the idempotency SELECT, the advisory lock,
SELECT ... FOR UPDATE, and the statements from the UPDATE to the COMMIT. The latter are one step
(`Post`, `DepositCommit`, `CreditBalanceCommit`): their effects appear together at the COMMIT and
the row they touch is locked, or is locked by the first of them. `advisory` and `rowLock` are the
two kinds of locks. Deduct and Withdraw hold both when they write; Deposit writes under the
advisory lock; CreditBalance takes the row lock alone. `Abort` is any failure before the COMMIT,
`Post` includes the COMMIT whose acknowledgement is lost. CreditBalance has no idempotency check
and inserts with ON CONFLICT DO NOTHING, as in the code.

**BetAcceptance.** One element of `Bets` is one execution of PlaceBet; it also names the bet id,
the transaction id and the outbox row, which the code draws afresh in each execution. Retries of
a client are bets with one key. Every remote call of PlaceBet is a step that may succeed, fail
without effect or fail with effect, as far as the code can meet it; the constant `Faults` says
which kinds happen in an instance: `redis`, `db` (the outbox database), `rpc` (a lost or late
DeductBalance), `commit` (the wallet's COMMIT is applied, its acknowledgement lost, and the answer,
which arrives, says Internal; `wallet/service.go:140`), `limitsQuery` (the sum of stakes whose error GetUserLimits drops), `kafka`,
`crash`. A deduction whose caller gave up or died may still arrive (`late`). `unsure`, a
history variable, has the bets whose DeductBalance ended without telling whether the wallet acted. The market status,
the cached odds and the lag belong to other services: those checks may come out either way, with
the tolerance test on the odds kept. A relay holds the rows it fetched and works them off by
`created_at`; the row locks of its SELECT end with the statement, because the code runs it
outside a transaction.

The wallet appears in `BetAcceptance` as `WalletLedger`, and `ServiceImplementsLedger` (below)
is what entitles it to. Deposits, withdrawals, credits and confirmations go on meanwhile
(`WalletElsewhere`).

**Consumers.** A claim is the next offset, the committed offset and, as history, the offsets
whose handler returned nil and those whose handler returned an error. All loops skip a failed
message without marking it, and the commit of the next success passes it: `Delivery` says what is
left, that everything below the commit has been tried. The handlers of Settlement and of bet.placed
take many steps; a restart may come between any two.

**Settlement, BetHistory, BetLifecycle.** `job` is the result at work and the bet in hand. For each
bet: record the outcome (ON CONFLICT DO NOTHING), credit the wallet with a fresh transaction id,
publish bet.settled; an error of any of them leaves the bet and goes on, and the offset is committed
in the end. The outcome is the message's, by its winning selection: a later result may contradict an
earlier one. `attempts` counts the calls that reached CreditBalance, which makes their ids distinct;
`before`, a history variable, has the credits that were in the ledger when the message was received.
The credit is `WalletLedger`'s, CHECK constraints included. Bet History has one claim per topic and
dispatches on names: `SubscribedName` gives the names Kafka delivers, `CaseName` those of the switch.
With the names of the code nothing is ever recorded (run `history_topics`), so `lifecycle` uses names
that agree, and `lifecycle_live` leaves one topic as it is. Nothing in the repository writes
`pending_bets`, market.resulted or bet-voided: these arrive from outside.

**OddsPipeline.** Two goroutines, one per topic, read the probabilities or the last price, write the
prices of a message one after the other to the table and publish each after it is written. The
probabilities are written by the catalog's consumer of the same topic, so the query may find any
pair of them. `cache` is the offset of the update Redis holds. The lag checker reads the committed
offset and the log end in two steps and caches the difference. As in Bet History the dispatch is on
other names than the subscription (`service.go:79` against 118-127): as shipped nothing is priced;
`Dispatched` names the topics that agree, both in the run. Decimal odds in the table are integers in
ten-thousandths, the precision of the column. The code computes with floats, converts the unrounded
one to American odds and lets the column round: the operators work on the exact fraction and give both
roundings where it is a tie, where the float may lie on either side. Probabilities are in hundredths;
the column has five decimals, but the formulas depend on ratios alone. `Before` has prices that an
earlier bet may have shortened, so that short odds need no long history. Hashes have `HashBits` bits
with the sign bit where int32 has it; a negative partition makes the lag check fail.

**Catalog, StatusCache, LiveView.** One event with one market. A catalog.upsert is five statements
without a transaction, each of which may fail, after which the message is marked all the same; a
game.state is one UPDATE and a broadcast. The ticker of auto-commit is an action. Two operators run
setMarketStatus, UPDATE then SET, beside the warmer, SELECT then SET; entries expire. A client passes
through snapshot, AddClient, write pump and removal; RemoveClient is called by the reader, by the
pump and by a goroutine that Broadcast starts for a full channel. Broadcast copies the map under the
lock and sends outside of it, one client per step. `Panic` is a send on a closed channel: it ends the
process.

**Normalisers, Feeds.** Each event has a Gamma poller that registers the event and its tokens,
signals the one-slot channel and sends the event to its consumeFeed goroutine. The price feed waits
for tokens, dials, subscribes to what it has read, reacts to the signal, and starts again when the
stream ends; a subscription that could not be written counts as made. A scoreboard (one stands for
NBA, NCAAB and NHL) and the score WebSocket find their game by the teams' names in the titles
registered so far. Full channels block pollers and drop WebSocket messages, as in the code. The
normalisers are operators on small books of markets. `FindByTeams` may return any event whose title
has both names, as the map's order decides.

Abstractions: amounts are integers (BIGINT overflow is out of the model); currency, labels,
payment method and timestamps are dropped; the rolling 24 h window is longer than a run; two
users whose ids have one `hashtext` share an advisory lock in Postgres, which only makes them
wait more; SKIP LOCKED never skips, as no two statements overlap in the model; odds of a bet are in
hundredths; a topic has one partition; names, lines, periods and clocks are left out.

## Runs

| Run | Instance | Checks |
|---|---|---|
| `wallet` | 1 user, 2 concurrent calls, one request of each kind, each open to retries; 265,169 states | the balance moves with its ledger row and once for each, the balance read under lock stays current, OK means recorded, reported balances are exact, refinement of `WalletLedger`, every call is answered |
| `bet` | 2 executions with one key, 1 relay, batches of 2, all faults, a busy wallet; 681,416 states | nothing accepted or published unpaid, nothing rejected and published, a rejected bet has cost nothing unless the answer left it open, the outbox row only moves forward |
| `bet_live` | 2 bets, 1 relay, batches of 1, failing Postgres, Kafka and instance; 58,136 states | released rows are published, an accepted bet is published or left PENDING, a retry of an answered request is a replay |
| `bet_one_key` | 2 executions, one key, no faults | violation: a retry overtakes the first attempt |
| `lifecycle` | 2 bets on both sides of a market, 2 results that agree or not, 1 failure or restart; 1.8 million states | credits have a record and a result and come once per delivery, My Bets is true, confirmed means recorded, handled means recorded, two consumers implement `Delivery` |
| `lifecycle_live` | 1 bet, 2 messages per topic, 1 failure or restart; 131,454 states | every message is tried |
| `history_topics` | the code's topic names, no faults | violation: bet.placed is committed and not recorded |
| `settle_winners` | 1 bet, no faults | violation: a winning bet is recorded as won and not credited |
| `odds` | 2 messages of price signals and bets, well-formed or not, after an earlier price or none, 1 failure or crash; 3.7 million states | handled means published, the book has a margin, American odds are faithful, a quiet cache is the latest, `not lagging` means handled, or failed and passed by |
| `catalog` | an upsert, a final score, a price; 2 operators, 1 client, 4 inputs, channel of 1; 757,000 states | operators rule, the cache settles, an overflowed client is leaving and leaves, a quiet client is current, the consumer implements `Delivery` |
| `ws_panic` | same | violation: Broadcast sends on a closed channel |
| `feeds` | 2 games, 4 feeds, 2 inputs, channels of 1; 464,798 states | no lost wake-up, subscriptions and final scores settle |

Each violation run states what a comment or document of the repository says; `findings` in
`PROJECT.json` quotes the line. Deadlock checking is off in the bet, lifecycle and odds runs only:
when the bets are done or the bounded topics read, the instance has nothing left to do.

The normalisers are pure functions. `NormalisersAgree` in `MCFeeds`, an assumption that TLC evaluates
before the run, compares them with what their messages should mean on all 54,000 books of three
markets: the most even line of each kind, or the question that ends soonest, is the main one, and
both sides of a market have a probability or none has. The prices of a market add up to one, as the
provider's do; with others the two sides could disagree.

Bounds. The properties speak of one user, one bet, one market, and two parties: conflicts are
between one in the middle of its steps and another at any of its own. Two executions with one key
include first attempt and retry; with batches of one the second row waits behind the first.
`MaxCopies` = 2 distinguishes none, one and more events. Stakes and deposits are such that
acceptance and refusal both happen. `MaxFaults` = 1 puts one failure or restart between any two
steps, with a repeated result (`MaxResults` = 2) before or after it; `MaxAttempts` admits every
delivery that leaves (an assumption of the module says so). Two more messages would only repeat
the interplay of two. `MaxMessages` = 2 has one message in each goroutine at once, or two in one,
so that a bet that failed is passed by the next and an update is set, not committed and set again.
The probabilities {40, 44, 98} with the default vig give a price of exactly even money (44 against
40), long and very short ones; `Before` = {10050} is the shortest decimal that shortening and the
column's rounding leave, where the American price is at its furthest from it (1.0049 with -20202).
`HashBits` = 8 keeps the arithmetic of 32 bits at a size where all numbers are small; the run's hash
has no sign bit, because with one the check does nothing but fail.
`SendBuf` and `ChanBuf` of 1 make every buffer full at once; `MaxInputs` counts what comes from
outside (messages, connections, failures, time). `Vigs` has the default. The proofs do away with the
bounds for the properties they cover.

Fairness. Wallet: a handler runs on, and Postgres serves lock waiters in turn, so `SF` of each
call's steps; nobody has to send requests. Bets: PlaceBet runs on once it has started; the
relay's ticker fires for ever; Kafka and the UPDATE of `markPublished` do not fail for ever for
the row that is tried again and again (`SF` of the two). Lifecycle: the consumer loops run (`WF`).
Catalog: the warmer's ticker ticks, a TTL ends, the goroutine that removes a client and the reader
of a broken connection run (`WF`). Feeds: the pollers, the price feed's loop, the scoreboard's
ticker and its consumer run (`WF`). Clients, operators, the cashier, late calls, pushes, failures
and restarts owe nothing.

Refinement. `ImplementsLedger`: the concurrent handlers on the same tables are steps of
`WalletLedger`, which is what entitles the other modules to use it in their place.
`BetConsumersDeliver` and `MarketsDelivered`: Settlement's claim, the bet-placed claim and the
catalog's claim, with their handlers of many steps, are `Delivery`.

The modules after `BetAcceptance` define the types of their variables (`SettlementTypeOK`,
`HistoryTypeOK`, `PipelineTypeOK`, `CatalogTypeOK`, `StatusTypeOK`, `LiveTypeOK`, `FeedsTypeOK`) for
the reader and the proofs; no run spends its time on them.

## What the code does that its texts do not say

Found while modelling, beside the four violation runs:

- CreditBalance moves the money again for the same transaction id, which `wallet.proto:70` calls an
  "Idempotency key"; its only caller draws a fresh id each time, so a redelivered result pays again.
- Settling moves money inside one account: CreditBalance takes what it credits out of
  `bets_in_flight` (`service.go:171-176`), so a user's total never changes, where
  `service.go:177-178`, `wallet.proto:85` and `settlement/consumer.go:184-186` speak of winnings paid,
  of the stake released and of a loss that debits the stake in flight. A winner's credit is refused
  (`settle_winners`), a loser's credit is of 0 and leaves the stake in flight for ever. The properties
  say nothing of totals for this reason.
- A result that contradicts an earlier one of its market credits its own payout, while `settlements`
  keeps the first outcome (`settlement/consumer.go:173`) and My Bets shows the last.
- A bet.settled that comes before its bet.placed updates nothing and is committed; My Bets shows
  PLACED for ever (`bethistory/consumer.go:193-200`).
- Two bets in parallel pass the daily limit (`wallet.proto:47`), read before either is in the ledger.
- A replay answers with the odds and stake of the request at hand (`bet_flow.go:157`).
- A deduction whose answer is lost, or is Internal after the COMMIT was applied, takes the stake of a
  bet marked CANCELLED, "DeductBalance failed" (`outbox.go:21`).
- After a failed markPublished the event is sent again as a new message, which no broker
  deduplicates (`README.md:202`); Bet History bears it.
- An accepted bet whose markOutboxReady failed stays PENDING: no job reads such rows
  (`bet_flow.go:252-253`).
- The relay sets no `transaction_id` header, so that Bet History never confirms a deduction
  (`Headers` = {TRUE, FALSE} in the run covers both).
- A group that has not committed yet has lag latest + 1: large bets are refused until it does. For
  half of all market ids the partition is negative, which is no producer's (against
  `lag_checker.go:152`), and the lag query fails, which refuses the bet.
- `Not lagging` does not mean "processed all messages" (`lag_checker.go:30`,
  `oddsmanagement/service.go:20-21, 107-108`): a bet whose handling failed is committed over by the
  next success, and a bet placed within the 200 ms of the cached answer is not in it.
- A failed SET of the cache updater is not retried "on restart" (`cache_updater.go:128-129`) once the
  next message has been committed.
- The odds cache keeps entries 48 h where `cache_updater.go:24-25` speaks of 30 s.
- The warmer may write back a status it read before a Suspend; the TTL of 5 s ends it.
- An upsert sets an event LIVE again after FINISHED; a score for an unknown event is broadcast
  though its UPDATE matched nothing; status changes are never broadcast; a failed upsert is marked
  and lost; a message broadcast between the snapshot and AddClient is lost for that client.
- "Kansas" matches the title of a "Kansas State" game, against `event_matcher.go:33-35, 52-54`, and
  two games of the same teams within the 14 days listed have one title: the score goes to either. The
  matcher is never pruned. The run's titles are free of both.
- An event taken out of its channel before its start may be announced SCHEDULED after it, until the
  next poll.
- The price feed's backoff is never reset, against
  `polymarket_price_feed.go:83-84`. The price normaliser drops the price and leaves a trigger. A
  scoreboard's "post" that is not completed counts as LIVE.
- The session that Identity stores in Redis "for validation by Bet Acceptance"
  (`identity/service.go:169`) is read by no code.

## Proofs

Every safety property of the passing runs, invariants, action properties and refinements alike, is
also a theorem, for arbitrary constants that satisfy the assumptions of the modules. These say:
`RequestsAssumption`, a transaction id denotes one request, as callers draw UUIDs, and the cashier's
amounts are not negative; `FlowAssumption`, types of the parameters, finitely many bets, each bet's
deduction a request of its own; `SettlementAssumption` and `LifecycleAssumption`, the same for
credits, whose ids are no bet's; `PipelineAssumption`, the probabilities are those the normalisers'
clamp to 2..98 percent leaves (or 0) and the vigs are the two of the code; `CatalogAssumption` and
`FeedsAssumption`, types and finiteness. TLC evaluates all of them in the runs.

- `WalletProofs`: the inductive invariant `ServiceInv` adds to the properties what they silently
  rely on. `Served` ties the location of a call to its kind of request; `Locks` says that whoever
  is between SELECT and COMMIT holds the user's locks alone; `Tables` holds the CHECK constraints,
  the foreign key and the meaning of a row; `Answered` says that OK comes after the record.
  `ReadStaysCurrent` follows from the row lock: CreditBalance and Deposit cannot pass it. From it
  follow `FundsCheckNeverStale` (the CHECK on the balance never has to reject a call that passed
  the comparison in Go), `AvailableAfterIsExact` and the refinement
  `ServiceImplementsLedger`: each step of a handler is one atomic operation or changes no table.
- `LedgerProofs`: `AvailableFollowsLedger` and `RowsImmutable` for the atomic contract;
  `WalletProofs` and `BetProofs` carry them over by the refinement.
- `BetProofs`: `FlowInv` says for each step of PlaceBet what the outbox row and the ledger hold
  (`Progress`), that released rows are paid for, that relays and topic hold released rows only
  and remembered keys are paid for. The crux is that both unconditional UPDATEs are harmless:
  `cancelOutbox` runs only while the row is PENDING, `markPublished` only on rows a relay has
  fetched. `FlowImplementsLedger` gives the composition the wallet's guarantees.
  `RejectionsAreFree` needs that only the bet's own calls write its row and that late calls belong to
  dead instances or to bets in `unsure`; `RetriesAreReplays` has the hypothesis that Redis keeps the
  keys.
- `DeliveryProofs`: `CommitsFollowAttempts`, below the committed offset every message has been
  tried. Not inductive as it stands, because auto-commit moves the commit up to `next`:
  `DeliveryInv` adds that everything below `next` has been tried. What implements `Delivery` has it.
- `LifecycleProofs`: `LifecycleInv` says what the result at work has done for the bet in hand
  (`JobProgress`), which calls own which ledger rows, that each credit and each bet-settled event is
  of an outcome that a result in the topic gives the bet, and that the deduction being confirmed
  belongs to the next event and is recorded. From it follow the four invariants on records; where the
  results agree, the outcome of the message at hand is the recorded one. `HandledIsRecorded` has the
  hypothesis that the names of bet-placed agree, which the code's do not (`history_topics`).
  `OneCreditPerDelivery`: a bet still to do has the credits it had when the message was received.
  `BetConsumersImplementDelivery` is the refinement for both claims, and `BetMessagesTried`
  draws `CommitsFollowAttempts` over to them.
- `OddsProofs`: `ManagerInv` ties the prices in a handler's hands to the message at work, and says
  that, unless a process crashed, no message is tried twice and what it left in the table is
  published, failed or next to be published; `UpdaterInv` that the cache is not behind what the
  updater went through, failures apart; `CheckerInv` that a committed offset read earlier still has
  everything below it handled, or failed and passed by. The margin and the American price are arithmetic: bounds on the integer
  divisions, case by case over the rounding; shortening never takes a decimal below 1.0049. Where an induction over a topic was needed, it is by the least counterexample
  (`LeastNatural`).
- `FeedsProofs`: `WakeupInv`, a token that the connection does not know has a poller at `notify` or a
  signal in the channel ahead of it, also between Dial and Subscribe.
- `CatalogProofs`: `ServiceInv` has the consumer's types and order, the operator's ruling
  (`RuleInv`: what is ruled is in a row that exists, which ON CONFLICT leaves alone) and the live view. The
  core is `ViewInv`. For a client that nothing passed by, the last price it will have read when its
  channel is empty (`Knows`) is between what has been sent to it (`SentTo`) and what is written; the
  last score is the one in the table, unless a broadcast is still to reach it (`Pending`).
  `ScoreInHand` keeps the score being broadcast equal to the one in the table: the second goroutine
  writes the event's status, never its score. A snapshot is safe when Redis had everything whose
  client list was already copied; a copy that a client missed puts it among the missed. So a quiet
  client is current for channels of every size. `ClosedOnce`: whoever removes a client, its channel
  is closed once, as RemoveClient looks into the map under the lock. `MarketsImplementDelivery`: five
  statements and a ticker make one step of `Delivery` each.

Only model-checked: liveness (`EveryCallAnswers`, `ReadyIsPublished`, `AcceptedIsAccountedFor`,
`EveryMessageTried`, `CacheSettles`, `EveryoneLeaves`, `SubscriptionsSettle`,
`FinalScorePublished`), which needs fairness and ENABLED; the normalisers' agreement with their
reference, which are operators on sequences built with `SelectSeq`; and of the types in
`LifecycleTypeOK` those of the two balance columns, whose initial values are a fold over the bets.

## Not modelled, and the plan

Not modelled: the Polymarket client (HTTP and JSON of a third party; a poll that fails is one that
comes later in `Feeds`); Identity (bcrypt and JWT are libraries, and nothing reads the session it
writes); the frontend (presentation; what a browser is told is the view of `LiveView`); HTTP
wrappers and handlers that only read; the Sportradar stub; `find20CentDelta`, `centSpread` and
`americanFloat`, which only tests call; ReconcileStaleTransactions, which nothing calls; infrastructure
files.

What is left: the types of `StatusCache` and of the balance columns in `BetLifecycle` as theorems;
that a stale announcement is repaired by a later poll, a liveness property that needs an instance of
its own; the claim of odds-updated in `LiveView` does not implement
`Delivery` (a group without a commit starts at the newest offset), and deserves a contract of its own.
