---------------------------- MODULE BetAcceptance ---------------------------
(***************************************************************************)
(* The Bet Acceptance service composed with the wallet: BetFlow.PlaceBet   *)
(* (internal/betacceptance/bet_flow.go), the outbox table and OutboxRelay  *)
(* (outbox.go), the idempotency keys in Redis and the bet-placed topic.    *)
(*                                                                         *)
(* A bet is one execution of PlaceBet for one POST /bets.  The bet_id, the *)
(* transaction_id and the outbox id are drawn fresh in that execution, so  *)
(* the bet itself names all three.  Several bets may carry one idempotency *)
(* key: the client, or its proxy, sent the request again.                  *)
(*                                                                         *)
(* The wallet is WalletLedger, whose operations are atomic; WalletProofs   *)
(* shows that the service implements them.  What other services do to it   *)
(* meanwhile is WalletElsewhere.                                           *)
(*                                                                         *)
(* The market status, the cached odds and the consumer lag belong to other *)
(* services and change at any time: a check of them may come out either    *)
(* way.  All calls of PlaceBet use the request's context, which dies when  *)
(* the client goes away; a dead context is a failure of each later call,   *)
(* and every call below may fail on its own.                               *)
(***************************************************************************)
EXTENDS WalletLedger, FiniteSetsExt

CONSTANTS
    Bets,           \* executions of PlaceBet
    NoBet,          \* no bet: an absent Redis key
    Keys,           \* idempotency keys
    KeyOf,          \* KeyOf[b]: Idempotency-Key header
    UserOf,         \* UserOf[b]: X-User-ID, from the token
    StakeOf,        \* StakeOf[b]: StakeMinor
    OddsOf,         \* OddsOf[b]: RequestedOddsDecimal, in hundredths
    Odds,           \* the odds Redis may hold, in hundredths
    TolerancePct,   \* Config.OddsTolerance, in percent
    MaxSingleStake, \* user_limits.max_single_stake_minor
    DailyLimit,     \* user_limits.daily_limit_minor
    Relays,         \* OutboxRelay goroutines (one per service instance)
    BatchLimit,     \* rows per publishBatch (100 in the code)
    MaxCopies,      \* bound: copies of one event in the topic that are told apart
    Faults          \* the kinds of failure that may happen

\* "rpc": a call of DeductBalance is lost, late or loses its answer; "commit": its COMMIT
\* is applied and reported as failed, and the wallet answers Internal.
FaultKinds == {"redis", "db", "rpc", "commit", "limitsQuery", "kafka", "crash"}

DeductRequest(b) ==
    [op |-> "DeductBalance", tx |-> b, user |-> UserOf[b], amount |-> StakeOf[b]]

ASSUME FlowAssumption ==
    /\ IsFiniteSet(Bets) /\ Bets \subseteq Tx /\ NoBet \notin Bets
    /\ KeyOf \in [Bets -> Keys] /\ UserOf \in [Bets -> Users] /\ StakeOf \in [Bets -> Int]
    /\ Odds \subseteq Nat \ {0} /\ OddsOf \in [Bets -> Odds]
    /\ TolerancePct \in Nat /\ MaxSingleStake \in Nat /\ DailyLimit \in Nat
    /\ BatchLimit \in Nat \ {0} /\ MaxCopies \in Nat /\ MaxCopies >= 2
    /\ Faults \subseteq FaultKinds
    /\ \A b \in Bets : DeductRequest(b) \in Requests

VARIABLES
    at,        \* at[b]: where the execution of PlaceBet is
    quoted,    \* quoted[b]: currentOdds read from Redis
    answer,    \* answer[b]: the ACCEPTED answer sent for b: [bet, odds]
    idem,      \* idem[k]: redisRateLimit "idem:<k>"
    outbox,    \* outbox[b]: status of the row with this bet_id
    created,   \* created[b]: rank of the row by created_at, 0 without a row
    late,      \* deductions whose caller gave up, still on their way to the wallet
    unsure,    \* bets whose deduction ended in an error that says nothing (history)
    batch,     \* batch[y]: rows relay y has fetched and not yet dealt with
    sent,      \* sent[y]: the one of them whose SendMessage has just succeeded
    copies     \* copies[b]: events of bet b in the topic bet-placed

flow  == <<at, quoted, answer, idem, outbox, created, late, unsure>>
relay == <<batch, sent, copies>>
vars  == <<db, flow, relay>>

Places == {"new", "quote", "limits", "outbox", "deduct", "cancel", "ready", "remember",
           "accepted", "rejected", "crashed"}
OutboxStatus == {"none", "PENDING", "READY_TO_PUBLISH", "PUBLISHED", "CANCELLED"}

FlowTypeOK ==
    /\ DbTypeOK
    /\ at \in [Bets -> Places]
    /\ quoted \in [Bets -> Odds]
    /\ answer \in [Bets -> [bet : Bets \cup {NoBet}, odds : Odds]]
    /\ idem \in [Keys -> Bets \cup {NoBet}]
    /\ outbox \in [Bets -> OutboxStatus]
    /\ created \in [Bets -> Nat]
    /\ late \subseteq Bets /\ unsure \subseteq Bets
    /\ batch \in [Relays -> SUBSET Bets]
    /\ sent \in [Relays -> Bets \cup {NoBet}]
    /\ copies \in [Bets -> 0..MaxCopies]

FlowInit ==
    /\ Init
    /\ at = [b \in Bets |-> "new"]
    /\ quoted = OddsOf
    /\ answer = [b \in Bets |-> [bet |-> NoBet, odds |-> OddsOf[b]]]
    /\ idem = [k \in Keys |-> NoBet]
    /\ outbox = [b \in Bets |-> "none"]
    /\ created = [b \in Bets |-> 0]
    /\ late = {} /\ unsure = {}
    /\ batch = [y \in Relays |-> {}]
    /\ sent = [y \in Relays |-> NoBet]
    /\ copies = [b \in Bets |-> 0]

-----------------------------------------------------------------------------
Goto(b, place) == at' = [at EXCEPT ![b] = place]

Accept(b, bet, odds) ==
    /\ Goto(b, "accepted")
    /\ answer' = [answer EXCEPT ![b] = [bet |-> bet, odds |-> odds]]

\* Step 1.  A replay is answered with the stored bet id and with the odds of the
\* request at hand.
IdempotentReplay(b) ==
    /\ at[b] = "new"
    /\ idem[KeyOf[b]] # NoBet
    /\ Accept(b, idem[KeyOf[b]], OddsOf[b])
    /\ UNCHANGED <<db, quoted, idem, outbox, created, late, unsure, relay>>

\* Any error of the GET, not only redis.Nil, lets the request through.
FirstTime(b) ==
    /\ at[b] = "new"
    /\ idem[KeyOf[b]] = NoBet \/ "redis" \in Faults
    /\ Goto(b, "quote")
    /\ UNCHANGED <<db, quoted, answer, idem, outbox, created, late, unsure, relay>>

\* |requested - current| / current <= OddsTolerance
WithinTolerance(requested, current) ==
    100 * (IF requested > current THEN requested - current ELSE current - requested)
        <= TolerancePct * current

\* Steps 2 and 3: the market is OPEN and the cached odds are close enough.
MarketOpenOddsValid(b) ==
    /\ at[b] = "quote"
    /\ \E current \in Odds :
          /\ WithinTolerance(OddsOf[b], current)
          /\ quoted' = [quoted EXCEPT ![b] = current]
    /\ Goto(b, "limits")
    /\ UNCHANGED <<db, answer, idem, outbox, created, late, unsure, relay>>

\* GetUserLimits: the stakes of the user's DEBIT rows.  The rolling window is
\* longer than any run of the model, so no row leaves it.
DailyStaked(u) ==
    MapThenSumSet(LAMBDA t : ledger[t].amount,
                  {t \in Tx : ledger[t].user = u /\ ledger[t].type = "DEBIT"})

\* Steps 4 and 5.  A failing sum is ignored and counts as 0; the user must have
\* a user_limits row.  A large stake also passes the lag check here.
WithinLimits(b) ==
    /\ at[b] = "limits"
    /\ UserOf[b] \in limited
    /\ StakeOf[b] <= MaxSingleStake
    /\ \/ StakeOf[b] <= DailyLimit - DailyStaked(UserOf[b])
       \/ "limitsQuery" \in Faults /\ StakeOf[b] <= DailyLimit
    /\ Goto(b, "outbox")
    /\ UNCHANGED <<db, quoted, answer, idem, outbox, created, late, unsure, relay>>

\* The market is closed or unknown, the odds have moved or are missing, a limit
\* is exceeded, the market's partition lags, or one of these checks fails.
RejectBeforeOutbox(b) ==
    /\ at[b] \in {"quote", "limits"}
    /\ Goto(b, "rejected")
    /\ UNCHANGED <<db, quoted, answer, idem, outbox, created, late, unsure, relay>>

\* Mutant: a status literal that the table's CHECK does not know.
InsertAccepted(b) ==
    /\ outbox' = [outbox EXCEPT ![b] = "ACCEPTED"]
    /\ created' = [created EXCEPT ![b] = 1 + Cardinality({c \in Bets : outbox[c] # "none"})]

InsertPending(b) ==
    /\ outbox' = [outbox EXCEPT ![b] = "PENDING"]
    /\ created' = [created EXCEPT ![b] = 1 + Cardinality({c \in Bets : outbox[c] # "none"})]

\* Step 6.  An INSERT that reports an error may have been applied or not.
WriteOutboxPending(b) ==
    /\ at[b] = "outbox"
    /\ \/ InsertPending(b) /\ Goto(b, "deduct")
       \/ "db" \in Faults /\ InsertPending(b) /\ Goto(b, "rejected")
       \/ "db" \in Faults /\ Goto(b, "rejected") /\ UNCHANGED <<outbox, created>>
    /\ UNCHANGED <<db, quoted, answer, idem, late, unsure, relay>>

\* Mutant: the market is checked once more after the stake has been reserved.
DeductThenRecheck(b) ==
    /\ at[b] = "deduct"
    /\ DeductBalance(DeductRequest(b))
    /\ \/ Goto(b, "ready")
       \/ Goto(b, "cancel")
    /\ UNCHANGED <<quoted, answer, idem, outbox, created, late, unsure, relay>>

\* Step 7, the stake is reserved.  The answer may get lost on its way back, or be the
\* wallet's Internal after a COMMIT that was applied (wallet/service.go:140); PlaceBet
\* takes both for a refusal.
Deduct(b) ==
    /\ at[b] = "deduct"
    /\ DeductBalance(DeductRequest(b))
    /\ \/ Goto(b, "ready") /\ UNCHANGED unsure
       \/ /\ Faults \cap {"rpc", "commit"} # {}
          /\ Goto(b, "cancel")
          /\ unsure' = unsure \cup {b}
    /\ UNCHANGED <<quoted, answer, idem, outbox, created, late, relay>>

\* What DeductBalance asks of the balances row.
Affordable(b) ==
    /\ UserOf[b] \in funded
    /\ available[UserOf[b]] >= StakeOf[b]
    /\ inFlight[UserOf[b]] + StakeOf[b] >= 0

\* Mutant: the error of DeductBalance is logged and the bet goes on.
DeductErrorIgnored(b) ==
    /\ at[b] = "deduct"
    /\ ~Affordable(b)
    /\ Goto(b, "ready")
    /\ UNCHANGED <<db, quoted, answer, idem, outbox, created, late, unsure, relay>>

\* Step 7, no balance or not enough of it.
DeductRefused(b) ==
    /\ at[b] = "deduct"
    /\ ~Affordable(b)
    /\ Goto(b, "cancel")
    /\ UNCHANGED <<db, quoted, answer, idem, outbox, created, late, unsure, relay>>

\* Step 7, the call fails before the wallet has acted: it may still do so.
DeductTimeout(b) ==
    /\ at[b] = "deduct"
    /\ "rpc" \in Faults
    /\ Goto(b, "cancel")
    /\ late' = late \cup {b} /\ unsure' = unsure \cup {b}
    /\ UNCHANGED <<db, quoted, answer, idem, outbox, created, relay>>

LateDeduct(b) ==
    /\ b \in late
    /\ DeductBalance(DeductRequest(b))
    /\ late' = late \ {b}
    /\ UNCHANGED <<at, quoted, answer, idem, outbox, created, unsure, relay>>

\* The error path of step 7: the result of cancelOutbox is ignored.
CancelOutbox(b) ==
    /\ at[b] = "cancel"
    /\ \/ outbox' = [outbox EXCEPT ![b] = "CANCELLED"]
       \/ "db" \in Faults /\ UNCHANGED outbox
    /\ Goto(b, "rejected")
    /\ UNCHANGED <<db, quoted, answer, idem, created, late, unsure, relay>>

\* Mutant: a failure of step 8 is reported to the client as a rejection.
MarkReadyErrorRejects(b) ==
    /\ at[b] = "ready"
    /\ outbox' = [outbox EXCEPT ![b] = IF @ = "PENDING" THEN "READY_TO_PUBLISH" ELSE @]
    /\ \/ Goto(b, "remember")
       \/ "db" \in Faults /\ Goto(b, "rejected")
    /\ UNCHANGED <<db, quoted, answer, idem, created, late, unsure, relay>>

\* Step 8.  A failure is logged and the bet is accepted all the same.
MarkOutboxReady(b) ==
    /\ at[b] = "ready"
    /\ \/ outbox' = [outbox EXCEPT ![b] = IF @ = "PENDING" THEN "READY_TO_PUBLISH" ELSE @]
       \/ "db" \in Faults /\ UNCHANGED outbox
    /\ Goto(b, "remember")
    /\ UNCHANGED <<db, quoted, answer, idem, created, late, unsure, relay>>

\* Mutant: the clean-up is deferred and not disarmed on success.
RememberDeferredCancel(b) ==
    /\ at[b] = "remember"
    /\ idem' = [idem EXCEPT ![KeyOf[b]] = b]
    /\ outbox' = [outbox EXCEPT ![b] = "CANCELLED"]
    /\ Accept(b, b, quoted[b])
    /\ UNCHANGED <<db, quoted, created, late, unsure, relay>>

\* Mutant: the key is stored for accepted bets whose row could be marked only.
RememberPublishable(b) ==
    /\ at[b] = "remember"
    /\ idem' = IF outbox[b] = "PENDING" THEN idem ELSE [idem EXCEPT ![KeyOf[b]] = b]
    /\ Accept(b, b, quoted[b])
    /\ UNCHANGED <<db, quoted, outbox, created, late, unsure, relay>>

\* Step 9.  The result of the SET is ignored.
Remember(b) ==
    /\ at[b] = "remember"
    /\ \/ idem' = [idem EXCEPT ![KeyOf[b]] = b]
       \/ "redis" \in Faults /\ UNCHANGED idem
    /\ Accept(b, b, quoted[b])
    /\ UNCHANGED <<db, quoted, outbox, created, late, unsure, relay>>

\* The service instance dies while it executes PlaceBet: no answer.  Its call to
\* the wallet, if it has sent one, goes on.
Crash(b) ==
    /\ "crash" \in Faults
    /\ at[b] \notin {"new", "accepted", "rejected", "crashed"}
    /\ Goto(b, "crashed")
    /\ late' \in {late, IF at[b] = "deduct" THEN late \cup {b} ELSE late}
    /\ UNCHANGED <<db, quoted, answer, idem, outbox, created, unsure, relay>>

\* The key's TTL of 24 hours ends, or Redis loses it.
IdemExpires(k) ==
    /\ "redis" \in Faults
    /\ idem[k] # NoBet
    /\ idem' = [idem EXCEPT ![k] = NoBet]
    /\ UNCHANGED <<db, at, quoted, answer, outbox, created, late, unsure, relay>>

-----------------------------------------------------------------------------
\* Mutant: the relay also picks up rows whose deduction is still to come.
ReadyOrPending == {b \in Bets : outbox[b] \in {"PENDING", "READY_TO_PUBLISH"}}

Ready == {b \in Bets : outbox[b] = "READY_TO_PUBLISH"}

\* ORDER BY created_at ASC LIMIT n
Oldest(rows, n) ==
    {b \in rows : Cardinality({c \in rows : created[c] < created[b]}) < n}

\* publishBatch, fetchReady: SELECT ... FOR UPDATE SKIP LOCKED on the pool, not
\* in a transaction, so the row locks end with the statement.
FetchReady(y) ==
    /\ batch[y] = {}
    /\ Ready # {}
    /\ batch' = [batch EXCEPT ![y] = Oldest(Ready, BatchLimit)]
    /\ UNCHANGED <<db, flow, sent, copies>>

\* The relay works off its batch in the order of the query.
IsNextRow(y, b) ==
    /\ sent[y] = NoBet
    /\ b \in batch[y]
    /\ \A c \in batch[y] : created[b] <= created[c]

Produce(b) == copies' = [copies EXCEPT ![b] = IF @ < MaxCopies THEN @ + 1 ELSE @]

\* SendMessage of the next row is acknowledged.
SendMessage(y, b) ==
    /\ IsNextRow(y, b)
    /\ Produce(b)
    /\ sent' = [sent EXCEPT ![y] = b]
    /\ UNCHANGED <<db, flow, batch>>

\* Mutant: the row is marked PUBLISHED although the send has failed.
SendErrorIgnored(y, b) ==
    /\ "kafka" \in Faults
    /\ IsNextRow(y, b)
    /\ Produce(b) \/ UNCHANGED copies
    /\ outbox' = [outbox EXCEPT ![b] = "PUBLISHED"]
    /\ batch' = [batch EXCEPT ![y] = @ \ {b}]
    /\ UNCHANGED <<db, at, quoted, answer, idem, created, late, unsure, sent>>

\* SendMessage gives up; the broker may hold the event nevertheless.  The relay
\* goes on with the next row, this one stays READY_TO_PUBLISH.
SendFails(y, b) ==
    /\ "kafka" \in Faults
    /\ IsNextRow(y, b)
    /\ Produce(b) \/ UNCHANGED copies
    /\ batch' = [batch EXCEPT ![y] = @ \ {b}]
    /\ UNCHANGED <<db, flow, sent>>

\* The UPDATE has no condition on the status; its failure is only logged.
MarkPublished(y, b) ==
    /\ sent[y] = b
    /\ outbox' = [outbox EXCEPT ![b] = "PUBLISHED"]
    /\ batch' = [batch EXCEPT ![y] = @ \ {b}]
    /\ sent' = [sent EXCEPT ![y] = NoBet]
    /\ UNCHANGED <<db, at, quoted, answer, idem, created, late, unsure, copies>>

MarkPublishedFails(y, b) ==
    /\ "db" \in Faults
    /\ sent[y] = b
    /\ batch' = [batch EXCEPT ![y] = @ \ {b}]
    /\ sent' = [sent EXCEPT ![y] = NoBet]
    /\ UNCHANGED <<db, flow, copies>>

\* The instance restarts: the fetched rows are forgotten.
RelayRestarts(y) ==
    /\ "crash" \in Faults
    /\ batch[y] # {}
    /\ batch' = [batch EXCEPT ![y] = {}]
    /\ sent' = [sent EXCEPT ![y] = NoBet]
    /\ UNCHANGED <<db, flow, copies>>

-----------------------------------------------------------------------------
\* The cashier, Settlement and Bet History at work on the same wallet.
WalletElsewhere ==
    /\ \/ \E r \in Requests : Deposit(r) \/ Withdraw(r) \/ CreditBalance(r)
       \/ \E t \in Tx : ConfirmTransaction(t)
    /\ UNCHANGED <<flow, relay>>

PlaceBetStep(b) ==
    \/ IdempotentReplay(b) \/ FirstTime(b)
    \/ MarketOpenOddsValid(b) \/ WithinLimits(b) \/ RejectBeforeOutbox(b)
    \/ WriteOutboxPending(b)
    \/ Deduct(b) \/ DeductRefused(b) \/ DeductTimeout(b)
    \/ CancelOutbox(b) \/ MarkOutboxReady(b) \/ Remember(b)

RelayStep(y) ==
    \/ FetchReady(y)
    \/ \E b \in Bets :
          SendMessage(y, b) \/ SendFails(y, b) \/ MarkPublished(y, b) \/ MarkPublishedFails(y, b)

FlowNext ==
    \/ \E b \in Bets : PlaceBetStep(b) \/ LateDeduct(b) \/ Crash(b)
    \/ \E k \in Keys : IdemExpires(k)
    \/ \E y \in Relays : RelayStep(y) \/ RelayRestarts(y)
    \/ WalletElsewhere

FlowSpec == FlowInit /\ [][FlowNext]_vars

(***************************************************************************)
(* PlaceBet keeps running until it returns, and the relay's ticker fires   *)
(* for ever.  Kafka and Postgres may fail any number of times but not for  *)
(* ever: of the repeated attempts of the relay on one row some succeed,    *)
(* hence strong fairness of its two calls.  Nothing obliges clients,       *)
(* the cashier or late calls to act.                                       *)
(***************************************************************************)
FairFlowSpec ==
    /\ FlowSpec
    /\ \A b \in Bets : WF_vars(at[b] # "new" /\ PlaceBetStep(b))
    /\ \A y \in Relays :
          /\ WF_vars(RelayStep(y))
          /\ \A b \in Bets : SF_vars(SendMessage(y, b)) /\ SF_vars(MarkPublished(y, b))

-----------------------------------------------------------------------------
\* The wallet's record of a bet's stake.
Paid(b) ==
    /\ ledger[b].type = "DEBIT"
    /\ ledger[b].user = UserOf[b]
    /\ ledger[b].amount = StakeOf[b]

\* No event without money (outbox.go:19 "DeductBalance succeeded; relay can
\* publish"): whatever fails or crashes and whoever retries, a bet.placed event is
\* only ever in the topic for a bet whose stake the wallet has taken from its user.
PublishedIsPaid == \A b \in Bets : copies[b] > 0 => Paid(b)

\* No acceptance without money (bet_flow.go:257): the bet id a client is given, by
\* the execution that placed the bet or by a replay of its key, is a bet whose
\* stake has been taken.
AcceptedIsPaid ==
    \A b \in Bets :
        at[b] = "accepted" => answer[b].bet # NoBet /\ Paid(answer[b].bet)

\* A client that was told its bet is rejected never sees it published, whichever
\* of the statements of PlaceBet failed and whether or not they took effect.
RejectedNotPublished ==
    \A b \in Bets :
        at[b] = "rejected" => /\ copies[b] = 0
                              /\ outbox[b] \in {"none", "PENDING", "CANCELLED"}

\* A rejected bet has cost nothing (bet_flow.go:230-246), whatever crashes, fails or
\* comes late, except where DeductBalance ended in an error that does not say whether
\* the wallet acted: a lost call or answer, or Internal after an applied COMMIT.  There
\* the stake may stay taken; nothing gives it back.
RejectedCostsNothing ==
    \A b \in Bets : at[b] = "rejected" /\ Recorded(b) => b \in unsure

\* The outbox row's life cycle (outbox.go:17-22), although cancelOutbox and
\* markPublished do not test the status they overwrite: a row that may be in
\* Kafka is never cancelled, and no row goes back.
OutboxForward ==
    [][\A b \in Bets :
          outbox'[b] # outbox[b] =>
              <<outbox[b], outbox'[b]>> \in
                  {<<"none", "PENDING">>, <<"PENDING", "READY_TO_PUBLISH">>,
                   <<"PENDING", "CANCELLED">>, <<"READY_TO_PUBLISH", "PUBLISHED">>}]_vars

\* At-least-once delivery (README, "Outbox relay"): a row marked READY_TO_PUBLISH
\* is one day in the topic and marked PUBLISHED, however often Kafka, the UPDATE
\* or the instance fail, and however many rows are ahead of it.
ReadyIsPublished ==
    \A b \in Bets :
        outbox[b] = "READY_TO_PUBLISH" ~> outbox[b] = "PUBLISHED" /\ copies[b] > 0

\* No accepted bet vanishes (bet_flow.go:251-257): it is published, or step 8 failed
\* and its row is still PENDING for someone to find.
AcceptedIsAccountedFor ==
    \A b \in Bets :
        at[b] = "accepted" /\ answer[b].bet = b
            ~> outbox[b] = "PENDING" \/ (outbox[b] = "PUBLISHED" /\ copies[b] > 0)

\* What the idempotency key does guarantee while Redis keeps it: a retry that is sent
\* after the answer is never taken for a new bet, whatever happened on the way to it.
RetryAfterAnswerIsReplay ==
    [][\A b, c \in Bets :
          KeyOf[b] = KeyOf[c] /\ at[c] = "accepted" /\ at[b] = "new" => at'[b] # "quote"]_vars

-----------------------------------------------------------------------------
\* README:180 step 1, "Idempotency check": two requests with one key are one bet.
OneBetPerKey ==
    \A b, c \in Bets :
        KeyOf[b] = KeyOf[c] /\ at[b] = "accepted" /\ at[c] = "accepted"
            => answer[b].bet = answer[c].bet
=============================================================================
