----------------------------- MODULE Settlement -----------------------------
(***************************************************************************)
(* The Settlement service (internal/settlement/consumer.go): the           *)
(* settlement-cg group on market-data-normalised, the tables pending_bets  *)
(* and settlements, the credits it asks the wallet for and the bet-settled *)
(* events it publishes.  One partition; the wallet is WalletLedger.        *)
(*                                                                         *)
(* No code of the repository writes pending_bets or a market.resulted      *)
(* event: both arrive from outside.  A result may be sent again, and a     *)
(* later result of a market may name another winner.  pending_bets rows    *)
(* keep the status PLACED for ever.                                        *)
(***************************************************************************)
EXTENDS WalletLedger, FiniteSets, Sequences, Claims

CONSTANTS
    Bets,         \* bet ids, also the transaction ids of their deductions
    NoBet,
    Markets, MarketOf,
    Selections, SelectionOf,
    UserOf, StakeOf,
    OddsOf,       \* pending_bets.odds_decimal, in hundredths
    MaxAttempts,  \* bound: settleBet calls per bet
    MaxResults,   \* bound: messages in market-data-normalised
    MaxFaults,    \* bound: failures and restarts in a run
    Faults        \* kinds of failure that may happen

FaultKinds == {"db", "rpc", "kafka", "crash"}

\* ResultEvent: a result, an event of another type, or a message that is not JSON.
\* "none" wins where no bet is on the winning selection.
Messages == [type : {"market.resulted", "other", "malformed"},
             market : Markets, winner : Selections \cup {"none"}]

\* The credit of the n-th call of settleBet for b; its transaction id is fresh.
CreditTx(b, n) == <<b, n>>

ASSUME SettlementAssumption ==
    /\ NoBet \notin Bets
    /\ MarketOf \in [Bets -> Markets] /\ SelectionOf \in [Bets -> Selections]
    /\ UserOf \in [Bets -> Users] /\ StakeOf \in [Bets -> Nat] /\ OddsOf \in [Bets -> Nat]
    /\ Faults \subseteq FaultKinds
    /\ MaxAttempts \in Nat /\ MaxResults \in Nat /\ MaxFaults \in Nat
    /\ MaxAttempts >= MaxResults * (MaxFaults + 1)
    /\ Tx = Bets \cup {CreditTx(b, n) : b \in Bets, n \in 1..MaxAttempts}
    /\ \A b \in Bets, n \in 1..MaxAttempts : CreditTx(b, n) \notin Bets

VARIABLES
    results,   \* the topic market-data-normalised
    results_cg,\* the claim of settlement-cg on it
    pending,   \* bets with a pending_bets row
    settled,   \* settled[b]: settlements.outcome
    job,       \* the result at work: [at, todo, bet]
    attempts,  \* attempts[b]: calls of settleBet that reached CreditBalance
    settledLog,\* the topic bet-settled
    before,    \* before[b]: the credits of b when the result at work was received
    faults     \* failures and restarts so far, up to MaxFaults

settlement == <<results, results_cg, pending, settled, job, attempts, settledLog, before>>

Idle     == [at |-> "idle", todo |-> {}, bet |-> NoBet]
Outcomes == {"WIN", "LOSS"}

ResultFor(b, m) == m.type = "market.resulted" /\ m.market = MarketOf[b]

\* isWin, by the winning_selection_id of the message m.
Outcome(b, m) == IF SelectionOf[b] = m.winner THEN "WIN" ELSE "LOSS"

\* int64(float64(stake) * odds), and 0 for a loss.
Payout(b, outcome) == IF outcome = "WIN" THEN (StakeOf[b] * OddsOf[b]) \div 100 ELSE 0

\* The message ConsumeClaim is at; the claim stays on it while the job is at work.
Current == results[results_cg.next + 1]

CreditRequest(b, n) ==
    [op |-> "CreditBalance", tx |-> CreditTx(b, n), user |-> UserOf[b],
     amount |-> Payout(b, Outcome(b, Current))]

\* The calls of CreditBalance for b that the wallet has in its ledger.
Credited(b) == {n \in 1..MaxAttempts : Recorded(CreditTx(b, n))}

SettlementTypeOK ==
    /\ results \in Seq(Messages)
    /\ results_cg \in Claim
    /\ pending \subseteq Bets
    /\ settled \in [Bets -> Outcomes \cup {"none"}]
    /\ job \in [at : {"idle", "record", "credit", "publish"}, todo : SUBSET Bets, bet : Bets \cup {NoBet}]
    /\ attempts \in [Bets -> 0..MaxAttempts]
    /\ settledLog \in Seq([bet : Bets, outcome : Outcomes])
    /\ before \in [Bets -> SUBSET (1..MaxAttempts)]

\* A call fails, or a process restarts.
Fails(kind) == kind \in Faults /\ faults < MaxFaults /\ faults' = faults + 1

SettlementInit ==
    /\ results = <<>> /\ results_cg = NewClaim
    /\ pending = {} /\ settled = [b \in Bets |-> "none"]
    /\ job = Idle /\ faults = 0
    /\ attempts = [b \in Bets |-> 0]
    /\ settledLog = <<>> /\ before = [b \in Bets |-> {}]

-----------------------------------------------------------------------------
\* Someone writes the row of a placed bet.
PendingBetArrives(b) ==
    /\ b \notin pending
    /\ pending' = pending \cup {b}
    /\ UNCHANGED <<db, results, results_cg, settled, job, attempts, settledLog, before, faults>>

\* The ingestion publishes a normalised event.
Ingested(m) ==
    /\ Len(results) < MaxResults
    /\ results' = Append(results, m)
    /\ UNCHANGED <<db, results_cg, pending, settled, job, attempts, settledLog, before, faults>>

\* Mutant: the offset is committed when the bets have been read.
HandleResultCommitsFirst ==
    /\ job.at = "idle"
    /\ results_cg.next < Len(results)
    /\ job' = [at |-> "record", bet |-> NoBet, todo |-> {b \in pending : ResultFor(b, Current)}]
    /\ results_cg' = [results_cg EXCEPT !.committed = results_cg.next + 1]
    /\ before' = [b \in Bets |-> Credited(b)]
    /\ UNCHANGED <<db, results, pending, settled, attempts, settledLog, faults>>

\* ConsumeClaim receives a message.  The query sees the bets whose row is there by
\* now; an error of it, or of the decoding, skips the message.
HandleResult ==
    /\ job.at = "idle"
    /\ results_cg.next < Len(results)
    /\ \/ /\ Current.type # "malformed"
          /\ job' = [at |-> "record", bet |-> NoBet, todo |-> {b \in pending : ResultFor(b, Current)}]
          /\ UNCHANGED <<results_cg, faults>>
       \/ /\ \/ Current.type = "malformed" /\ UNCHANGED faults
             \/ Current.type = "market.resulted" /\ Fails("db")
          /\ results_cg' = Skipped(results_cg)
          /\ UNCHANGED job
    /\ before' = [b \in Bets |-> Credited(b)]
    /\ UNCHANGED <<db, results, pending, settled, attempts, settledLog>>

\* settleBet returns for b, with or without an error, and the loop goes on.
NextBet(b) == job' = [at |-> "record", todo |-> job.todo \ {b}, bet |-> NoBet]

\* INSERT INTO settlements ... ON CONFLICT (bet_id) DO NOTHING.
InsertSettlement(b) == settled' = [settled EXCEPT ![b] = IF @ = "none" THEN Outcome(b, Current) ELSE @]

\* Mutant: the wallet is credited first and the record left for later.
CreditBeforeRecord(b) ==
    /\ job.at = "record" /\ b \in job.todo
    /\ attempts[b] < MaxAttempts
    /\ attempts' = [attempts EXCEPT ![b] = @ + 1]
    /\ CreditBalance(CreditRequest(b, attempts'[b]))
    /\ job' = [job EXCEPT !.at = "publish", !.bet = b]
    /\ UNCHANGED <<results, results_cg, pending, settled, settledLog, before, faults>>

RecordSettlement(b) ==
    /\ job.at = "record" /\ b \in job.todo
    /\ \/ /\ InsertSettlement(b)
          /\ job' = [job EXCEPT !.at = "credit", !.bet = b]
          /\ UNCHANGED faults
       \/ /\ Fails("db")
          /\ InsertSettlement(b) \/ UNCHANGED settled
          /\ NextBet(b)
    /\ UNCHANGED <<db, results, results_cg, pending, attempts, settledLog, before>>

\* Mutant: a call whose answer gets lost is repeated, with another transaction id.
CreditRetried(b) ==
    /\ job.at = "credit" /\ job.bet = b
    /\ attempts[b] < MaxAttempts
    /\ attempts' = [attempts EXCEPT ![b] = @ + 1]
    /\ CreditBalance(CreditRequest(b, attempts'[b]))
    /\ \/ job' = [job EXCEPT !.at = "publish"] /\ UNCHANGED faults
       \/ Fails("rpc") /\ UNCHANGED job
    /\ UNCHANGED <<results, results_cg, pending, settled, settledLog, before>>

\* CreditBalance takes effect; its answer may get lost.
Credit(b) ==
    /\ job.at = "credit" /\ job.bet = b
    /\ attempts[b] < MaxAttempts
    /\ attempts' = [attempts EXCEPT ![b] = @ + 1]
    /\ CreditBalance(CreditRequest(b, attempts'[b]))
    /\ \/ job' = [job EXCEPT !.at = "publish"] /\ UNCHANGED faults
       \/ Fails("rpc") /\ NextBet(b)
    /\ UNCHANGED <<results, results_cg, pending, settled, settledLog, before>>

\* No balances row, or the CHECK on bets_in_flight_minor.
Refused(b) == UserOf[b] \notin funded \/ inFlight[UserOf[b]] < Payout(b, Outcome(b, Current))

\* Mutant: an error of CreditBalance is logged and the event published.
CreditErrorIgnored(b) ==
    /\ job.at = "credit" /\ job.bet = b
    /\ attempts[b] < MaxAttempts
    /\ attempts' = [attempts EXCEPT ![b] = @ + 1]
    /\ Fails("rpc")
    /\ job' = [job EXCEPT !.at = "publish"]
    /\ UNCHANGED <<db, results, results_cg, pending, settled, settledLog, before>>

\* The wallet refuses, or the call does not reach it.
CreditFails(b) ==
    /\ job.at = "credit" /\ job.bet = b
    /\ attempts[b] < MaxAttempts
    /\ attempts' = [attempts EXCEPT ![b] = @ + 1]
    /\ IF Refused(b) THEN UNCHANGED faults ELSE Fails("rpc")
    /\ NextBet(b)
    /\ UNCHANGED <<db, results, results_cg, pending, settled, settledLog, before>>

\* SendMessage; one that fails may have reached the broker.
PublishSettled(b) ==
    /\ job.at = "publish" /\ job.bet = b
    /\ \/ /\ settledLog' = Append(settledLog, [bet |-> b, outcome |-> Outcome(b, Current)])
          /\ UNCHANGED faults
       \/ Fails("kafka") /\ UNCHANGED settledLog
    /\ NextBet(b)
    /\ UNCHANGED <<db, results, results_cg, pending, settled, attempts, before>>

\* handleResult returns nil, the message is marked and committed; the commit may
\* get lost.
CommitResult ==
    /\ job.at = "record" /\ job.todo = {}
    /\ job' = Idle
    /\ \/ results_cg' = Handled(results_cg) /\ UNCHANGED faults
       \/ results_cg' = HandledUncommitted(results_cg) /\ Fails("kafka")
    /\ UNCHANGED <<db, results, pending, settled, attempts, settledLog, before>>

SettlementRestarts ==
    /\ Fails("crash")
    /\ job' = Idle
    /\ results_cg' = Restarted(results_cg)
    /\ UNCHANGED <<db, results, pending, settled, attempts, settledLog, before>>

SettlementStep ==
    \/ HandleResult \/ CommitResult
    \/ \E b \in Bets :
          RecordSettlement(b) \/ Credit(b) \/ CreditFails(b) \/ PublishSettled(b)

-----------------------------------------------------------------------------
\* A result in the topic gives b this outcome.
Given(b, outcome) ==
    \E k \in DOMAIN results : ResultFor(b, results[k]) /\ Outcome(b, results[k]) = outcome

\* The results of b's market, as far as they have come, do not contradict each other.
Agreed(b) == ~(Given(b, "WIN") /\ Given(b, "LOSS"))

\* Settlement's own record comes first (consumer.go:169): money is only ever
\* credited for a bet with a settlements row, of the payout that a result gives it.
\* Where the results agree the credit is also the one the row asks for; where a later
\* result contradicts the first the row keeps the first outcome (ON CONFLICT DO
\* NOTHING) and the wallet is credited for the later one.
CreditsAreSettled ==
    \A b \in Bets : \A n \in Credited(b) :
        /\ settled[b] # "none"
        /\ \E o \in Outcomes :
              /\ Given(b, o) /\ ledger[CreditTx(b, n)].amount = Payout(b, o)
              /\ Agreed(b) => settled[b] = o

\* One delivery of a result credits a bet once at most (consumer.go:139-204), whatever
\* is lost in between: between two messages that ConsumeClaim receives, no bet gets
\* two credits in the wallet's ledger.
OneCreditPerDelivery == \A b \in Bets : Cardinality(Credited(b) \ before[b]) <= 1

\* consumer.go:1-2, the service "instructs Account & Wallet to credit winnings": when
\* nothing fails, a bet that Settlement has recorded as won has been credited.
WinnersAreCredited ==
    \A b \in Bets : settled[b] = "WIN" /\ job.at = "idle" => Credited(b) # {}
=============================================================================
