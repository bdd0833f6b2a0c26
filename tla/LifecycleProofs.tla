--------------------------- MODULE LifecycleProofs ---------------------------
(***************************************************************************)
(* Proofs about BetLifecycle, for every set of bets, users, markets and    *)
(* messages, every number of failures and restarts, and whatever names the *)
(* topics have.                                                            *)
(***************************************************************************)
EXTENDS BetLifecycle, TLAPS, FiniteSetTheorems, SequenceTheorems

-----------------------------------------------------------------------------
(***************************************************************************)
(* The inductive invariant.                                                *)
(***************************************************************************)

Types ==
    /\ ledger \in [Tx -> LedgerRow]
    /\ SettlementTypeOK /\ HistoryTypeOK
    /\ faults \in Nat

\* The wallet has credited b what the outcome pays ...
PaidAs(b, outcome) == \E n \in Credited(b) : ledger[CreditTx(b, n)].amount = Payout(b, outcome)

\* ... for an outcome that a result gives, and after the settlements row.
Booked(b, outcome) == Given(b, outcome) /\ settled[b] # "none" /\ PaidAs(b, outcome)

\* What Settlement has done at each of its steps: the result at work is in the topic,
\* its bets are of that market, and a bet is recorded before it is credited.
JobProgress ==
    /\ job.at # "idle" => results_cg.next < Len(results)
    /\ job.at = "idle" => job = Idle
    /\ \A b \in job.todo : ResultFor(b, Current)
    /\ job.at \in {"credit", "publish"} => job.bet \in job.todo /\ settled[job.bet] # "none"
    /\ job.at = "publish" => PaidAs(job.bet, Outcome(job.bet, Current))

\* The settlements table has outcomes that results gave.
RecordsGiven == \A b \in Bets : settled[b] # "none" => Given(b, settled[b])

\* Credits belong to calls that were made, for recorded bets, of a payout that a result
\* gives.
CreditGiven(b, n) ==
    /\ n <= attempts[b] /\ settled[b] # "none"
    /\ \E o \in Outcomes : Given(b, o) /\ ledger[CreditTx(b, n)].amount = Payout(b, o)

CreditsGiven == \A b \in Bets : \A n \in Credited(b) : CreditGiven(b, n)

\* The delivery at work has credited a bet once at most, and not at all while the call
\* is to come.
CreditedOnce ==
    \A b \in Bets :
        /\ \A m, n \in Credited(b) \ before[b] : m = n
        /\ b \in job.todo /\ ~(job.at = "publish" /\ job.bet = b) => Credited(b) \subseteq before[b]

\* What bet-settled says, and what My Bets shows, is booked.
EventsTrue == \A k \in DOMAIN settledLog : Booked(settledLog[k].bet, settledLog[k].outcome)

RowsTrue == \A b \in Bets, o \in Outcomes : history[b] = StatusOf[o] => Booked(b, o)

\* The stake of every bet was deducted, and is confirmed or awaits it.
StakesHeld == \A b \in Bets : ledger[b].status \in {"PENDING_CONFIRMATION", "CONFIRMED"}

\* The bet being confirmed is that of the next event, and has its row.
ConfirmProgress ==
    confirming # NoBet =>
        /\ history_cg["placed"].next < Len(placedLog)
        /\ placedLog[history_cg["placed"].next + 1].bet = confirming
        /\ history[confirming] # "none"

\* Handled events are events of the topic.
HandledInTopic == \A k \in history_cg["placed"].handled : k < Len(placedLog)

MoneySide   == JobProgress /\ RecordsGiven /\ CreditsGiven /\ CreditedOnce /\ EventsTrue
HistorySide == /\ StakesHeld /\ ConfirmProgress /\ ConfirmedIsRecorded
               /\ HandledInTopic /\ (Dispatched("placed") => HandledIsRecorded)

LifecycleInv == Types /\ MoneySide /\ RowsTrue /\ HistorySide

-----------------------------------------------------------------------------
\* A topic grows at its end.
LEMMA Appended ==
    ASSUME NEW S, NEW log \in Seq(S), NEW e \in S
    PROVE  /\ Append(log, e) \in Seq(S) /\ Len(Append(log, e)) = Len(log) + 1
           /\ \A k \in 1..Len(log) : Append(log, e)[k] = log[k]
           /\ DOMAIN log = 1..Len(log) /\ DOMAIN Append(log, e) = 1..(Len(log) + 1)
           /\ \A k \in DOMAIN Append(log, e) :
                 (k \in DOMAIN log /\ Append(log, e)[k] = log[k]) \/ Append(log, e)[k] = e
OBVIOUS

\* The messages of the two topics are what their producers send.
LEMMA LogTypes ==
    ASSUME Types
    PROVE  /\ \A k \in DOMAIN settledLog : settledLog[k].bet \in Bets
           /\ \A k \in DOMAIN placedLog : placedLog[k].bet \in Bets
<1>1. settledLog \in Seq([bet : Bets, outcome : Outcomes])
  BY DEF Types, SettlementTypeOK
<1>2. placedLog \in Seq([bet : Bets, header : BOOLEAN])
  BY DEF Types, HistoryTypeOK
<1>3. ASSUME NEW k \in DOMAIN settledLog PROVE settledLog[k] \in [bet : Bets, outcome : Outcomes]
  <2>1. k \in 1..Len(settledLog)
    BY <1>1, <1>3
  <2> QED
    BY <1>1, <2>1, ElementOfSeq
<1>4. ASSUME NEW k \in DOMAIN placedLog PROVE placedLog[k] \in [bet : Bets, header : BOOLEAN]
  <2>1. k \in 1..Len(placedLog)
    BY <1>2, <1>4
  <2> QED
    BY <1>2, <2>1, ElementOfSeq
<1> QED
  BY <1>3, <1>4

(***************************************************************************)
(* What the steps do to the ledger.                                        *)
(***************************************************************************)

\* The ids of the ledger, and of whom they are.
LEMMA TxFacts ==
    /\ Bets \subseteq Tx
    /\ \A b \in Bets, n \in 1..MaxAttempts : CreditTx(b, n) \in Tx \ Bets
BY SettlementAssumption

\* Ids of different calls are different.
LEMMA TxDistinct ==
    \A b, c \in Bets, m, n \in 1..MaxAttempts :
        CreditTx(b, m) = CreditTx(c, n) => b = c /\ m = n
BY DEF CreditTx

\* A payout is an amount, and outcomes are two.
LEMMA PayoutType == \A o : \A b \in Bets : Payout(b, o) \in Int
BY SettlementAssumption DEF Payout

LEMMA OutcomeType == \A b, m : Outcome(b, m) \in Outcomes
BY DEF Outcome, Outcomes

\* A credit under a fresh id adds one row, of the bet it is for.
LEMMA CreditFacts ==
    ASSUME Types, NEW b \in Bets, NEW n \in 1..MaxAttempts, ~Recorded(CreditTx(b, n)),
           CreditBalance(CreditRequest(b, n))
    PROVE  /\ ledger' \in [Tx -> LedgerRow]
           /\ ledger'[CreditTx(b, n)].amount = Payout(b, Outcome(b, Current))
           /\ ledger'[CreditTx(b, n)].status = "CONFIRMED"
           /\ \A t \in Tx \ {CreditTx(b, n)} : ledger'[t] = ledger[t]
<1> DEFINE p == Payout(b, Outcome(b, Current))
<1>1. CreditTx(b, n) \in Tx /\ p \in Int
  BY TxFacts, PayoutType
<1>2. ledger' = [ledger EXCEPT ![CreditTx(b, n)] = RowOf(CreditRequest(b, n))]
  BY DEF CreditBalance, CreditRequest
<1>3. RowOf(CreditRequest(b, n)) =
         [user |-> UserOf[b], type |-> "CREDIT", amount |-> p, status |-> "CONFIRMED"]
  BY DEF RowOf, CreditRequest, EntryType, EntryStatus
<1> HIDE DEF p
<1>4. RowOf(CreditRequest(b, n)) \in LedgerRow
  BY <1>1, <1>3, SettlementAssumption DEF LedgerRow, EntryTypes, Statuses
<1>5. ledger'[CreditTx(b, n)].amount = p
  BY <1>1, <1>2, <1>3 DEF Types
<1> QED
  BY <1>1, <1>2, <1>3, <1>4, <1>5 DEF Types, p

\* A confirmation changes one status, and no row appears or goes.
LEMMA ConfirmFacts ==
    ASSUME Types, NEW c \in Bets, ConfirmTransaction(c)
    PROVE  /\ ledger' \in [Tx -> LedgerRow]
           /\ ledger'[c].status = "CONFIRMED" /\ ledger[c].status = "PENDING_CONFIRMATION"
           /\ \A t \in Tx \ {c} : ledger'[t] = ledger[t]
BY TxFacts DEF ConfirmTransaction, Types, LedgerRow, Statuses

\* The credits of a bet, when one is added ...
LEMMA CreditedGrows ==
    ASSUME Types, NEW b \in Bets, NEW n \in 1..MaxAttempts,
           ledger'[CreditTx(b, n)].status = "CONFIRMED",
           \A t \in Tx \ {CreditTx(b, n)} : ledger'[t] = ledger[t]
    PROVE  /\ Credited(b)' = Credited(b) \cup {n}
           /\ \A c \in Bets \ {b} : Credited(c)' = Credited(c)
BY TxFacts, TxDistinct DEF Credited, Recorded

\* ... and when none is: a confirmation concerns a bet's deduction.
LEMMA CreditedKept ==
    ASSUME \A t \in Tx \ Bets : ledger'[t] = ledger[t]
    PROVE  \A b \in Bets : /\ Credited(b)' = Credited(b)
                           /\ \A n \in Credited(b) :
                                 ledger'[CreditTx(b, n)] = ledger[CreditTx(b, n)]
BY TxFacts DEF Credited, Recorded

-----------------------------------------------------------------------------
(***************************************************************************)
(* What is booked stays booked: topics grow, a settlements row keeps its   *)
(* outcome and the ledger its rows.                                        *)
(***************************************************************************)

Grows ==
    /\ \A k \in DOMAIN results : k \in DOMAIN results' /\ results'[k] = results[k]
    /\ \A b \in Bets : settled[b] # "none" => settled'[b] = settled[b]
    /\ \A b \in Bets : \A n \in Credited(b) :
          n \in Credited(b)' /\ ledger'[CreditTx(b, n)] = ledger[CreditTx(b, n)]

LEMMA Lasting ==
    ASSUME Grows, NEW b \in Bets, NEW o
    PROVE  /\ Given(b, o) => Given(b, o)'
           /\ PaidAs(b, o) => PaidAs(b, o)'
           /\ Booked(b, o) => Booked(b, o)'
<1>1. Given(b, o) => Given(b, o)'
  BY DEF Grows, Given, ResultFor, Outcome
<1>2. PaidAs(b, o) => PaidAs(b, o)'
  <2> SUFFICES ASSUME PaidAs(b, o) PROVE PaidAs(b, o)'
    OBVIOUS
  <2>1. PICK n \in Credited(b) : ledger[CreditTx(b, n)].amount = Payout(b, o)
    BY DEF PaidAs
  <2>2. n \in Credited(b)' /\ ledger'[CreditTx(b, n)].amount = Payout(b, o)
    BY <2>1 DEF Grows
  <2> QED
    BY <2>2 DEF PaidAs, CreditTx, Payout
<1> QED
  BY <1>1, <1>2 DEF Grows, Booked

\* So does what a credit and an event say, and what My Bets shows.
LEMMA CreditLasts ==
    ASSUME Grows, NEW b \in Bets, NEW n \in Credited(b), CreditGiven(b, n),
           attempts[b] \in Nat, attempts'[b] \in Nat, attempts[b] <= attempts'[b]
    PROVE  CreditGiven(b, n)'
<1>1. PICK o \in Outcomes : Given(b, o) /\ ledger[CreditTx(b, n)].amount = Payout(b, o)
  BY DEF CreditGiven
<1>2. Given(b, o)' /\ ledger'[CreditTx(b, n)].amount = Payout(b, o)
  BY <1>1, Lasting DEF Grows
<1>3. n <= attempts'[b] /\ settled'[b] # "none"
  BY DEF CreditGiven, Grows, Credited
<1> QED
  BY <1>2, <1>3 DEF CreditGiven, Outcomes, CreditTx, Payout

LEMMA EventsLast ==
    ASSUME Types, Grows, EventsTrue, UNCHANGED settledLog
    PROVE  EventsTrue'
BY Lasting, LogTypes DEF EventsTrue

LEMMA RowsLast ==
    ASSUME Types, Grows, RowsTrue, UNCHANGED history
    PROVE  RowsTrue'
BY Lasting DEF RowsTrue, StatusOf, Outcomes

\* The message at work, and the bets of the job.
LEMMA JobFacts ==
    ASSUME Types, JobProgress
    PROVE  /\ job.todo \subseteq Bets
           /\ job.at \in {"credit", "publish"} => job.bet \in Bets
           /\ results_cg.next \in Nat /\ Len(results) \in Nat
           /\ DOMAIN results = 1..Len(results)
           /\ job.at # "idle" => results_cg.next + 1 \in DOMAIN results
BY DEF Types, SettlementTypeOK, JobProgress, Claim

\* The steps that make no credit and record nothing keep what is booked.
LEMMA BooksKept ==
    ASSUME Types, RecordsGiven, CreditsGiven, EventsTrue, Grows,
           \A b \in Bets : Credited(b)' = Credited(b),
           UNCHANGED <<settled, attempts, settledLog>>
    PROVE  RecordsGiven' /\ CreditsGiven' /\ EventsTrue'
<1>1. RecordsGiven'
  BY Lasting DEF RecordsGiven
<1>2. ASSUME NEW b \in Bets, NEW n \in Credited(b)' PROVE CreditGiven(b, n)'
  <2>1. n \in Credited(b) /\ CreditGiven(b, n) /\ attempts[b] \in Nat
    BY <1>2, SettlementAssumption DEF CreditsGiven, Types, SettlementTypeOK
  <2> QED
    BY <2>1, CreditLasts
<1>3. EventsTrue'
  BY EventsLast
<1> QED
  BY <1>1, <1>2, <1>3 DEF CreditsGiven

\* Bet History does not disturb Settlement: it confirms deductions only.
LEMMA MoneySideKept ==
    ASSUME Types, MoneySide, \A t \in Tx \ Bets : ledger'[t] = ledger[t],
           UNCHANGED <<results, results_cg, settled, job, attempts, settledLog, before>>
    PROVE  MoneySide' /\ Grows
<1>1. \A b \in Bets : /\ Credited(b)' = Credited(b)
                      /\ \A n \in Credited(b) :
                            ledger'[CreditTx(b, n)] = ledger[CreditTx(b, n)]
  BY CreditedKept
<1>2. Grows
  BY <1>1 DEF Grows
<1>3. RecordsGiven' /\ CreditsGiven' /\ EventsTrue'
  BY <1>1, <1>2, BooksKept DEF MoneySide
<1>4. CreditedOnce'
  BY <1>1, JobFacts DEF MoneySide, CreditedOnce
<1>5. JobProgress'
  <2>1. Current' = Current
    BY DEF Current
  <2>2. \A b \in job.todo : ResultFor(b, Current)'
    BY <2>1 DEF MoneySide, JobProgress, ResultFor
  <2>3. job.at = "publish" => PaidAs(job.bet, Outcome(job.bet, Current))'
    <3> SUFFICES ASSUME job.at = "publish" PROVE PaidAs(job.bet, Outcome(job.bet, Current))'
      OBVIOUS
    <3>1. PaidAs(job.bet, Outcome(job.bet, Current)) /\ job.bet \in Bets
      BY JobFacts DEF MoneySide, JobProgress
    <3>2. Outcome(job.bet, Current)' = Outcome(job.bet, Current)
      BY <2>1 DEF Outcome
    <3> DEFINE o == Outcome(job.bet, Current)
    <3>3. PaidAs(job.bet, o)
      BY <3>1
    <3> HIDE DEF o
    <3>4. \E n \in Credited(job.bet) : ledger'[CreditTx(job.bet, n)].amount = Payout(job.bet, o)
      BY <1>1, <3>1, <3>3 DEF PaidAs
    <3>5. \E n \in Credited(job.bet)' : ledger'[CreditTx(job.bet, n)].amount = Payout(job.bet, o)
      BY <1>1, <3>1, <3>4
    <3> QED
      BY <3>2, <3>5 DEF PaidAs, CreditTx, Payout, o
  <2> QED
    BY <2>2, <2>3 DEF MoneySide, JobProgress
<1> QED
  BY <1>2, <1>3, <1>4, <1>5 DEF MoneySide

\* Settlement does not disturb Bet History: its credits have ids of their own.
LEMMA HistorySideKept ==
    ASSUME Types, HistorySide, UNCHANGED historyVars, \A b \in Bets : ledger'[b] = ledger[b]
    PROVE  HistorySide'
<1>1. \A k \in history_cg["placed"].handled : k \in Nat /\ k + 1 \in DOMAIN placedLog
  BY DEF Types, HistoryTypeOK, Claim, Topics, HistorySide, HandledInTopic
<1>2. \A k \in DOMAIN placedLog : placedLog[k].bet \in Bets
  BY LogTypes
<1>3. StakesHeld' /\ ConfirmProgress' /\ ConfirmedIsRecorded' /\ HandledInTopic'
  BY DEF historyVars, HistorySide, StakesHeld, ConfirmProgress, ConfirmedIsRecorded, HandledInTopic
<1>4. (Dispatched("placed") => HandledIsRecorded)'
  BY <1>1, <1>2 DEF historyVars, HistorySide, HandledIsRecorded, Dispatched
<1> QED
  BY <1>3, <1>4 DEF HistorySide

-----------------------------------------------------------------------------
(***************************************************************************)
(* Settlement's steps.                                                     *)
(***************************************************************************)

\* They keep Bet History's side and what My Bets shows.
LEMMA SettlementFrame ==
    ASSUME LifecycleInv, Grows, UNCHANGED historyVars, \A b \in Bets : ledger'[b] = ledger[b]
    PROVE  HistorySide' /\ RowsTrue' /\ HistoryTypeOK'
<1>1. Types /\ HistorySide /\ RowsTrue
  BY DEF LifecycleInv
<1>2. HistorySide'
  BY <1>1, HistorySideKept
<1>3. RowsTrue'
  BY <1>1, RowsLast DEF historyVars
<1>4. HistoryTypeOK'
  BY <1>1 DEF Types, historyVars, HistoryTypeOK
<1> QED
  BY <1>2, <1>3, <1>4

\* The job goes on with bets of the result at work and no call under way.
LEMMA JobGoesOn ==
    ASSUME Types, JobProgress, job.at # "idle", UNCHANGED <<results, results_cg>>,
           job'.at = "record", job'.todo \subseteq job.todo
    PROVE  JobProgress'
<1>1. Current' = Current
  BY DEF Current
<1>2. \A b \in job'.todo : ResultFor(b, Current)'
  BY <1>1 DEF JobProgress, ResultFor
<1> QED
  BY <1>2 DEF JobProgress

\* Rows of pending_bets and messages of the feed arrive.
LEMMA OutsideKeeps == ASSUME LifecycleInv, FromOutside PROVE LifecycleInv'
<1>1. Types /\ MoneySide /\ JobProgress /\ CreditedOnce
  BY DEF LifecycleInv, MoneySide
<1>2. UNCHANGED <<db, results_cg, settled, job, attempts, settledLog, before, faults, historyVars>>
  BY DEF FromOutside, PendingBetArrives, Ingested
<1>3. UNCHANGED ledger /\ \A b \in Bets : Credited(b)' = Credited(b)
  BY <1>2 DEF db, Credited, Recorded
<1>4. CASE \E b \in Bets : PendingBetArrives(b)
  <2>1. UNCHANGED results /\ pending' \subseteq Bets
    BY <1>1, <1>4 DEF PendingBetArrives, Types, SettlementTypeOK
  <2>2. MoneySide' /\ Grows
    BY <1>1, <1>2, <1>3, <2>1, MoneySideKept
  <2>3. HistorySide' /\ RowsTrue' /\ HistoryTypeOK'
    BY <1>2, <1>3, <2>2, SettlementFrame
  <2>4. Types'
    BY <1>1, <1>2, <1>3, <2>1, <2>3 DEF Types, SettlementTypeOK
  <2> QED
    BY <2>2, <2>3, <2>4 DEF LifecycleInv
<1>5. CASE \E m \in Feed : Ingested(m)
  <2>1. PICK m \in Feed : Ingested(m)
    BY <1>5
  <2>2. results \in Seq(Messages) /\ m \in Messages /\ results' = Append(results, m)
        /\ UNCHANGED pending
    BY <1>1, <2>1, LifecycleAssumption DEF Ingested, Types, SettlementTypeOK
  <2>3. /\ results' \in Seq(Messages) /\ Len(results') = Len(results) + 1
        /\ DOMAIN results = 1..Len(results) /\ DOMAIN results' = 1..(Len(results) + 1)
        /\ \A k \in 1..Len(results) : results'[k] = results[k]
    BY <2>2, Appended
  <2>4. Grows
    BY <1>2, <1>3, <1>1, <2>3, JobFacts DEF Grows
  <2>5. HistorySide' /\ RowsTrue' /\ HistoryTypeOK'
    BY <1>2, <1>3, <2>4, SettlementFrame
  <2>6. RecordsGiven' /\ CreditsGiven' /\ EventsTrue'
    BY <1>1, <1>2, <1>3, <2>4, BooksKept DEF MoneySide
  <2>7. CreditedOnce'
    BY <1>1, <1>2, <1>3 DEF CreditedOnce
  <2>8. Types'
    BY <1>1, <1>2, <1>3, <2>2, <2>3, <2>5 DEF Types, SettlementTypeOK
  <2>9. JobProgress'
    <3>1. CASE job.at = "idle"
      BY <1>1, <1>2, <3>1 DEF JobProgress, Idle
    <3>2. CASE job.at # "idle"
      <4>1. results_cg.next + 1 \in 1..Len(results) /\ results_cg.next < Len(results)
        BY <1>1, <3>2, JobFacts DEF JobProgress
      <4>2. Current' = Current /\ results_cg'.next < Len(results')
        BY <1>1, <1>2, <2>3, <4>1, JobFacts DEF Current
      <4>3. \A b \in job.todo : ResultFor(b, Current)'
        BY <1>1, <4>2 DEF JobProgress, ResultFor
      <4>4. job.at = "publish" => PaidAs(job.bet, Outcome(job.bet, Current))'
        <5> SUFFICES ASSUME job.at = "publish" PROVE PaidAs(job.bet, Outcome(job.bet, Current))'
          OBVIOUS
        <5>1. PaidAs(job.bet, Outcome(job.bet, Current)) /\ job.bet \in Bets
          BY <1>1, JobFacts DEF JobProgress
        <5>2. Outcome(job.bet, Current)' = Outcome(job.bet, Current) /\ job' = job /\ ledger' = ledger
              /\ Credited(job.bet)' = Credited(job.bet)
          BY <1>2, <1>3, <4>2, <5>1 DEF Outcome
        <5> QED
          BY <5>1, <5>2 DEF PaidAs, CreditTx, Payout
      <4> QED
        BY <1>1, <1>2, <3>2, <4>2, <4>3, <4>4 DEF JobProgress
    <3> QED
      BY <3>1, <3>2
  <2> QED
    BY <2>5, <2>6, <2>7, <2>8, <2>9 DEF LifecycleInv, MoneySide
<1> QED
  BY <1>4, <1>5 DEF FromOutside

\* The claim's operations keep its type.
LEMMA ClaimTypes ==
    ASSUME NEW c \in Claim
    PROVE  /\ Handled(c) \in Claim /\ HandledUncommitted(c) \in Claim
           /\ Skipped(c) \in Claim /\ Restarted(c) \in Claim
<1>1. c.next \in Nat /\ c.committed \in Nat /\ c.handled \subseteq Nat /\ c.failed \subseteq Nat
  BY DEF Claim
<1>2. Handled(c) \in Claim
  BY <1>1 DEF Claim, Handled
<1>3. HandledUncommitted(c) = [next |-> c.next + 1, committed |-> c.committed,
                               handled |-> c.handled \cup {c.next}, failed |-> c.failed]
  BY DEF Handled, HandledUncommitted
<1>4. Skipped(c) \in Claim
  BY <1>1 DEF Claim, Skipped
<1>5. Restarted(c) = [next |-> c.committed, committed |-> c.committed,
                      handled |-> c.handled, failed |-> c.failed]
  BY DEF Claim, Restarted
<1> QED
  BY <1>1, <1>2, <1>3, <1>4, <1>5 DEF Claim

\* Failures are counted.
LEMMA FaultsCounted ==
    ASSUME faults \in Nat, NEW kind, Fails(kind) \/ UNCHANGED faults
    PROVE  faults' \in Nat /\ faults <= faults'
BY DEF Fails

\* The step between two results: a result is taken up, skipped, or finished.
LEMMA ResultKeeps ==
    ASSUME LifecycleInv, HandleResult \/ CommitResult \/ SettlementRestarts, UNCHANGED historyVars
    PROVE  LifecycleInv'
<1>1. Types /\ MoneySide /\ JobProgress /\ CreditedOnce
  BY DEF LifecycleInv, MoneySide
<1>2. UNCHANGED <<db, results, pending, settled, attempts, settledLog>>
  BY DEF HandleResult, CommitResult, SettlementRestarts
<1>3. UNCHANGED ledger /\ \A b \in Bets : Credited(b)' = Credited(b)
  BY <1>2 DEF db, Credited, Recorded
<1>4. Grows
  BY <1>2, <1>3 DEF Grows
<1>5. HistorySide' /\ RowsTrue' /\ HistoryTypeOK'
  BY <1>2, <1>3, <1>4, SettlementFrame DEF db
<1>6. RecordsGiven' /\ CreditsGiven' /\ EventsTrue'
  BY <1>1, <1>2, <1>3, <1>4, BooksKept DEF MoneySide
<1>7. faults' \in Nat /\ results_cg' \in Claim
  <2>1. faults \in Nat /\ results_cg \in Claim
    BY <1>1 DEF Types, SettlementTypeOK
  <2> QED
    BY <2>1, ClaimTypes, FaultsCounted DEF HandleResult, CommitResult, SettlementRestarts
<1>8. CASE job' = Idle
  <2>1. JobProgress' /\ job' \in [at : {"idle"}, todo : SUBSET Bets, bet : {NoBet}]
    BY <1>8 DEF Idle, JobProgress
  <2>2. before' \in [Bets -> SUBSET (1..MaxAttempts)] /\ CreditedOnce'
    <3>1. CASE UNCHANGED before
      BY <1>1, <1>3, <1>8, <3>1 DEF Types, SettlementTypeOK, CreditedOnce, Idle
    <3>2. CASE before' = [b \in Bets |-> Credited(b)]
      BY <1>3, <1>8, <3>2 DEF Credited, CreditedOnce, Idle
    <3> QED
      BY <3>1, <3>2 DEF HandleResult, CommitResult, SettlementRestarts
  <2>3. Types'
    BY <1>1, <1>2, <1>3, <1>5, <1>7, <2>1, <2>2 DEF Types, SettlementTypeOK
  <2> QED
    BY <1>5, <1>6, <2>1, <2>2, <2>3 DEF LifecycleInv, MoneySide
<1>9. CASE job' # Idle
  <2>1. HandleResult
    BY <1>9 DEF CommitResult, SettlementRestarts
  <2>2. job = Idle /\ results_cg.next < Len(results)
    BY <1>1, <2>1 DEF HandleResult, JobProgress
  <2>3. /\ UNCHANGED results_cg /\ before' = [b \in Bets |-> Credited(b)]
        /\ job' = [at |-> "record", bet |-> NoBet, todo |-> {b \in pending : ResultFor(b, Current)}]
    BY <1>9, <2>1, <2>2 DEF HandleResult
  <2>4. Current' = Current /\ pending \subseteq Bets
    BY <1>1, <1>2, <2>3 DEF Current, Types, SettlementTypeOK
  <2>5. job' \in [at : {"record"}, todo : SUBSET Bets, bet : {NoBet}]
    BY <2>3, <2>4
  <2>6. \A b \in job'.todo : ResultFor(b, Current)'
    BY <2>3, <2>4 DEF ResultFor
  <2>7. JobProgress'
    BY <1>2, <2>2, <2>3, <2>5, <2>6 DEF JobProgress
  <2>8. before' \in [Bets -> SUBSET (1..MaxAttempts)] /\ CreditedOnce'
    BY <1>3, <2>3 DEF Credited, CreditedOnce
  <2>9. Types'
    BY <1>1, <1>2, <1>3, <1>5, <1>7, <2>5, <2>8 DEF Types, SettlementTypeOK
  <2> QED
    BY <1>5, <1>6, <2>7, <2>8, <2>9 DEF LifecycleInv, MoneySide
<1> QED
  BY <1>8, <1>9

\* The record of a bet: the first outcome stays, and a result gave it.
LEMMA RecordKeeps ==
    ASSUME LifecycleInv, NEW b \in Bets, RecordSettlement(b), UNCHANGED historyVars
    PROVE  LifecycleInv'
<1>1. Types /\ MoneySide /\ JobProgress /\ CreditedOnce /\ RecordsGiven /\ CreditsGiven /\ EventsTrue
  BY DEF LifecycleInv, MoneySide
<1>2. UNCHANGED <<db, results, results_cg, pending, attempts, settledLog, before>>
      /\ job.at = "record" /\ b \in job.todo
  BY DEF RecordSettlement
<1>3. UNCHANGED ledger /\ \A c \in Bets : Credited(c)' = Credited(c)
  BY <1>2 DEF db, Credited, Recorded
<1>4. Given(b, Outcome(b, Current)) /\ Outcome(b, Current) \in Outcomes
  <2>1. results_cg.next + 1 \in DOMAIN results /\ ResultFor(b, Current)
    BY <1>1, <1>2, JobFacts DEF JobProgress
  <2> QED
    BY <2>1, OutcomeType DEF Given, Current
<1>5. /\ settled' \in [Bets -> Outcomes \cup {"none"}]
      /\ \A c \in Bets : settled'[c] = settled[c]
                         \/ (c = b /\ settled[c] = "none" /\ settled'[c] = Outcome(b, Current))
      /\ InsertSettlement(b) => settled'[b] # "none"
  <2>1. settled \in [Bets -> Outcomes \cup {"none"}] /\ Outcome(b, Current) # "none"
    BY <1>1, <1>4 DEF Types, SettlementTypeOK, Outcomes
  <2>2. InsertSettlement(b) \/ UNCHANGED settled
    BY DEF RecordSettlement
  <2> QED
    BY <1>4, <2>1, <2>2 DEF InsertSettlement
<1>6. Grows
  BY <1>2, <1>3, <1>5 DEF Grows
<1>7. HistorySide' /\ RowsTrue' /\ HistoryTypeOK'
  BY <1>3, <1>6, SettlementFrame
<1>8. RecordsGiven'
  <2>1. ASSUME NEW c \in Bets, settled'[c] # "none" PROVE Given(c, settled'[c])
    BY <1>1, <1>4, <1>5, <2>1 DEF RecordsGiven
  <2> QED
    BY <1>2, <2>1 DEF RecordsGiven, Given, ResultFor, Outcome
<1>9. CreditsGiven'
  <2>1. ASSUME NEW c \in Bets, NEW n \in Credited(c)' PROVE CreditGiven(c, n)'
    <3>1. n \in Credited(c) /\ CreditGiven(c, n) /\ attempts[c] \in Nat
      BY <1>1, <1>3, <2>1, SettlementAssumption DEF CreditsGiven, Types, SettlementTypeOK
    <3> QED
      BY <1>2, <1>6, <3>1, CreditLasts
  <2> QED
    BY <2>1 DEF CreditsGiven
<1>10. EventsTrue'
  BY <1>1, <1>2, <1>6, EventsLast
<1>11. job \in [at : {"idle", "record", "credit", "publish"}, todo : SUBSET Bets, bet : Bets \cup {NoBet}]
  BY <1>1 DEF Types, SettlementTypeOK
<1>12. CASE InsertSettlement(b) /\ job' = [job EXCEPT !.at = "credit", !.bet = b] /\ UNCHANGED faults
  <2>1. job'.at = "credit" /\ job'.todo = job.todo /\ job'.bet = b
        /\ job' \in [at : {"credit"}, todo : SUBSET Bets, bet : Bets]
    BY <1>11, <1>12
  <2>2. JobProgress'
    <3>1. Current' = Current
      BY <1>2 DEF Current
    <3>2. \A c \in job'.todo : ResultFor(c, Current)'
      BY <1>1, <2>1, <3>1 DEF JobProgress, ResultFor
    <3> QED
      BY <1>1, <1>2, <1>5, <1>12, <2>1, <3>2 DEF JobProgress
  <2>3. CreditedOnce'
    BY <1>1, <1>2, <1>3, <2>1 DEF CreditedOnce
  <2>4. Types'
    BY <1>1, <1>2, <1>3, <1>5, <1>7, <1>12, <2>1 DEF Types, SettlementTypeOK
  <2> QED
    BY <1>7, <1>8, <1>9, <1>10, <2>2, <2>3, <2>4 DEF LifecycleInv, MoneySide
<1>13. CASE Fails("db") /\ NextBet(b)
  <2>1. job'.at = "record" /\ job'.todo \subseteq job.todo
        /\ job' \in [at : {"record"}, todo : SUBSET Bets, bet : {NoBet}]
    BY <1>11, <1>13 DEF NextBet
  <2>2. JobProgress'
    BY <1>1, <1>2, <2>1, JobGoesOn
  <2>3. CreditedOnce'
    BY <1>1, <1>2, <1>3, <2>1 DEF CreditedOnce
  <2>4. faults' \in Nat
    BY <1>1, <1>13, FaultsCounted DEF Types
  <2>5. Types'
    BY <1>1, <1>2, <1>3, <1>5, <1>7, <2>1, <2>4 DEF Types, SettlementTypeOK
  <2> QED
    BY <1>7, <1>8, <1>9, <1>10, <2>2, <2>3, <2>5 DEF LifecycleInv, MoneySide
<1> QED
  BY <1>12, <1>13 DEF RecordSettlement

\* The call of CreditBalance takes effect: its id is fresh, it comes after the record,
\* and it is the delivery's first for the bet.
LEMMA CreditKeeps ==
    ASSUME LifecycleInv, NEW b \in Bets, Credit(b), UNCHANGED historyVars
    PROVE  LifecycleInv'
<1>1. Types /\ MoneySide /\ JobProgress /\ CreditedOnce /\ RecordsGiven /\ CreditsGiven /\ EventsTrue
  BY DEF LifecycleInv, MoneySide
<1>2. UNCHANGED <<results, results_cg, pending, settled, settledLog, before>>
      /\ job.at = "credit" /\ job.bet = b /\ attempts[b] < MaxAttempts
      /\ attempts' = [attempts EXCEPT ![b] = attempts[b] + 1]
  BY DEF Credit
<1>3. PICK n \in 1..MaxAttempts, o \in Outcomes :
      /\ attempts' \in [Bets -> 0..MaxAttempts]
      /\ n = attempts[b] + 1 /\ attempts'[b] = n /\ o = Outcome(b, Current)
      /\ \A c \in Bets : attempts[c] \in Nat /\ attempts'[c] \in Nat /\ attempts[c] <= attempts'[c]
  <2>1. MaxAttempts \in Nat /\ attempts \in [Bets -> 0..MaxAttempts] /\ Outcome(b, Current) \in Outcomes
    BY <1>1, SettlementAssumption, OutcomeType DEF Types, SettlementTypeOK
  <2>2. attempts[b] + 1 \in 1..MaxAttempts
    BY <1>2, <2>1
  <2>3. attempts' \in [Bets -> 0..MaxAttempts] /\ attempts'[b] = attempts[b] + 1
    BY <1>2, <2>1, <2>2
  <2>4. \A c \in Bets : attempts[c] \in Nat /\ attempts'[c] \in Nat /\ attempts[c] <= attempts'[c]
    BY <1>2, <2>1, <2>3
  <2> QED
    BY <2>1, <2>2, <2>3, <2>4
<1>4. b \in job.todo /\ settled[b] # "none" /\ o \in Outcomes /\ Given(b, o)
  <2>1. b \in job.todo /\ settled[b] # "none"
        /\ results_cg.next + 1 \in DOMAIN results /\ ResultFor(b, Current)
    BY <1>1, <1>2, JobFacts DEF JobProgress
  <2> QED
    BY <1>3, <2>1 DEF Given, Current
<1>5. ~Recorded(CreditTx(b, n)) /\ n \notin Credited(b)
  <2>1. n \notin Credited(b)
    BY <1>1, <1>3 DEF CreditsGiven, CreditGiven
  <2> QED
    BY <1>3, <2>1 DEF Credited
<1>6. CreditBalance(CreditRequest(b, n))
  BY <1>3 DEF Credit
<1>7. /\ ledger' \in [Tx -> LedgerRow]
      /\ ledger'[CreditTx(b, n)].amount = Payout(b, o)
      /\ ledger'[CreditTx(b, n)].status = "CONFIRMED"
      /\ \A t \in Tx \ {CreditTx(b, n)} : ledger'[t] = ledger[t]
  BY <1>1, <1>3, <1>5, <1>6, CreditFacts
<1>8. /\ Credited(b)' = Credited(b) \cup {n}
      /\ \A c \in Bets \ {b} : Credited(c)' = Credited(c)
  BY <1>1, <1>3, <1>7, CreditedGrows
<1>9. \A c \in Bets : ledger'[c] = ledger[c]
  BY <1>3, <1>7, TxFacts
<1>10. Grows
  <2>1. ASSUME NEW c \in Bets, NEW m \in Credited(c)
        PROVE  m \in Credited(c)' /\ ledger'[CreditTx(c, m)] = ledger[CreditTx(c, m)]
    <3>1. m \in 1..MaxAttempts /\ ~(c = b /\ m = n)
      BY <1>5, <2>1 DEF Credited
    <3>2. CreditTx(c, m) \in Tx \ {CreditTx(b, n)}
      BY <1>3, <3>1, TxFacts, TxDistinct
    <3> QED
      BY <1>7, <1>8, <2>1, <3>2
  <2> QED
    BY <1>2, <2>1 DEF Grows
<1>11. HistorySide' /\ RowsTrue' /\ HistoryTypeOK'
  BY <1>9, <1>10, SettlementFrame
<1>12. RecordsGiven' /\ EventsTrue'
  BY <1>1, <1>2, <1>10, EventsLast, Lasting DEF RecordsGiven
<1>13. Given(b, o)' /\ PaidAs(b, o)'
  <2>1. n \in Credited(b)' /\ ledger'[CreditTx(b, n)].amount = Payout(b, o)
    BY <1>7, <1>8
  <2>2. PaidAs(b, o)'
    BY <2>1 DEF PaidAs, CreditTx, Payout
  <2> QED
    BY <1>4, <1>10, <2>2, Lasting
<1>14. CreditsGiven'
  <2>1. CreditGiven(b, n)'
    BY <1>2, <1>3, <1>4, <1>7, <1>13 DEF CreditGiven, CreditTx, Payout, Outcomes
  <2>2. ASSUME NEW c \in Bets, NEW m \in Credited(c)' PROVE CreditGiven(c, m)'
    <3>1. CASE m \in Credited(c)
      BY <1>1, <1>3, <1>10, <3>1, CreditLasts DEF CreditsGiven
    <3>2. CASE m \notin Credited(c)
      BY <1>8, <2>1, <2>2, <3>2
    <3> QED
      BY <3>1, <3>2
  <2> QED
    BY <2>2 DEF CreditsGiven
<1>15. job \in [at : {"idle", "record", "credit", "publish"}, todo : SUBSET Bets, bet : Bets \cup {NoBet}]
  BY <1>1 DEF Types, SettlementTypeOK
<1>16. Credited(b) \subseteq before[b]
  BY <1>1, <1>2, <1>4 DEF CreditedOnce
<1>17. faults' \in Nat
  BY <1>1, FaultsCounted DEF Types, Credit
<1>18. CASE job' = [job EXCEPT !.at = "publish"]
  <2>1. job'.at = "publish" /\ job'.todo = job.todo /\ job'.bet = b
        /\ job' \in [at : {"publish"}, todo : SUBSET Bets, bet : Bets]
    BY <1>2, <1>15, <1>18
  <2>2. JobProgress'
    <3>1. Current' = Current
      BY <1>2 DEF Current
    <3>2. \A c \in job'.todo : ResultFor(c, Current)'
      BY <1>1, <2>1, <3>1 DEF JobProgress, ResultFor
    <3>3. PaidAs(job.bet, Outcome(job.bet, Current))'
      <4>1. job'.bet = b /\ Outcome(b, Current') = o
        BY <1>3, <2>1, <3>1
      <4> QED
        BY <1>13, <4>1 DEF PaidAs, Outcome, CreditTx, Payout, Credited, Recorded
    <3> QED
      BY <1>1, <1>2, <1>4, <2>1, <3>2, <3>3 DEF JobProgress
  <2>3. CreditedOnce'
    BY <1>1, <1>2, <1>8, <1>16, <2>1 DEF CreditedOnce
  <2>4. Types'
    BY <1>1, <1>2, <1>3, <1>7, <1>11, <1>17, <2>1 DEF Types, SettlementTypeOK
  <2> QED
    BY <1>11, <1>12, <1>14, <2>2, <2>3, <2>4 DEF LifecycleInv, MoneySide
<1>19. CASE NextBet(b)
  <2>1. job'.at = "record" /\ job'.todo = job.todo \ {b}
        /\ job' \in [at : {"record"}, todo : SUBSET Bets, bet : {NoBet}]
    BY <1>15, <1>19 DEF NextBet
  <2>2. JobProgress'
    BY <1>1, <1>2, <2>1, JobGoesOn
  <2>3. CreditedOnce'
    BY <1>1, <1>2, <1>8, <1>16, <2>1 DEF CreditedOnce
  <2>4. Types'
    BY <1>1, <1>2, <1>3, <1>7, <1>11, <1>17, <2>1 DEF Types, SettlementTypeOK
  <2> QED
    BY <1>11, <1>12, <1>14, <2>2, <2>3, <2>4 DEF LifecycleInv, MoneySide
<1> QED
  BY <1>18, <1>19 DEF Credit

\* The call is refused or does not arrive.
LEMMA CreditFailKeeps ==
    ASSUME LifecycleInv, NEW b \in Bets, CreditFails(b), UNCHANGED historyVars
    PROVE  LifecycleInv'
<1>1. Types /\ MoneySide /\ JobProgress /\ CreditedOnce /\ RecordsGiven /\ CreditsGiven /\ EventsTrue
  BY DEF LifecycleInv, MoneySide
<1>2. UNCHANGED <<db, results, results_cg, pending, settled, settledLog, before>>
      /\ job.at = "credit" /\ job.bet = b /\ attempts[b] < MaxAttempts
      /\ attempts' = [attempts EXCEPT ![b] = attempts[b] + 1]
  BY DEF CreditFails
<1>3. attempts' \in [Bets -> 0..MaxAttempts]
      /\ \A c \in Bets : attempts[c] \in Nat /\ attempts'[c] \in Nat /\ attempts[c] <= attempts'[c]
  <2>1. MaxAttempts \in Nat /\ attempts \in [Bets -> 0..MaxAttempts]
    BY <1>1, SettlementAssumption DEF Types, SettlementTypeOK
  <2>2. attempts' \in [Bets -> 0..MaxAttempts]
    BY <1>2, <2>1
  <2> QED
    BY <1>2, <2>1, <2>2
<1>4. UNCHANGED ledger /\ \A c \in Bets : Credited(c)' = Credited(c)
  BY <1>2 DEF db, Credited, Recorded
<1>5. Grows
  BY <1>2, <1>4 DEF Grows
<1>6. HistorySide' /\ RowsTrue' /\ HistoryTypeOK'
  BY <1>4, <1>5, SettlementFrame
<1>7. RecordsGiven' /\ EventsTrue'
  BY <1>1, <1>2, <1>5, EventsLast, Lasting DEF RecordsGiven
<1>8. CreditsGiven'
  <2>1. ASSUME NEW c \in Bets, NEW m \in Credited(c)' PROVE CreditGiven(c, m)'
    BY <1>1, <1>3, <1>4, <1>5, <2>1, CreditLasts DEF CreditsGiven
  <2> QED
    BY <2>1 DEF CreditsGiven
<1>9. job'.at = "record" /\ job'.todo \subseteq job.todo
      /\ job' \in [at : {"record"}, todo : SUBSET Bets, bet : {NoBet}]
  BY <1>1 DEF CreditFails, NextBet, Types, SettlementTypeOK
<1>10. JobProgress'
  BY <1>1, <1>2, <1>9, JobGoesOn
<1>11. CreditedOnce'
  BY <1>1, <1>2, <1>4, <1>9 DEF CreditedOnce
<1>12. faults' \in Nat
  BY <1>1, FaultsCounted DEF Types, CreditFails
<1>13. Types'
  BY <1>1, <1>2, <1>3, <1>4, <1>6, <1>9, <1>12 DEF Types, SettlementTypeOK
<1> QED
  BY <1>6, <1>7, <1>8, <1>10, <1>11, <1>13 DEF LifecycleInv, MoneySide

\* bet.settled is published for a bet that is recorded and credited.
LEMMA PublishKeeps ==
    ASSUME LifecycleInv, NEW b \in Bets, PublishSettled(b), UNCHANGED historyVars
    PROVE  LifecycleInv'
<1>1. Types /\ MoneySide /\ JobProgress /\ CreditedOnce /\ RecordsGiven /\ CreditsGiven /\ EventsTrue
  BY DEF LifecycleInv, MoneySide
<1>2. UNCHANGED <<db, results, results_cg, pending, settled, attempts, before>>
      /\ job.at = "publish" /\ job.bet = b
  BY DEF PublishSettled
<1>3. UNCHANGED ledger /\ \A c \in Bets : Credited(c)' = Credited(c)
  BY <1>2 DEF db, Credited, Recorded
<1>4. Grows
  BY <1>2, <1>3 DEF Grows
<1>5. HistorySide' /\ RowsTrue' /\ HistoryTypeOK'
  BY <1>3, <1>4, SettlementFrame
<1>6. Booked(b, Outcome(b, Current)) /\ Outcome(b, Current) \in Outcomes
  <2>1. results_cg.next + 1 \in DOMAIN results /\ ResultFor(b, Current)
        /\ settled[b] # "none" /\ PaidAs(b, Outcome(b, Current))
    BY <1>1, <1>2, JobFacts DEF JobProgress
  <2> QED
    BY <2>1, OutcomeType DEF Booked, Given, Current
<1> DEFINE e == [bet |-> b, outcome |-> Outcome(b, Current)]
           S == [bet : Bets, outcome : Outcomes]
<1>7. settledLog \in Seq(S) /\ e \in S /\ e.bet = b /\ e.outcome = Outcome(b, Current)
  BY <1>1, <1>6 DEF Types, SettlementTypeOK
<1>8. settledLog' = Append(settledLog, e) \/ UNCHANGED settledLog
  BY DEF PublishSettled
<1> HIDE DEF e, S
<1>9. settledLog' \in Seq(S)
  BY <1>7, <1>8, Appended
<1>10. \A k \in DOMAIN settledLog' : (k \in DOMAIN settledLog /\ settledLog'[k] = settledLog[k])
                                    \/ settledLog'[k] = e
  BY <1>7, <1>8, Appended
<1>11. EventsTrue'
  <2>1. ASSUME NEW k \in DOMAIN settledLog'
        PROVE  settledLog'[k].bet \in Bets /\ Booked(settledLog'[k].bet, settledLog'[k].outcome)
    <3>1. CASE settledLog'[k] = e
      BY <1>6, <1>7, <3>1
    <3>2. CASE k \in DOMAIN settledLog /\ settledLog'[k] = settledLog[k]
      BY <1>1, <3>2, LogTypes DEF EventsTrue
    <3> QED
      BY <1>10, <2>1, <3>1, <3>2
  <2>2. ASSUME NEW k \in DOMAIN settledLog'
        PROVE  Booked(settledLog[k].bet, settledLog[k].outcome)'
    <3> DEFINE c == settledLog'[k].bet
               o == settledLog'[k].outcome
    <3>1. c \in Bets /\ Booked(c, o)
      BY <2>1, <2>2
    <3> HIDE DEF c, o
    <3>2. Given(c, o) /\ settled[c] # "none" /\ PaidAs(c, o)
      BY <3>1 DEF Booked
    <3>3. Given(settledLog[k].bet, settledLog[k].outcome)'
      BY <1>2, <3>2 DEF Given, ResultFor, Outcome, c, o
    <3>4. PaidAs(settledLog[k].bet, settledLog[k].outcome)'
      BY <1>2, <1>3, <3>2 DEF PaidAs, Credited, Recorded, CreditTx, Payout, c, o
    <3> QED
      BY <1>2, <3>2, <3>3, <3>4 DEF Booked, c
  <2> QED
    BY <2>2 DEF EventsTrue
<1>12. RecordsGiven'
  BY <1>1, <1>2, <1>4, Lasting DEF RecordsGiven
<1>13. CreditsGiven'
  <2>1. ASSUME NEW c \in Bets, NEW n \in Credited(c)' PROVE CreditGiven(c, n)'
    <3>1. n \in Credited(c) /\ CreditGiven(c, n) /\ attempts[c] \in Nat
      BY <1>1, <1>3, <2>1, SettlementAssumption DEF CreditsGiven, Types, SettlementTypeOK
    <3> QED
      BY <1>2, <1>4, <3>1, CreditLasts
  <2> QED
    BY <2>1 DEF CreditsGiven
<1>14. job'.at = "record" /\ job'.todo = job.todo \ {b}
      /\ job' \in [at : {"record"}, todo : SUBSET Bets, bet : {NoBet}]
  BY <1>1 DEF PublishSettled, NextBet, Types, SettlementTypeOK
<1>15. JobProgress'
  BY <1>1, <1>2, <1>14, JobGoesOn
<1>16. CreditedOnce'
  BY <1>1, <1>2, <1>3, <1>14 DEF CreditedOnce
<1>17. faults' \in Nat
  BY <1>1, FaultsCounted DEF Types, PublishSettled
<1>18. Types'
  BY <1>1, <1>2, <1>3, <1>5, <1>9, <1>14, <1>17 DEF Types, SettlementTypeOK, S
<1> QED
  BY <1>5, <1>11, <1>12, <1>13, <1>15, <1>16, <1>18 DEF LifecycleInv, MoneySide

-----------------------------------------------------------------------------
(***************************************************************************)
(* Bet History's steps.                                                    *)
(***************************************************************************)

\* Steps that leave Settlement alone and touch deductions only.
LEMMA HistoryFrame ==
    ASSUME LifecycleInv, UNCHANGED settlement, \A t \in Tx \ Bets : ledger'[t] = ledger[t]
    PROVE  MoneySide' /\ SettlementTypeOK' /\ Grows
<1>1. Types /\ MoneySide
  BY DEF LifecycleInv
<1>2. MoneySide' /\ Grows
  BY <1>1, MoneySideKept DEF settlement
<1>3. SettlementTypeOK'
  BY <1>1 DEF Types, settlement, SettlementTypeOK
<1> QED
  BY <1>2, <1>3

\* Messages arrive in bet-placed and bet-voided.
LEMMA ArrivalKeeps == ASSUME LifecycleInv, Arrives PROVE LifecycleInv'
<1>1. Types /\ HistoryTypeOK /\ HistorySide /\ RowsTrue
  BY DEF LifecycleInv, Types
<1>2. UNCHANGED <<db, settlement, faults, history, history_cg, confirming>>
  BY DEF Arrives, BetPlacedSent, BetVoidedSent
<1>3. MoneySide' /\ SettlementTypeOK' /\ UNCHANGED ledger /\ RowsTrue'
  BY <1>1, <1>2, HistoryFrame, RowsLast DEF db
<1>4. placedLog \in Seq([bet : Bets, header : BOOLEAN]) /\ voidedLog \in Seq(Bets)
  BY <1>1 DEF HistoryTypeOK
<1>5. /\ placedLog' \in Seq([bet : Bets, header : BOOLEAN]) /\ voidedLog' \in Seq(Bets)
      /\ Len(placedLog) <= Len(placedLog')
      /\ \A k \in 1..Len(placedLog) : placedLog'[k] = placedLog[k]
  <2>1. CASE \E b \in Bets, h \in Headers : BetPlacedSent(b, h)
    <3>1. PICK b \in Bets, h \in Headers : BetPlacedSent(b, h)
      BY <2>1
    <3>2. [bet |-> b, header |-> h] \in [bet : Bets, header : BOOLEAN]
      BY LifecycleAssumption
    <3> QED
      BY <1>4, <3>1, <3>2 DEF BetPlacedSent
  <2>2. CASE \E b \in Bets : BetVoidedSent(b)
    BY <1>4, <2>2 DEF BetVoidedSent
  <2> QED
    BY <2>1, <2>2 DEF Arrives
<1>6. history_cg["placed"].next \in Nat /\ history_cg["placed"].handled \subseteq Nat
  BY <1>1 DEF HistoryTypeOK, Topics, Claim
<1>7. StakesHeld' /\ ConfirmedIsRecorded'
  BY <1>1, <1>2, <1>3 DEF HistorySide, StakesHeld, ConfirmedIsRecorded
<1>8. ConfirmProgress' /\ HandledInTopic'
  <2>1. Len(placedLog) \in Nat /\ Len(placedLog') \in Nat
    BY <1>4, <1>5
  <2>2. HandledInTopic'
    BY <1>1, <1>2, <1>5, <1>6, <2>1 DEF HistorySide, HandledInTopic
  <2>3. ASSUME confirming # NoBet
        PROVE  /\ history_cg["placed"].next < Len(placedLog')
               /\ placedLog'[history_cg["placed"].next + 1].bet = confirming
               /\ history[confirming] # "none"
    <3>1. /\ history_cg["placed"].next < Len(placedLog)
          /\ placedLog[history_cg["placed"].next + 1].bet = confirming
          /\ history[confirming] # "none"
      BY <1>1, <2>3 DEF HistorySide, ConfirmProgress
    <3>2. history_cg["placed"].next + 1 \in 1..Len(placedLog)
      BY <1>6, <2>1, <3>1
    <3> QED
      BY <1>5, <1>6, <2>1, <3>1, <3>2
  <2>4. ConfirmProgress'
    BY <1>2, <2>3 DEF ConfirmProgress
  <2> QED
    BY <2>2, <2>4
<1>9. (Dispatched("placed") => HandledIsRecorded)'
  <2>1. \A k \in history_cg["placed"].handled : k + 1 \in 1..Len(placedLog)
    BY <1>1, <1>4, <1>6 DEF HistorySide, HandledInTopic
  <2> QED
    BY <1>1, <1>2, <1>3, <1>5, <2>1 DEF HistorySide, HandledIsRecorded, Dispatched
<1>10. Types'
  BY <1>1, <1>2, <1>3, <1>5 DEF Types, HistoryTypeOK
<1> QED
  BY <1>3, <1>7, <1>8, <1>9, <1>10 DEF LifecycleInv, HistorySide

\* A handler returns: its claim moves on, and only a nil makes the message handled.
LEMMA ReturnFacts ==
    ASSUME Types, NEW t \in Topics, NEW kind, Succeeds(t) \/ Errs(t, kind)
    PROVE  /\ history_cg' \in [Topics -> Claim] /\ faults' \in Nat
           /\ \A u \in Topics \ {t} : history_cg'[u] = history_cg[u]
           /\ history_cg'[t].handled \subseteq history_cg[t].handled \cup {history_cg[t].next}
           /\ Errs(t, kind) => history_cg'[t].handled = history_cg[t].handled
<1>1. history_cg \in [Topics -> Claim] /\ history_cg[t] \in Claim /\ faults \in Nat
  BY DEF Types, HistoryTypeOK
<1> DEFINE c == history_cg[t]
<1>2. /\ Handled(c) \in Claim /\ HandledUncommitted(c) \in Claim /\ Skipped(c) \in Claim
      /\ Handled(c).handled = c.handled \cup {c.next}
      /\ HandledUncommitted(c).handled = c.handled \cup {c.next}
      /\ Skipped(c).handled = c.handled
  BY <1>1, ClaimTypes DEF Handled, HandledUncommitted, Skipped
<1>3. faults' \in Nat
  BY <1>1, FaultsCounted DEF Succeeds, Errs
<1>4. PICK d \in {Handled(c), HandledUncommitted(c), Skipped(c)} : history_cg' = [history_cg EXCEPT ![t] = d]
  BY DEF Succeeds, Errs, Returns
<1>5. history_cg' \in [Topics -> Claim] /\ history_cg'[t] = d
      /\ \A u \in Topics \ {t} : history_cg'[u] = history_cg[u]
  BY <1>1, <1>2, <1>4
<1>6. Errs(t, kind) => history_cg'[t] = Skipped(c)
  BY <1>1 DEF Errs, Returns
<1> QED
  BY <1>2, <1>3, <1>5, <1>6

\* What a step of Bet History may do: to the values and the ledger ...
TypedMove ==
    /\ UNCHANGED <<settlement, placedLog, voidedLog>>
    /\ ledger' \in [Tx -> LedgerRow]
    /\ history' \in [Bets -> {"none", "PLACED", "SETTLED_WIN", "SETTLED_LOSS", "VOID"}]
    /\ history_cg' \in [Topics -> Claim] /\ confirming' \in Bets \cup {NoBet} /\ faults' \in Nat

LedgerMove ==
    /\ \A t \in Tx \ Bets : ledger'[t] = ledger[t]
    /\ \A b \in Bets : ledger'[b] = ledger[b]
                      \/ (ledger'[b].status = "CONFIRMED" /\ history[b] # "none")

\* ... to the rows of My Bets ...
RowsMove ==
    /\ \A b \in Bets : history[b] # "none" => history'[b] # "none"
    /\ \A b \in Bets, o \in Outcomes :
          history'[b] = StatusOf[o] => history[b] = StatusOf[o] \/ Booked(b, o)

\* ... and to the claim on bet-placed.
HandledMove ==
    \A k \in history_cg'["placed"].handled :
        \/ k \in history_cg["placed"].handled
        \/ /\ k < Len(placedLog)
           /\ Dispatched("placed") => history'[placedLog[k + 1].bet] # "none"
           /\ Dispatched("placed") /\ placedLog[k + 1].header =>
                 ledger'[placedLog[k + 1].bet].status = "CONFIRMED"

LEMMA HistoryKeeps ==
    ASSUME LifecycleInv, TypedMove, LedgerMove, RowsMove, HandledMove, ConfirmProgress'
    PROVE  LifecycleInv'
<1>1. Types /\ HistoryTypeOK /\ MoneySide /\ HistorySide /\ RowsTrue
  BY DEF LifecycleInv, Types
<1>2. MoneySide' /\ SettlementTypeOK' /\ Grows
  BY HistoryFrame DEF TypedMove, LedgerMove
<1>3. \A b \in Bets, o \in Outcomes : history'[b] = StatusOf[o] => Booked(b, o)
  BY <1>1 DEF RowsTrue, RowsMove
<1>4. RowsTrue'
  BY <1>2, <1>3, Lasting DEF RowsTrue, StatusOf, Outcomes
<1>5. StakesHeld' /\ ConfirmedIsRecorded'
  BY <1>1 DEF HistorySide, StakesHeld, ConfirmedIsRecorded, LedgerMove, RowsMove
<1>6. HandledInTopic'
  BY <1>1 DEF HistorySide, HandledInTopic, HandledMove, TypedMove
<1>7. ASSUME Dispatched("placed"), NEW k \in history_cg'["placed"].handled
      PROVE  LET e == placedLog[k + 1]
             IN history'[e.bet] # "none" /\ (e.header => ledger'[e.bet].status = "CONFIRMED")
  <2>1. CASE k \in history_cg["placed"].handled
    <3>1. k \in Nat /\ k + 1 \in DOMAIN placedLog
      BY <1>1, <2>1 DEF HistoryTypeOK, Claim, Topics, HistorySide, HandledInTopic
    <3>2. placedLog[k + 1].bet \in Bets
      BY <1>1, <3>1, LogTypes
    <3>3. /\ history[placedLog[k + 1].bet] # "none"
          /\ placedLog[k + 1].header => ledger[placedLog[k + 1].bet].status = "CONFIRMED"
      BY <1>1, <1>7, <2>1 DEF HistorySide, HandledIsRecorded
    <3> QED
      BY <3>2, <3>3 DEF LedgerMove, RowsMove
  <2>2. CASE k \notin history_cg["placed"].handled
    BY <1>7, <2>2 DEF HandledMove
  <2> QED
    BY <2>1, <2>2
<1>8. (Dispatched("placed") => HandledIsRecorded)'
  BY <1>7 DEF HandledIsRecorded, Dispatched, TypedMove
<1>9. Types'
  BY <1>1, <1>2 DEF Types, HistoryTypeOK, TypedMove
<1> QED
  BY <1>2, <1>4, <1>5, <1>6, <1>8, <1>9 DEF LifecycleInv, HistorySide

\* A topic whose name is no case of the switch: the message is marked.
LEMMA UndispatchedKeeps ==
    ASSUME LifecycleInv, NEW t \in Topics, Undispatched(t)
    PROVE  LifecycleInv'
<1>1. Types /\ HistoryTypeOK /\ ConfirmProgress
  BY DEF LifecycleInv, HistorySide, Types
<1>2. /\ UNCHANGED <<settlement, placedLog, voidedLog, ledger, history, confirming>>
      /\ Succeeds(t) /\ Receives(t) /\ ~Dispatched(t)
  BY DEF Undispatched, db
<1>3. /\ history_cg' \in [Topics -> Claim] /\ faults' \in Nat
      /\ \A u \in Topics \ {t} : history_cg'[u] = history_cg[u]
      /\ history_cg'[t].handled \subseteq history_cg[t].handled \cup {history_cg[t].next}
  BY <1>1, <1>2, ReturnFacts
<1>4. ConfirmProgress'
  <2>1. CASE t = "placed"
    BY <1>2, <2>1 DEF Receives, ConfirmProgress
  <2>2. CASE t # "placed"
    BY <1>1, <1>2, <1>3, <2>2 DEF Topics, ConfirmProgress
  <2> QED
    BY <2>1, <2>2
<1>5. \A k \in history_cg'["placed"].handled :
          k \in history_cg["placed"].handled \/ (k < Len(placedLog) /\ ~Dispatched("placed"))
  <2>1. CASE t = "placed"
    BY <1>2, <1>3, <2>1 DEF Receives, LogLen
  <2>2. CASE t # "placed"
    BY <1>3, <2>2 DEF Topics
  <2> QED
    BY <2>1, <2>2
<1>6. ledger' \in [Tx -> LedgerRow] /\ confirming' \in Bets \cup {NoBet}
      /\ history' \in [Bets -> {"none", "PLACED", "SETTLED_WIN", "SETTLED_LOSS", "VOID"}]
  BY <1>1, <1>2 DEF Types, HistoryTypeOK
<1>7. TypedMove /\ LedgerMove
  BY <1>2, <1>3, <1>5, <1>6 DEF TypedMove, LedgerMove
<1>8. RowsMove
  BY <1>2, <1>3, <1>5, <1>6 DEF RowsMove
<1>9. HandledMove
  BY <1>2, <1>3, <1>5, <1>6 DEF HandledMove
<1> QED
  BY <1>7, <1>8, <1>9, <1>4, HistoryKeeps

\* The event whose turn it is.
LEMMA NextEvent ==
    ASSUME Types, history_cg["placed"].next < Len(placedLog)
    PROVE  /\ placedLog[history_cg["placed"].next + 1].bet \in Bets
           /\ placedLog[history_cg["placed"].next + 1].header \in BOOLEAN
<1>1. history_cg["placed"].next \in Nat /\ placedLog \in Seq([bet : Bets, header : BOOLEAN])
  BY DEF Types, HistoryTypeOK, Topics, Claim
<1>2. history_cg["placed"].next + 1 \in 1..Len(placedLog)
  BY <1>1
<1>3. placedLog[history_cg["placed"].next + 1] \in [bet : Bets, header : BOOLEAN]
  BY <1>1, <1>2, ElementOfSeq
<1> QED
  BY <1>3

\* The INSERT adds a row where there was none.
LEMMA InsertFacts ==
    ASSUME Types, NEW b \in Bets, InsertRow(b) \/ UNCHANGED history
    PROVE  /\ history' \in [Bets -> {"none", "PLACED", "SETTLED_WIN", "SETTLED_LOSS", "VOID"}]
           /\ \A c \in Bets : history'[c] = history[c] \/ (history[c] = "none" /\ history'[c] = "PLACED")
           /\ InsertRow(b) => history'[b] # "none"
BY DEF Types, HistoryTypeOK, InsertRow

LEMMA PlacedKeeps == ASSUME LifecycleInv, HandleBetPlaced PROVE LifecycleInv'
<1>1. Types /\ HistoryTypeOK /\ ConfirmProgress
  BY DEF LifecycleInv, HistorySide, Types
<1> DEFINE e == placedLog[history_cg["placed"].next + 1]
<1>2. /\ UNCHANGED <<settlement, placedLog, voidedLog, ledger>>
      /\ history_cg["placed"].next < Len(placedLog) /\ confirming = NoBet
  BY DEF HandleBetPlaced, Receives, LogLen, db
<1>3. e.bet \in Bets /\ e.header \in BOOLEAN
  BY <1>1, <1>2, NextEvent
<1>4. ledger' \in [Tx -> LedgerRow] /\ confirming \in Bets \cup {NoBet}
  BY <1>1, <1>2 DEF Types, HistoryTypeOK
<1>5. /\ history' \in [Bets -> {"none", "PLACED", "SETTLED_WIN", "SETTLED_LOSS", "VOID"}]
      /\ \A c \in Bets : history'[c] = history[c] \/ (history[c] = "none" /\ history'[c] = "PLACED")
      /\ InsertRow(e.bet) => history'[e.bet] # "none"
  <2>1. InsertRow(e.bet) \/ UNCHANGED history
    BY DEF HandleBetPlaced
  <2> QED
    BY <1>1, <1>3, <2>1, InsertFacts
<1>6. CASE InsertRow(e.bet) /\ e.header /\ confirming' = e.bet /\ UNCHANGED <<history_cg, faults>>
  <2>1. ConfirmProgress'
    BY <1>2, <1>5, <1>6 DEF ConfirmProgress
  <2>2. history_cg' \in [Topics -> Claim] /\ faults' \in Nat
    BY <1>1, <1>6 DEF Types, HistoryTypeOK
  <2>3. TypedMove /\ LedgerMove
    BY <1>2, <1>3, <1>4, <1>5, <1>6, <2>2 DEF TypedMove, LedgerMove
  <2>4. RowsMove
    BY <1>2, <1>3, <1>4, <1>5, <1>6, <2>2 DEF RowsMove, StatusOf, Outcomes
  <2>5. HandledMove
    BY <1>2, <1>3, <1>4, <1>5, <1>6, <2>2 DEF HandledMove
  <2> QED
    BY <2>3, <2>4, <2>5, <2>1, HistoryKeeps
<1>7. CASE InsertRow(e.bet) /\ ~e.header /\ Succeeds("placed") /\ UNCHANGED confirming
  <2>1. /\ history_cg' \in [Topics -> Claim] /\ faults' \in Nat
        /\ history_cg'["placed"].handled \subseteq
              history_cg["placed"].handled \cup {history_cg["placed"].next}
    BY <1>1, <1>7, ReturnFacts DEF Topics
  <2>2. ConfirmProgress'
    BY <1>2, <1>7 DEF ConfirmProgress
  <2>3. TypedMove /\ LedgerMove
    BY <1>2, <1>3, <1>4, <1>5, <1>7, <2>1 DEF TypedMove, LedgerMove
  <2>4. RowsMove
    BY <1>2, <1>3, <1>4, <1>5, <1>7, <2>1 DEF RowsMove, StatusOf, Outcomes
  <2>5. HandledMove
    BY <1>2, <1>3, <1>4, <1>5, <1>7, <2>1 DEF HandledMove
  <2> QED
    BY <2>3, <2>4, <2>5, <2>2, HistoryKeeps
<1>8. CASE Errs("placed", "db") /\ UNCHANGED confirming
  <2>1. /\ history_cg' \in [Topics -> Claim] /\ faults' \in Nat
        /\ history_cg'["placed"].handled = history_cg["placed"].handled
    BY <1>1, <1>8, ReturnFacts DEF Topics
  <2>2. ConfirmProgress'
    BY <1>2, <1>8 DEF ConfirmProgress
  <2>3. TypedMove /\ LedgerMove
    BY <1>2, <1>3, <1>4, <1>5, <1>8, <2>1 DEF TypedMove, LedgerMove
  <2>4. RowsMove
    BY <1>2, <1>3, <1>4, <1>5, <1>8, <2>1 DEF RowsMove, StatusOf, Outcomes
  <2>5. HandledMove
    BY <1>2, <1>3, <1>4, <1>5, <1>8, <2>1 DEF HandledMove
  <2> QED
    BY <2>3, <2>4, <2>5, <2>2, HistoryKeeps
<1> QED
  BY <1>3, <1>6, <1>7, <1>8 DEF HandleBetPlaced

LEMMA ConfirmKeeps == ASSUME LifecycleInv, Confirm PROVE LifecycleInv'
<1>1. Types /\ HistoryTypeOK /\ ConfirmProgress /\ StakesHeld
  BY DEF LifecycleInv, HistorySide, Types
<1> DEFINE e == placedLog[history_cg["placed"].next + 1]
<1>2. /\ UNCHANGED <<settlement, placedLog, voidedLog, history>>
      /\ confirming # NoBet /\ confirming' = NoBet
  BY DEF Confirm
<1>3. /\ confirming \in Bets /\ e.bet = confirming /\ history[confirming] # "none"
      /\ history_cg["placed"].next < Len(placedLog)
  BY <1>1, <1>2 DEF HistoryTypeOK, ConfirmProgress
<1>4. history' \in [Bets -> {"none", "PLACED", "SETTLED_WIN", "SETTLED_LOSS", "VOID"}]
      /\ ConfirmProgress' /\ confirming' \in Bets \cup {NoBet}
  BY <1>1, <1>2 DEF HistoryTypeOK, ConfirmProgress
<1>5. /\ history_cg' \in [Topics -> Claim] /\ faults' \in Nat
      /\ history_cg'["placed"].handled \subseteq
            history_cg["placed"].handled \cup {history_cg["placed"].next}
      /\ Errs("placed", "rpc") => history_cg'["placed"].handled = history_cg["placed"].handled
  BY <1>1, ReturnFacts DEF Topics, Confirm
<1>6. CASE UNCHANGED ledger /\ (Errs("placed", "rpc") \/ ledger[confirming].status = "CONFIRMED")
  <2>1. ledger' \in [Tx -> LedgerRow]
    BY <1>1, <1>6 DEF Types
  <2>2. TypedMove /\ LedgerMove
    BY <1>2, <1>3, <1>4, <1>5, <1>6, <2>1 DEF TypedMove, LedgerMove
  <2>3. RowsMove
    BY <1>2, <1>3, <1>4, <1>5, <1>6, <2>1 DEF RowsMove
  <2>4. HandledMove
    BY <1>2, <1>3, <1>4, <1>5, <1>6, <2>1 DEF HandledMove
  <2> QED
    BY <2>2, <2>3, <2>4, <1>4, HistoryKeeps
<1>7. CASE ConfirmTransaction(confirming)
  <2>1. /\ ledger' \in [Tx -> LedgerRow] /\ ledger'[confirming].status = "CONFIRMED"
        /\ \A t \in Tx \ {confirming} : ledger'[t] = ledger[t]
    BY <1>1, <1>3, <1>7, ConfirmFacts
  <2>2. \A t \in Tx \ Bets : ledger'[t] = ledger[t]
    BY <1>3, <2>1
  <2>3. \A b \in Bets : ledger'[b] = ledger[b] \/ (ledger'[b].status = "CONFIRMED" /\ history[b] # "none")
    BY <1>3, <2>1, TxFacts
  <2>4. TypedMove /\ LedgerMove
    BY <1>2, <1>3, <1>4, <1>5, <2>1, <2>2, <2>3 DEF TypedMove, LedgerMove
  <2>5. RowsMove
    BY <1>2, <1>3, <1>4, <1>5, <2>1, <2>2, <2>3 DEF RowsMove
  <2>6. HandledMove
    BY <1>2, <1>3, <1>4, <1>5, <2>1, <2>2, <2>3 DEF HandledMove
  <2> QED
    BY <2>4, <2>5, <2>6, <1>4, HistoryKeeps
<1> QED
  BY <1>1, <1>3, <1>6, <1>7 DEF Confirm, StakesHeld, db

\* The UPDATE finds a row or does nothing.
LEMMA OverwriteFacts ==
    ASSUME Types, NEW b \in Bets, NEW status \in {"SETTLED_WIN", "SETTLED_LOSS", "VOID"},
           Overwrite(b, status) \/ UNCHANGED history
    PROVE  /\ history' \in [Bets -> {"none", "PLACED", "SETTLED_WIN", "SETTLED_LOSS", "VOID"}]
           /\ \A c \in Bets : history[c] # "none" => history'[c] # "none"
           /\ \A c \in Bets : history'[c] = history[c] \/ (c = b /\ history'[c] = status)
BY DEF Types, HistoryTypeOK, Overwrite

\* bet.settled and bet.voided: other claims than that of bet-placed, and a status that
\* the event justifies.
LEMMA OverwriteKeeps ==
    ASSUME LifecycleInv, HandleBetSettled \/ HandleBetVoided
    PROVE  LifecycleInv'
<1>1. Types /\ HistoryTypeOK /\ SettlementTypeOK /\ ConfirmProgress /\ EventsTrue
  BY DEF LifecycleInv, MoneySide, HistorySide, Types
<1>2. UNCHANGED <<settlement, placedLog, voidedLog, ledger, confirming>>
  BY DEF HandleBetSettled, HandleBetVoided, db
<1>3. PICK t \in {"settled", "voided"} :
          /\ Receives(t) /\ (Succeeds(t) \/ Errs(t, "db"))
          /\ t = "settled" => HandleBetSettled
          /\ t = "voided" => HandleBetVoided
  BY DEF HandleBetSettled, HandleBetVoided
<1>4. /\ history_cg' \in [Topics -> Claim] /\ faults' \in Nat
      /\ history_cg'["placed"] = history_cg["placed"]
  BY <1>1, <1>3, ReturnFacts DEF Topics
<1>5. PICK b \in Bets, status \in {"SETTLED_WIN", "SETTLED_LOSS", "VOID"} :
          /\ Overwrite(b, status) \/ UNCHANGED history
          /\ \A o \in Outcomes : status = StatusOf[o] => Booked(b, o)
  <2>1. CASE t = "settled"
    <3> DEFINE k == history_cg["settled"].next + 1
               o == settledLog[k].outcome
    <3>1. history_cg["settled"].next \in Nat /\ history_cg["settled"].next < Len(settledLog)
      BY <1>1, <1>3, <2>1 DEF Receives, LogLen, HistoryTypeOK, Claim, Topics
    <3>2. k \in DOMAIN settledLog
      BY <1>1, <3>1 DEF SettlementTypeOK
    <3>3. settledLog[k] \in [bet : Bets, outcome : Outcomes] /\ Booked(settledLog[k].bet, o)
      <4>1. settledLog \in Seq([bet : Bets, outcome : Outcomes]) /\ k \in 1..Len(settledLog)
        BY <1>1, <3>2 DEF SettlementTypeOK
      <4>2. settledLog[k] \in [bet : Bets, outcome : Outcomes]
        BY <4>1, ElementOfSeq
      <4> QED
        BY <1>1, <3>2, <4>2 DEF EventsTrue
    <3>4. Overwrite(settledLog[k].bet, StatusOf[o]) \/ UNCHANGED history
      BY <1>3, <2>1 DEF HandleBetSettled
    <3>5. settledLog[k].bet \in Bets /\ o \in Outcomes
      BY <3>3
    <3> HIDE DEF o
    <3>6. StatusOf[o] \in {"SETTLED_WIN", "SETTLED_LOSS", "VOID"}
          /\ \A p \in Outcomes : StatusOf[o] = StatusOf[p] => o = p
      BY <3>5 DEF StatusOf, Outcomes
    <3> QED
      BY <3>3, <3>4, <3>5, <3>6
  <2>2. CASE t = "voided"
    <3> DEFINE k == history_cg["voided"].next + 1
    <3>1. history_cg["voided"].next \in Nat /\ history_cg["voided"].next < Len(voidedLog)
      BY <1>1, <1>3, <2>2 DEF Receives, LogLen, HistoryTypeOK, Claim, Topics
    <3>2. voidedLog[k] \in Bets
      BY <1>1, <3>1 DEF HistoryTypeOK
    <3>3. Overwrite(voidedLog[k], "VOID") \/ UNCHANGED history
      BY <1>3, <2>2 DEF HandleBetVoided
    <3>4. \A o \in Outcomes : "VOID" # StatusOf[o]
      BY DEF StatusOf, Outcomes
    <3> QED
      BY <3>2, <3>3, <3>4
  <2> QED
    BY <1>3, <2>1, <2>2
<1>6. /\ history' \in [Bets -> {"none", "PLACED", "SETTLED_WIN", "SETTLED_LOSS", "VOID"}]
      /\ \A c \in Bets : history[c] # "none" => history'[c] # "none"
      /\ \A c \in Bets : history'[c] = history[c] \/ (c = b /\ history'[c] = status)
  BY <1>1, <1>5, OverwriteFacts
<1>7. ConfirmProgress'
  BY <1>1, <1>2, <1>4, <1>6 DEF ConfirmProgress, HistoryTypeOK
<1>8. ledger' \in [Tx -> LedgerRow] /\ confirming' \in Bets \cup {NoBet}
  BY <1>1, <1>2 DEF Types, HistoryTypeOK
<1>9. TypedMove /\ LedgerMove
  BY <1>2, <1>4, <1>6, <1>8 DEF TypedMove, LedgerMove
<1>10. RowsMove
  BY <1>5, <1>6 DEF RowsMove
<1>11. HandledMove
  BY <1>4 DEF HandledMove
<1> QED
  BY <1>7, <1>9, <1>10, <1>11, HistoryKeeps

\* A restart forgets the confirmation that was to come, and no row.
LEMMA HistoryRestartKeeps == ASSUME LifecycleInv, HistoryRestarts PROVE LifecycleInv'
<1>1. Types /\ HistoryTypeOK /\ faults \in Nat
  BY DEF LifecycleInv, Types
<1>2. /\ UNCHANGED <<settlement, placedLog, voidedLog, ledger, history>> /\ confirming' = NoBet
      /\ history_cg' = [t \in Topics |-> Restarted(history_cg[t])] /\ Fails("crash")
  BY DEF HistoryRestarts, db
<1>3. history_cg' \in [Topics -> Claim] /\ history_cg'["placed"].handled = history_cg["placed"].handled
  <2>1. \A t \in Topics : history_cg[t] \in Claim
    BY <1>1 DEF HistoryTypeOK
  <2>2. \A t \in Topics : /\ Restarted(history_cg[t]) \in Claim
                          /\ Restarted(history_cg[t]).handled = history_cg[t].handled
    BY <2>1, ClaimTypes DEF Restarted
  <2> QED
    BY <1>2, <2>2 DEF Topics
<1>4. ledger' \in [Tx -> LedgerRow] /\ faults' \in Nat
      /\ history' \in [Bets -> {"none", "PLACED", "SETTLED_WIN", "SETTLED_LOSS", "VOID"}]
  BY <1>1, <1>2, FaultsCounted DEF Types, HistoryTypeOK
<1>5. TypedMove /\ LedgerMove
  BY <1>2, <1>3, <1>4 DEF TypedMove, LedgerMove
<1>6. RowsMove /\ HandledMove /\ ConfirmProgress'
  BY <1>2, <1>3 DEF RowsMove, HandledMove, ConfirmProgress
<1> QED
  BY <1>5, <1>6, HistoryKeeps

-----------------------------------------------------------------------------
(***************************************************************************)
(* The theorems.                                                           *)
(***************************************************************************)

\* The stakes are deducted and nothing else has happened.
LEMMA LifecycleStarts == LifecycleInit => LifecycleInv
<1> SUFFICES ASSUME LifecycleInit PROVE LifecycleInv
  OBVIOUS
<1>1. ledger = [t \in Tx |-> IF t \in Bets THEN StakeRow(t) ELSE NoRow]
  BY DEF LifecycleInit
<1>2. \A b \in Bets : StakeRow(b) \in LedgerRow /\ StakeRow(b).status = "PENDING_CONFIRMATION"
  BY SettlementAssumption DEF StakeRow, EntryStatus, LedgerRow, EntryTypes, Statuses
<1>3. NoRow \in LedgerRow /\ NoRow.status = "ABSENT"
  BY DEF NoRow, LedgerRow, EntryTypes, Statuses
<1>4. ledger \in [Tx -> LedgerRow]
  BY <1>1, <1>2, <1>3
<1>5. \A b \in Bets : Credited(b) = {}
  BY <1>1, <1>3, TxFacts DEF Credited, Recorded
<1>6. StakesHeld /\ ConfirmedIsRecorded
  BY <1>1, <1>2, TxFacts DEF StakesHeld, ConfirmedIsRecorded
<1>7. NewClaim \in Claim /\ Idle.at = "idle" /\ Idle.todo = {} /\ Idle.bet = NoBet /\ NewClaim.handled = {}
  BY DEF NewClaim, Claim, Idle
<1>8. SettlementTypeOK /\ faults \in Nat
  BY <1>7, SettlementAssumption DEF LifecycleInit, SettlementInit, SettlementTypeOK, Idle, Outcomes
<1>9. HistoryTypeOK
  BY <1>7 DEF LifecycleInit, HistoryInit, HistoryTypeOK
<1>10. JobProgress
  BY <1>7 DEF LifecycleInit, SettlementInit, JobProgress
<1>11. RecordsGiven /\ CreditsGiven /\ CreditedOnce /\ EventsTrue
  BY <1>5 DEF LifecycleInit, SettlementInit, RecordsGiven, CreditsGiven, CreditedOnce, EventsTrue
<1>12. RowsTrue /\ ConfirmProgress
  BY DEF LifecycleInit, HistoryInit, RowsTrue, StatusOf, Outcomes, ConfirmProgress
<1>13. HandledInTopic /\ HandledIsRecorded
  BY <1>7 DEF LifecycleInit, HistoryInit, HandledInTopic, HandledIsRecorded, Topics
<1> QED
  BY <1>4, <1>6, <1>8, <1>9, <1>10, <1>11, <1>12, <1>13 DEF LifecycleInv, MoneySide, HistorySide, Types

LEMMA LifecycleSteps == LifecycleInv /\ [LifecycleNext]_lifecycle => LifecycleInv'
<1> SUFFICES ASSUME LifecycleInv, [LifecycleNext]_lifecycle PROVE LifecycleInv'
  OBVIOUS
<1>1. CASE FromOutside
  BY <1>1, OutsideKeeps
<1>2. CASE Arrives
  BY <1>2, ArrivalKeeps
<1>3. CASE SettlementActs
  BY <1>3, ResultKeeps, RecordKeeps, CreditKeeps, CreditFailKeeps, PublishKeeps DEF SettlementActs, SettlementStep
<1>4. CASE \E t \in Topics : HistoryStep(t)
  BY <1>4, UndispatchedKeeps, PlacedKeeps, ConfirmKeeps, OverwriteKeeps DEF HistoryStep
<1>5. CASE HistoryRestarts
  BY <1>5, HistoryRestartKeeps
<1>6. CASE UNCHANGED lifecycle
  <2>1. TypedMove /\ LedgerMove
    BY <1>6 DEF lifecycle, db, historyVars, TypedMove, LedgerMove, LifecycleInv, Types, HistoryTypeOK
  <2>2. RowsMove /\ HandledMove /\ ConfirmProgress'
    BY <1>6 DEF lifecycle, historyVars, RowsMove, HandledMove, ConfirmProgress, LifecycleInv, HistorySide
  <2> QED
    BY <2>1, <2>2, HistoryKeeps
<1> QED
  BY <1>1, <1>2, <1>3, <1>4, <1>5, <1>6 DEF LifecycleNext

\* The invariant holds of every behaviour of the composition of Settlement, Bet History
\* and the wallet.
THEOREM LifecycleInvariant == LifecycleSpec => []LifecycleInv
BY LifecycleStarts, LifecycleSteps, PTL DEF LifecycleSpec

\* Money is credited for recorded bets only, what a result of the market pays, and
\* where the results agree what the recorded outcome pays (consumer.go:169-204),
\* whatever fails, repeats, contradicts or restarts.
THEOREM CreditsSettledAlways == LifecycleSpec => []CreditsAreSettled
<1>1. LifecycleInv => CreditsAreSettled
  <2> SUFFICES ASSUME LifecycleInv, NEW b \in Bets, NEW n \in Credited(b)
               PROVE  /\ settled[b] # "none"
                      /\ \E o \in Outcomes :
                            /\ Given(b, o) /\ ledger[CreditTx(b, n)].amount = Payout(b, o)
                            /\ Agreed(b) => settled[b] = o
    BY DEF CreditsAreSettled
  <2>1. CreditGiven(b, n) /\ (settled[b] # "none" => Given(b, settled[b]))
    BY DEF LifecycleInv, MoneySide, CreditsGiven, RecordsGiven
  <2>2. PICK o \in Outcomes : Given(b, o) /\ ledger[CreditTx(b, n)].amount = Payout(b, o)
    BY <2>1 DEF CreditGiven
  <2>3. settled[b] \in Outcomes /\ Given(b, settled[b])
    BY <2>1 DEF CreditGiven, LifecycleInv, Types, SettlementTypeOK
  <2>4. Agreed(b) => settled[b] = o
    BY <2>2, <2>3 DEF Agreed, Outcomes
  <2> QED
    BY <2>1, <2>2, <2>4 DEF CreditGiven
<1> QED
  BY <1>1, LifecycleInvariant, PTL

\* My Bets shows won and lost for bets that are recorded and credited so
\* (bethistory/consumer.go:177-213).
THEOREM HistoryTruthfulAlways == LifecycleSpec => []HistoryTruthful
<1>1. LifecycleInv => HistoryTruthful
  <2> SUFFICES ASSUME LifecycleInv, NEW b \in Bets, NEW o \in Outcomes, history[b] = StatusOf[o]
               PROVE  /\ settled[b] # "none" /\ (Agreed(b) => settled[b] = o)
                      /\ \E n \in Credited(b) : ledger[CreditTx(b, n)].amount = Payout(b, o)
    BY DEF HistoryTruthful
  <2>1. Given(b, o) /\ settled[b] # "none" /\ PaidAs(b, o)
    BY DEF LifecycleInv, RowsTrue, Booked
  <2>2. settled[b] \in Outcomes /\ Given(b, settled[b])
    BY <2>1 DEF LifecycleInv, Types, SettlementTypeOK, MoneySide, RecordsGiven
  <2>3. Agreed(b) => settled[b] = o
    BY <2>1, <2>2 DEF Agreed, Outcomes
  <2> QED
    BY <2>1, <2>3 DEF PaidAs
<1> QED
  BY <1>1, LifecycleInvariant, PTL

\* One delivery of a result credits a bet once at most (consumer.go:139-204), although
\* the transaction ids are fresh and guard nothing: for every number of bets, messages
\* and failures.
THEOREM OneCreditPerDeliveryAlways == LifecycleSpec => []OneCreditPerDelivery
<1>1. LifecycleInv => OneCreditPerDelivery
  <2> SUFFICES ASSUME LifecycleInv, NEW b \in Bets
               PROVE  Cardinality(Credited(b) \ before[b]) <= 1
    BY DEF OneCreditPerDelivery
  <2>1. \A m, n \in Credited(b) \ before[b] : m = n
    BY DEF LifecycleInv, MoneySide, CreditedOnce
  <2>2. CASE Credited(b) \ before[b] = {}
    BY <2>2, FS_EmptySet
  <2>3. CASE Credited(b) \ before[b] # {}
    <3>1. PICK n : Credited(b) \ before[b] = {n}
      BY <2>1, <2>3
    <3> QED
      BY <3>1, FS_Singleton
  <2> QED
    BY <2>2, <2>3
<1> QED
  BY <1>1, LifecycleInvariant, PTL

\* A confirmed deduction has its bet in My Bets (wallet/service.go:212).
THEOREM ConfirmedRecordedAlways == LifecycleSpec => []ConfirmedIsRecorded
<1>1. LifecycleInv => ConfirmedIsRecorded
  BY DEF LifecycleInv, HistorySide
<1> QED
  BY <1>1, LifecycleInvariant, PTL

\* Where the subscribed name is that of the case, an event taken as handled has left its
\* mark in My Bets and, when it names the transaction, in the wallet.  The hypothesis is
\* the one thing the service's configuration has to get right; MCTopics shows what
\* happens without it.
THEOREM HandledRecordedAlways ==
    ASSUME Dispatched("placed")
    PROVE  LifecycleSpec => []HandledIsRecorded
<1>1. LifecycleInv => HandledIsRecorded
  BY DEF LifecycleInv, HistorySide
<1> QED
  BY <1>1, LifecycleInvariant, PTL

-----------------------------------------------------------------------------
(***************************************************************************)
(* The consumers implement Delivery, whose own theorem then applies.       *)
(***************************************************************************)

\* What the claim's operations are to Delivery.
LEMMA ClaimFields ==
    ASSUME NEW c \in Claim
    PROVE  /\ Handled(c).next = c.next + 1 /\ Handled(c).committed = c.next + 1
           /\ Handled(c).handled = c.handled \cup {c.next} /\ Handled(c).failed = c.failed
           /\ HandledUncommitted(c).next = c.next + 1 /\ HandledUncommitted(c).committed = c.committed
           /\ HandledUncommitted(c).handled = c.handled \cup {c.next}
           /\ HandledUncommitted(c).failed = c.failed
           /\ Skipped(c).next = c.next + 1 /\ Skipped(c).committed = c.committed
           /\ Skipped(c).handled = c.handled /\ Skipped(c).failed = c.failed \cup {c.next}
           /\ Restarted(c).next = c.committed /\ Restarted(c).committed = c.committed
           /\ Restarted(c).handled = c.handled /\ Restarted(c).failed = c.failed
BY DEF Claim, Handled, HandledUncommitted, Skipped, Restarted

\* Settlement's steps: the ones inside a handler leave the claim alone, and the message
\* they work on is there.
LEMMA ResultsStep ==
    ASSUME LifecycleInv, [LifecycleNext]_lifecycle
    PROVE  [Results_cg!Next]_(Results_cg!partition)
<1>1. results_cg \in Claim /\ results \in Seq(Messages) /\ Len(results) \in Nat /\ JobProgress
  BY DEF LifecycleInv, MoneySide, Types, SettlementTypeOK
<1>2. CASE UNCHANGED <<results, results_cg>>
  BY <1>2 DEF Results_cg!partition
<1>3. CASE \E m \in Feed : Ingested(m)
  <2>1. PICK m \in Messages : results' = Append(results, m) /\ UNCHANGED results_cg
    BY <1>3, LifecycleAssumption DEF Ingested
  <2>2. Len(results') = Len(results) + 1
    BY <1>1, <2>1, Appended
  <2> QED
    BY <1>1, <2>1, <2>2 DEF Results_cg!Next, Results_cg!Produce
<1>4. CASE HandleResult
  <2>1. results_cg.next < Len(results) /\ UNCHANGED results
        /\ (UNCHANGED results_cg \/ results_cg' = Skipped(results_cg))
    BY <1>4 DEF HandleResult
  <2>2. CASE results_cg' = Skipped(results_cg)
    BY <1>1, <2>1, <2>2, ClaimFields DEF Results_cg!Next, Results_cg!Skip
  <2> QED
    BY <1>2, <2>1, <2>2
<1>5. CASE CommitResult
  <2>1. results_cg.next < Len(results) /\ UNCHANGED results
        /\ results_cg' \in {Handled(results_cg), HandledUncommitted(results_cg)}
    BY <1>1, <1>5 DEF CommitResult, JobProgress
  <2> QED
    BY <1>1, <2>1, ClaimFields DEF Results_cg!Next, Results_cg!Handle
<1>6. CASE SettlementRestarts
  <2>1. UNCHANGED results /\ results_cg' = Restarted(results_cg)
    BY <1>6 DEF SettlementRestarts
  <2> QED
    BY <1>1, <2>1, ClaimFields DEF Results_cg!Next, Results_cg!Restart
<1>7. ASSUME NEW b \in Bets, RecordSettlement(b) \/ Credit(b) \/ CreditFails(b) \/ PublishSettled(b)
      PROVE  UNCHANGED <<results, results_cg>>
  BY <1>7 DEF RecordSettlement, Credit, CreditFails, PublishSettled
<1>8. CASE Arrives \/ (\E t \in Topics : HistoryStep(t)) \/ HistoryRestarts \/ UNCHANGED lifecycle
           \/ \E b \in Bets : PendingBetArrives(b)
  <2>1. UNCHANGED <<results, results_cg>>
    BY <1>8 DEF Arrives, BetPlacedSent, BetVoidedSent, HistoryStep, Undispatched, HandleBetPlaced,
                Confirm, HandleBetSettled, HandleBetVoided, HistoryRestarts, lifecycle, settlement,
                PendingBetArrives
  <2> QED
    BY <1>2, <2>1
<1> QED
  BY <1>2, <1>3, <1>4, <1>5, <1>6, <1>7, <1>8 DEF LifecycleNext, FromOutside, SettlementActs, SettlementStep

\* The steps of Bet History's claim on bet-placed: between the INSERT and the answer of
\* ConfirmTransaction the claim stays where it is.
LEMMA PlacedStep ==
    ASSUME LifecycleInv, [LifecycleNext]_lifecycle
    PROVE  [Placed_cg!Next]_(Placed_cg!partition)
<1> DEFINE c == history_cg["placed"]
<1>1. c \in Claim /\ history_cg \in [Topics -> Claim] /\ Len(placedLog) \in Nat /\ ConfirmProgress
      /\ placedLog \in Seq([bet : Bets, header : BOOLEAN])
  BY DEF LifecycleInv, HistorySide, Types, HistoryTypeOK, Topics
<1>2. CASE UNCHANGED <<placedLog, c>>
  BY <1>2 DEF Placed_cg!partition
<1>3. CASE Arrives
  <2>1. PICK b \in Bets : (\E h \in Headers : BetPlacedSent(b, h)) \/ BetVoidedSent(b)
    BY <1>3 DEF Arrives
  <2>2. CASE \E h \in Headers : BetPlacedSent(b, h)
    <3>1. PICK h \in BOOLEAN : BetPlacedSent(b, h)
      BY <2>2, LifecycleAssumption
    <3>2. placedLog' = Append(placedLog, [bet |-> b, header |-> h]) /\ UNCHANGED c
      BY <3>1 DEF BetPlacedSent
    <3>3. Len(placedLog') = Len(placedLog) + 1
      BY <1>1, <3>2, AppendProperties
    <3> QED
      BY <1>1, <3>2, <3>3 DEF Placed_cg!Next, Placed_cg!Produce
  <2>3. CASE BetVoidedSent(b)
    BY <1>2, <2>3 DEF BetVoidedSent
  <2> QED
    BY <2>1, <2>2, <2>3
<1>4. ASSUME Receives("placed") \/ confirming # NoBet, UNCHANGED placedLog,
             Succeeds("placed") \/ Errs("placed", "db") \/ Errs("placed", "rpc")
      PROVE  Placed_cg!Next
  <2>1. c.next < Len(placedLog)
    BY <1>1, <1>4 DEF Receives, LogLen, ConfirmProgress
  <2>2. c' \in {Handled(c), HandledUncommitted(c), Skipped(c)}
    BY <1>1, <1>4 DEF Succeeds, Errs, Returns, Topics
  <2>3. CASE c' = Skipped(c)
    BY <1>1, <1>4, <2>1, <2>3, ClaimFields DEF Placed_cg!Next, Placed_cg!Skip
  <2>4. CASE c' \in {Handled(c), HandledUncommitted(c)}
    BY <1>1, <1>4, <2>1, <2>4, ClaimFields DEF Placed_cg!Next, Placed_cg!Handle
  <2> QED
    BY <2>2, <2>3, <2>4
<1>5. ASSUME NEW t \in Topics \ {"placed"}, UNCHANGED placedLog, Succeeds(t) \/ Errs(t, "db")
      PROVE  UNCHANGED <<placedLog, c>>
  BY <1>1, <1>5 DEF Succeeds, Errs, Returns, Topics
<1>6. CASE \E t \in Topics : HistoryStep(t)
  <2>1. PICK t \in Topics : HistoryStep(t)
    BY <1>6
  <2>2. CASE Undispatched(t)
    BY <1>2, <1>4, <1>5, <2>2 DEF Undispatched
  <2>3. CASE HandleBetPlaced
    BY <1>2, <1>4, <2>3 DEF HandleBetPlaced
  <2>4. CASE Confirm
    BY <1>4, <2>4 DEF Confirm
  <2>5. CASE HandleBetSettled
    BY <1>2, <1>5, <2>5 DEF HandleBetSettled, Topics
  <2>6. CASE HandleBetVoided
    BY <1>2, <1>5, <2>6 DEF HandleBetVoided, Topics
  <2> QED
    BY <2>1, <2>2, <2>3, <2>4, <2>5, <2>6 DEF HistoryStep
<1>7. CASE HistoryRestarts
  <2>1. UNCHANGED placedLog /\ c' = Restarted(c)
    BY <1>7 DEF HistoryRestarts, Topics
  <2> QED
    BY <1>1, <2>1, ClaimFields DEF Placed_cg!Next, Placed_cg!Restart
<1>8. CASE FromOutside \/ SettlementActs \/ UNCHANGED lifecycle
  BY <1>2, <1>8 DEF FromOutside, SettlementActs, lifecycle, historyVars
<1> QED
  BY <1>3, <1>6, <1>7, <1>8 DEF LifecycleNext

\* Settlement's loop and the claim of Bet History on bet-placed implement Delivery, with
\* crashes between the steps of their handlers.
THEOREM BetConsumersImplementDelivery == LifecycleSpec => BetConsumersDeliver
<1>1. LifecycleInit => Results_cg!Init /\ Placed_cg!Init
  BY DEF LifecycleInit, SettlementInit, HistoryInit, NewClaim, Topics, Results_cg!Init, Placed_cg!Init
<1> QED
  BY <1>1, ResultsStep, PlacedStep, LifecycleInvariant, PTL
     DEF LifecycleSpec, BetConsumersDeliver, Results_cg!Spec, Placed_cg!Spec

ResultsProofs == INSTANCE DeliveryProofs WITH
    written <- Len(results), next <- results_cg.next, committed <- results_cg.committed,
    handled <- results_cg.handled, failed <- results_cg.failed

PlacedProofs == INSTANCE DeliveryProofs WITH
    written <- Len(placedLog),
    next <- history_cg["placed"].next, committed <- history_cg["placed"].committed,
    handled <- history_cg["placed"].handled, failed <- history_cg["placed"].failed

\* No result and no bet.placed event is passed over in silence: below the committed
\* offset of either group every message has been tried.
THEOREM BetMessagesTried ==
    LifecycleSpec => [](Results_cg!CommittedIsTried /\ Placed_cg!CommittedIsTried)
<1>1. Results_cg!Spec => []Results_cg!CommittedIsTried
  <2>1. Results_cg!Init => ResultsProofs!Init
    BY DEF Results_cg!Init, ResultsProofs!Init
  <2>2. [Results_cg!Next]_(Results_cg!partition) => [ResultsProofs!Next]_(ResultsProofs!partition)
    BY DEF Results_cg!Next, Results_cg!Produce, Results_cg!Handle, Results_cg!Skip, Results_cg!Commit, Results_cg!Restart, Results_cg!partition,
           ResultsProofs!Next, ResultsProofs!Produce, ResultsProofs!Handle, ResultsProofs!Skip, ResultsProofs!Commit, ResultsProofs!Restart, ResultsProofs!partition
  <2>3. ResultsProofs!CommittedIsTried => Results_cg!CommittedIsTried
    BY DEF Results_cg!CommittedIsTried, ResultsProofs!CommittedIsTried
  <2> QED
    BY <2>1, <2>2, <2>3, ResultsProofs!CommitsFollowAttempts, PTL DEF Results_cg!Spec, ResultsProofs!Spec
<1>2. Placed_cg!Spec => []Placed_cg!CommittedIsTried
  <2>1. Placed_cg!Init => PlacedProofs!Init
    BY DEF Placed_cg!Init, PlacedProofs!Init
  <2>2. [Placed_cg!Next]_(Placed_cg!partition) => [PlacedProofs!Next]_(PlacedProofs!partition)
    BY DEF Placed_cg!Next, Placed_cg!Produce, Placed_cg!Handle, Placed_cg!Skip, Placed_cg!Commit, Placed_cg!Restart, Placed_cg!partition,
           PlacedProofs!Next, PlacedProofs!Produce, PlacedProofs!Handle, PlacedProofs!Skip, PlacedProofs!Commit, PlacedProofs!Restart, PlacedProofs!partition
  <2>3. PlacedProofs!CommittedIsTried => Placed_cg!CommittedIsTried
    BY DEF Placed_cg!CommittedIsTried, PlacedProofs!CommittedIsTried
  <2> QED
    BY <2>1, <2>2, <2>3, PlacedProofs!CommitsFollowAttempts, PTL DEF Placed_cg!Spec, PlacedProofs!Spec
<1> QED
  BY <1>1, <1>2, BetConsumersImplementDelivery, PTL DEF BetConsumersDeliver
=============================================================================
