---------------------------- MODULE BetLifecycle ----------------------------
(***************************************************************************)
(* What happens to a bet after its acceptance: Settlement, Bet History and *)
(* the wallet, connected by the topics bet-placed and bet-settled.  It     *)
(* starts where BetAcceptance ends: the users' stakes have been deducted   *)
(* and await confirmation.                                                 *)
(***************************************************************************)
EXTENDS BetHistory, FiniteSetsExt

CONSTANTS
    Headers,  \* whether events carry the header transaction_id: subset of BOOLEAN
    Feed      \* the messages market-data-normalised may carry: subset of Messages

ASSUME LifecycleAssumption ==
    /\ Headers \subseteq BOOLEAN /\ Feed \subseteq Messages
    /\ MaxPlaced \in Nat

lifecycle == <<db, settlement, faults, historyVars>>

Staked(u) == MapThenSumSet(LAMBDA b : StakeOf[b], {b \in Bets : UserOf[b] = u})

StakeRow(b) == [user |-> UserOf[b], type |-> "DEBIT", amount |-> StakeOf[b],
                status |-> EntryStatus("DeductBalance")]

LifecycleInit ==
    /\ funded = Users /\ limited = Users
    /\ available = [u \in Users |-> 0]
    /\ inFlight = [u \in Users |-> Staked(u)]
    /\ ledger = [t \in Tx |-> IF t \in Bets THEN StakeRow(t) ELSE NoRow]
    /\ SettlementInit /\ HistoryInit

FromOutside ==
    /\ \/ \E b \in Bets : PendingBetArrives(b)
       \/ \E m \in Feed : Ingested(m)
    /\ UNCHANGED historyVars

SettlementActs == (SettlementStep \/ SettlementRestarts) /\ UNCHANGED historyVars

Arrives == \E b \in Bets : (\E h \in Headers : BetPlacedSent(b, h)) \/ BetVoidedSent(b)

LifecycleNext ==
    \/ FromOutside \/ Arrives
    \/ SettlementActs
    \/ \E t \in Topics : HistoryStep(t)
    \/ HistoryRestarts

LifecycleSpec == LifecycleInit /\ [][LifecycleNext]_lifecycle

(***************************************************************************)
(* The consumers' loops run for ever, one goroutine per claim.  Nothing    *)
(* has to arrive and nothing has to fail; restarts come to an end.         *)
(***************************************************************************)
FairLifecycleSpec ==
    /\ LifecycleSpec
    /\ WF_lifecycle(SettlementStep /\ UNCHANGED historyVars)
    /\ \A t \in Topics : WF_lifecycle(HistoryStep(t))

-----------------------------------------------------------------------------
LifecycleTypeOK == DbTypeOK /\ SettlementTypeOK /\ HistoryTypeOK

\* My Bets tells the truth: a bet shown as won or lost has a settlements row and the
\* wallet has credited what that outcome pays; where the results agree, the row says
\* the same.  This whichever messages repeat, contradict or overtake each other or fail
\* (consumer.go:139-213, bethistory/consumer.go:177).  A bet that still shows PLACED may
\* be settled: an event that came before the bet's row has found nothing to update.
HistoryTruthful ==
    \A b \in Bets, o \in Outcomes :
        history[b] = StatusOf[o] =>
            /\ settled[b] # "none" /\ (Agreed(b) => settled[b] = o)
            /\ \E n \in Credited(b) : ledger[CreditTx(b, n)].amount = Payout(b, o)

\* The wallet's CONFIRMED means what service.go:212 says, "after recording
\* bet.placed": crash or failure between the two leaves the transaction pending.
ConfirmedIsRecorded ==
    \A b \in Bets : ledger[b].status = "CONFIRMED" => history[b] # "none"

Results_cg == INSTANCE Delivery WITH
    written <- Len(results), next <- results_cg.next, committed <- results_cg.committed,
    handled <- results_cg.handled, failed <- results_cg.failed

Placed_cg == INSTANCE Delivery WITH
    written <- Len(placedLog),
    next <- history_cg["placed"].next, committed <- history_cg["placed"].committed,
    handled <- history_cg["placed"].handled, failed <- history_cg["placed"].failed

\* Settlement's loop and the bet-placed claim of Bet History, the two whose handlers
\* take many steps, keep the contract of Delivery with crashes between the steps.
BetConsumersDeliver == Results_cg!Spec /\ Placed_cg!Spec

\* Nothing is stuck: every message of every topic is tried, although a restart may
\* throw the loops back and a failure ahead of it leave a gap.
EveryMessageTried ==
    /\ \A k \in 0..(MaxResults - 1) :
          k < Len(results) ~> k \in results_cg.handled \cup results_cg.failed
    /\ \A k \in 0..(MaxPlaced - 1) :
          k < Len(placedLog) ~> k \in history_cg["placed"].handled \cup history_cg["placed"].failed

\* Every event of a bet that Bet History takes as handled has left its mark: the
\* bet is in My Bets and, where the event names the transaction, confirmed.
HandledIsRecorded ==
    \A k \in history_cg["placed"].handled :
        LET e == placedLog[k + 1]
        IN history[e.bet] # "none" /\ (e.header => ledger[e.bet].status = "CONFIRMED")
=============================================================================
