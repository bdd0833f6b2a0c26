----------------------------- MODULE BetHistory -----------------------------
(***************************************************************************)
(* The Bet History consumer (internal/bethistory/consumer.go): the group   *)
(* bet-history-cg on three topics, each consumed by a goroutine of its     *)
(* own, the table bets and the confirmation of the wallet's transaction.   *)
(* One partition per topic.                                                *)
(*                                                                         *)
(* ConsumeClaim dispatches on the name of the topic.  SubscribedName[t] is *)
(* the name the consumer subscribes to; where it is not the name of a case *)
(* the message is marked and committed unhandled.                          *)
(***************************************************************************)
EXTENDS Settlement

CONSTANTS
    SubscribedName,  \* SubscribedName[t] for t in Topics
    MaxPlaced        \* bound: messages in bet-placed and in bet-voided

Topics   == {"placed", "settled", "voided"}
CaseName == [placed |-> "bet.placed", settled |-> "bet.settled", voided |-> "bet.voided"]

VARIABLES
    placedLog,  \* the topic bet-placed: [bet, header], header: transaction_id is set
    voidedLog,  \* the topic bet-voided: bet ids
    history,    \* history[b]: bets.status, "none" without a row
    history_cg, \* history_cg[t]: the claim on topic t
    confirming  \* the bet whose row is in and whose ConfirmTransaction is to come

historyVars == <<placedLog, voidedLog, history, history_cg, confirming>>

HistoryTypeOK ==
    /\ placedLog \in Seq([bet : Bets, header : BOOLEAN])
    /\ voidedLog \in Seq(Bets)
    /\ history \in [Bets -> {"none", "PLACED", "SETTLED_WIN", "SETTLED_LOSS", "VOID"}]
    /\ history_cg \in [Topics -> Claim]
    /\ confirming \in Bets \cup {NoBet}

HistoryInit ==
    /\ placedLog = <<>> /\ voidedLog = <<>>
    /\ history = [b \in Bets |-> "none"]
    /\ history_cg = [t \in Topics |-> NewClaim]
    /\ confirming = NoBet

LogLen(t) == CASE t = "placed"  -> Len(placedLog)
               [] t = "settled" -> Len(settledLog)
               [] OTHER         -> Len(voidedLog)

Dispatched(t) == SubscribedName[t] = CaseName[t]

\* The claim of t has a message and is not in the middle of one.
Receives(t) ==
    /\ history_cg[t].next < LogLen(t)
    /\ t = "placed" => confirming = NoBet

Returns(t, c) == history_cg' = [history_cg EXCEPT ![t] = c]

Succeeds(t) ==
    \/ Returns(t, Handled(history_cg[t])) /\ UNCHANGED faults
    \/ Returns(t, HandledUncommitted(history_cg[t])) /\ Fails("kafka")

\* Mutant: the loop marks the message whatever the handler returned.
ErrsMarked(t, kind) == Fails(kind) /\ Returns(t, Handled(history_cg[t]))

\* The handler's call fails: the message is skipped.
Errs(t, kind) == Fails(kind) /\ Returns(t, Skipped(history_cg[t]))

-----------------------------------------------------------------------------
\* The relay of Bet Acceptance sends the event of an accepted bet, or sends it
\* again.  outbox.go sets the headers bet_id and outbox_id, never transaction_id.
BetPlacedSent(b, header) ==
    /\ Len(placedLog) < MaxPlaced
    /\ placedLog' = Append(placedLog, [bet |-> b, header |-> header])
    /\ UNCHANGED <<db, settlement, faults, voidedLog, history, history_cg, confirming>>

\* No code of the repository publishes bet-voided.
BetVoidedSent(b) ==
    /\ Len(voidedLog) = 0
    /\ voidedLog' = Append(voidedLog, b)
    /\ UNCHANGED <<db, settlement, faults, placedLog, history, history_cg, confirming>>

Undispatched(t) ==
    /\ Receives(t) /\ ~Dispatched(t)
    /\ Succeeds(t)
    /\ UNCHANGED <<db, settlement, placedLog, voidedLog, history, confirming>>

\* INSERT ... ON CONFLICT (bet_id, placed_at) DO NOTHING; copies of an event carry
\* the same placed_at.
InsertRow(b) == history' = [history EXCEPT ![b] = IF @ = "none" THEN "PLACED" ELSE @]

\* Mutant: the transaction is confirmed before the row is written.
ConfirmFirst ==
    /\ Receives("placed") /\ Dispatched("placed")
    /\ LET e == placedLog[history_cg["placed"].next + 1]
       IN /\ confirming' = IF e.header THEN e.bet ELSE NoBet
          /\ IF e.header /\ ledger[e.bet].status = "PENDING_CONFIRMATION"
             THEN ConfirmTransaction(e.bet) ELSE UNCHANGED db
          /\ IF e.header THEN UNCHANGED <<history, history_cg, faults>> ELSE InsertRow(e.bet) /\ Succeeds("placed")
    /\ UNCHANGED <<settlement, placedLog, voidedLog>>

\* handleBetPlaced up to the INSERT.
HandleBetPlaced ==
    /\ Receives("placed") /\ Dispatched("placed")
    /\ LET e == placedLog[history_cg["placed"].next + 1]
       IN \/ /\ InsertRow(e.bet)
             /\ IF e.header THEN confirming' = e.bet /\ UNCHANGED <<history_cg, faults>>
                            ELSE Succeeds("placed") /\ UNCHANGED confirming
          \/ /\ Errs("placed", "db")
             /\ InsertRow(e.bet) \/ UNCHANGED history
             /\ UNCHANGED confirming
    /\ UNCHANGED <<db, settlement, placedLog, voidedLog>>

\* handleBetPlaced from ConfirmTransaction on, which changes nothing and answers OK
\* when the row is confirmed already.
Confirm ==
    /\ confirming # NoBet
    /\ \/ /\ IF ledger[confirming].status = "PENDING_CONFIRMATION"
             THEN ConfirmTransaction(confirming) ELSE UNCHANGED db
          /\ \/ Succeeds("placed")
             \/ Errs("placed", "rpc")
       \/ Errs("placed", "rpc") /\ UNCHANGED db
    /\ confirming' = NoBet
    /\ UNCHANGED <<settlement, placedLog, voidedLog, history>>

\* UPDATE bets SET status ... WHERE bet_id: nothing happens without a row.
Overwrite(b, status) == history' = [history EXCEPT ![b] = IF @ = "none" THEN @ ELSE status]

\* bets.status by the outcome of bet.settled.
StatusOf == [WIN |-> "SETTLED_WIN", LOSS |-> "SETTLED_LOSS"]

HandleBetSettled ==
    /\ Receives("settled") /\ Dispatched("settled")
    /\ LET e == settledLog[history_cg["settled"].next + 1]
       IN \/ Overwrite(e.bet, StatusOf[e.outcome]) /\ Succeeds("settled")
          \/ Errs("settled", "db") /\ (Overwrite(e.bet, StatusOf[e.outcome]) \/ UNCHANGED history)
    /\ UNCHANGED <<db, settlement, placedLog, voidedLog, confirming>>

HandleBetVoided ==
    /\ Receives("voided") /\ Dispatched("voided")
    /\ LET b == voidedLog[history_cg["voided"].next + 1]
       IN \/ Overwrite(b, "VOID") /\ Succeeds("voided")
          \/ Errs("voided", "db") /\ (Overwrite(b, "VOID") \/ UNCHANGED history)
    /\ UNCHANGED <<db, settlement, placedLog, voidedLog, confirming>>

\* The process restarts: all three claims go back to their commits.
HistoryRestarts ==
    /\ Fails("crash")
    /\ history_cg' = [t \in Topics |-> Restarted(history_cg[t])]
    /\ confirming' = NoBet
    /\ UNCHANGED <<db, settlement, placedLog, voidedLog, history>>

HistoryStep(t) ==
    \/ Undispatched(t)
    \/ t = "placed" /\ (HandleBetPlaced \/ Confirm)
    \/ t = "settled" /\ HandleBetSettled
    \/ t = "voided" /\ HandleBetVoided
=============================================================================
