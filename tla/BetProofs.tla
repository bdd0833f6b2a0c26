------------------------------ MODULE BetProofs -----------------------------
(***************************************************************************)
(* Proofs about BetAcceptance, for every set of bets, keys, users, stakes, *)
(* relays and failures that satisfies FlowAssumption.                      *)
(***************************************************************************)
EXTENDS BetAcceptance, LedgerProofs, FiniteSetTheorems

-----------------------------------------------------------------------------
(***************************************************************************)
(* The inductive invariant.                                                *)
(***************************************************************************)

\* The statuses of a row that the relay may have seen.
Released == {"READY_TO_PUBLISH", "PUBLISHED"}

\* A transaction id is drawn for one bet: a row under it is that bet's debit.
RowsAreDebits == \A b \in Bets : Recorded(b) => Paid(b)

\* What PlaceBet has done at each of its steps.
Progress ==
    \A b \in Bets :
        /\ at[b] \in {"new", "quote", "limits", "outbox"} => outbox[b] = "none"
        /\ at[b] \in {"deduct", "cancel", "ready"} => outbox[b] = "PENDING"
        /\ at[b] \in {"ready", "remember"} => Recorded(b)
        /\ at[b] = "rejected" => outbox[b] \in {"none", "PENDING", "CANCELLED"}
        /\ at[b] = "accepted" => answer[b].bet \in Bets /\ Recorded(answer[b].bet)

\* Only a bet that is paid for leaves the PENDING state towards the relay.
ReleasedIsRecorded == \A b \in Bets : outbox[b] \in Released => Recorded(b)

\* The relays and the topic hold released rows only.
RelaysHoldReleased ==
    /\ \A y \in Relays :
        /\ \A b \in batch[y] : outbox[b] \in Released
        /\ sent[y] # NoBet => sent[y] \in batch[y]
    /\ \A b \in Bets : copies[b] > 0 => outbox[b] \in Released

\* A key is remembered for a bet that is paid for.
KeysAreRecorded == \A k \in Keys : idem[k] # NoBet => Recorded(idem[k])

FlowInv ==
    /\ FlowTypeOK /\ RowsAreDebits /\ Progress
    /\ ReleasedIsRecorded /\ RelaysHoldReleased /\ KeysAreRecorded

-----------------------------------------------------------------------------
\* The wallet is touched through its operations only.
LEMMA FlowStepIsLedgerStep == [FlowNext]_vars => [Next]_db
<1>1. ASSUME NEW b \in Bets, PlaceBetStep(b) \/ LateDeduct(b) \/ Crash(b)
      PROVE  [Next]_db
  BY <1>1, FlowAssumption
     DEF PlaceBetStep, LateDeduct, Crash, IdempotentReplay, FirstTime, MarketOpenOddsValid,
         WithinLimits, RejectBeforeOutbox, WriteOutboxPending, Deduct, DeductRefused,
         DeductTimeout, CancelOutbox, MarkOutboxReady, Remember, Next
<1>2. ASSUME NEW k \in Keys, IdemExpires(k) PROVE [Next]_db
  BY <1>2 DEF IdemExpires
<1>3. ASSUME NEW y \in Relays, RelayStep(y) \/ RelayRestarts(y) PROVE [Next]_db
  BY <1>3 DEF RelayStep, RelayRestarts, FetchReady, SendMessage, SendFails, MarkPublished,
              MarkPublishedFails
<1>4. CASE WalletElsewhere
  BY <1>4 DEF WalletElsewhere, Next
<1> QED
  BY <1>1, <1>2, <1>3, <1>4 DEF FlowNext, vars

\* Rows stay, and a row that appears under a bet's id is that bet's debit: what
\* every step of the flow does to the wallet.
LEMMA WalletFacts ==
    ASSUME FlowInv, [Next]_db
    PROVE  /\ DbTypeOK'
           /\ \A b \in Bets : Recorded(b) => Recorded(b)'
           /\ RowsAreDebits'
<1> USE FlowAssumption
<1>1. DbTypeOK
  BY DEF FlowInv, FlowTypeOK
<1>2. DbTypeOK'
  BY <1>1, LedgerTypesStep
<1>3. ASSUME NEW b \in Bets, Recorded(b)
      PROVE  Recorded(b)' /\ Paid(b)'
  <2>1. Paid(b) /\ ledger[b] \in LedgerRow
    BY <1>1, <1>3 DEF FlowInv, RowsAreDebits, DbTypeOK
  <2>2. \/ ledger'[b] = ledger[b]
        \/ ledger'[b] = [ledger[b] EXCEPT !.status = "CONFIRMED"]
    BY <1>1, <1>3, RowKept
  <2> QED
    BY <1>3, <2>1, <2>2 DEF Recorded, Paid, LedgerRow
<1>4. ASSUME NEW b \in Bets, ~Recorded(b), Recorded(b)'
      PROVE  Paid(b)'
  <2>1. CASE \E r \in Requests :
                 Deposit(r) \/ Withdraw(r) \/ DeductBalance(r) \/ CreditBalance(r)
    <3>1. PICK r \in Requests :
                 Deposit(r) \/ Withdraw(r) \/ DeductBalance(r) \/ CreditBalance(r)
      BY <2>1
    <3>2. r.tx = b /\ ledger'[b] = RowOf(r)
      BY <1>1, <1>4, <3>1
         DEF Deposit, Withdraw, DeductBalance, CreditBalance, Recorded, DbTypeOK
    <3>3. r = DeductRequest(b)
      BY <3>2, RequestsAssumption DEF DeductRequest
    <3> QED
      BY <3>2, <3>3 DEF RowOf, DeductRequest, EntryType, Paid
  <2>2. CASE \E t \in Tx : ConfirmTransaction(t)
    BY <1>1, <1>4, <2>2 DEF ConfirmTransaction, Recorded, DbTypeOK
  <2>3. CASE UNCHANGED db
    BY <1>4, <2>3 DEF db, Recorded
  <2> QED
    BY <2>1, <2>2, <2>3 DEF Next
<1> QED
  BY <1>2, <1>3, <1>4 DEF RowsAreDebits

\* A deduction that goes through leaves its row.
LEMMA DeductRecords ==
    ASSUME DbTypeOK, NEW b \in Bets, DeductBalance(DeductRequest(b))
    PROVE  Recorded(b)'
BY FlowAssumption
   DEF DeductBalance, DeductRequest, DbTypeOK, RowOf, EntryStatus, Recorded

-----------------------------------------------------------------------------
\* The service starts in a state of the invariant.
LEMMA FlowInitInv == FlowInit => FlowInv
BY FlowAssumption, LedgerTypesInit
   DEF FlowInit, Init, FlowInv, FlowTypeOK, RowsAreDebits, Progress, ReleasedIsRecorded,
       RelaysHoldReleased, KeysAreRecorded, Released, Recorded, NoRow, Places, OutboxStatus

-----------------------------------------------------------------------------
\* Each step of PlaceBet, a late deduction and a crash preserve the invariant.
LEMMA PlaceBetPreserves ==
    ASSUME FlowInv, NEW b \in Bets, PlaceBetStep(b) \/ LateDeduct(b) \/ Crash(b)
    PROVE  FlowInv'
<1>1. /\ DbTypeOK'
      /\ \A c \in Bets : Recorded(c) => Recorded(c)'
      /\ RowsAreDebits'
  BY FlowStepIsLedgerStep, WalletFacts DEF FlowNext
<1> USE FlowAssumption, <1>1
    DEF FlowInv, FlowTypeOK, Progress, ReleasedIsRecorded, RelaysHoldReleased,
        KeysAreRecorded, Released, Recorded, Places, OutboxStatus, Goto, relay
<1>2. CASE IdempotentReplay(b)
  <2>1. FlowTypeOK'
    BY <1>2 DEF IdempotentReplay, Accept
  <2>2. Progress'
    BY <1>2 DEF IdempotentReplay, Accept
  <2>3. ReleasedIsRecorded' /\ KeysAreRecorded'
    BY <1>2 DEF IdempotentReplay, Accept
  <2>4. RelaysHoldReleased'
    BY <1>2 DEF IdempotentReplay, Accept
  <2> QED
    BY <2>1, <2>2, <2>3, <2>4
<1>3. CASE FirstTime(b)
  BY <1>3 DEF FirstTime
<1>4. CASE MarketOpenOddsValid(b)
  <2>1. FlowTypeOK'
    BY <1>4 DEF MarketOpenOddsValid
  <2>2. Progress'
    BY <1>4 DEF MarketOpenOddsValid
  <2>3. ReleasedIsRecorded' /\ KeysAreRecorded'
    BY <1>4 DEF MarketOpenOddsValid
  <2>4. RelaysHoldReleased'
    BY <1>4 DEF MarketOpenOddsValid
  <2> QED
    BY <2>1, <2>2, <2>3, <2>4
<1>5. CASE WithinLimits(b)
  BY <1>5 DEF WithinLimits
<1>6. CASE RejectBeforeOutbox(b)
  BY <1>6 DEF RejectBeforeOutbox
<1>7. CASE WriteOutboxPending(b)
  <2>1. Cardinality({c \in Bets : outbox[c] # "none"}) \in Nat
    BY FS_Subset, FS_CardinalityType
  <2>2. created' \in [Bets -> Nat]
    BY <1>7, <2>1 DEF WriteOutboxPending, InsertPending
  <2>3. at[b] = "outbox" /\ outbox[b] = "none"
        /\ UNCHANGED <<db, quoted, answer, idem, late, unsure, batch, sent, copies>>
    BY <1>7 DEF WriteOutboxPending
  <2>4. outbox' \in [Bets -> OutboxStatus]
    BY <1>7 DEF WriteOutboxPending, InsertPending
  <2>5. at' \in [Bets -> Places]
    <3>1. at' = [at EXCEPT ![b] = "deduct"] \/ at' = [at EXCEPT ![b] = "rejected"]
      BY <1>7 DEF WriteOutboxPending
    <3> QED
      BY <3>1
  <2>6. \A c \in Bets \ {b} : outbox'[c] = outbox[c] /\ at'[c] = at[c]
    BY <1>7 DEF WriteOutboxPending, InsertPending
  <2>7. \/ at'[b] = "deduct" /\ outbox'[b] = "PENDING"
        \/ at'[b] = "rejected" /\ outbox'[b] \in {"none", "PENDING"}
    BY <1>7 DEF WriteOutboxPending, InsertPending
  <2>8. FlowTypeOK'
    BY <2>2, <2>3, <2>4, <2>5
  <2>9. Progress' /\ ReleasedIsRecorded' /\ KeysAreRecorded'
    BY <2>3, <2>6, <2>7
  <2>10. RelaysHoldReleased'
    BY <2>3, <2>6, <2>7
  <2> QED
    BY <2>8, <2>9, <2>10
<1>8. CASE Deduct(b)
  <2>1. Recorded(b)'
    BY <1>8, DeductRecords DEF Deduct
  <2>2. at' = [at EXCEPT ![b] = "ready"] \/ at' = [at EXCEPT ![b] = "cancel"]
    BY <1>8 DEF Deduct
  <2>3. at[b] = "deduct" /\ UNCHANGED <<quoted, answer, idem, outbox, created, late, batch, sent, copies>>
        /\ unsure' \subseteq Bets
    BY <1>8 DEF Deduct
  <2>4. FlowTypeOK'
    <3>1. at' \in [Bets -> Places]
      BY <2>2
    <3> QED
      BY <2>3, <3>1
  <2>5. Progress'
    BY <2>1, <2>2, <2>3
  <2>6. ReleasedIsRecorded' /\ KeysAreRecorded' /\ RelaysHoldReleased'
    BY <2>3
  <2> QED
    BY <2>4, <2>5, <2>6
<1>9. CASE DeductRefused(b)
  BY <1>9 DEF DeductRefused
<1>10. CASE DeductTimeout(b)
  BY <1>10 DEF DeductTimeout
<1>11. CASE CancelOutbox(b)
  <2>1. at[b] = "cancel" /\ outbox[b] = "PENDING" /\ at' = [at EXCEPT ![b] = "rejected"]
        /\ UNCHANGED <<db, quoted, answer, idem, created, late, unsure, batch, sent, copies>>
    BY <1>11 DEF CancelOutbox
  <2>2. outbox' \in [Bets -> OutboxStatus] /\ outbox'[b] \in {"PENDING", "CANCELLED"}
        /\ \A c \in Bets \ {b} : outbox'[c] = outbox[c]
    BY <1>11 DEF CancelOutbox
  <2>3. FlowTypeOK' /\ Progress'
    BY <2>1, <2>2
  <2>4. ReleasedIsRecorded' /\ KeysAreRecorded'
    BY <2>1, <2>2
  <2>5. RelaysHoldReleased'
    BY <2>1, <2>2
  <2> QED
    BY <2>3, <2>4, <2>5
<1>12. CASE MarkOutboxReady(b)
  <2>1. /\ at[b] = "ready" /\ outbox[b] = "PENDING" /\ Recorded(b)
        /\ at' = [at EXCEPT ![b] = "remember"]
        /\ UNCHANGED <<db, quoted, answer, idem, created, late, unsure, batch, sent, copies>>
    BY <1>12 DEF MarkOutboxReady
  <2>2. outbox' \in [Bets -> OutboxStatus] /\ outbox'[b] \in {"PENDING", "READY_TO_PUBLISH"}
        /\ \A c \in Bets \ {b} : outbox'[c] = outbox[c]
    BY <1>12, <2>1 DEF MarkOutboxReady
  <2>3. FlowTypeOK' /\ Progress'
    BY <2>1, <2>2
  <2>4. ReleasedIsRecorded' /\ KeysAreRecorded'
    BY <2>1, <2>2
  <2>5. RelaysHoldReleased'
    BY <2>1, <2>2
  <2> QED
    BY <2>3, <2>4, <2>5
<1>13. CASE Remember(b)
  <2>1. at[b] = "remember" /\ at' = [at EXCEPT ![b] = "accepted"]
        /\ answer' = [answer EXCEPT ![b] = [bet |-> b, odds |-> quoted[b]]]
        /\ UNCHANGED <<db, quoted, outbox, created, late, unsure, batch, sent, copies>>
    BY <1>13 DEF Remember, Accept
  <2>2. idem' \in [Keys -> Bets \cup {NoBet}] /\ \A k \in Keys : idem'[k] \in {idem[k], b}
    BY <1>13 DEF Remember
  <2>3. FlowTypeOK'
    BY <2>1, <2>2
  <2>4. Progress'
    BY <2>1
  <2>5. ReleasedIsRecorded' /\ RelaysHoldReleased'
    BY <2>1
  <2>6. KeysAreRecorded'
    BY <2>1, <2>2
  <2> QED
    BY <2>3, <2>4, <2>5, <2>6
<1>14. CASE LateDeduct(b)
  BY <1>14 DEF LateDeduct
<1>15. CASE Crash(b)
  BY <1>15 DEF Crash
<1> QED
  BY <1>2, <1>3, <1>4, <1>5, <1>6, <1>7, <1>8, <1>9, <1>10, <1>11, <1>12, <1>13, <1>14, <1>15
     DEF PlaceBetStep

\* One send adds a copy of its own row's event at most.
LEMMA ProduceOne ==
    ASSUME copies \in [Bets -> 0..MaxCopies], NEW b \in Bets, Produce(b) \/ UNCHANGED copies
    PROVE  copies' \in [Bets -> 0..MaxCopies] /\ \A c \in Bets \ {b} : copies'[c] = copies[c]
BY FlowAssumption DEF Produce

\* Each step of a relay, its restart included, preserves the invariant.
LEMMA RelayPreserves ==
    ASSUME FlowInv, NEW y \in Relays, RelayStep(y) \/ RelayRestarts(y)
    PROVE  FlowInv'
<1>1. RowsAreDebits' /\ DbTypeOK' /\ \A c \in Bets : Recorded(c) => Recorded(c)'
  BY FlowStepIsLedgerStep, WalletFacts DEF FlowNext
<1> USE FlowAssumption, <1>1
    DEF FlowInv, FlowTypeOK, Progress, ReleasedIsRecorded, RelaysHoldReleased,
        KeysAreRecorded, Released, Recorded, Places, OutboxStatus, flow
<1>2. CASE FetchReady(y)
  <2>1. Oldest(Ready, BatchLimit) \subseteq {b \in Bets : outbox[b] \in Released}
    BY DEF Oldest, Ready
  <2>2. batch[y] = {} /\ sent[y] = NoBet
    BY <1>2 DEF FetchReady
  <2> QED
    BY <1>2, <2>1, <2>2 DEF FetchReady
<1>3. ASSUME NEW b \in Bets, SendMessage(y, b) PROVE FlowInv'
  <2>1. /\ b \in batch[y] /\ sent' = [sent EXCEPT ![y] = b]
        /\ UNCHANGED <<db, at, quoted, answer, idem, outbox, created, late, unsure, batch>>
    BY <1>3 DEF SendMessage, IsNextRow
  <2>2. copies' \in [Bets -> 0..MaxCopies] /\ \A c \in Bets \ {b} : copies'[c] = copies[c]
    BY <1>3, ProduceOne DEF SendMessage
  <2>3. FlowTypeOK' /\ Progress' /\ ReleasedIsRecorded' /\ KeysAreRecorded'
    BY <2>1, <2>2
  <2>4. RelaysHoldReleased'
    BY <2>1, <2>2
  <2> QED
    BY <2>3, <2>4
<1>4. ASSUME NEW b \in Bets, SendFails(y, b) PROVE FlowInv'
  <2>1. /\ b \in batch[y] /\ sent[y] = NoBet /\ batch' = [batch EXCEPT ![y] = @ \ {b}]
        /\ UNCHANGED <<db, at, quoted, answer, idem, outbox, created, late, unsure, sent>>
    BY <1>4 DEF SendFails, IsNextRow
  <2>2. copies' \in [Bets -> 0..MaxCopies] /\ \A c \in Bets \ {b} : copies'[c] = copies[c]
    BY <1>4, ProduceOne DEF SendFails
  <2>3. FlowTypeOK' /\ Progress' /\ ReleasedIsRecorded' /\ KeysAreRecorded'
    BY <2>1, <2>2
  <2>4. RelaysHoldReleased'
    BY <2>1, <2>2
  <2> QED
    BY <2>3, <2>4
<1>5. ASSUME NEW b \in Bets, MarkPublished(y, b) PROVE FlowInv'
  <2>1. /\ outbox' = [outbox EXCEPT ![b] = "PUBLISHED"]
        /\ batch' = [batch EXCEPT ![y] = @ \ {b}] /\ sent' = [sent EXCEPT ![y] = NoBet]
        /\ UNCHANGED <<db, at, quoted, answer, idem, created, late, unsure, copies>>
    BY <1>5 DEF MarkPublished
  <2>2. b \in batch[y] /\ outbox[b] \in Released /\ Recorded(b)
    BY <1>5 DEF MarkPublished
  <2>3. FlowTypeOK'
    BY <2>1
  <2>4. Progress'
    BY <2>1, <2>2
  <2>5. ReleasedIsRecorded' /\ KeysAreRecorded'
    BY <2>1, <2>2
  <2>6. RelaysHoldReleased'
    BY <2>1
  <2> QED
    BY <2>3, <2>4, <2>5, <2>6
<1>6. ASSUME NEW b \in Bets, MarkPublishedFails(y, b) PROVE FlowInv'
  BY <1>6 DEF MarkPublishedFails
<1>7. CASE RelayRestarts(y)
  BY <1>7 DEF RelayRestarts
<1> QED
  BY <1>2, <1>3, <1>4, <1>5, <1>6, <1>7 DEF RelayStep
-----------------------------------------------------------------------------
\* The invariant is inductive.
LEMMA FlowNextInv == FlowInv /\ [FlowNext]_vars => FlowInv'
<1> SUFFICES ASSUME FlowInv, [FlowNext]_vars PROVE FlowInv'
  OBVIOUS
<1>1. RowsAreDebits' /\ DbTypeOK' /\ \A c \in Bets : Recorded(c) => Recorded(c)'
  BY FlowStepIsLedgerStep, WalletFacts
<1>2. ASSUME NEW b \in Bets, PlaceBetStep(b) \/ LateDeduct(b) \/ Crash(b) PROVE FlowInv'
  BY <1>2, PlaceBetPreserves
<1>3. ASSUME NEW y \in Relays, RelayStep(y) \/ RelayRestarts(y) PROVE FlowInv'
  BY <1>3, RelayPreserves
<1>4. ASSUME NEW k \in Keys, IdemExpires(k) PROVE FlowInv'
  BY <1>1, <1>4
     DEF IdemExpires, FlowInv, FlowTypeOK, Progress, ReleasedIsRecorded, RelaysHoldReleased,
         KeysAreRecorded, Recorded, relay
<1>5. CASE WalletElsewhere \/ UNCHANGED vars
  BY <1>1, <1>5
     DEF WalletElsewhere, vars, flow, relay, FlowInv, FlowTypeOK, Progress,
         ReleasedIsRecorded, RelaysHoldReleased, KeysAreRecorded, Recorded
<1> QED
  BY <1>2, <1>3, <1>4, <1>5 DEF FlowNext

\* PlaceBet, the relays and the wallet stay in the invariant under every
\* interleaving and every failure the model admits.
THEOREM FlowInvariant == FlowSpec => []FlowInv
BY FlowInitInv, FlowNextInv, PTL DEF FlowSpec

\* The variables of PlaceBet, the outbox and the relays have their types.
THEOREM FlowTypeCorrect == FlowSpec => []FlowTypeOK
<1>1. FlowInv => FlowTypeOK
  BY DEF FlowInv
<1> QED
  BY <1>1, FlowInvariant, PTL

\* No bet.placed event without the stake: the relays publish only what the wallet
\* has taken, however many of them run and however they fail.
THEOREM EventsArePaid == FlowSpec => []PublishedIsPaid
<1>1. FlowInv => PublishedIsPaid
  BY DEF FlowInv, RowsAreDebits, ReleasedIsRecorded, RelaysHoldReleased, PublishedIsPaid
<1> QED
  BY <1>1, FlowInvariant, PTL

\* No ACCEPTED answer without the stake, replays of an idempotency key included.
THEOREM AcceptancesArePaid == FlowSpec => []AcceptedIsPaid
<1>1. FlowInv => AcceptedIsPaid
  BY FlowAssumption DEF FlowInv, RowsAreDebits, Progress, AcceptedIsPaid
<1> QED
  BY <1>1, FlowInvariant, PTL

\* A rejected bet is never published.
THEOREM RejectionsStayUnpublished == FlowSpec => []RejectedNotPublished
<1>1. FlowInv => RejectedNotPublished
  <2> SUFFICES ASSUME FlowInv, NEW b \in Bets, at[b] = "rejected"
               PROVE  copies[b] = 0 /\ outbox[b] \in {"none", "PENDING", "CANCELLED"}
    BY DEF RejectedNotPublished
  <2>1. outbox[b] \in {"none", "PENDING", "CANCELLED"}
    BY DEF FlowInv, Progress
  <2>2. ~(copies[b] > 0)
    BY <2>1 DEF FlowInv, RelaysHoldReleased, Released
  <2>3. copies[b] \in 0..MaxCopies /\ MaxCopies \in Nat
    BY FlowAssumption DEF FlowInv, FlowTypeOK
  <2> QED
    BY <2>1, <2>2, <2>3
<1> QED
  BY <1>1, FlowInvariant, PTL

-----------------------------------------------------------------------------
\* cancelOutbox and markPublished overwrite whatever status they find, and yet an
\* outbox row only moves forward: PlaceBet cancels PENDING rows only, and the
\* relays hold released ones only.
THEOREM OutboxMovesForward == FlowSpec => OutboxForward
<1>1. ASSUME FlowInv, [FlowNext]_vars, NEW b \in Bets, outbox'[b] # outbox[b]
      PROVE  <<outbox[b], outbox'[b]>> \in
                  {<<"none", "PENDING">>, <<"PENDING", "READY_TO_PUBLISH">>,
                   <<"PENDING", "CANCELLED">>, <<"READY_TO_PUBLISH", "PUBLISHED">>}
  <2> USE <1>1 DEF FlowInv, FlowTypeOK
  <2>1. ASSUME NEW c \in Bets, PlaceBetStep(c) \/ LateDeduct(c) \/ Crash(c)
        PROVE  \/ outbox[b] = "none" /\ outbox'[b] = "PENDING"
               \/ outbox[b] = "PENDING" /\ outbox'[b] \in {"READY_TO_PUBLISH", "CANCELLED"}
    BY <2>1
       DEF Progress, PlaceBetStep, LateDeduct, Crash, IdempotentReplay, FirstTime,
           MarketOpenOddsValid, WithinLimits, RejectBeforeOutbox, WriteOutboxPending,
           InsertPending, Deduct, DeductRefused, DeductTimeout, CancelOutbox,
           MarkOutboxReady, Remember
  <2>2. ASSUME NEW y \in Relays, RelayStep(y) \/ RelayRestarts(y)
        PROVE  outbox[b] = "READY_TO_PUBLISH" /\ outbox'[b] = "PUBLISHED"
    BY <2>2, FlowAssumption
       DEF RelaysHoldReleased, Released, RelayStep, RelayRestarts, FetchReady, SendMessage,
           SendFails, MarkPublished, MarkPublishedFails, flow
  <2>3. ASSUME NEW k \in Keys, IdemExpires(k) PROVE FALSE
    BY <2>3 DEF IdemExpires
  <2>4. CASE WalletElsewhere \/ UNCHANGED vars
    BY <2>4 DEF WalletElsewhere, vars, flow
  <2> QED
    BY <2>1, <2>2, <2>3, <2>4 DEF FlowNext
<1>2. FlowInv /\ [FlowNext]_vars =>
        [\A b \in Bets :
          outbox'[b] # outbox[b] =>
              <<outbox[b], outbox'[b]>> \in
                  {<<"none", "PENDING">>, <<"PENDING", "READY_TO_PUBLISH">>,
                   <<"PENDING", "CANCELLED">>, <<"READY_TO_PUBLISH", "PUBLISHED">>}]_vars
  BY <1>1
<1> QED
  BY <1>2, FlowInvariant, PTL DEF FlowSpec, OutboxForward

-----------------------------------------------------------------------------
\* Bet Acceptance and whatever else runs beside it use the wallet as WalletLedger
\* describes, so its guarantees hold for the composition.
THEOREM FlowImplementsLedger == FlowSpec => Spec
<1>1. FlowInit => Init
  BY DEF FlowInit
<1> QED
  BY <1>1, FlowStepIsLedgerStep, PTL DEF FlowSpec, Spec

\* However bets are placed, cancelled, cut off and sent again, a user's available
\* balance follows the ledger.
THEOREM FlowExplainsBalances == FlowSpec => AvailableFollowsLedger
BY FlowImplementsLedger, LedgerExplainsBalances, PTL

-----------------------------------------------------------------------------
(***************************************************************************)
(* A rejection is free unless DeductBalance ended in an error that says    *)
(* nothing, and a key guards its bet while Redis keeps it.                 *)
(***************************************************************************)

\* PlaceBet has not asked for the stake, or knows that it was refused.
Clear(b) == \/ at[b] \in {"new", "quote", "limits", "outbox", "deduct"}
            \/ at[b] \in {"cancel", "rejected"} /\ b \notin unsure

\* The stake of such a bet is not taken, and no call for it is on its way.
ClearIsUnpaid == \A b \in Bets : Clear(b) => ~Recorded(b) /\ b \notin late

\* Only the bet's own calls write its row.
LEMMA OwnCallRecords ==
    ASSUME FlowInv, FlowNext, NEW b \in Bets, ~Recorded(b), Recorded(b)'
    PROVE  Deduct(b) \/ LateDeduct(b)
<1> USE FlowAssumption
<1>1. ledger \in [Tx -> LedgerRow] /\ b \in Tx
  BY DEF FlowInv, FlowTypeOK, DbTypeOK
<1>2. ledger' # ledger
  BY DEF Recorded
<1>3. ASSUME NEW r \in Requests, Deposit(r) \/ Withdraw(r) \/ CreditBalance(r) PROVE FALSE
  <2>1. r.tx = b
    BY <1>1, <1>3 DEF Deposit, Withdraw, CreditBalance, Recorded
  <2>2. r = DeductRequest(b)
    BY <2>1, RequestsAssumption DEF DeductRequest
  <2> QED
    BY <1>3, <2>2 DEF DeductRequest, Deposit, Withdraw, CreditBalance
<1>4. ASSUME NEW t \in Tx, ConfirmTransaction(t) PROVE FALSE
  BY <1>1, <1>4 DEF ConfirmTransaction, Recorded
<1>5. ASSUME NEW c \in Bets, DeductBalance(DeductRequest(c)) PROVE c = b
  BY <1>1, <1>5 DEF DeductBalance, DeductRequest, Recorded
<1>6. ASSUME NEW c \in Bets, PlaceBetStep(c) \/ LateDeduct(c) \/ Crash(c) PROVE Deduct(b) \/ LateDeduct(b)
  <2>1. UNCHANGED ledger \/ Deduct(c) \/ LateDeduct(c)
    BY <1>6 DEF PlaceBetStep, Crash, IdempotentReplay, FirstTime, MarketOpenOddsValid, WithinLimits,
                RejectBeforeOutbox, WriteOutboxPending, DeductRefused, DeductTimeout, CancelOutbox,
                MarkOutboxReady, Remember, db
  <2>2. c = b
    BY <1>2, <1>5, <2>1 DEF Deduct, LateDeduct
  <2> QED
    BY <1>2, <2>1, <2>2
<1>7. ASSUME NEW k \in Keys, IdemExpires(k) PROVE FALSE
  BY <1>2, <1>7 DEF IdemExpires, db
<1>8. ASSUME NEW y \in Relays, RelayStep(y) \/ RelayRestarts(y) PROVE FALSE
  BY <1>2, <1>8 DEF RelayStep, RelayRestarts, FetchReady, SendMessage, SendFails, MarkPublished,
                    MarkPublishedFails, db
<1> QED
  BY <1>3, <1>4, <1>6, <1>7, <1>8 DEF FlowNext, WalletElsewhere

\* A bet becomes clear at its beginning only, and while it is clear no call is left behind.
LEMMA ClearBefore ==
    ASSUME FlowInv, [FlowNext]_vars, NEW b \in Bets, Clear(b)'
    PROVE  Clear(b) /\ (b \in late' => b \in late)
<1>1. at \in [Bets -> Places] /\ unsure \subseteq Bets
  BY DEF FlowInv, FlowTypeOK
<1>2. ASSUME NEW c \in Bets, PlaceBetStep(c) \/ LateDeduct(c) \/ Crash(c)
      PROVE  Clear(b) /\ (b \in late' => b \in late)
  <2> USE <1>1 DEF Clear, Goto
  <2>1. CASE IdempotentReplay(c) \/ Remember(c)
    BY <2>1 DEF IdempotentReplay, Remember, Accept
  <2>2. CASE FirstTime(c) \/ MarketOpenOddsValid(c) \/ WithinLimits(c) \/ RejectBeforeOutbox(c)
    BY <2>2 DEF FirstTime, MarketOpenOddsValid, WithinLimits, RejectBeforeOutbox
  <2>3. CASE WriteOutboxPending(c)
    <3>1. /\ at[c] = "outbox" /\ UNCHANGED <<late, unsure>>
          /\ \E p \in {"deduct", "rejected"} : at' = [at EXCEPT ![c] = p]
      BY <2>3 DEF WriteOutboxPending
    <3> QED
      BY <3>1
  <2>4. CASE Deduct(c)
    <3>1. /\ at[c] = "deduct" /\ late' = late
          /\ \/ at' = [at EXCEPT ![c] = "ready"] /\ unsure' = unsure
             \/ at' = [at EXCEPT ![c] = "cancel"] /\ unsure' = unsure \cup {c}
      BY <2>4 DEF Deduct
    <3> QED
      BY <3>1
  <2>5. CASE DeductRefused(c)
    BY <2>5 DEF DeductRefused
  <2>6. CASE DeductTimeout(c)
    BY <2>6 DEF DeductTimeout
  <2>7. CASE CancelOutbox(c)
    BY <2>7 DEF CancelOutbox
  <2>8. CASE MarkOutboxReady(c)
    BY <2>8 DEF MarkOutboxReady
  <2>9. CASE LateDeduct(c)
    BY <2>9 DEF LateDeduct
  <2>10. CASE Crash(c)
    BY <2>10 DEF Crash
  <2> QED
    BY <1>2, <2>1, <2>2, <2>3, <2>4, <2>5, <2>6, <2>7, <2>8, <2>9, <2>10 DEF PlaceBetStep
<1>3. UNCHANGED <<at, late, unsure>> \/ \E c \in Bets : PlaceBetStep(c) \/ LateDeduct(c) \/ Crash(c)
  BY DEF FlowNext, IdemExpires, RelayStep, RelayRestarts, FetchReady, SendMessage, SendFails, MarkPublished,
         MarkPublishedFails, WalletElsewhere, flow, vars
<1> QED
  BY <1>2, <1>3 DEF Clear

LEMMA ClearStep ==
    ASSUME FlowInv, ClearIsUnpaid, [FlowNext]_vars
    PROVE  ClearIsUnpaid'
<1>1. ASSUME NEW b \in Bets, Clear(b)', Recorded(b)', ~Recorded(b), b \notin late PROVE FALSE
  <2>1. FlowNext
    BY <1>1 DEF vars, db, Recorded
  <2>2. Deduct(b)
    BY <1>1, <2>1, OwnCallRecords DEF LateDeduct
  <2>3. /\ at \in [Bets -> Places]
        /\ \/ at' = [at EXCEPT ![b] = "ready"]
           \/ at' = [at EXCEPT ![b] = "cancel"] /\ unsure' = unsure \cup {b}
    BY <2>2 DEF Deduct, Goto, FlowInv, FlowTypeOK
  <2> QED
    BY <1>1, <2>3 DEF Clear
<1> QED
  BY <1>1, ClearBefore DEF ClearIsUnpaid

\* A rejected bet has cost nothing, whatever else fails or crashes, unless its deduction
\* ended in an error that says nothing (bet_flow.go:230-246).
THEOREM RejectionsAreFree == FlowSpec => []RejectedCostsNothing
<1>1. FlowInit => ClearIsUnpaid
  BY FlowAssumption DEF FlowInit, Init, ClearIsUnpaid, Recorded, NoRow
<1>2. FlowInv /\ ClearIsUnpaid /\ [FlowNext]_vars => ClearIsUnpaid'
  BY ClearStep
<1>3. ClearIsUnpaid => RejectedCostsNothing
  BY DEF ClearIsUnpaid, Clear, RejectedCostsNothing
<1> QED
  BY <1>1, <1>2, <1>3, FlowInvariant, PTL DEF FlowSpec

\* The key of an accepted bet is in Redis.
KeysKept == \A b \in Bets : at[b] = "accepted" => idem[KeyOf[b]] # NoBet

LEMMA KeysKeptStep ==
    ASSUME "redis" \notin Faults, FlowInv, KeysKept, [FlowNext]_vars
    PROVE  KeysKept'
<1> USE FlowAssumption DEF KeysKept
<1>1. at \in [Bets -> Places] /\ idem \in [Keys -> Bets \cup {NoBet}]
  BY DEF FlowInv, FlowTypeOK
<1>2. ASSUME NEW c \in Bets, PlaceBetStep(c) \/ LateDeduct(c) \/ Crash(c) PROVE KeysKept'
  <2>1. CASE IdempotentReplay(c) \/ Remember(c)
    BY <1>1, <2>1 DEF IdempotentReplay, Remember, Accept, Goto
  <2>2. CASE idem' = idem /\ \A b \in Bets : at'[b] = "accepted" => at[b] = "accepted"
    BY <2>2
  <2>3. IdempotentReplay(c) \/ Remember(c)
        \/ (idem' = idem /\ \A b \in Bets : at'[b] = "accepted" => at[b] = "accepted")
    BY <1>1, <1>2
       DEF PlaceBetStep, LateDeduct, Crash, FirstTime, MarketOpenOddsValid, WithinLimits, RejectBeforeOutbox,
           WriteOutboxPending, Deduct, DeductRefused, DeductTimeout, CancelOutbox, MarkOutboxReady, Goto
  <2> QED
    BY <2>1, <2>2, <2>3
<1>3. UNCHANGED <<at, idem>> \/ \E c \in Bets : PlaceBetStep(c) \/ LateDeduct(c) \/ Crash(c)
  BY DEF FlowNext, IdemExpires, RelayStep, RelayRestarts, FetchReady, SendMessage, SendFails, MarkPublished,
         MarkPublishedFails, WalletElsewhere, flow, vars
<1> QED
  BY <1>2, <1>3

\* While Redis keeps the keys, a retry sent after the answer is answered from the key and
\* never taken for a new bet (bet_flow.go:153-166, 260).
THEOREM RetriesAreReplays ==
    ASSUME "redis" \notin Faults
    PROVE  FlowSpec => RetryAfterAnswerIsReplay
<1>1. FlowInit => KeysKept
  BY DEF FlowInit, KeysKept
<1>2. FlowInv /\ KeysKept /\ [FlowNext]_vars => KeysKept'
  BY KeysKeptStep
<1>3. ASSUME FlowInv, KeysKept, [FlowNext]_vars, NEW b \in Bets, NEW c \in Bets,
             KeyOf[b] = KeyOf[c], at[c] = "accepted", at[b] = "new"
      PROVE  at'[b] # "quote"
  <2>1. idem[KeyOf[b]] # NoBet /\ at \in [Bets -> Places]
    BY <1>3 DEF KeysKept, FlowInv, FlowTypeOK
  <2>2. ASSUME NEW d \in Bets, PlaceBetStep(d) \/ LateDeduct(d) \/ Crash(d) PROVE at'[b] # "quote"
    BY <1>3, <2>1, <2>2
       DEF PlaceBetStep, LateDeduct, Crash, IdempotentReplay, FirstTime, MarketOpenOddsValid, WithinLimits,
           RejectBeforeOutbox, WriteOutboxPending, Deduct, DeductRefused, DeductTimeout, CancelOutbox,
           MarkOutboxReady, Remember, Accept, Goto
  <2>3. UNCHANGED at \/ \E d \in Bets : PlaceBetStep(d) \/ LateDeduct(d) \/ Crash(d)
    BY <1>3 DEF FlowNext, IdemExpires, RelayStep, RelayRestarts, FetchReady, SendMessage, SendFails, MarkPublished,
                MarkPublishedFails, WalletElsewhere, flow, vars
  <2> QED
    BY <1>3, <2>2, <2>3
<1>4. FlowInv /\ KeysKept /\ [FlowNext]_vars =>
        [\A b, c \in Bets :
          KeyOf[b] = KeyOf[c] /\ at[c] = "accepted" /\ at[b] = "new" => at'[b] # "quote"]_vars
  BY <1>3
<1> QED
  BY <1>1, <1>2, <1>4, FlowInvariant, PTL DEF FlowSpec, RetryAfterAnswerIsReplay
=============================================================================
