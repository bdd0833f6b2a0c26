----------------------------- MODULE LedgerProofs ---------------------------
(***************************************************************************)
(* What the wallet's atomic operations guarantee, for every set of users,  *)
(* transaction ids and requests that satisfies RequestsAssumption.         *)
(***************************************************************************)
EXTENDS WalletLedger, TLAPS

\* The initial tables and every step of the wallet respect the column types.
LEMMA LedgerTypesInit == Init => DbTypeOK
BY DEF Init, DbTypeOK, NoRow, LedgerRow, EntryTypes, Statuses

\* Every operation keeps the column types: its row is one the schema admits.
LEMMA LedgerTypesStep ==
    ASSUME DbTypeOK, [Next]_db
    PROVE  DbTypeOK'
<1>1. \A r \in Requests : RowOf(r) \in LedgerRow
  BY RequestsAssumption
     DEF RowOf, LedgerRow, EntryTypes, Statuses, EntryType, EntryStatus
<1>2. ASSUME NEW r \in Requests,
             Deposit(r) \/ Withdraw(r) \/ DeductBalance(r) \/ CreditBalance(r)
      PROVE  DbTypeOK'
  BY <1>1, <1>2, RequestsAssumption
     DEF Deposit, Withdraw, DeductBalance, CreditBalance, Move, DbTypeOK
<1>3. ASSUME NEW t \in Tx, ConfirmTransaction(t) PROVE DbTypeOK'
  BY <1>3 DEF ConfirmTransaction, DbTypeOK, LedgerRow, Statuses
<1>4. CASE UNCHANGED db
  BY <1>4 DEF db, DbTypeOK
<1> QED
  BY <1>2, <1>3, <1>4 DEF Next

\* The wallet's tables have their column types in every reachable state.
LEMMA LedgerTypes == Spec => []DbTypeOK
<1>1. DbTypeOK /\ [Next]_db => DbTypeOK'
  BY LedgerTypesStep
<1> QED
  BY <1>1, LedgerTypesInit, PTL DEF Spec

\* A row stands for the request with its id: the fields a confirmation leaves alone.
RowsOfRequests ==
    \A r \in Requests :
        Recorded(r.tx) => /\ ledger[r.tx].user = r.user
                          /\ ledger[r.tx].type = EntryType(r.op)
                          /\ ledger[r.tx].amount = r.amount

\* Every operation writes the row of its own request, and no other request has its id.
LEMMA RowsOfRequestsStep ==
    ASSUME DbTypeOK, RowsOfRequests, [Next]_db
    PROVE  RowsOfRequests'
<1>1. ASSUME NEW r \in Requests,
             Deposit(r) \/ Withdraw(r) \/ DeductBalance(r) \/ CreditBalance(r),
             NEW s \in Requests, Recorded(s.tx)'
      PROVE  /\ ledger'[s.tx].user = s.user
             /\ ledger'[s.tx].type = EntryType(s.op)
             /\ ledger'[s.tx].amount = s.amount
  <2>1. r.tx \in Tx /\ s.tx \in Tx /\ (r.tx = s.tx => r = s)
    BY <1>1, RequestsAssumption
  <2>2. ledger' = ledger \/ (ledger' = [ledger EXCEPT ![r.tx] = RowOf(r)])
    BY <1>1 DEF Deposit, Withdraw, DeductBalance, CreditBalance
  <2>3. CASE ledger'[s.tx] = ledger[s.tx]
    BY <1>1, <2>3 DEF RowsOfRequests, Recorded
  <2>4. CASE r.tx = s.tx /\ ledger'[s.tx] = RowOf(r)
    BY <2>1, <2>4 DEF RowOf
  <2> QED
    BY <2>1, <2>2, <2>3, <2>4 DEF DbTypeOK
<1>2. ASSUME NEW t \in Tx, ConfirmTransaction(t), NEW s \in Requests
      PROVE  /\ Recorded(s.tx)' => Recorded(s.tx)
             /\ ledger'[s.tx].user = ledger[s.tx].user
             /\ ledger'[s.tx].type = ledger[s.tx].type
             /\ ledger'[s.tx].amount = ledger[s.tx].amount
  <2>1. s.tx \in Tx
    BY RequestsAssumption
  <2> QED
    BY <1>2, <2>1 DEF ConfirmTransaction, DbTypeOK, LedgerRow, Recorded
<1>3. CASE UNCHANGED db
  BY <1>3 DEF db, RowsOfRequests, Recorded
<1>4. ASSUME NEW t \in Tx, ConfirmTransaction(t) PROVE RowsOfRequests'
  BY <1>2, <1>4 DEF RowsOfRequests
<1>5. ASSUME NEW r \in Requests,
             Deposit(r) \/ Withdraw(r) \/ DeductBalance(r) \/ CreditBalance(r)
      PROVE  RowsOfRequests'
  BY <1>1, <1>5 DEF RowsOfRequests
<1> QED
  BY <1>3, <1>4, <1>5 DEF Next

\* Rows and column types together, in every reachable state.
LEMMA LedgerRows == Spec => [](DbTypeOK /\ RowsOfRequests)
<1>1. Init => RowsOfRequests
  BY RequestsAssumption DEF Init, RowsOfRequests, Recorded, NoRow
<1>2. RowsOfRequests /\ DbTypeOK /\ [Next]_db => RowsOfRequests'
  BY RowsOfRequestsStep
<1> QED
  BY <1>1, <1>2, LedgerTypes, PTL DEF Spec

\* The row of r explains what r's operation does to the available balances.
LEMMA RowExplains ==
    ASSUME DbTypeOK, RowsOfRequests, NEW r \in Requests,
           Deposit(r) \/ Withdraw(r) \/ DeductBalance(r) \/ CreditBalance(r),
           NEW u \in Users, available'[u] # available[u]
    PROVE  /\ r.tx \in Tx /\ ledger'[r.tx].user = u
           /\ available'[u] = available[u] + Worth(ledger'[r.tx])
           /\ ~Recorded(r.tx) \/ ledger[r.tx].type = "CREDIT"
<1>1. r.tx \in Tx /\ r.user \in Users /\ r.amount \in Int /\ -r.amount \in Int
  BY RequestsAssumption
<1>2. available[u] \in Int /\ available \in [Users -> Int] /\ ledger \in [Tx -> LedgerRow]
  BY DEF DbTypeOK
<1>3. CASE Deposit(r)
  BY <1>1, <1>2, <1>3 DEF Deposit, Move, RowOf, EntryType, Worth
<1>4. CASE Withdraw(r)
  BY <1>1, <1>2, <1>4 DEF Withdraw, Move, RowOf, EntryType, Worth
<1>5. CASE DeductBalance(r)
  BY <1>1, <1>2, <1>5 DEF DeductBalance, Move, RowOf, EntryType, Worth
<1>6. CASE CreditBalance(r) /\ Recorded(r.tx)
  BY <1>1, <1>2, <1>6 DEF CreditBalance, Move, RowsOfRequests, EntryType, Worth
<1>7. CASE CreditBalance(r) /\ ~Recorded(r.tx)
  BY <1>1, <1>2, <1>7 DEF CreditBalance, Move, RowOf, EntryType, Worth
<1> QED
  BY <1>3, <1>4, <1>5, <1>6, <1>7

\* The available balance follows the ledger under every interleaving of the atomic
\* operations: it is RowsOfRequests that lets a repeated credit find its row.
THEOREM LedgerExplainsBalances == Spec => AvailableFollowsLedger
<1> DEFINE Explained(u) ==
        available'[u] # available[u] =>
            \E t \in Tx :
                /\ ledger'[t].user = u
                /\ available'[u] = available[u] + Worth(ledger'[t])
                /\ ~Recorded(t) \/ ledger[t].type = "CREDIT"
<1>1. ASSUME DbTypeOK, RowsOfRequests, [Next]_db, NEW u \in Users PROVE Explained(u)
  <2>1. ASSUME NEW r \in Requests,
               Deposit(r) \/ Withdraw(r) \/ DeductBalance(r) \/ CreditBalance(r)
        PROVE  Explained(u)
    BY <1>1, <2>1, RowExplains
  <2>2. ASSUME NEW t \in Tx, ConfirmTransaction(t) PROVE Explained(u)
    BY <2>2 DEF ConfirmTransaction
  <2>3. CASE UNCHANGED db
    BY <2>3 DEF db
  <2> QED
    BY <1>1, <2>1, <2>2, <2>3 DEF Next
<1>2. DbTypeOK /\ RowsOfRequests /\ [Next]_db => [\A u \in Users : Explained(u)]_db
  BY <1>1
<1> QED
  BY <1>2, LedgerRows, PTL DEF Spec, AvailableFollowsLedger

\* What a step may do to a row that is there: confirm it, or nothing.
LEMMA RowKept ==
    ASSUME DbTypeOK, [Next]_db, NEW t \in Tx, Recorded(t)
    PROVE  \/ ledger'[t] = ledger[t]
           \/ /\ ledger[t].status = "PENDING_CONFIRMATION"
              /\ ledger'[t] = [ledger[t] EXCEPT !.status = "CONFIRMED"]
<1>1. CASE \E r \in Requests :
                 Deposit(r) \/ Withdraw(r) \/ DeductBalance(r) \/ CreditBalance(r)
  BY <1>1 DEF Deposit, Withdraw, DeductBalance, CreditBalance, Recorded, DbTypeOK
<1>2. CASE \E s \in Tx : ConfirmTransaction(s)
  BY <1>2 DEF ConfirmTransaction, DbTypeOK
<1>3. CASE UNCHANGED db
  BY <1>3 DEF db
<1> QED
  BY <1>1, <1>2, <1>3 DEF Next

\* A recorded row is never rewritten, only confirmed.
THEOREM LedgerRowsImmutable == Spec => RowsImmutable
<1>1. DbTypeOK /\ [Next]_db =>
        [\A t \in Tx :
            Recorded(t) => \/ ledger'[t] = ledger[t]
                           \/ /\ ledger[t].status = "PENDING_CONFIRMATION"
                              /\ ledger'[t] = [ledger[t] EXCEPT !.status = "CONFIRMED"]]_db
  BY RowKept
<1> QED
  BY <1>1, LedgerTypes, PTL DEF Spec, RowsImmutable
=============================================================================
