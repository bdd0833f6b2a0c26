----------------------------- MODULE WalletProofs ---------------------------
(***************************************************************************)
(* Proofs about WalletService, for every set of users, transaction ids,    *)
(* requests and concurrent calls that satisfies RequestsAssumption.        *)
(***************************************************************************)
EXTENDS WalletService, LedgerProofs

-----------------------------------------------------------------------------
(***************************************************************************)
(* The inductive invariant.                                                *)
(***************************************************************************)

\* Which request a call can be serving at each of its locations.
Served ==
    \A c \in Calls :
        /\ pc[c] = "credit" => req[c].op = "CreditBalance"
        /\ pc[c] \in {"check", "lock", "write"} => req[c].op # "CreditBalance"
        /\ pc[c] = "read" => req[c].op \in {"DeductBalance", "Withdraw"}

\* Only the call that waits for the row, or writes it, holds its user's
\* advisory lock, and the row lock is held from the SELECT to the end.
Locks ==
    /\ \A c \in Calls :
        /\ pc[c] \in {"read", "write"} => advisory[User(c)] = {c}
        /\ pc[c] = "write" /\ req[c].op # "Deposit"
             => rowLock[User(c)] = {c} /\ User(c) \in funded
    /\ \A u \in Users, c \in Calls :
        /\ c \in advisory[u] => pc[c] \in {"read", "write"} /\ u = User(c)
        /\ c \in rowLock[u] => pc[c] = "write" /\ req[c].op # "Deposit" /\ u = User(c)

\* The CHECK constraints, the foreign key from ledger_entries to balances, and
\* what a row says: the request whose id it carries.
Tables ==
    /\ \A u \in Users : available[u] >= 0 /\ inFlight[u] >= 0
    /\ \A t \in Tx : Recorded(t) =>
        \E r \in Requests :
            /\ r.tx = t
            /\ ledger[t].user = r.user /\ ledger[t].amount = r.amount
            /\ ledger[t].type = EntryType(r.op)
            /\ r.user \in funded

\* Nothing is acknowledged before it is recorded.
Answered ==
    \A c \in Calls :
        \/ pc[c] = "reread"
        \/ pc[c] = "idle" /\ resp[c].code = "OK"
        => Recorded(req[c].tx)

ServiceInv ==
    TypeOK /\ Served /\ Locks /\ Tables /\ ReadStaysCurrent /\ Answered /\ FundsCheckNeverStale

-----------------------------------------------------------------------------
\* The service starts in a state of the invariant: empty tables, no call, no lock.
LEMMA InitInv == ServiceInit => ServiceInv
BY RequestsAssumption
   DEF ServiceInit, Init, ServiceInv, TypeOK, DbTypeOK, Served, Locks, Tables, ReadStaysCurrent,
       Answered, FundsCheckNeverStale, Recorded, NoRow, LedgerRow, EntryTypes, Statuses,
       Locations, Codes, User

(***************************************************************************)
(* A call that returns: what remains to be shown is about the tables, the  *)
(* balances other calls have read, and its own answer.                     *)
(***************************************************************************)
LEMMA ReplyPreserves ==
    ASSUME NEW c \in Calls, NEW code \in Codes, NEW after \in Int,
           ServiceInv, Reply(c, code, after),
           DbTypeOK', Tables', funded \subseteq funded',
           \A t \in Tx : Recorded(t) => Recorded(t)',
           \A d \in Calls : d # c /\ pc[d] = "write" /\ req[d].op # "Deposit"
               => available'[User(d)] = available[User(d)],
           code = "OK" => Recorded(req[c].tx)',
           code = "CheckAvailable" => req[c].op = "CreditBalance"
    PROVE  ServiceInv'
<1> USE RequestsAssumption DEF ServiceInv, TypeOK, DbTypeOK, Reply, Goto, User, Amount
<1>1. TypeOK'
  BY DEF Locations
<1>2. Served'
  BY DEF Served
<1>3. Locks'
  BY DEF Locks
<1>4. ReadStaysCurrent'
  BY DEF ReadStaysCurrent
<1>5. Answered'
  BY DEF Answered, Recorded
<1>6. FundsCheckNeverStale'
  BY DEF FundsCheckNeverStale
<1> QED
  BY <1>1, <1>2, <1>3, <1>4, <1>5, <1>6

\* A call that fails leaves the tables alone.
LEMMA FailPreserves ==
    ASSUME NEW c \in Calls, NEW code \in Codes, ServiceInv, Fail(c, code),
           code = "OK" => Recorded(req[c].tx),
           code = "CheckAvailable" => req[c].op = "CreditBalance"
    PROVE  ServiceInv'
<1>1. Reply(c, code, 0) /\ UNCHANGED db
  BY DEF Fail
<1>2. /\ DbTypeOK' /\ Tables'
      /\ \A t \in Tx : Recorded(t) <=> Recorded(t)'
  BY <1>1 DEF ServiceInv, TypeOK, DbTypeOK, Tables, Recorded, db
<1>3. funded \subseteq funded' /\ available' = available
  BY <1>1 DEF db
<1>4. Recorded(req[c].tx) => Recorded(req[c].tx)'
  BY <1>1 DEF Recorded, db, Reply
<1> QED
  BY <1>1, <1>2, <1>3, <1>4, ReplyPreserves

\* No other call has read the row of a user whose row lock is free or held by c,
\* so c may change the balance.
LEMMA OthersHaveNotRead ==
    ASSUME NEW c \in Calls, ServiceInv, rowLock[User(c)] \subseteq {c}, NEW n \in Int,
           available' = [available EXCEPT ![User(c)] = @ + n]
    PROVE  \A d \in Calls : d # c /\ pc[d] = "write" /\ req[d].op # "Deposit"
               => available'[User(d)] = available[User(d)]
<1> SUFFICES ASSUME NEW d \in Calls, d # c, pc[d] = "write", req[d].op # "Deposit"
             PROVE  available'[User(d)] = available[User(d)]
  OBVIOUS
<1>1. User(d) # User(c)
  BY DEF ServiceInv, Locks
<1>2. User(d) \in Users
  BY RequestsAssumption DEF ServiceInv, TypeOK, User
<1> QED
  BY <1>1, <1>2 DEF ServiceInv, TypeOK, DbTypeOK

-----------------------------------------------------------------------------
\* Posting the row of c's request keeps the tables sound.
LEMMA PostKeepsTables ==
    ASSUME NEW c \in Calls, ServiceInv,
           NEW newAvailable \in Nat, NEW newInFlight \in Nat,
           available' = [available EXCEPT ![User(c)] = newAvailable],
           inFlight' = [inFlight EXCEPT ![User(c)] = newInFlight],
           \/ ledger' = [ledger EXCEPT ![req[c].tx] = RowOf(req[c])]
           \/ ledger' = ledger,
           funded \subseteq funded', funded' \subseteq Users, User(c) \in funded',
           limited' \subseteq Users
    PROVE  /\ DbTypeOK' /\ Tables'
           /\ \A t \in Tx : Recorded(t) => Recorded(t)'
<1>1. req[c] \in Requests /\ req[c].tx \in Tx /\ User(c) \in Users /\ Amount(c) \in Int
  BY RequestsAssumption DEF ServiceInv, TypeOK, User, Amount
<1>2. RowOf(req[c]) \in LedgerRow /\ RowOf(req[c]).status # "ABSENT"
  BY <1>1 DEF RowOf, LedgerRow, EntryTypes, Statuses, EntryType, EntryStatus, User, Amount
<1>3. DbTypeOK'
  BY <1>1, <1>2 DEF ServiceInv, TypeOK, DbTypeOK
<1>4. \A t \in Tx : Recorded(t) => Recorded(t)'
  BY <1>1, <1>2 DEF ServiceInv, TypeOK, DbTypeOK, Recorded
<1>5. \A u \in Users : available'[u] >= 0 /\ inFlight'[u] >= 0
  BY <1>1 DEF ServiceInv, TypeOK, DbTypeOK, Tables
<1>6. ASSUME NEW t \in Tx, Recorded(t)'
      PROVE  \E r \in Requests :
                /\ r.tx = t
                /\ ledger'[t].user = r.user /\ ledger'[t].amount = r.amount
                /\ ledger'[t].type = EntryType(r.op)
                /\ r.user \in funded'
  <2>1. CASE ledger'[t] = ledger[t]
    BY <1>6, <2>1 DEF ServiceInv, Tables, Recorded
  <2>2. CASE ledger'[t] = RowOf(req[c]) /\ t = req[c].tx
    BY <1>1, <2>2 DEF RowOf, User
  <2> QED
    BY <1>1, <2>1, <2>2 DEF ServiceInv, TypeOK, DbTypeOK
<1> QED
  BY <1>3, <1>4, <1>5, <1>6 DEF Tables

-----------------------------------------------------------------------------
(***************************************************************************)
(* One lemma per kind of step.                                             *)
(***************************************************************************)

\* Steps that only move a call along or take a lock: the tables and the answers
\* stay as they are.
LEMMA BeginPreserves ==
    ASSUME NEW c \in Calls, NEW r \in Requests, ServiceInv, Begin(c, r)
    PROVE  ServiceInv'
BY RequestsAssumption
   DEF Begin, ServiceInv, TypeOK, DbTypeOK, Served, Locks, Tables, ReadStaysCurrent, Answered,
       FundsCheckNeverStale, Recorded, Goto, User, Amount, db, Locations

\* The steps that move a call without touching the tables: the idempotency SELECT,
\* the advisory lock and the SELECT ... FOR UPDATE.
LEMMA LocalStepPreserves ==
    ASSUME NEW c \in Calls, ServiceInv,
           AlreadyProcessed(c) \/ NotProcessed(c) \/ AdvisoryLock(c) \/ ReadForUpdate(c)
    PROVE  ServiceInv'
<1>1. CASE AlreadyProcessed(c) /\ req[c].op = "DeductBalance"
  BY <1>1, FailPreserves DEF AlreadyProcessed, Codes
<1> USE RequestsAssumption DEF ServiceInv, TypeOK, DbTypeOK, Goto, User, Amount, db
<1>2. CASE AlreadyProcessed(c) /\ req[c].op # "DeductBalance"
  <2>1. TypeOK' /\ Served'
    BY <1>2 DEF AlreadyProcessed, Served, Locations
  <2>4. Locks'
    BY <1>2 DEF AlreadyProcessed, Locks
  <2>2. Answered'
    BY <1>2 DEF AlreadyProcessed, Answered, Recorded
  <2>3. Tables' /\ ReadStaysCurrent' /\ FundsCheckNeverStale'
    BY <1>2 DEF AlreadyProcessed, Tables, ReadStaysCurrent, FundsCheckNeverStale, Recorded
  <2> QED BY <2>1, <2>2, <2>3, <2>4
<1>3. CASE NotProcessed(c)
  BY <1>3
     DEF NotProcessed, Served, Locks, Tables, ReadStaysCurrent, Answered,
         FundsCheckNeverStale, Recorded, Locations
<1>4. CASE AdvisoryLock(c)
  <2>1. TypeOK' /\ Served'
    BY <1>4 DEF AdvisoryLock, Served, Locations, CashOps, BetOps
  <2>2. Locks'
    <3>1. \A d \in Calls : pc[d] \in {"read", "write"} => User(d) # User(c)
      BY <1>4 DEF AdvisoryLock, Locks
    <3>2. /\ pc' = [pc EXCEPT ![c] = IF req[c].op = "Deposit" THEN "write" ELSE "read"]
          /\ advisory' = [advisory EXCEPT ![User(c)] = {c}]
          /\ UNCHANGED <<rowLock, req, funded>>
          /\ pc[c] = "lock" /\ User(c) \in Users
      BY <1>4 DEF AdvisoryLock
    <3>3. \A d \in Calls : pc'[d] \in {"read", "write"} => advisory'[User(d)] = {d}
      BY <3>1, <3>2 DEF Locks
    <3>4. \A d \in Calls : pc'[d] = "write" /\ req[d].op # "Deposit"
              => rowLock[User(d)] = {d} /\ User(d) \in funded
      BY <3>2 DEF Locks
    <3>5. \A u \in Users, d \in Calls :
              /\ d \in advisory'[u] => pc'[d] \in {"read", "write"} /\ u = User(d)
              /\ d \in rowLock[u] => pc'[d] = "write" /\ req[d].op # "Deposit" /\ u = User(d)
      BY <3>2 DEF Locks
    <3> QED
      BY <3>2, <3>3, <3>4, <3>5 DEF Locks
  <2>3. Tables' /\ ReadStaysCurrent' /\ Answered' /\ FundsCheckNeverStale'
    BY <1>4
       DEF AdvisoryLock, Tables, ReadStaysCurrent, Answered, FundsCheckNeverStale, Recorded
  <2> QED BY <2>1, <2>2, <2>3
<1>5. CASE ReadForUpdate(c)
  <2>1. TypeOK' /\ Served'
    BY <1>5 DEF ReadForUpdate, Served, Locations
  <2>2. Locks'
    <3>1. /\ pc' = [pc EXCEPT ![c] = "write"]
          /\ rowLock' = [rowLock EXCEPT ![User(c)] = {c}]
          /\ rowLock[User(c)] = {} /\ User(c) \in funded
          /\ UNCHANGED <<advisory, req, funded>>
          /\ pc[c] = "read" /\ req[c].op # "Deposit"
      BY <1>5 DEF ReadForUpdate, Served
    <3>2. \A d \in Calls :
              /\ pc'[d] \in {"read", "write"} => advisory[User(d)] = {d}
              /\ pc'[d] = "write" /\ req[d].op # "Deposit"
                   => rowLock'[User(d)] = {d} /\ User(d) \in funded
      BY <3>1 DEF Locks
    <3>3. \A u \in Users, d \in Calls :
              /\ d \in advisory[u] => pc'[d] \in {"read", "write"} /\ u = User(d)
              /\ d \in rowLock'[u] => pc'[d] = "write" /\ req[d].op # "Deposit" /\ u = User(d)
      BY <3>1 DEF Locks
    <3> QED
      BY <3>1, <3>2, <3>3 DEF Locks
  <2>3. Tables' /\ ReadStaysCurrent' /\ Answered' /\ FundsCheckNeverStale'
    BY <1>5
       DEF ReadForUpdate, Tables, ReadStaysCurrent, Answered, FundsCheckNeverStale, Recorded
  <2> QED BY <2>1, <2>2, <2>3
<1> QED
  BY <1>1, <1>2, <1>3, <1>4, <1>5

\* Steps that end a call without touching the tables.
LEMMA AnswerPreserves ==
    ASSUME NEW c \in Calls, ServiceInv,
           InsufficientFunds(c) \/ NoBalanceRow(c) \/ Abort(c) \/ Reread(c)
    PROVE  ServiceInv'
<1>1. CASE InsufficientFunds(c)
  BY <1>1, FailPreserves DEF InsufficientFunds, Codes
<1>2. CASE NoBalanceRow(c)
  BY <1>2, FailPreserves DEF NoBalanceRow, Codes
<1>3. CASE Abort(c)
  BY <1>3, FailPreserves DEF Abort, Codes
<1>4. CASE Reread(c)
  <2>1. Recorded(req[c].tx)' /\ \A t \in Tx : Recorded(t) => Recorded(t)'
    BY <1>4 DEF Reread, Reply, ServiceInv, Answered, Recorded, db
  <2>2. DbTypeOK' /\ Tables' /\ funded \subseteq funded' /\ available' = available
    BY <1>4 DEF Reread, ServiceInv, TypeOK, DbTypeOK, Tables, Recorded, db
  <2>3. available[User(c)] \in Int
    BY RequestsAssumption DEF ServiceInv, TypeOK, DbTypeOK, User
  <2>4. ASSUME NEW after \in Int, Reply(c, "OK", after) PROVE ServiceInv'
    BY <2>1, <2>2, <2>4, ReplyPreserves DEF Codes
  <2> QED
    BY <1>4, <2>3, <2>4 DEF Reread
<1> QED
  BY <1>1, <1>2, <1>3, <1>4

\* The UPDATE, INSERT, COMMIT of Deduct and Withdraw.
LEMMA PostPreserves ==
    ASSUME NEW c \in Calls, ServiceInv, pc[c] = "write", req[c].op # "Deposit",
           NEW dF \in Int, NEW after \in Int, Post(c, -Amount(c), dF, after)
    PROVE  ServiceInv'
<1>1. /\ req[c] \in Requests /\ req[c].tx \in Tx
      /\ User(c) \in Users /\ Amount(c) \in Int
      /\ available[User(c)] \in Int /\ inFlight[User(c)] \in Int
  BY RequestsAssumption DEF ServiceInv, TypeOK, DbTypeOK, User, Amount
<1>2. /\ rowLock[User(c)] = {c} /\ User(c) \in funded
      /\ available[User(c)] + (-Amount(c)) >= 0
  BY <1>1 DEF ServiceInv, Locks, ReadStaysCurrent
<1> DEFINE broken == BrokenCheck(User(c), -Amount(c), dF)
<1>3. broken \in {"none", "CheckInFlight"}
  BY <1>1, <1>2 DEF BrokenCheck
<1>4. CASE \E code \in {"CheckInFlight", "Internal"} : Fail(c, code)
  BY <1>4, FailPreserves DEF Codes
<1>5. CASE /\ broken = "none" /\ ~Recorded(req[c].tx)
           /\ available' = [available EXCEPT ![User(c)] = @ + (-Amount(c))]
           /\ inFlight' = [inFlight EXCEPT ![User(c)] = @ + dF]
           /\ ledger' = [ledger EXCEPT ![req[c].tx] = RowOf(req[c])]
           /\ Reply(c, "OK", after) \/ Reply(c, "Internal", 0)
           /\ UNCHANGED <<funded, limited>>
  <2>1. inFlight[User(c)] + dF \in Nat /\ available[User(c)] + (-Amount(c)) \in Nat
    BY <1>1, <1>2, <1>5 DEF BrokenCheck
  <2>2. /\ DbTypeOK' /\ Tables'
        /\ \A t \in Tx : Recorded(t) => Recorded(t)'
        /\ funded \subseteq funded'
    <3>1. funded \subseteq Users /\ limited \subseteq Users
      BY DEF ServiceInv, TypeOK, DbTypeOK
    <3> QED
      BY <1>1, <1>2, <1>5, <2>1, <3>1, PostKeepsTables
  <2>3. \A d \in Calls : d # c /\ pc[d] = "write" /\ req[d].op # "Deposit"
            => available'[User(d)] = available[User(d)]
    <3>1. -Amount(c) \in Int
      BY <1>1
    <3> QED
      BY <1>2, <1>5, <3>1, OthersHaveNotRead
  <2>4. Recorded(req[c].tx)'
    BY <1>1, <1>5 DEF ServiceInv, TypeOK, DbTypeOK, Recorded, RowOf, EntryStatus, Reply
  <2> QED
    BY <1>5, <2>2, <2>3, <2>4, ReplyPreserves DEF Codes
<1> QED
  BY <1>3, <1>4, <1>5 DEF Post

\* The upserts and the INSERT of Deposit.
LEMMA DepositPreserves ==
    ASSUME NEW c \in Calls, ServiceInv, DepositCommit(c)
    PROVE  ServiceInv'
<1>1. /\ req[c] \in Requests /\ req[c].tx \in Tx
      /\ User(c) \in Users /\ Amount(c) \in Int /\ Amount(c) >= 0
      /\ available[User(c)] \in Int /\ available[User(c)] >= 0
      /\ inFlight[User(c)] \in Int /\ inFlight[User(c)] >= 0
      /\ inFlight \in [Users -> Int] /\ funded \subseteq Users /\ limited \subseteq Users
  BY RequestsAssumption
     DEF ServiceInv, TypeOK, DbTypeOK, Tables, User, Amount, DepositCommit, CashOps
<1>2. CASE Fail(c, "Internal")
  BY <1>2, FailPreserves DEF Codes
<1>3. CASE /\ ~Recorded(req[c].tx)
           /\ available' = [available EXCEPT ![User(c)] = @ + Amount(c)]
           /\ ledger' = [ledger EXCEPT ![req[c].tx] = RowOf(req[c])]
           /\ funded' = funded \cup {User(c)}
           /\ limited' = limited \cup {User(c)}
           /\ \/ Reply(c, "OK", available[User(c)] + Amount(c))
              \/ Reply(c, "Internal", 0)
           /\ UNCHANGED inFlight
  <2>0. inFlight' = [inFlight EXCEPT ![User(c)] = inFlight[User(c)]]
    BY <1>1, <1>3, Zenon
  <2>1. inFlight[User(c)] \in Nat /\ available[User(c)] + Amount(c) \in Nat
    BY <1>1
  <2>6. /\ funded \subseteq funded' /\ funded' \subseteq Users /\ User(c) \in funded'
        /\ limited' \subseteq Users
    BY <1>1, <1>3
  <2>2. /\ DbTypeOK' /\ Tables'
        /\ \A t \in Tx : Recorded(t) => Recorded(t)'
    BY <1>1, <1>3, <2>0, <2>1, <2>6, PostKeepsTables
  <2>3. \A d \in Calls : d # c /\ pc[d] = "write" /\ req[d].op # "Deposit"
            => available'[User(d)] = available[User(d)]
    BY <1>1, <1>3, OthersHaveNotRead DEF DepositCommit
  <2>4. Recorded(req[c].tx)'
    BY <1>1, <1>3 DEF ServiceInv, TypeOK, DbTypeOK, Recorded, RowOf, EntryStatus, Reply
  <2>5. available[User(c)] + Amount(c) \in Int
    BY <1>1
  <2> QED
    BY <1>3, <2>2, <2>3, <2>4, <2>5, <2>6, ReplyPreserves DEF Codes
<1> QED
  BY <1>2, <1>3 DEF DepositCommit

\* The user of a recorded credit has a balances row (foreign key), so the UPDATE
\* of a successful CreditBalance always finds it.
LEMMA CreditedUserIsFunded ==
    ASSUME NEW c \in Calls, ServiceInv, Recorded(req[c].tx)
    PROVE  User(c) \in funded
BY RequestsAssumption DEF ServiceInv, TypeOK, Tables, User

\* The UPDATE and the INSERT of CreditBalance, which holds no advisory lock.
LEMMA CreditPreserves ==
    ASSUME NEW c \in Calls, ServiceInv, CreditBalanceCommit(c)
    PROVE  ServiceInv'
<1>1. /\ req[c] \in Requests /\ req[c].tx \in Tx
      /\ User(c) \in Users /\ Amount(c) \in Int
      /\ available[User(c)] \in Int /\ inFlight[User(c)] \in Int
      /\ inFlight \in [Users -> Int] /\ funded \subseteq Users /\ limited \subseteq Users
  BY RequestsAssumption DEF ServiceInv, TypeOK, DbTypeOK, User, Amount
<1>2. req[c].op = "CreditBalance" /\ pc[c] = "credit" /\ rowLock[User(c)] \subseteq {c}
  BY DEF ServiceInv, Served, CreditBalanceCommit
<1>3. CASE \E code \in Codes \ {"OK"} : Fail(c, code)
  BY <1>2, <1>3, FailPreserves
<1> DEFINE broken == BrokenCheck(User(c), Amount(c), -Amount(c))
<1>4. CASE /\ User(c) \in funded /\ broken = "none"
           /\ available' = [available EXCEPT ![User(c)] = @ + Amount(c)]
           /\ inFlight' = [inFlight EXCEPT ![User(c)] = @ - Amount(c)]
           /\ ledger' = IF Recorded(req[c].tx) THEN ledger
                        ELSE [ledger EXCEPT ![req[c].tx] = RowOf(req[c])]
           /\ \/ Goto(c, "reread") /\ UNCHANGED <<req, read, resp, advisory, rowLock>>
              \/ Reply(c, "Internal", 0)
           /\ UNCHANGED <<funded, limited>>
  <2>1. /\ inFlight[User(c)] - Amount(c) \in Nat /\ available[User(c)] + Amount(c) \in Nat
        /\ funded \subseteq funded' /\ funded' \subseteq Users /\ User(c) \in funded'
        /\ limited' \subseteq Users
    BY <1>1, <1>4 DEF BrokenCheck
  <2>2. /\ DbTypeOK' /\ Tables'
        /\ \A t \in Tx : Recorded(t) => Recorded(t)'
    BY <1>1, <1>4, <2>1, PostKeepsTables
  <2>3. \A d \in Calls : d # c /\ pc[d] = "write" /\ req[d].op # "Deposit"
            => available'[User(d)] = available[User(d)]
    BY <1>1, <1>2, <1>4, OthersHaveNotRead
  <2>4. CASE Reply(c, "Internal", 0)
    BY <2>1, <2>2, <2>3, <2>4, ReplyPreserves DEF Codes
  <2>5. CASE Goto(c, "reread") /\ UNCHANGED <<req, read, resp, advisory, rowLock>>
    <3> USE <1>2, <2>5 DEF ServiceInv, TypeOK, DbTypeOK, Goto, User, Amount
    <3>1. TypeOK' /\ Served'
      BY <2>2 DEF Served, Locations
    <3>2. Locks'
      BY <2>1 DEF Locks
    <3>3. ReadStaysCurrent'
      BY <2>3 DEF ReadStaysCurrent
    <3>4. Recorded(req[c].tx)'
      BY <1>1, <1>4 DEF Recorded, RowOf, EntryStatus
    <3>5. Answered'
      BY <2>2, <3>4, RequestsAssumption DEF Answered, Recorded
    <3>6. FundsCheckNeverStale'
      BY DEF FundsCheckNeverStale
    <3> QED
      BY <2>2, <3>1, <3>2, <3>3, <3>5, <3>6
  <2> QED
    BY <1>4, <2>4, <2>5
<1>5. broken \in Codes \ {"OK"}
  BY DEF BrokenCheck, Codes
<1>6. "Internal" \in Codes \ {"OK"}
  BY DEF Codes
<1> QED
  BY <1>3, <1>4, <1>5, <1>6, CreditedUserIsFunded DEF CreditBalanceCommit

\* A confirmation touches the status of one row.
LEMMA ConfirmPreserves ==
    ASSUME NEW t \in Tx, ServiceInv, ConfirmTransactionCall(t)
    PROVE  ServiceInv'
<1> USE DEF ServiceInv, ConfirmTransactionCall, calls, TypeOK, DbTypeOK
<1>1. ledger' \in [Tx -> LedgerRow]
  BY DEF LedgerRow, Statuses
<1>2. \A s \in Tx : /\ Recorded(s)' <=> Recorded(s)
                    /\ ledger'[s].user = ledger[s].user
                    /\ ledger'[s].amount = ledger[s].amount
                    /\ ledger'[s].type = ledger[s].type
  BY DEF Recorded, LedgerRow
<1>3. TypeOK' /\ Served' /\ Locks'
  BY <1>1 DEF Served, Locks, User
<1>4. Tables'
  BY <1>2 DEF Tables, Recorded
<1>5. Answered'
  BY <1>2, RequestsAssumption DEF Answered, Recorded
<1>6. ReadStaysCurrent' /\ FundsCheckNeverStale'
  BY DEF ReadStaysCurrent, FundsCheckNeverStale, User, Amount
<1> QED
  BY <1>3, <1>4, <1>5, <1>6

-----------------------------------------------------------------------------
\* A step that changes nothing.
LEMMA StutterPreserves == ServiceInv /\ UNCHANGED vars => ServiceInv'
BY DEF ServiceInv, TypeOK, DbTypeOK, Served, Locks, Tables, ReadStaysCurrent, Answered,
       FundsCheckNeverStale, Recorded, User, Amount, vars, db, calls

\* The invariant is inductive.
LEMMA NextInv == ServiceInv /\ [ServiceNext]_vars => ServiceInv'
<1> SUFFICES ASSUME ServiceInv, [ServiceNext]_vars PROVE ServiceInv'
  OBVIOUS
<1>1. ASSUME NEW c \in Calls, NEW r \in Requests, Begin(c, r) PROVE ServiceInv'
  BY <1>1, BeginPreserves
<1>2. ASSUME NEW c \in Calls, Step(c) \/ Abort(c) PROVE ServiceInv'
  <2>1. CASE DeductBalanceCommit(c)
    <3>1. Amount(c) \in Int /\ read[c] - Amount(c) \in Int
      BY RequestsAssumption DEF ServiceInv, TypeOK, Amount
    <3> QED
      BY <2>1, <3>1, PostPreserves DEF DeductBalanceCommit
  <2>2. CASE WithdrawCommit(c)
    <3>1. available[User(c)] - Amount(c) \in Int
      BY RequestsAssumption DEF ServiceInv, TypeOK, DbTypeOK, User, Amount
    <3> QED
      BY <2>2, <3>1, PostPreserves DEF WithdrawCommit
  <2> QED
    BY <1>2, <2>1, <2>2, LocalStepPreserves, AnswerPreserves, DepositPreserves,
       CreditPreserves DEF Step
<1>3. ASSUME NEW t \in Tx, ConfirmTransactionCall(t) PROVE ServiceInv'
  BY <1>3, ConfirmPreserves
<1>4. CASE UNCHANGED vars
  BY <1>4, StutterPreserves
<1> QED
  BY <1>1, <1>2, <1>3, <1>4 DEF ServiceNext

\* The invariant that carries every result below: types, lock discipline,
\* foreign key, and what the calls have read and answered.
THEOREM ServiceInvariant == ServiceSpec => []ServiceInv
<1>1. ServiceInit => ServiceInv
  BY InitInv
<1>2. ServiceInv /\ [ServiceNext]_vars => ServiceInv'
  BY NextInv
<1> QED
  BY <1>1, <1>2, PTL DEF ServiceSpec

\* Every variable of the wallet keeps its type.
THEOREM TypeCorrect == ServiceSpec => []TypeOK
BY ServiceInvariant, PTL DEF ServiceInv

\* The balance a Deduct or Withdraw has read under FOR UPDATE is the balance
\* its UPDATE finds (service.go:105-128, 431-447).
THEOREM ReadsStayCurrent == ServiceSpec => []ReadStaysCurrent
BY ServiceInvariant, PTL DEF ServiceInv

\* The CHECK on available_minor never rejects a Deduct, Deposit or Withdraw: the
\* comparison in Go has always caught the overdraft before.
THEOREM OverdraftsAreCaughtInGo == ServiceSpec => []FundsCheckNeverStale
BY ServiceInvariant, PTL DEF ServiceInv

\* An OK answer means that the ledger holds exactly the acknowledged operation.
THEOREM Acknowledged == ServiceSpec => []AcknowledgedIsRecorded
<1>1. ServiceInv => AcknowledgedIsRecorded
  BY RequestsAssumption
     DEF ServiceInv, TypeOK, Answered, Tables, AcknowledgedIsRecorded, Recorded, User, Amount
<1> QED
  BY <1>1, ServiceInvariant, PTL

-----------------------------------------------------------------------------
(***************************************************************************)
(* The handlers implement the atomic operations.                           *)
(***************************************************************************)

\* Post is the atomic operation of its request, or changes no table.
LEMMA PostIsAtomic ==
    ASSUME NEW c \in Calls, ServiceInv, pc[c] = "write", NEW after,
           \/ req[c].op = "DeductBalance" /\ Post(c, -Amount(c), Amount(c), after)
           \/ req[c].op = "Withdraw" /\ Post(c, -Amount(c), 0, after)
    PROVE  [Next]_db
<1>1. /\ req[c] \in Requests /\ User(c) \in Users /\ Amount(c) \in Int
      /\ available[User(c)] \in Int /\ inFlight[User(c)] \in Int
      /\ User(c) \in funded
  BY RequestsAssumption DEF ServiceInv, TypeOK, DbTypeOK, Locks, User, Amount
<1>2. CASE UNCHANGED db
  BY <1>2
<1>3. CASE req[c].op = "DeductBalance" /\ ~UNCHANGED db
  <2>1. DeductBalance(req[c])
    BY <1>1, <1>3 DEF Post, Fail, BrokenCheck, DeductBalance, Move, User, Amount
  <2> QED
    BY <1>1, <2>1 DEF Next
<1>4. CASE req[c].op = "Withdraw" /\ ~UNCHANGED db
  <2>1. Withdraw(req[c])
    BY <1>1, <1>4 DEF Post, Fail, BrokenCheck, Withdraw, Move, User, Amount
  <2> QED
    BY <1>1, <2>1 DEF Next
<1> QED
  BY <1>2, <1>3, <1>4

\* Every step of a handler is an operation of WalletLedger or leaves db alone.
LEMMA StepIsAtomic ==
    ASSUME NEW c \in Calls, ServiceInv, Step(c)
    PROVE  [Next]_db
<1>1. /\ req[c] \in Requests /\ User(c) \in Users /\ Amount(c) \in Int
      /\ available[User(c)] \in Int /\ inFlight[User(c)] \in Int
      /\ available[User(c)] >= 0 /\ inFlight[User(c)] >= 0
      /\ inFlight \in [Users -> Int]
      /\ req[c].op = "Deposit" => Amount(c) >= 0
  BY RequestsAssumption DEF ServiceInv, TypeOK, DbTypeOK, Tables, User, Amount, CashOps
<1>2. CASE DeductBalanceCommit(c)
  BY <1>2, PostIsAtomic DEF DeductBalanceCommit
<1>3. CASE WithdrawCommit(c)
  BY <1>3, PostIsAtomic DEF WithdrawCommit
<1>4. CASE DepositCommit(c)
  <2>1. CASE UNCHANGED db
    BY <2>1
  <2>2. CASE ~UNCHANGED db
    <3>1. inFlight' = [inFlight EXCEPT ![User(c)] = @ + 0]
      <4>1. inFlight[User(c)] + 0 = inFlight[User(c)] /\ inFlight' = inFlight
        BY <1>1, <1>4, <2>2 DEF DepositCommit, Fail
      <4> QED
        BY <1>1, <4>1, Zenon
    <3>2. Deposit(req[c])
      BY <1>1, <1>4, <2>2, <3>1 DEF DepositCommit, Fail, Deposit, Move, User, Amount
    <3> QED
      BY <1>1, <3>2 DEF Next
  <2> QED BY <2>1, <2>2
<1>5. CASE CreditBalanceCommit(c)
  <2>1. CASE UNCHANGED db
    BY <2>1
  <2>2. CASE ~UNCHANGED db
    <3>1. /\ req[c].op = "CreditBalance" /\ User(c) \in funded
          /\ available[User(c)] + Amount(c) >= 0 /\ inFlight[User(c)] + (-Amount(c)) >= 0
          /\ available' = [available EXCEPT ![User(c)] = @ + Amount(c)]
          /\ inFlight' = [inFlight EXCEPT ![User(c)] = @ - Amount(c)]
          /\ ledger' = IF Recorded(req[c].tx) THEN ledger
                       ELSE [ledger EXCEPT ![req[c].tx] = RowOf(req[c])]
          /\ UNCHANGED <<funded, limited>>
      BY <1>1, <1>5, <2>2, CreditedUserIsFunded
         DEF CreditBalanceCommit, Fail, BrokenCheck, ServiceInv, Served
    <3>2. inFlight' = [inFlight EXCEPT ![User(c)] = @ + (-Amount(c))]
      <4>1. inFlight[User(c)] - Amount(c) = inFlight[User(c)] + (-Amount(c))
        BY <1>1
      <4> QED
        BY <3>1, <4>1, Zenon
    <3>3. CreditBalance(req[c])
      BY <3>1, <3>2 DEF CreditBalance, Move, User, Amount
    <3> QED
      BY <1>1, <3>3 DEF Next
  <2> QED BY <2>1, <2>2
<1> QED
  BY <1>2, <1>3, <1>4, <1>5
     DEF Step, AlreadyProcessed, NotProcessed, AdvisoryLock, ReadForUpdate,
         InsufficientFunds, NoBalanceRow, Reread, Fail

\* The concurrent handlers, with idempotency checks outside the transaction, two
\* kinds of locks, lost acknowledgements and failures, implement WalletLedger:
\* every RPC takes effect at once or not at all.
THEOREM ServiceImplementsLedger == ServiceSpec => ImplementsLedger
<1>1. ServiceInit => Init
  BY DEF ServiceInit
<1>2. ServiceInv /\ [ServiceNext]_vars => [Next]_db
  <2> SUFFICES ASSUME ServiceInv, [ServiceNext]_vars PROVE [Next]_db
    OBVIOUS
  <2>1. ASSUME NEW c \in Calls, Step(c) PROVE [Next]_db
    BY <2>1, StepIsAtomic
  <2>2. ASSUME NEW t \in Tx, ConfirmTransactionCall(t) PROVE [Next]_db
    BY <2>2 DEF ConfirmTransactionCall, ConfirmTransaction, Next
  <2> QED
    BY <2>1, <2>2 DEF ServiceNext, Abort, Fail, Begin, vars
<1> QED
  BY <1>1, <1>2, ServiceInvariant, PTL DEF ServiceSpec, ImplementsLedger, Spec

-----------------------------------------------------------------------------
\* The available balance follows the ledger in the concurrent service too: through
\* the refinement.
THEOREM ServiceExplainsBalances == ServiceSpec => AvailableFollowsLedger
BY ServiceImplementsLedger, LedgerExplainsBalances, PTL DEF ImplementsLedger

\* No interleaving of the handlers rewrites a recorded row: through the refinement.
THEOREM ServiceRowsImmutable == ServiceSpec => RowsImmutable
BY ServiceImplementsLedger, LedgerRowsImmutable, PTL DEF ImplementsLedger

-----------------------------------------------------------------------------
\* Only the call itself leaves its location.
LEMMA OthersKeepLocation ==
    ASSUME NEW c \in Calls, NEW d \in Calls, d # c, ServiceInv,
           Step(c) \/ Abort(c) \/ \E r \in Requests : Begin(c, r)
    PROVE  pc'[d] = pc[d]
BY DEF ServiceInv, TypeOK, Step, Abort, Begin, AlreadyProcessed, NotProcessed, AdvisoryLock,
       ReadForUpdate, InsufficientFunds, NoBalanceRow, DeductBalanceCommit, WithdrawCommit,
       DepositCommit, CreditBalanceCommit, Reread, Post, Fail, Reply, Goto

\* The balance reported by the call that moved the money is the balance it left,
\* also where Deduct computes it from its earlier SELECT.
THEOREM ReportedBalanceIsExact == ServiceSpec => AvailableAfterIsExact
<1>1. ASSUME ServiceInv, [ServiceNext]_vars,
             NEW d \in Calls, pc[d] = "write", pc'[d] = "idle", resp'[d].code = "OK"
      PROVE  resp'[d].after = available'[User(d)]
  <2>1. Step(d) \/ Abort(d)
    BY <1>1, OthersKeepLocation
       DEF ServiceNext, vars, calls, ConfirmTransactionCall, Begin
  <2>2. /\ resp \in [Calls -> [code : Codes, after : Int]]
        /\ available \in [Users -> Int] /\ User(d) \in Users /\ Amount(d) \in Int
        /\ available[User(d)] \in Int
    BY <1>1, RequestsAssumption DEF ServiceInv, TypeOK, DbTypeOK, User, Amount
  <2>3. \/ DeductBalanceCommit(d) \/ WithdrawCommit(d) \/ DepositCommit(d)
    BY <1>1, <2>1, <2>2
       DEF Step, Abort, AlreadyProcessed, NotProcessed, AdvisoryLock, ReadForUpdate,
           InsufficientFunds, NoBalanceRow, CreditBalanceCommit, Reread, Fail, Reply
  <2>4. CASE DeductBalanceCommit(d)
    <3>1. read[d] = available[User(d)]
      BY <1>1, <2>4 DEF ServiceInv, ReadStaysCurrent, DeductBalanceCommit
    <3>2. BrokenCheck(User(d), -Amount(d), Amount(d)) # "OK"
      BY DEF BrokenCheck
    <3> QED
      BY <1>1, <2>2, <2>4, <3>1, <3>2 DEF DeductBalanceCommit, Post, Fail, Reply
  <2>5. CASE WithdrawCommit(d)
    <3>1. BrokenCheck(User(d), -Amount(d), 0) # "OK"
      BY DEF BrokenCheck
    <3> QED
      BY <1>1, <2>2, <2>5, <3>1 DEF WithdrawCommit, Post, Fail, Reply
  <2>6. CASE DepositCommit(d)
    BY <1>1, <2>2, <2>6 DEF DepositCommit, Fail, Reply
  <2> QED
    BY <2>3, <2>4, <2>5, <2>6
<1>2. ServiceInv /\ [ServiceNext]_vars => 
        [\A c \in Calls : pc[c] = "write" /\ pc'[c] = "idle" /\ resp'[c].code = "OK"
                              => resp'[c].after = available'[User(c)]]_vars
  BY <1>1
<1> QED
  BY <1>2, ServiceInvariant, PTL DEF ServiceSpec, AvailableAfterIsExact

=============================================================================
