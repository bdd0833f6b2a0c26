---------------------------- MODULE WalletLedger ----------------------------
(***************************************************************************)
(* What the Account & Wallet service promises to its callers: every RPC of *)
(* internal/wallet/service.go that moves money is one atomic step on       *)
(* db_wallet.  WalletService.tla describes how the concurrent handlers     *)
(* achieve this and implements this module; the other services are         *)
(* composed with the atomic steps below.                                   *)
(*                                                                         *)
(* Tables (migrations/db_wallet/001_init.sql): a balances row is           *)
(* (available, inFlight) for a user in `funded', a user_limits row is      *)
(* membership of `limited', a ledger_entries row is a value of `ledger'.   *)
(* Currency, timestamps and the payment method carry no control and are    *)
(* left out.  BIGINT overflow is not modelled: amounts are integers.       *)
(***************************************************************************)
EXTENDS Integers

CONSTANTS
    Users,     \* user ids
    Tx,        \* transaction ids (primary key of ledger_entries)
    Requests   \* the RPC requests callers may send: [op, tx, user, amount]

CashOps == {"Deposit", "Withdraw"}
BetOps  == {"DeductBalance", "CreditBalance"}

(***************************************************************************)
(* Callers draw a fresh UUID per operation (bet_flow.go:220,               *)
(* consumer.go:191, cashier/main.go:96,128), so a transaction id denotes   *)
(* one request.  The cashier refuses amounts <= 0 before rounding          *)
(* (cashier/main.go:91,123); stakes and credits are not checked on their   *)
(* way to the wallet and may be any integer.                               *)
(***************************************************************************)
ASSUME RequestsAssumption ==
    /\ Requests # {}
    /\ Requests \subseteq [op : CashOps \cup BetOps, tx : Tx, user : Users, amount : Int]
    /\ \A r \in Requests : r.op \in CashOps => r.amount >= 0
    /\ \A r, s \in Requests : r.tx = s.tx => r = s

EntryTypes == {"none", "DEBIT", "CREDIT", "CREDIT_DEPOSIT", "DEBIT_WITHDRAWAL"}
Statuses   == {"ABSENT", "PENDING_CONFIRMATION", "CONFIRMED"}
LedgerRow  == [user : Users \cup {"none"}, type : EntryTypes, amount : Int, status : Statuses]
NoRow      == [user |-> "none", type |-> "none", amount |-> 0, status |-> "ABSENT"]

\* entry_type written by each handler; the win/void/push reasons of a credit
\* (creditReasonToEntryType) differ only in the label and are one type here.
EntryType(op) ==
    CASE op = "DeductBalance" -> "DEBIT"
      [] op = "CreditBalance" -> "CREDIT"
      [] op = "Deposit"       -> "CREDIT_DEPOSIT"
      [] OTHER                -> "DEBIT_WITHDRAWAL"

\* Mutant: the status literal of the INSERT is not one the table's CHECK knows.
EntryStatusTypo(op) == IF op = "DeductBalance" THEN "PENDING" ELSE "CONFIRMED"

\* Deductions await ConfirmTransaction, every other entry is final.
EntryStatus(op) == IF op = "DeductBalance" THEN "PENDING_CONFIRMATION" ELSE "CONFIRMED"

RowOf(r) == [user |-> r.user, type |-> EntryType(r.op), amount |-> r.amount,
             status |-> EntryStatus(r.op)]

VARIABLES
    funded,     \* users with a balances row
    limited,    \* users with a user_limits row
    available,  \* balances.available_minor
    inFlight,   \* balances.bets_in_flight_minor
    ledger      \* ledger_entries by transaction_id

db == <<funded, limited, available, inFlight, ledger>>

Recorded(t) == ledger[t].status # "ABSENT"

DbTypeOK ==
    /\ funded \subseteq Users
    /\ limited \subseteq Users
    /\ available \in [Users -> Int]
    /\ inFlight \in [Users -> Int]
    /\ ledger \in [Tx -> LedgerRow]

Init ==
    /\ funded = {}
    /\ limited = {}
    /\ available = [u \in Users |-> 0]
    /\ inFlight = [u \in Users |-> 0]
    /\ ledger = [t \in Tx |-> NoRow]

-----------------------------------------------------------------------------
\* The effect shared by the operations: move both columns of r.user's row,
\* which the CHECK constraints keep non-negative.
Move(r, dAvailable, dInFlight) ==
    /\ available[r.user] + dAvailable >= 0
    /\ inFlight[r.user] + dInFlight >= 0
    /\ available' = [available EXCEPT ![r.user] = @ + dAvailable]
    /\ inFlight' = [inFlight EXCEPT ![r.user] = @ + dInFlight]

\* A first deposit also creates the balances and the user_limits rows.
Deposit(r) ==
    /\ r.op = "Deposit"
    /\ ~Recorded(r.tx)
    /\ Move(r, r.amount, 0)
    /\ ledger' = [ledger EXCEPT ![r.tx] = RowOf(r)]
    /\ funded' = funded \cup {r.user}
    /\ limited' = limited \cup {r.user}

Withdraw(r) ==
    /\ r.op = "Withdraw"
    /\ ~Recorded(r.tx)
    /\ r.user \in funded
    /\ Move(r, -r.amount, 0)
    /\ ledger' = [ledger EXCEPT ![r.tx] = RowOf(r)]
    /\ UNCHANGED <<funded, limited>>

DeductBalance(r) ==
    /\ r.op = "DeductBalance"
    /\ ~Recorded(r.tx)
    /\ r.user \in funded
    /\ Move(r, -r.amount, r.amount)
    /\ ledger' = [ledger EXCEPT ![r.tx] = RowOf(r)]
    /\ UNCHANGED <<funded, limited>>

\* CreditBalance has no idempotency check: the money moves on every call, the
\* ledger row is written by the first (ON CONFLICT DO NOTHING).
CreditBalance(r) ==
    /\ r.op = "CreditBalance"
    /\ r.user \in funded
    /\ Move(r, r.amount, -r.amount)
    /\ ledger' = IF Recorded(r.tx) THEN ledger ELSE [ledger EXCEPT ![r.tx] = RowOf(r)]
    /\ UNCHANGED <<funded, limited>>

ConfirmTransaction(t) ==
    /\ ledger[t].status = "PENDING_CONFIRMATION"
    /\ ledger' = [ledger EXCEPT ![t].status = "CONFIRMED"]
    /\ UNCHANGED <<funded, limited, available, inFlight>>

Next ==
    \/ \E r \in Requests : Deposit(r) \/ Withdraw(r) \/ DeductBalance(r) \/ CreditBalance(r)
    \/ \E t \in Tx : ConfirmTransaction(t)

Spec == Init /\ [][Next]_db

-----------------------------------------------------------------------------
\* What a row does to available_minor.
Worth(row) == IF row.type \in {"CREDIT", "CREDIT_DEPOSIT"} THEN row.amount ELSE -row.amount

\* The available balance moves only together with one ledger row of that user, by
\* exactly what the row says, whoever calls, retries and fails: nothing is deducted,
\* deposited or withdrawn twice for one transaction id.  A credit that is sent again is
\* the exception: it has its row already and moves the money once more
\* (service.go:174-197, against wallet.proto:70, "Idempotency key").
AvailableFollowsLedger ==
    [][\A u \in Users :
          available'[u] # available[u] =>
              \E t \in Tx :
                  /\ ledger'[t].user = u
                  /\ available'[u] = available[u] + Worth(ledger'[t])
                  /\ ~Recorded(t) \/ ledger[t].type = "CREDIT"]_db

\* 001_init.sql: "Immutable rows - never UPDATE except status transitions", and
\* the only transition the service makes is the confirmation.
RowsImmutable ==
    [][\A t \in Tx :
          Recorded(t) => \/ ledger'[t] = ledger[t]
                         \/ /\ ledger[t].status = "PENDING_CONFIRMATION"
                            /\ ledger'[t] = [ledger[t] EXCEPT !.status = "CONFIRMED"]]_db

=============================================================================
