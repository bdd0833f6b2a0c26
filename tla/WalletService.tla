---------------------------- MODULE WalletService ---------------------------
(***************************************************************************)
(* The gRPC handlers of internal/wallet/service.go as concurrent calls on  *)
(* one Postgres database, at the granularity at which they can interleave: *)
(*   - the idempotency SELECT runs on the pool, outside any transaction;   *)
(*   - pg_advisory_xact_lock(hashtext(user)) serialises Deduct, Deposit    *)
(*     and Withdraw of one user, and is held to the end of the transaction *)
(*     (two users with one hash only wait more: a lock per user is kept);  *)
(*   - SELECT ... FOR UPDATE locks the balances row to the end of the      *)
(*     transaction; CreditBalance takes only this lock, in its UPDATE;     *)
(*   - the statements after it (UPDATE, INSERT, COMMIT) are one step: their *)
(*     effects appear at the COMMIT, the row they touch is locked, and an  *)
(*     INSERT of a transaction id another open transaction has inserted    *)
(*     waits for that transaction to end.                                  *)
(* Any call may fail at any step (cancelled context, lost connection,      *)
(* crash): Postgres rolls back and releases its locks.  A COMMIT may be    *)
(* applied and its acknowledgement lost.                                   *)
(***************************************************************************)
EXTENDS WalletLedger

CONSTANT Calls   \* handler goroutines serving RPCs at the same time

VARIABLES
    pc,        \* pc[c]: where call c is
    req,       \* req[c]: the request it serves
    read,      \* read[c]: available_minor as SELECT ... FOR UPDATE returned it
    resp,      \* resp[c]: what it answered last: [code, after]
    advisory,  \* advisory[u]: holder of the user's advisory lock
    rowLock    \* rowLock[u]: holder of the user's balances row lock

calls == <<pc, req, read, resp, advisory, rowLock>>
vars  == <<db, calls>>

\* "CheckAvailable" and "CheckInFlight" are codes.Internal caused by a CHECK
\* constraint on that column; they are told apart for the properties.
Codes == {"none", "OK", "NotFound", "FailedPrecondition", "Internal",
          "CheckAvailable", "CheckInFlight"}

Locations == {"idle", "check", "lock", "read", "write", "credit", "reread"}

TypeOK ==
    /\ DbTypeOK
    /\ pc \in [Calls -> Locations]
    /\ req \in [Calls -> Requests]
    /\ read \in [Calls -> Int]
    /\ resp \in [Calls -> [code : Codes, after : Int]]
    /\ advisory \in [Users -> SUBSET Calls]
    /\ rowLock \in [Users -> SUBSET Calls]

ServiceInit ==
    /\ Init
    /\ pc = [c \in Calls |-> "idle"]
    /\ req = [c \in Calls |-> CHOOSE r \in Requests : TRUE]
    /\ read = [c \in Calls |-> 0]
    /\ resp = [c \in Calls |-> [code |-> "none", after |-> 0]]
    /\ advisory = [u \in Users |-> {}]
    /\ rowLock = [u \in Users |-> {}]

-----------------------------------------------------------------------------
User(c)   == req[c].user
Amount(c) == req[c].amount

Goto(c, loc) == pc' = [pc EXCEPT ![c] = loc]

\* Mutant: session-level pg_advisory_lock instead of pg_advisory_xact_lock, which
\* the end of the transaction does not release.
ReplySessionLock(c, code, after) ==
    /\ Goto(c, "idle")
    /\ resp' = [resp EXCEPT ![c] = [code |-> code, after |-> after]]
    /\ rowLock' = [u \in Users |-> rowLock[u] \ {c}]
    /\ UNCHANGED <<req, read, advisory>>

\* The handler returns: its transaction, if any, has ended and its locks are free.
Reply(c, code, after) ==
    /\ Goto(c, "idle")
    /\ resp' = [resp EXCEPT ![c] = [code |-> code, after |-> after]]
    /\ advisory' = [u \in Users |-> advisory[u] \ {c}]
    /\ rowLock' = [u \in Users |-> rowLock[u] \ {c}]
    /\ UNCHANGED <<req, read>>

\* The handler returns an error; the deferred tx.Rollback leaves the tables alone.
Fail(c, code) == Reply(c, code, 0) /\ UNCHANGED db

\* An RPC arrives.  CreditBalance has no idempotency check.
Begin(c, r) ==
    /\ pc[c] = "idle"
    /\ Goto(c, IF r.op = "CreditBalance" THEN "credit" ELSE "check")
    /\ req' = [req EXCEPT ![c] = r]
    /\ UNCHANGED <<db, read, resp, advisory, rowLock>>

\* The idempotency SELECT finds the row: Deduct answers from it at once
\* (getExistingTransaction), Deposit and Withdraw read the balance first.
AlreadyProcessed(c) ==
    /\ pc[c] = "check"
    /\ Recorded(req[c].tx)
    /\ IF req[c].op = "DeductBalance"
         THEN Fail(c, "OK")
         ELSE Goto(c, "reread") /\ UNCHANGED <<db, req, read, resp, advisory, rowLock>>

\* The SELECT finds nothing, or fails: Deduct takes any error for "not found",
\* Deposit and Withdraw answer Internal (the Abort action).
NotProcessed(c) ==
    /\ pc[c] = "check"
    /\ ~Recorded(req[c].tx) \/ req[c].op = "DeductBalance"
    /\ Goto(c, "lock")
    /\ UNCHANGED <<db, req, read, resp, advisory, rowLock>>

\* BEGIN; SELECT pg_advisory_xact_lock(hashtext(user_id))
AdvisoryLock(c) ==
    /\ pc[c] = "lock"
    /\ advisory[User(c)] = {}
    /\ advisory' = [advisory EXCEPT ![User(c)] = {c}]
    /\ Goto(c, IF req[c].op = "Deposit" THEN "write" ELSE "read")
    /\ UNCHANGED <<db, req, read, resp, rowLock>>

\* Mutant: the SELECT without FOR UPDATE.
ReadWithoutLock(c) ==
    /\ pc[c] = "read"
    /\ User(c) \in funded
    /\ available[User(c)] >= Amount(c)
    /\ read' = [read EXCEPT ![c] = available[User(c)]]
    /\ Goto(c, "write")
    /\ UNCHANGED <<db, req, resp, advisory, rowLock>>

\* SELECT available_minor FROM balances WHERE user_id = $1 FOR UPDATE, and the
\* comparison with the amount.
ReadForUpdate(c) ==
    /\ pc[c] = "read"
    /\ User(c) \in funded
    /\ rowLock[User(c)] = {}
    /\ available[User(c)] >= Amount(c)
    /\ rowLock' = [rowLock EXCEPT ![User(c)] = {c}]
    /\ read' = [read EXCEPT ![c] = available[User(c)]]
    /\ Goto(c, "write")
    /\ UNCHANGED <<db, req, resp, advisory>>

InsufficientFunds(c) ==
    /\ pc[c] = "read"
    /\ User(c) \in funded
    /\ rowLock[User(c)] = {}
    /\ available[User(c)] < Amount(c)
    /\ Fail(c, "FailedPrecondition")

NoBalanceRow(c) ==
    /\ pc[c] = "read"
    /\ User(c) \notin funded
    /\ Fail(c, IF req[c].op = "DeductBalance" THEN "NotFound" ELSE "Internal")

-----------------------------------------------------------------------------
\* UPDATE balances: the CHECK constraint that the new row would break, if any.
BrokenCheck(u, dAvailable, dInFlight) ==
    IF available[u] + dAvailable < 0 THEN "CheckAvailable"
    ELSE IF inFlight[u] + dInFlight < 0 THEN "CheckInFlight" ELSE "none"

\* Mutant: the INSERT of Deduct and Withdraw says ON CONFLICT DO NOTHING, as the
\* one of CreditBalance does.
PostOnConflictDoNothing(c, dAvailable, dInFlight, after) ==
    LET u == User(c)
        t == req[c].tx
        broken == BrokenCheck(u, dAvailable, dInFlight)
    IN  \/ broken # "none" /\ Fail(c, broken)
        \/ /\ broken = "none"
           /\ available' = [available EXCEPT ![u] = @ + dAvailable]
           /\ inFlight' = [inFlight EXCEPT ![u] = @ + dInFlight]
           /\ ledger' = IF Recorded(t) THEN ledger ELSE [ledger EXCEPT ![t] = RowOf(req[c])]
           /\ Reply(c, "OK", after)
           /\ UNCHANGED <<funded, limited>>

\* UPDATE balances; INSERT INTO ledger_entries; COMMIT.  A broken CHECK or a
\* duplicate primary key fails the statement; a failed COMMIT may have been
\* applied.  `after' is the AvailableAfter of a successful answer.
Post(c, dAvailable, dInFlight, after) ==
    LET u == User(c)
        t == req[c].tx
        broken == BrokenCheck(u, dAvailable, dInFlight)
    IN  \/ broken # "none" /\ Fail(c, broken)
        \/ broken = "none" /\ Recorded(t) /\ Fail(c, "Internal")
        \/ /\ broken = "none" /\ ~Recorded(t)
           /\ available' = [available EXCEPT ![u] = @ + dAvailable]
           /\ inFlight' = [inFlight EXCEPT ![u] = @ + dInFlight]
           /\ ledger' = [ledger EXCEPT ![t] = RowOf(req[c])]
           /\ \/ Reply(c, "OK", after)
              \/ Reply(c, "Internal", 0)
           /\ UNCHANGED <<funded, limited>>

\* Mutant: AvailableAfter is the balance that was read, before the deduction.
DeductAnswersWithRead(c) ==
    /\ pc[c] = "write"
    /\ req[c].op = "DeductBalance"
    /\ Post(c, -Amount(c), Amount(c), read[c])

\* AvailableAfter is computed in Go from the value read under the lock.
DeductBalanceCommit(c) ==
    /\ pc[c] = "write"
    /\ req[c].op = "DeductBalance"
    /\ Post(c, -Amount(c), Amount(c), read[c] - Amount(c))

\* AvailableAfter is UPDATE ... RETURNING available_minor.
WithdrawCommit(c) ==
    /\ pc[c] = "write"
    /\ req[c].op = "Withdraw"
    /\ Post(c, -Amount(c), 0, available[User(c)] - Amount(c))

\* Provision user_limits, upsert the balances row, insert the ledger row.
DepositCommit(c) ==
    LET u == User(c)
        t == req[c].tx
    IN  /\ pc[c] = "write"
        /\ req[c].op = "Deposit"
        /\ rowLock[u] = {}
        /\ \/ Recorded(t) /\ Fail(c, "Internal")
           \/ /\ ~Recorded(t)
              /\ available' = [available EXCEPT ![u] = @ + Amount(c)]
              /\ ledger' = [ledger EXCEPT ![t] = RowOf(req[c])]
              /\ funded' = funded \cup {u}
              /\ limited' = limited \cup {u}
              /\ \/ Reply(c, "OK", available[u] + Amount(c))
                 \/ Reply(c, "Internal", 0)
              /\ UNCHANGED inFlight

\* Mutant: the row is inserted only if the UPDATE matched one, and the answer is
\* OK either way.
CreditIgnoresMissingRow(c) ==
    LET u == User(c)
    IN  /\ pc[c] = "credit"
        /\ rowLock[u] = {}
        /\ u \notin funded
        /\ Goto(c, "reread")
        /\ UNCHANGED <<db, req, read, resp, advisory, rowLock>>

\* Mutant: the credit is paid out of nothing, bets_in_flight keeps the stake.
CreditKeepsStakeInFlight(c) ==
    LET u == User(c)
        t == req[c].tx
    IN  /\ pc[c] = "credit"
        /\ rowLock[u] = {}
        /\ u \in funded
        /\ available' = [available EXCEPT ![u] = @ + Amount(c)]
        /\ ledger' = IF Recorded(t) THEN ledger ELSE [ledger EXCEPT ![t] = RowOf(req[c])]
        /\ Goto(c, "reread")
        /\ UNCHANGED <<funded, limited, inFlight, req, read, resp, advisory, rowLock>>

\* UPDATE balances by the same amount on both columns; INSERT ... ON CONFLICT
\* DO NOTHING; COMMIT.  Without a balances row the UPDATE matches nothing and
\* the INSERT breaks the foreign key, unless the row exists already.
CreditBalanceCommit(c) ==
    LET u == User(c)
        t == req[c].tx
        broken == BrokenCheck(u, Amount(c), -Amount(c))
    IN  /\ pc[c] = "credit"
        /\ rowLock[u] = {}
        /\ \/ u \in funded /\ broken # "none" /\ Fail(c, broken)
           \/ u \notin funded /\ ~Recorded(t) /\ Fail(c, "Internal")
           \/ /\ u \in funded => broken = "none"
              /\ u \in funded \/ Recorded(t)
              /\ IF u \in funded
                   THEN /\ available' = [available EXCEPT ![u] = @ + Amount(c)]
                        /\ inFlight' = [inFlight EXCEPT ![u] = @ - Amount(c)]
                   ELSE UNCHANGED <<available, inFlight>>
              /\ ledger' = IF Recorded(t) THEN ledger
                                          ELSE [ledger EXCEPT ![t] = RowOf(req[c])]
              /\ \/ /\ Goto(c, "reread")
                    /\ UNCHANGED <<req, read, resp, advisory, rowLock>>
                 \/ Reply(c, "Internal", 0)
              /\ UNCHANGED <<funded, limited>>

\* SELECT available_minor after the fact, on the pool; its error is ignored.
Reread(c) ==
    /\ pc[c] = "reread"
    /\ \/ Reply(c, "OK", available[User(c)])
       \/ Reply(c, "OK", 0)
    /\ UNCHANGED db

\* Cancelled context, lost connection, crash, or a failing statement.
Abort(c) ==
    /\ pc[c] # "idle"
    /\ Fail(c, "Internal")

\* A single guarded UPDATE.
ConfirmTransactionCall(t) ==
    /\ ledger[t].status = "PENDING_CONFIRMATION"
    /\ ledger' = [ledger EXCEPT ![t].status = "CONFIRMED"]
    /\ UNCHANGED <<funded, limited, available, inFlight, calls>>

Step(c) ==
    \/ AlreadyProcessed(c)
    \/ NotProcessed(c)
    \/ AdvisoryLock(c)
    \/ ReadForUpdate(c)
    \/ InsufficientFunds(c)
    \/ NoBalanceRow(c)
    \/ DeductBalanceCommit(c)
    \/ WithdrawCommit(c)
    \/ DepositCommit(c)
    \/ CreditBalanceCommit(c)
    \/ Reread(c)

ServiceNext ==
    \/ \E c \in Calls : Step(c) \/ Abort(c) \/ \E r \in Requests : Begin(c, r)
    \/ \E t \in Tx : ConfirmTransactionCall(t)

ServiceSpec == ServiceInit /\ [][ServiceNext]_vars

(***************************************************************************)
(* A handler keeps running while it can; a call waiting for a lock is      *)
(* served in turn (Postgres queues lock waiters), hence strong fairness.   *)
(* Nothing obliges callers to send requests or calls to fail.              *)
(***************************************************************************)
FairServiceSpec == ServiceSpec /\ \A c \in Calls : SF_vars(Step(c))

-----------------------------------------------------------------------------
\* The comparison made in Go on the value read under the locks (service.go:114,
\* 439) is still valid when the UPDATE runs: the CHECK on available_minor, the
\* last line of defence against an overdraft, never has to reject a call.
FundsCheckNeverStale ==
    \A c \in Calls :
        pc[c] = "idle" /\ resp[c].code = "CheckAvailable" => req[c].op = "CreditBalance"

\* Between SELECT ... FOR UPDATE and the UPDATE nobody changes the balance a
\* Deduct or a Withdraw has read: not CreditBalance, which takes no advisory
\* lock, nor a Deposit, which reads without FOR UPDATE.
ReadStaysCurrent ==
    \A c \in Calls :
        pc[c] = "write" /\ req[c].op # "Deposit"
            => read[c] = available[User(c)] /\ Amount(c) <= read[c]

\* A caller that was told OK can rely on the ledger: the row for its transaction
\* id exists and is that operation on that user with that amount, however many
\* calls raced on the id and whichever of them failed.
AcknowledgedIsRecorded ==
    \A c \in Calls :
        pc[c] = "idle" /\ resp[c].code = "OK"
            => LET row == ledger[req[c].tx]
               IN  /\ row.status # "ABSENT"
                   /\ row.user = User(c)
                   /\ row.amount = Amount(c)
                   /\ row.type = EntryType(req[c].op)

\* AvailableAfter in the answer of the call that moved the money is the balance
\* its COMMIT left, although Deduct computes it in Go from an earlier SELECT.
AvailableAfterIsExact ==
    [][\A c \in Calls :
          pc[c] = "write" /\ pc'[c] = "idle" /\ resp'[c].code = "OK"
              => resp'[c].after = available'[User(c)]]_vars

\* The concurrent handlers, with their locks, failures and retries, implement
\* the atomic operations of WalletLedger on the same tables.
ImplementsLedger == Spec

\* Every RPC that arrives is answered: the advisory lock and the row lock are
\* released on every path, and no two calls wait for each other.
EveryCallAnswers == \A c \in Calls : pc[c] # "idle" ~> pc[c] = "idle"
=============================================================================
