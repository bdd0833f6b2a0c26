-------------------------------- MODULE MCBet -------------------------------
(* Instances of BetAcceptance for TLC. *)
EXTENDS BetAcceptance

CONSTANTS u1, k1, k2, b1, b2, d1, w1, c1

\* One user's request for odds of 1.00 and a stake of 2, sent twice: as a retry with
\* one idempotency key, or as two bets.
OneKey    == [b \in {b1, b2} |-> k1]
MCUserOf  == [b \in {b1, b2} |-> u1]
MCStakeOf == [b \in {b1, b2} |-> 2]
MCOddsOf  == [b \in {b1, b2} |-> 100]

Req(op, t, n) == [op |-> op, tx |-> t, user |-> u1, amount |-> n]
Deductions    == {Req("DeductBalance", b, 2) : b \in {b1, b2}}

\* The deposit pays for both bets until the user withdraws; Settlement pays back.
Busy    == Deductions \cup {Req("Deposit", d1, 4), Req("Withdraw", w1, 1),
                            Req("CreditBalance", c1, 1)}
\* The same without Settlement, and enough for both bets.
Drained == Deductions \cup {Req("Deposit", d1, 4), Req("Withdraw", w1, 1)}
Quiet   == Deductions \cup {Req("Deposit", d1, 4)}
=============================================================================
