------------------------------ MODULE MCWallet ------------------------------
(* Instances of WalletService for TLC. *)
EXTENDS WalletService

CONSTANTS u1, t1, t2, t3, t4

Req(op, t, u, n) == [op |-> op, tx |-> t, user |-> u, amount |-> n]

\* One user: money in, out, staked and credited, every id open to retries.
OneUser == {Req("Deposit", t1, u1, 2), Req("Withdraw", t2, u1, 1),
            Req("DeductBalance", t3, u1, 1), Req("CreditBalance", t4, u1, 1)}
=============================================================================
