----------------------------- MODULE MCLifecycle ----------------------------
(* Instances of BetLifecycle for TLC. *)
EXTENDS BetLifecycle

CONSTANTS u1, b1, b2, m1

\* One user's bets on the two selections of one market; odds of 1.50 and 2.00.
MCBets      == {b1, b2}
MCMarketOf  == [b \in Bets |-> m1]
MCSelection == [b \in Bets |-> IF b = b1 THEN "s1" ELSE "s2"]
MCUserOf    == [b \in Bets |-> u1]
MCStakeOf   == [b \in Bets |-> 2]
MCOddsOf    == [b \in Bets |-> IF b = b1 THEN 150 ELSE 200]
OneBet      == {b1}
MCTx        == Bets \cup {CreditTx(b, n) : b \in Bets, n \in 1..MaxAttempts}

\* A result of the market for each of its winners, messages that are none.
Result(w)    == [type |-> "market.resulted", market |-> m1, winner |-> w]
NotResult(t) == [type |-> t, market |-> m1, winner |-> "none"]
MCFeed       == {Result("s1"), Result("s2"), NotResult("malformed")}
WholeFeed    == {Result(w) : w \in {"s1", "s2", "none"}} \cup {NotResult(t) : t \in {"other", "malformed"}}

MCRequests == {[op |-> "DeductBalance", tx |-> b, user |-> u1, amount |-> 2] : b \in Bets}

\* The names the switch of ConsumeClaim knows, the code's name for the
\* topic nobody writes to, and all names of the code's topics.
NamesAgree  == CaseName
NamesMixed  == [CaseName EXCEPT !["voided"] = "bet-voided"]
NamesOfCode == [placed |-> "bet-placed", settled |-> "bet-settled", voided |-> "bet-voided"]
=============================================================================
