--------------------------- MODULE OddsArithmetic ---------------------------
(***************************************************************************)
(* The arithmetic of internal/oddsmanagement/service.go on exact numbers.  *)
(* Decimal odds are in units of 1/10000, the precision of the column       *)
(* odds.offered_decimal; probabilities are in hundredths (the formulas do  *)
(* not depend on the unit); a vig k is exp(delta) in hundredths.  With     *)
(* q = sigmoid(logit(p) + delta) the decimal odds 1/q are                  *)
(* 1 + (1-p)/(p e^delta), a profit of other/(k p) in these units.  The     *)
(* clamp to 1e-6 never binds: the normalisers keep probabilities between 2 *)
(* and 98, or at 0.                                                        *)
(*                                                                         *)
(* The code computes with floats, and converts the unrounded float to      *)
(* American odds; only the column rounds.  Where the exact value is a tie  *)
(* the float may lie on either side of it: the operators are the sets of   *)
(* the results it may lead to.                                             *)
(***************************************************************************)
EXTENDS Integers

\* The integers nearest to n/d, for n >= 0, d > 0: two at a tie.
Roundings(n, d) ==
    {r \in {n \div d, n \div d + 1} : 2 * d * r <= 2 * n + d /\ 2 * n <= 2 * d * r + d}

\* Mutant: the comparison with even money is the wrong way round.
AmericansSign(n, d) ==
      (IF n <= 100 * d THEN Roundings(n, d) ELSE {})
 \cup (IF n >= 100 * d THEN {-r : r \in Roundings(10000 * d, n)} ELSE {})

\* DecimalToAmerican of the odds whose profit is n/d > 0 per cent of the stake.
Americans(n, d) ==
      (IF n >= 100 * d THEN Roundings(n, d) ELSE {})
 \cup (IF n <= 100 * d THEN {-r : r \in Roundings(10000 * d, n)} ELSE {})

\* Prices: what the column holds, and the American odds beside it.
Offers(profits, americans) == [decimal : {10000 + r : r \in profits}, american : americans]

\* Mutant: the logit shift is subtracted.
MarketOffersNoVig(p, other, k) ==
    Offers(Roundings(100 * k * other, p), Americans(k * other, p))

\* ComputeMarketOdds for the selection with feed probability p > 0 against `other'.
MarketOffers(p, other, k) ==
    Offers(Roundings(1000000 * other, k * p), Americans(10000 * other, k * p))

\* Its vigged probability may come out as not lower than the feed's, as lower: no price.
MayBePriced(p, other, k) == 100 * k >= k * p + 100 * other
MayBeZeroed(p, other, k) == 100 * k <= k * p + 100 * other

\* adjustForLiability; its result differs from the argument whenever this holds.
Liable(stake, decimal) == stake > 5000 /\ decimal > 10000

AdjustedOffers(decimal) ==
    Offers(Roundings(99 * (decimal - 10000), 100), Americans(99 * (decimal - 10000), 10000))

\* int32(h) of an unsigned hash, in w bits (32 in the code), and Go's remainder,
\* which has the sign of the dividend.
Signed(h, w) == IF h < 2^(w - 1) THEN h ELSE h - 2^w
GoRem(a, n) == IF a >= 0 THEN a % n ELSE -((-a) % n)

PartitionForMarket(h, w, n) == GoRem(Signed(h, w), n)
=============================================================================
