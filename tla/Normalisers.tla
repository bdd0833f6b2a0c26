----------------------------- MODULE Normalisers -----------------------------
(***************************************************************************)
(* What the normalisers of internal/marketdata make of a provider's event: *)
(* the messages for market-data-normalised.  Prices are probabilities in   *)
(* thousandths; names, lines and clocks are left out.  A market is         *)
(*   [id, kind, open, prices, ends]                                        *)
(* kind the provider's sportsMarketType ("" in politics), open: active and *)
(* not closed, prices a sequence (<<>> when it does not parse), ends the   *)
(* parsed end date (0 when it does not parse).                             *)
(***************************************************************************)
EXTENDS Integers, Sequences, SequencesExt

CONSTANTS LookAhead, LiveWindow   \* 14 days, 6 hours, in the unit of the clock

TypeOf(kind) == CASE kind = "moneyline" -> "ML" [] kind = "spreads" -> "SPREAD"
                  [] kind = "totals" -> "TOTAL" [] OTHER -> "none"

ClampProb(p) == IF p > 980 \/ p < 20 THEN 0 ELSE p

Upserts(m, status, main) ==
    [i \in 1..2 |-> [type |-> "catalog.upsert", market |-> m.id, sel |-> i - 1, status |-> status,
                     main |-> main, prob |-> ClampProb(m.prices[i])]]

PriceUpdate(m) == [type |-> "price.update", market |-> m.id]

Abs(n)      == IF n < 0 THEN -n ELSE n
MaxPrice(m) == FoldSeq(LAMBDA p, q : IF p > q THEN p ELSE q, 0, m.prices)
Dist(m)     == Abs(MaxPrice(m) - 500)

\* computeIsMain's scan of one group: the first market whose favourite is nearest to
\* even.  A market without two prices is passed over.
MainOf(type, ms) ==
    LET best == FoldLeft(LAMBDA b, m :
                    IF /\ TypeOf(m.kind) = type /\ Len(m.prices) >= 2
                       /\ (b = <<>> \/ Dist(m) < Dist(b[1]))
                    THEN <<m>> ELSE b, <<>>, ms)
    IN {m.id : m \in Range(best)}

ComputeIsMain(ms) ==
    {m.id : m \in {ms[i] : i \in {i \in DOMAIN ms : TypeOf(ms[i].kind) = "ML"}}}
    \cup MainOf("SPREAD", ms) \cup MainOf("TOTAL", ms)

\* "" outside of the window: the event is skipped in silence.
GameStatus(now, start) ==
    IF start < now - LiveWindow \/ start > now + LookAhead THEN ""
    ELSE IF start > now THEN "SCHEDULED" ELSE "LIVE"

\* PolymarketNormaliser: upserts for the markets that parse, then a price update for
\* every open market of a type we offer, those that do not parse too.
NormaliseGame(now, start, markets) ==
    LET allowed == SelectSeq(markets, LAMBDA m : TypeOf(m.kind) # "none" /\ m.open)
        main    == ComputeIsMain(allowed)
        parsed  == SelectSeq(allowed, LAMBDA m : Len(m.prices) = 2)
        status  == GameStatus(now, start)
    IN IF status = "" THEN <<>>
       ELSE FlattenSeq([i \in DOMAIN parsed |-> Upserts(parsed[i], status, parsed[i].id \in main)])
            \o [i \in DOMAIN allowed |-> PriceUpdate(allowed[i])]

\* The first open market with the soonest end date.
Soonest(ms) ==
    LET dated == SelectSeq(ms, LAMBDA m : m.ends > 0)
        first == {i \in DOMAIN dated : \A j \in DOMAIN dated :
                     dated[i].ends < dated[j].ends \/ (dated[i].ends = dated[j].ends /\ i <= j)}
    IN {dated[i] : i \in first}

\* PoliticsNormaliser: nothing has to have started and nothing is ever over.
NormalisePolitics(now, markets) ==
    LET open   == SelectSeq(markets, LAMBDA m : m.open /\ m.kind = "")
        parsed == SelectSeq(open, LAMBDA m : Len(m.prices) >= 2)
    IN IF \A m \in Soonest(open) : m.ends > now + LookAhead THEN <<>>
       ELSE FlattenSeq([i \in DOMAIN parsed |->
                           Upserts(parsed[i], "SCHEDULED", parsed[i] \in Soonest(open))])
            \o [i \in DOMAIN open |-> PriceUpdate(open[i])]

\* The score normalisers.  A scoreboard's "post" that is not completed (a game called
\* off) counts as LIVE; the WebSocket says SCHEDULED for what is neither live nor over.
BoardStatus(game)  == IF game = "over" THEN "FINISHED" ELSE "LIVE"
SocketStatus(game) == CASE game = "over" -> "FINISHED" [] game = "in" -> "LIVE"
                        [] OTHER -> "SCHEDULED"

-----------------------------------------------------------------------------
(* What the normalisers' messages mean, for a book b of markets. *)

Offered(out, b) == {m \in Range(b) : \E i \in DOMAIN out :
                        out[i].type = "catalog.upsert" /\ out[i].market = m.id}

Mains(out, type, b) ==
    {m \in Offered(out, b) : TypeOf(m.kind) = type /\ \E i \in DOMAIN out :
        out[i].type = "catalog.upsert" /\ out[i].market = m.id /\ out[i].main}

\* Of a game's spreads, and of its totals, one is the main one and none of the others
\* offered is nearer to even.
EvenestIsMain(b) ==
    LET out == NormaliseGame(0, 0, b) IN
    \A type \in {"SPREAD", "TOTAL"} :
        LET lines == {m \in Offered(out, b) : TypeOf(m.kind) = type}
            main  == Mains(out, type, b)
        IN /\ lines # {} => \E m \in main : main = {m}
           /\ \A m \in main, o \in lines : Dist(m) <= Dist(o)

\* Of a politics event the main market ends no later than the others offered.
SoonestIsMain(b) ==
    LET out == NormalisePolitics(0, b) IN
    \A m \in Mains(out, "none", b), o \in Offered(out, b) : o.ends > 0 => m.ends <= o.ends

\* Both selections of a market have a probability or none has.
SidesAgree(b) ==
    LET out == NormaliseGame(0, 0, b) \o NormalisePolitics(0, b)
    IN \A i \in DOMAIN out, j \in DOMAIN out :
          /\ out[i].type = "catalog.upsert" /\ out[j].type = "catalog.upsert"
          /\ out[i].market = out[j].market
          => (out[i].prob = 0 <=> out[j].prob = 0)
=============================================================================
