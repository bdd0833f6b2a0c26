------------------------------ MODULE MCFeeds ------------------------------
(* Instances of Feeds for TLC. *)
EXTENDS Feeds

Market(id, kind, prices, ends) ==
    [id |-> id, kind |-> kind, open |-> TRUE, prices |-> prices, ends |-> ends]

\* Every event of three markets, a game's or one in politics, with ties, closed markets
\* and prices that do not parse; the two prices of a market add up.
Prices     == {<<500, 500>>, <<400, 600>>, <<980, 20>>, <<19, 981>>, <<>>}
OfGame     == {Market(0, k, p, 0) : k \in {"moneyline", "spreads", "totals"}, p \in Prices}
OfPolitics == {Market(0, "", p, e) : p \in Prices, e \in 0..2}
WithClosed(ms) == ms \cup {[m EXCEPT !.open = FALSE] : m \in ms}
Books(ms)  == {[i \in 1..3 |-> [b[i] EXCEPT !.id = i]] : b \in [1..3 -> WithClosed(ms)]}

\* The normalisers' choice of main markets agrees with the references on
\* all of them; TLC evaluates this once.
ASSUME NormalisersAgree ==
    /\ \A b \in Books(OfGame) : EvenestIsMain(b) /\ SidesAgree(b)
    /\ \A b \in Books(OfPolitics) : SoonestIsMain(b) /\ SidesAgree(b)

\* A game under way and one that starts after the look-ahead, with a team's nickname in
\* common and titles that name the teams of one game each.
MCEvents  == {"e1", "e2"}
MCStartOf == [e \in MCEvents |-> IF e = "e1" THEN 0 ELSE 2]
MCBookOf  == [e \in MCEvents |-> IF e = "e1" THEN <<Market("t1", "totals", <<>>, 0)>>
                                             ELSE <<Market("t2", "moneyline", <<400, 600>>, 0)>>]
MCHomeOf  == [e \in MCEvents |-> IF e = "e1" THEN <<"duke">> ELSE <<"golden", "knights">>]
MCAwayOf  == [e \in MCEvents |-> IF e = "e1" THEN <<"bruins">> ELSE <<"bruins">>]
MCTitleOf == [e \in MCEvents |-> MCAwayOf[e] \o <<"@">> \o MCHomeOf[e]]
=============================================================================
