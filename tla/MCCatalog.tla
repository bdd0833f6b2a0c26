----------------------------- MODULE MCCatalog -----------------------------
(* Instances of CatalogService for TLC. *)
EXTENDS CatalogService

Message_(t, s, n) == [type |-> t, status |-> s, score |-> n]

\* The poll of the event, the score of the game that ended, and a price.
Game == {Message_("catalog.upsert", "LIVE", 0), Message_("game.state", "FINISHED", 1),
         Message_("price.update", "LIVE", 0)}
=============================================================================
