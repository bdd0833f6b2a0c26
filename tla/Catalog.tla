------------------------------ MODULE Catalog ------------------------------
(***************************************************************************)
(* The tables of the Market Catalog and their two writers, for one event   *)
(* with one market: the consumer of market-data-normalised                 *)
(* (internal/catalog/consumer.go) and setMarketStatus (service.go; no      *)
(* caller of it exists yet, any may come).  The topic is keyed by market   *)
(* id for upserts and by event id for scores: two partitions, and two      *)
(* goroutines that write the event's row.                                  *)
(***************************************************************************)
EXTENDS Claims, Sequences, FiniteSets

CONSTANTS
    Messages,     \* what market-data-normalised may carry: [type, status, score]
    MaxInputs     \* bound: messages, calls, connections and failures, all together

Partitions == {"markets", "events"}
Tables     == <<"sport", "competition", "event", "market", "selection">>
Statuses   == {"OPEN", "SUSPENDED", "CLOSED"}
None       == "none"

\* ingestion.go publishes under market_id, and under event_id where that is empty.
PartitionOf(m) == IF m.type = "game.state" THEN "events" ELSE "markets"

ASSUME CatalogAssumption ==
    /\ \A m \in Messages : /\ m.type \in {"catalog.upsert", "game.state", "price.update"}
                           /\ m.status \in {"SCHEDULED", "LIVE", "FINISHED"}
                           /\ m.score \in Nat
    /\ MaxInputs \in Nat

VARIABLES
    feed,       \* feed[p]: the messages of partition p
    cg,         \* cg[p]: the claim of market-catalog-cg
    at,         \* at[p]: "idle", a statement of Tables, or "broadcast"
    rows,       \* the tables that have a row
    event,      \* [status, score] of the event's row
    status,     \* status of the market's row
    ruled,      \* the status an operator set last (history), or None
    orphan,     \* the last score that was written found no row (history)
    inputs      \* the inputs so far

tables  == <<rows, event, status, ruled, orphan>>
consume == <<feed, cg, at>>
catalog == <<tables, consume, inputs>>

CatalogTypeOK ==
    /\ \A p \in Partitions : feed[p] \in Seq(Messages) /\ cg[p] \in Claim
    /\ \A p \in Partitions : at[p] \in {Tables[i] : i \in DOMAIN Tables} \cup {"idle", "broadcast"}
    /\ rows \subseteq {Tables[i] : i \in DOMAIN Tables}
    /\ event.status \in {"SCHEDULED", "LIVE", "FINISHED"} /\ event.score \in Nat
    /\ {status, ruled} \subseteq Statuses \cup {None} /\ orphan \in BOOLEAN
    /\ inputs \in 0..MaxInputs

CatalogInit ==
    /\ feed = [p \in Partitions |-> <<>>]
    /\ cg = [p \in Partitions |-> NewClaim]
    /\ at = [p \in Partitions |-> "idle"]
    /\ rows = {} /\ event = [status |-> "SCHEDULED", score |-> 0]
    /\ status = None /\ ruled = None /\ orphan = FALSE
    /\ inputs = 0

Input == inputs < MaxInputs /\ inputs' = inputs + 1

\* The ingestion service publishes a message.
FeedArrives(m) ==
    /\ Input
    /\ feed' = [feed EXCEPT ![PartitionOf(m)] = Append(@, m)]
    /\ UNCHANGED <<tables, cg, at>>

-----------------------------------------------------------------------------
(* ConsumeNormalisedFeed *)

Message(p)  == feed[p][cg[p].next + 1]
Receives(p) == at[p] = "idle" /\ cg[p].next < Len(feed[p])

\* MarkMessage closes every path of the loop, the failing ones too.
Marked(p) == /\ at' = [at EXCEPT ![p] = "idle"]
             /\ cg' = [cg EXCEPT ![p] = HandledUncommitted(@)]

\* Mutant: the message is marked, and committed, when it is received.
BeginUpsertMarked(p) ==
    /\ Receives(p) /\ Message(p).type = "catalog.upsert"
    /\ at' = [at EXCEPT ![p] = "sport"]
    /\ cg' = [cg EXCEPT ![p].committed = cg[p].next + 1]
    /\ UNCHANGED <<feed, tables, inputs>>

BeginUpsert(p) ==
    /\ Receives(p) /\ Message(p).type = "catalog.upsert"
    /\ at' = [at EXCEPT ![p] = "sport"]
    /\ UNCHANGED <<feed, cg, tables, inputs>>

Ignore(p) ==
    /\ Receives(p) /\ Message(p).type = "price.update"
    /\ Marked(p)
    /\ UNCHANGED <<feed, tables, inputs>>

\* Mutant: the market's status is in the DO UPDATE list too.
MarketRowOverwritten == status' = "OPEN"

\* INSERT INTO markets with status OPEN; ON CONFLICT leaves the status alone.
MarketRow == status' = IF "market" \in rows THEN status ELSE "OPEN"

\* One statement of handleCatalogUpsert; each commits on its own.
Upsert(p) ==
    /\ at[p] \in {Tables[i] : i \in DOMAIN Tables}
    /\ LET i == CHOOSE j \in DOMAIN Tables : Tables[j] = at[p]
       IN /\ rows' = rows \cup {at[p]}
          /\ IF at[p] = "event" THEN event' = [event EXCEPT !.status = Message(p).status]
                                ELSE event' = event
          /\ IF at[p] = "market" THEN MarketRow ELSE status' = status
          /\ IF i = Len(Tables) THEN Marked(p)
             ELSE at' = [at EXCEPT ![p] = Tables[i + 1]] /\ cg' = cg
    /\ UNCHANGED <<feed, ruled, orphan, inputs>>

\* A statement fails: the rest of the upsert is dropped and the message marked.
UpsertFails(p) ==
    /\ Input
    /\ at[p] \in {Tables[i] : i \in DOMAIN Tables}
    /\ Marked(p)
    /\ UNCHANGED <<feed, tables>>

\* handleGameState: UPDATE events.  No row is no error.
GameState(p) ==
    /\ Receives(p) /\ Message(p).type = "game.state"
    /\ orphan' = ("event" \notin rows)
    /\ event' = IF orphan' THEN event
                ELSE [status |-> Message(p).status, score |-> Message(p).score]
    /\ at' = [at EXCEPT ![p] = "broadcast"]
    /\ UNCHANGED <<feed, cg, rows, status, ruled, inputs>>

\* Mutant: the error is logged and the score broadcast all the same.
GameStateErrorIgnored(p) ==
    /\ Input
    /\ Receives(p) /\ Message(p).type = "game.state"
    /\ at' = [at EXCEPT ![p] = "broadcast"]
    /\ UNCHANGED <<feed, cg, tables>>

GameStateFails(p) ==
    /\ Input
    /\ Receives(p) /\ Message(p).type = "game.state"
    /\ Marked(p)
    /\ UNCHANGED <<feed, tables>>

\* sarama's auto-commit: a ticker commits what has been marked.
AutoCommit(p) ==
    /\ cg[p].committed # cg[p].next
    /\ cg' = [cg EXCEPT ![p].committed = cg[p].next]
    /\ UNCHANGED <<feed, at, tables, inputs>>

-----------------------------------------------------------------------------
\* The UPDATE of setMarketStatus; an unknown market is no error.
UpdateStatus(s) ==
    /\ Input
    /\ IF "market" \in rows THEN status' = s /\ ruled' = s ELSE UNCHANGED <<status, ruled>>
    /\ UNCHANGED <<rows, event, orphan, consume>>

\* The process ends and starts again; the database keeps what it has.
ConsumerStops ==
    /\ at' = [p \in Partitions |-> "idle"]
    /\ cg' = [p \in Partitions |-> Restarted(cg[p])]
    /\ UNCHANGED <<tables, feed>>

-----------------------------------------------------------------------------
ConsumerStep(p) == BeginUpsert(p) \/ Ignore(p) \/ Upsert(p) \/ GameState(p)
ConsumerFails(p) == UpsertFails(p) \/ GameStateFails(p)

CatalogInputs ==
    \/ \E m \in Messages : FeedArrives(m)
    \/ \E p \in Partitions : ConsumerFails(p)

CatalogStep == \E p \in Partitions : ConsumerStep(p) \/ AutoCommit(p)

-----------------------------------------------------------------------------
\* A market an operator has suspended or closed stays so: the feed offers every open
\* market again every five minutes, after restarts from an old offset too, and must
\* not reopen it (the ON CONFLICT list at consumer.go:131-136).
OperatorRules == ruled # None => status = ruled

Markets_cg == INSTANCE Delivery WITH
    written <- Len(feed["markets"]), next <- cg["markets"].next,
    committed <- cg["markets"].committed, handled <- cg["markets"].handled,
    failed <- cg["markets"].failed

\* The feed consumer keeps the contract of Delivery although its offsets are committed
\* by a ticker and an upsert takes five statements.
MarketsDelivered == Markets_cg!Spec
=============================================================================
