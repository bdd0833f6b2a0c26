--------------------------- MODULE CatalogService ---------------------------
(***************************************************************************)
(* The process of cmd/catalog/main.go: the feed consumer, the status cache *)
(* and the live view, which share the tables and end together.             *)
(***************************************************************************)
EXTENDS StatusCache, LiveView

service == <<catalog, caching, live>>

ServiceTypeOK == CatalogTypeOK /\ StatusTypeOK /\ LiveTypeOK

ServiceInit == CatalogInit /\ StatusInit /\ LiveInit

ProcessEnds == ConsumerStops /\ CachingStops /\ LiveStops

Crash == Input /\ ProcessEnds /\ panics' = panics

\* Nothing recovers from the panic of a send on a closed channel.
Panic == SendsOnClosed /\ ProcessEnds /\ panics' = panics + 1 /\ inputs' = inputs

ServiceNext ==
    \/ (CatalogInputs \/ CatalogStep) /\ UNCHANGED <<caching, live>>
    \/ StatusStep /\ UNCHANGED live
    \/ (LiveInputs \/ LiveStep) /\ UNCHANGED caching
    \/ Crash \/ Panic

(***************************************************************************)
(* Fairness: the goroutines run, the warmer's ticker ticks and a TTL ends. *)
(* Nothing has to arrive, to connect or to fail.                           *)
(***************************************************************************)
ServiceSpec ==
    /\ ServiceInit /\ [][ServiceNext]_service
    /\ WF_service(Warm /\ UNCHANGED live)
    /\ WF_service(CacheExpires /\ UNCHANGED live)
    /\ \A c \in Clients : /\ WF_service(Kicked(c) /\ UNCHANGED caching)
                          /\ WF_service(Disconnect(c) /\ UNCHANGED caching)
=============================================================================
