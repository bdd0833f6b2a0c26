---------------------------- MODULE StatusCache ----------------------------
(***************************************************************************)
(* market:status:{id} in Redis, which bet acceptance reads: written        *)
(* through by setMarketStatus (internal/catalog/service.go), refreshed by  *)
(* StatusCacheWarmer (status_cache.go), and gone after five seconds.       *)
(***************************************************************************)
EXTENDS Catalog

CONSTANT Operators   \* callers of setMarketStatus that may overlap

VARIABLES
    cache,      \* the key's value, or None
    setting,    \* setting[o]: the status operator o has still to write to Redis
    warming     \* what the warmer has read: "idle", a status, or None for no row

caching == <<cache, setting, warming>>

StatusTypeOK ==
    /\ cache \in Statuses \cup {None}
    /\ warming \in Statuses \cup {None, "idle"}
    /\ \A o \in Operators : setting[o] \in Statuses \cup {None}

StatusInit ==
    /\ cache = None /\ warming = "idle"
    /\ setting = [o \in Operators |-> None]

-----------------------------------------------------------------------------
(* setMarketStatus *)

SetMarketStatus(o, s) ==
    /\ setting[o] = None
    /\ UpdateStatus(s)
    /\ setting' = [setting EXCEPT ![o] = s]
    /\ UNCHANGED <<cache, warming>>

\* The write through to Redis.
WriteThrough(o) ==
    /\ setting[o] # None
    /\ cache' = setting[o]
    /\ setting' = [setting EXCEPT ![o] = None]
    /\ UNCHANGED <<catalog, warming>>

WriteThroughFails(o) ==
    /\ Input
    /\ setting[o] # None
    /\ setting' = [setting EXCEPT ![o] = None]
    /\ UNCHANGED <<tables, consume, cache, warming>>

-----------------------------------------------------------------------------
(* StatusCacheWarmer.warm *)

\* Mutant: a key that exists is renewed, not read again.
WarmRenews ==
    /\ warming = "idle"
    /\ warming' = IF cache = None /\ status = "CLOSED" THEN None
                  ELSE IF cache = None THEN status ELSE cache
    /\ UNCHANGED <<catalog, cache, setting>>

\* SELECT ... WHERE status IN ('OPEN', 'SUSPENDED')
WarmRead ==
    /\ warming = "idle"
    /\ warming' = IF status \in {"OPEN", "SUSPENDED"} THEN status ELSE None
    /\ UNCHANGED <<catalog, cache, setting>>

\* The pipeline of SETs; an empty one is not sent.
WarmWrite ==
    /\ warming # "idle"
    /\ cache' = IF warming = None THEN cache ELSE warming
    /\ warming' = "idle"
    /\ UNCHANGED <<catalog, setting>>

\* The query or the pipeline fails: nothing is written until the next tick.
WarmFails ==
    /\ Input
    /\ warming # "idle"
    /\ warming' = "idle"
    /\ UNCHANGED <<tables, consume, cache, setting>>

\* The TTL of five seconds.
CacheExpires ==
    /\ cache # None
    /\ cache' = None
    /\ UNCHANGED <<catalog, setting, warming>>

\* The process ends; Redis keeps the key.
CachingStops ==
    /\ setting' = [o \in Operators |-> None]
    /\ warming' = "idle"
    /\ cache' = cache

Warm == WarmRead \/ WarmWrite

StatusStep ==
    \/ \E o \in Operators : \/ \E s \in Statuses : SetMarketStatus(o, s)
                            \/ WriteThrough(o) \/ WriteThroughFails(o)
    \/ Warm \/ WarmFails \/ CacheExpires

-----------------------------------------------------------------------------
\* The cache recovers from every order of write-through, warming and expiry: in the
\* end it has the market's status or nothing, so that no bet is taken for ever on a
\* market that was closed (the warmer reads and writes apart and never touches a
\* closed market, status_cache.go:48-76).
CacheSettles == <>[](cache \in {status, None})
=============================================================================
