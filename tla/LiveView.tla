------------------------------ MODULE LiveView ------------------------------
(***************************************************************************)
(* What browsers see of the catalog: handleWS and the snapshot             *)
(* (internal/catalog/http.go), the Broadcaster (broadcaster.go) and its    *)
(* two callers, the feed consumer's goroutine for scores and the consumer  *)
(* of odds-updated (odds_consumer.go).  A client is a connection; its view *)
(* is what it was told last.                                               *)
(***************************************************************************)
EXTENDS Catalog

CONSTANTS
    Clients,      \* connections, each used once
    SendBuf       \* clientSendBuf, 64 in the code

Casters == {"events", "odds"}   \* the goroutines that call Broadcast

VARIABLES
    odds,        \* odds-updated: [written, cached], a price is its offset + 1
    odds_cg,     \* the claim of catalog-odds-ws-cg
    sending,     \* the goroutines inside Broadcast
    todo,        \* todo[w]: the clients of its copy it has still to send to
    phase,       \* phase[c]: of handleWS
    clients,     \* the Broadcaster's map
    send,        \* send[c]: the channel's contents
    closes,      \* closes[c]: how often the channel was closed
    pump,        \* pump[c]: of writePump
    kicks,       \* kicks[c]: goroutines about to call RemoveClient(c)
    broken,      \* the connections that fail
    view,        \* view[c]: [score, odds], score a set of at most one
    missed,      \* clients a message passed by before they were registered (history)
    overflowed,  \* clients whose channel was full (history)
    panics       \* sends on a closed channel (history)

casting == <<sending, todo>>
live == <<odds, odds_cg, casting, phase, clients, send, closes, pump, kicks, broken, view, missed,
          overflowed, panics>>

NoView == [score |-> {}, odds |-> 0]

LiveTypeOK ==
    /\ odds.cached <= odds.written /\ odds_cg \in Claim
    /\ sending \subseteq Casters /\ \A w \in Casters : todo[w] \subseteq Clients
    /\ \A c \in Clients : /\ phase[c] \in {"new", "snapshot", "live", "gone"}
                          /\ pump[c] \in {"off", "on", "exit"}
                          /\ Len(send[c]) <= SendBuf
                          /\ kicks[c] \in Nat /\ closes[c] \in Nat
    /\ clients \cup broken \cup missed \cup overflowed \subseteq Clients

LiveInit ==
    /\ odds = [written |-> 0, cached |-> 0] /\ odds_cg = NewClaim
    /\ sending = {} /\ todo = [w \in Casters |-> {}]
    /\ phase = [c \in Clients |-> "new"]
    /\ clients = {} /\ broken = {} /\ missed = {} /\ overflowed = {}
    /\ send = [c \in Clients |-> <<>>]
    /\ closes = [c \in Clients |-> 0] /\ kicks = [c \in Clients |-> 0]
    /\ pump = [c \in Clients |-> "off"]
    /\ view = [c \in Clients |-> NoView]
    /\ panics = 0

-----------------------------------------------------------------------------
(* odds-updated and the cache its other consumer keeps, see OddsPipeline *)

OddsArrive ==
    /\ Input
    /\ odds' = [odds EXCEPT !.written = @ + 1]
    /\ UNCHANGED <<tables, consume, odds_cg, casting, phase, clients, send, closes,
                   pump, kicks, broken, view, missed, overflowed, panics>>

OddsCached ==
    /\ odds.cached < odds.written
    /\ odds' = [odds EXCEPT !.cached = @ + 1]
    /\ UNCHANGED <<catalog, odds_cg, casting, phase, clients, send, closes,
                   pump, kicks, broken, view, missed, overflowed, panics>>

-----------------------------------------------------------------------------
(* handleWS *)

\* SELECT of the events that are not over, with an open market and a selection.
Offered == /\ {"event", "market", "selection"} \subseteq rows
           /\ event.status \in {"SCHEDULED", "LIVE"} /\ status = "OPEN"

\* The prices whose broadcast has its list of clients.
Passed == odds_cg.next + IF "odds" \in sending THEN 1 ELSE 0

\* buildEventsSnapshot: the query, then MGET.  A failing MGET and a failing row leave
\* the values out and the snapshot goes on.  The prices broadcast before may still be
\* missing in Redis.  The two reads are one step: a price written between them is
\* as one written before, a score as one written after.
Snapshot(c, scoreRead, oddsRead) ==
    /\ Input
    /\ phase[c] = "new"
    /\ phase' = [phase EXCEPT ![c] = "snapshot"]
    /\ view' = [view EXCEPT ![c] =
                  [score |-> IF Offered /\ scoreRead THEN {event.score} ELSE {},
                   odds  |-> IF Offered /\ oddsRead THEN odds.cached ELSE 0]]
    /\ missed' = IF odds.cached < Passed \/ ~(Offered /\ oddsRead)
                 THEN missed \cup {c} ELSE missed
    /\ UNCHANGED <<tables, consume, odds, odds_cg, casting, clients, send, closes,
                   pump, kicks, broken, overflowed, panics>>

\* The snapshot is written; AddClient.
Register(c) ==
    /\ phase[c] = "snapshot" /\ c \notin broken
    /\ phase' = [phase EXCEPT ![c] = "live"]
    /\ clients' = clients \cup {c}
    /\ pump' = [pump EXCEPT ![c] = "on"]
    /\ UNCHANGED <<catalog, odds, odds_cg, casting, send, closes, kicks, broken, view, missed, overflowed, panics>>

\* The snapshot cannot be written: conn.Close and return.
SnapshotFails(c) ==
    /\ phase[c] = "snapshot" /\ c \in broken
    /\ phase' = [phase EXCEPT ![c] = "gone"]
    /\ UNCHANGED <<catalog, odds, odds_cg, casting, clients, send, closes, pump, kicks, broken,
                   view, missed, overflowed, panics>>

\* The browser leaves or the network does.
Breaks(c) ==
    /\ Input
    /\ phase[c] \in {"snapshot", "live"} /\ c \notin broken
    /\ broken' = broken \cup {c}
    /\ UNCHANGED <<tables, consume, odds, odds_cg, casting, phase, clients, send, closes,
                   pump, kicks, view, missed, overflowed, panics>>

\* RemoveClient: only the call that finds the client in the map closes it.
RemoveClient(c) ==
    /\ clients' = clients \ {c}
    /\ closes' = IF c \in clients THEN [closes EXCEPT ![c] = @ + 1] ELSE closes
    /\ broken' = IF c \in clients THEN broken \cup {c} ELSE broken

\* Mutant: the read loop ends with conn.Close, as the other failures of handleWS do.
DisconnectOnly(c) ==
    /\ phase[c] = "live" /\ c \in broken
    /\ phase' = [phase EXCEPT ![c] = "gone"]
    /\ UNCHANGED <<catalog, odds, odds_cg, casting, clients, send, closes, pump, kicks, broken,
                   view, missed, overflowed, panics>>

\* The read loop meets the error.
Disconnect(c) ==
    /\ phase[c] = "live" /\ c \in broken
    /\ phase' = [phase EXCEPT ![c] = "gone"]
    /\ RemoveClient(c)
    /\ UNCHANGED <<catalog, odds, odds_cg, casting, send, pump, kicks, view, missed, overflowed, panics>>

-----------------------------------------------------------------------------
(* writePump *)

Told(v, m) == IF m.type = "score" THEN [v EXCEPT !.score = {m.val}] ELSE [v EXCEPT !.odds = m.val]

\* A message of the channel is written, or the write fails and the pump ends.
PumpWrites(c) ==
    /\ pump[c] = "on" /\ send[c] # <<>>
    /\ send' = [send EXCEPT ![c] = Tail(@)]
    /\ IF c \in broken
       THEN pump' = [pump EXCEPT ![c] = "exit"] /\ view' = view
       ELSE view' = [view EXCEPT ![c] = Told(@, Head(send[c]))] /\ pump' = pump
    /\ UNCHANGED <<catalog, odds, odds_cg, casting, phase, clients, closes, kicks, broken, missed, overflowed, panics>>

\* A closed and empty channel ends the range.
PumpDrained(c) ==
    /\ pump[c] = "on" /\ send[c] = <<>> /\ closes[c] > 0
    /\ pump' = [pump EXCEPT ![c] = "exit"]
    /\ UNCHANGED <<catalog, odds, odds_cg, casting, phase, clients, send, closes, kicks, broken,
                   view, missed, overflowed, panics>>

\* The deferred RemoveClient.
PumpExits(c) ==
    /\ pump[c] = "exit"
    /\ pump' = [pump EXCEPT ![c] = "off"]
    /\ RemoveClient(c)
    /\ UNCHANGED <<catalog, odds, odds_cg, casting, phase, send, kicks, view, missed, overflowed, panics>>

\* A goroutine that Broadcast started.
Kicked(c) ==
    /\ kicks[c] > 0
    /\ kicks' = [kicks EXCEPT ![c] = @ - 1]
    /\ RemoveClient(c)
    /\ UNCHANGED <<catalog, odds, odds_cg, casting, phase, send, pump, view, missed, overflowed, panics>>

-----------------------------------------------------------------------------
(* Broadcast *)

\* The copy of the client list.  Whoever has a snapshot and no registration is passed by.
CopyClients(w) ==
    /\ w \notin sending
    /\ sending' = sending \cup {w} /\ todo' = [todo EXCEPT ![w] = clients]
    /\ missed' = missed \cup {c \in Clients : phase[c] = "snapshot"}

BroadcastScore ==
    /\ at["events"] = "broadcast"
    /\ CopyClients("events")
    /\ UNCHANGED <<catalog, odds, odds_cg, phase, clients, send, closes, pump, kicks, broken, view, overflowed, panics>>

\* oddsWSHandler: without clients nothing is sent and the message is marked.
BroadcastOdds ==
    /\ odds_cg.next < odds.written
    /\ CopyClients("odds")
    /\ UNCHANGED <<catalog, odds, odds_cg, phase, clients, send, closes, pump, kicks, broken, view, overflowed, panics>>

Payload(w) == IF w = "events" THEN [type |-> "score", val |-> Message("events").score]
                              ELSE [type |-> "odds", val |-> odds_cg.next + 1]

\* Mutant: a full channel only loses the message.
SendOrDrop(w, c) ==
    /\ IF Len(send[c]) < SendBuf
       THEN send' = [send EXCEPT ![c] = Append(@, Payload(w))] /\ UNCHANGED overflowed
       ELSE overflowed' = overflowed \cup {c} /\ send' = send
    /\ kicks' = kicks

\* The select: room in the channel, or `go b.RemoveClient'.
SendOrKick(w, c) ==
    IF Len(send[c]) < SendBuf
    THEN send' = [send EXCEPT ![c] = Append(@, Payload(w))] /\ UNCHANGED <<kicks, overflowed>>
    ELSE /\ kicks' = [kicks EXCEPT ![c] = @ + 1]
         /\ overflowed' = overflowed \cup {c}
         /\ send' = send

SendTo(w, c) ==
    /\ c \in todo[w]
    /\ closes[c] = 0
    /\ SendOrKick(w, c)
    /\ todo' = [todo EXCEPT ![w] = @ \ {c}] /\ sending' = sending
    /\ UNCHANGED <<catalog, odds, odds_cg, phase, clients, closes, pump, broken, view, missed, panics>>

\* Broadcast is done; the caller marks the message.
ScoreSent ==
    /\ "events" \in sending /\ todo["events"] = {}
    /\ sending' = sending \ {"events"} /\ todo' = todo
    /\ Marked("events")
    /\ UNCHANGED <<feed, tables, inputs, odds, odds_cg, phase, clients, send, closes,
                   pump, kicks, broken, view, missed, overflowed, panics>>

OddsSent ==
    /\ "odds" \in sending /\ todo["odds"] = {}
    /\ sending' = sending \ {"odds"} /\ todo' = todo
    /\ odds_cg' = HandledUncommitted(odds_cg)
    /\ UNCHANGED <<catalog, odds, phase, clients, send, closes,
                   pump, kicks, broken, view, missed, overflowed, panics>>

OddsAutoCommit ==
    /\ odds_cg.committed # odds_cg.next
    /\ odds_cg' = [odds_cg EXCEPT !.committed = odds_cg.next]
    /\ UNCHANGED <<catalog, odds, casting, phase, clients, send, closes,
                   pump, kicks, broken, view, missed, overflowed, panics>>

-----------------------------------------------------------------------------
\* The process ends.  Connections and goroutines go.  A group that never
\* committed starts at the newest odds (Offsets.Initial).
LiveStops ==
    /\ odds_cg' = IF odds_cg.committed = 0 THEN [odds_cg EXCEPT !.next = odds.written]
                                           ELSE Restarted(odds_cg)
    /\ sending' = {} /\ todo' = [w \in Casters |-> {}]
    /\ phase' = [c \in Clients |-> IF phase[c] = "new" THEN "new" ELSE "gone"]
    /\ clients' = {} /\ broken' = {c \in Clients : phase[c] # "new"}
    /\ send' = [c \in Clients |-> <<>>]
    /\ kicks' = [c \in Clients |-> 0] /\ pump' = [c \in Clients |-> "off"]
    /\ UNCHANGED <<odds, closes, view, missed, overflowed>>

\* Broadcast holds no lock while it sends: RemoveClient may have closed the channel
\* of a client in its copy, and a send on a closed channel panics.
SendsOnClosed == \E w \in Casters : \E c \in todo[w] : closes[c] > 0

LiveInputs ==
    \/ OddsArrive
    \/ \E c \in Clients : \/ \E s \in BOOLEAN, o \in BOOLEAN : Snapshot(c, s, o)
                          \/ Breaks(c)

LiveStep ==
    \/ OddsCached \/ OddsAutoCommit
    \/ \E c \in Clients : \/ Register(c) \/ SnapshotFails(c) \/ Disconnect(c)
                          \/ PumpWrites(c) \/ PumpDrained(c) \/ PumpExits(c) \/ Kicked(c)
    \/ BroadcastScore \/ BroadcastOdds \/ ScoreSent \/ OddsSent
    \/ \E w \in Casters, c \in Clients : SendTo(w, c)

-----------------------------------------------------------------------------
\* A client that missed a message because its channel was full does not stay and look
\* current: a removal is on its way, though its pump may make room in between and
\* later messages get through (broadcaster.go:82-89).
OverflowIsLeaving == \A c \in overflowed \cap clients : kicks[c] > 0

\* Nobody is busy with a message and the client's own queue is empty.
Quiet(c) ==
    /\ c \in clients \ (broken \cup missed \cup overflowed) /\ send[c] = <<>>
    /\ at["events"] = "idle" /\ "odds" \notin sending
    /\ odds_cg.next = odds.written /\ odds.cached = odds.written

\* A quiet client shows what the table and Redis hold, unless a message passed it by
\* or the score came before the event's row.
QuietClientIsCurrent ==
    \A c \in Clients : Quiet(c) =>
        /\ orphan \/ view[c].score \subseteq {event.score}
        /\ view[c].odds = odds.cached

\* A connection that fails or cannot keep up leaves the Broadcaster's map.
EveryoneLeaves ==
    \A c \in Clients : c \in clients /\ c \in broken \cup overflowed ~> c \notin clients

\* What Broadcast's comment promises, "sends a message to all connected clients"
\* (broadcaster.go:73-74): no send ends the process.
BroadcastSurvives == panics = 0
=============================================================================
