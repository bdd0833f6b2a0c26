-------------------------------- MODULE Feeds --------------------------------
(***************************************************************************)
(* The ingestion process (cmd/marketdata, internal/marketdata): feeds, the *)
(* two registries they share, and one consumeFeed goroutine per feed that  *)
(* normalises and publishes.  Every element of Events has a Gamma poller   *)
(* of its own (PolymarketFeed, one per competition) that lists that event, *)
(* with one market whose tokens are registered together; "price" is the    *)
(* CLOB WebSocket, "rest" a scoreboard poller, "ws" the score WebSocket.   *)
(* A poll that fails is a poll that comes later.                           *)
(***************************************************************************)
EXTENDS Normalisers, FiniteSets

CONSTANTS
    Events,                   \* events, and their pollers
    StartOf, BookOf,          \* start time and markets of an event
    TitleOf,                  \* the title's words
    HomeOf, AwayOf,           \* a game's team names as the score providers say them
    ChanBuf,                  \* capacity of the channels (32 to 128 in the code)
    MaxInputs                 \* bound: time, games, messages and failures together

Feeds  == Events \cup {"price", "rest", "ws"}
Tokens == UNION {{BookOf[e][i].id : i \in DOMAIN BookOf[e]} : e \in Events}
TokensOf(e) == {BookOf[e][i].id : i \in DOMAIN BookOf[e]}
GameStages  == {"pre", "in", "over", "off"}

ASSUME FeedsAssumption ==
    /\ IsFiniteSet(Events) /\ Events \cap {"price", "rest", "ws"} = {}
    /\ ChanBuf \in Nat \ {0} /\ MaxInputs \in Nat /\ LookAhead \in Nat /\ LiveWindow \in Nat
    /\ \A e \in Events : StartOf[e] \in Nat /\ Len(BookOf[e]) = 1

VARIABLES
    now, game,     \* the clock; game[e]: the stage of the game
    matcher,       \* events in the EventMatcher
    byToken,       \* tokens in the TokenRegistry
    notify,        \* whether its channel of capacity one is full
    at,            \* at[e]: step of poller e
    board,         \* scores of the scoreboard still to be matched and sent
    conn,          \* the price connection: [at, ids, subscribed, server, broken]
    inbox,         \* inbox[f]: the messages read from WebSocket f
    raw,           \* raw[f]: the channel from feed f
    batch,         \* batch[f]: normalised messages still to be published
    last,          \* last[e]: status in the last game.state published (history)
    inputs

world     == <<now, game>>
registry  == <<matcher, byToken, notify>>
outgoing  == <<raw, batch, last>>
feedsVars == <<world, registry, at, board, conn, inbox, outgoing, inputs>>

NoConn == [at |-> "down", ids |-> {}, subscribed |-> {}, server |-> {}, broken |-> FALSE]

FeedsTypeOK ==
    /\ now \in Nat /\ game \in [Events -> GameStages]
    /\ matcher \subseteq Events /\ byToken \subseteq Tokens /\ notify \in BOOLEAN
    /\ at \in [Events -> {"idle", "due", "notify", "send"}]
    /\ conn.at \in {"start", "blocked", "down", "dialled", "up"}
    /\ conn.ids \cup conn.subscribed \cup conn.server \subseteq byToken
    /\ \A f \in Feeds : Len(raw[f]) <= ChanBuf
    /\ \A f \in {"price", "ws"} : Len(inbox[f]) <= ChanBuf
    /\ \A e \in Events : last[e] \in {"", "SCHEDULED", "LIVE", "FINISHED"}
    /\ inputs \in 0..MaxInputs

FeedsInit ==
    /\ now = 0 /\ game = [e \in Events |-> IF StartOf[e] = 0 THEN "in" ELSE "pre"]
    /\ matcher = {} /\ byToken = {} /\ notify = FALSE
    /\ at = [e \in Events |-> "due"] /\ board = <<>>
    /\ conn = [NoConn EXCEPT !.at = "start"]
    /\ inbox = [f \in {"price", "ws"} |-> <<>>]
    /\ raw = [f \in Feeds |-> <<>>] /\ batch = [f \in Events |-> <<>>]
    /\ last = [e \in Events |-> ""]
    /\ inputs = 0

Input == inputs < MaxInputs /\ inputs' = inputs + 1

TimePasses ==
    /\ Input /\ now' = now + 1
    /\ UNCHANGED <<game, registry, at, board, conn, inbox, outgoing>>

\* A game does not begin before its time; it ends or is called off.
GameMoves(e) ==
    /\ Input
    /\ StartOf[e] <= now
    /\ \E s \in (CASE game[e] = "pre" -> {"in"} [] game[e] = "in" -> {"over", "off"} [] OTHER -> {}) :
          game' = [game EXCEPT ![e] = s]
    /\ UNCHANGED <<now, registry, at, board, conn, inbox, outgoing>>

-----------------------------------------------------------------------------
(* PolymarketFeed.poll *)

\* The ticker of five minutes; the first poll does not wait for it.
Tick(e) ==
    /\ Input
    /\ at[e] = "idle"
    /\ at' = [at EXCEPT ![e] = "due"]
    /\ UNCHANGED <<world, registry, board, conn, inbox, outgoing>>

\* Mutant: Register signals before it takes the lock.
SignalFirst(e) ==
    /\ at[e] \in {"due", "notify"}
    /\ at' = [at EXCEPT ![e] = IF @ = "due" THEN "notify" ELSE "send"]
    /\ matcher' = matcher \cup {e}
    /\ IF at[e] = "due" THEN notify' = TRUE /\ byToken' = byToken
                        ELSE byToken' = byToken \cup TokensOf(e) /\ notify' = notify
    /\ UNCHANGED <<world, board, conn, inbox, outgoing, inputs>>

\* The event goes into the matcher, its tokens into the registry (nobody reads both),
\* each under its lock; then TokenRegistry.Register signals unless a signal is there.
Register(e) ==
    /\ at[e] \in {"due", "notify"}
    /\ at' = [at EXCEPT ![e] = IF @ = "due" THEN "notify" ELSE "send"]
    /\ matcher' = matcher \cup {e}
    /\ IF at[e] = "due" THEN byToken' = byToken \cup TokensOf(e) /\ notify' = notify
                        ELSE notify' = TRUE /\ byToken' = byToken
    /\ UNCHANGED <<world, board, conn, inbox, outgoing, inputs>>

\* The event goes into the channel; a full one makes the poller wait.
SendEvent(e) ==
    /\ at[e] = "send" /\ Len(raw[e]) < ChanBuf
    /\ at' = [at EXCEPT ![e] = "idle"]
    /\ raw' = [raw EXCEPT ![e] = Append(@, e)]
    /\ UNCHANGED <<world, registry, board, conn, inbox, batch, last, inputs>>

-----------------------------------------------------------------------------
(* Scores: FindByTeams, the scoreboard pollers, the score WebSocket *)

\* containsWholeWord looks at letters only: a name of two words contains the first.
ContainsWords(title, name) ==
    \E i \in 0..(Len(title) - Len(name)) : \A k \in DOMAIN name : title[i + k] = name[k]

\* The events FindByTeams may return, by the random order of the map: a title with a name
\* that begins with the team's (Kansas State for Kansas) too, and both of two games of the
\* same teams.
FindByTeams(g) == {e \in matcher : ContainsWords(TitleOf[e], HomeOf[g])
                                   /\ ContainsWords(TitleOf[e], AwayOf[g])}

Score(e, s) == [event |-> e, game |-> s]
Pair(g, s)  == [source |-> g, game |-> s]

\* Mutant: only games in progress are sent.
FetchBoardLive ==
    /\ board = <<>>
    /\ board' = SetToSeq({Pair(g, game[g]) : g \in {g \in Events : game[g] = "in"}})
    /\ UNCHANGED <<world, registry, at, conn, inbox, outgoing, inputs>>

\* The games that have started, as they are now.
FetchBoard ==
    /\ board = <<>>
    /\ board' = SetToSeq({Pair(g, game[g]) : g \in {g \in Events : game[g] # "pre"}})
    /\ UNCHANGED <<world, registry, at, conn, inbox, outgoing, inputs>>

SendScore ==
    /\ board # <<>>
    /\ board' = Tail(board)
    /\ LET g == Head(board).source IN
       IF FindByTeams(g) = {} THEN raw' = raw
       ELSE /\ Len(raw["rest"]) < ChanBuf
            /\ \E e \in FindByTeams(g) :
                  raw' = [raw EXCEPT !["rest"] = Append(@, Score(e, Head(board).game))]
    /\ UNCHANGED <<world, registry, at, conn, inbox, batch, last, inputs>>

\* The server pushes a score.  The reader drops it when its buffer is full: no step.
ScorePushed(g) ==
    /\ Input
    /\ Len(inbox["ws"]) < ChanBuf
    /\ inbox' = [inbox EXCEPT !["ws"] = Append(@, Pair(g, game[g]))]
    /\ UNCHANGED <<world, registry, at, board, conn, outgoing>>

\* handleMessage: match, and pass on unless the channel is full.
HandleScore ==
    /\ inbox["ws"] # <<>>
    /\ inbox' = [inbox EXCEPT !["ws"] = Tail(@)]
    /\ LET g == Head(inbox["ws"]).source IN
       IF FindByTeams(g) = {} \/ Len(raw["ws"]) >= ChanBuf THEN raw' = raw
       ELSE \E e \in FindByTeams(g) :
               raw' = [raw EXCEPT !["ws"] = Append(@, Score(e, Head(inbox["ws"]).game))]
    /\ UNCHANGED <<world, registry, at, board, conn, batch, last, inputs>>

\* The score connection is lost and made again; what was read and not handled is gone.
ScoresReconnect ==
    /\ Input
    /\ inbox["ws"] # <<>>
    /\ inbox' = [inbox EXCEPT !["ws"] = <<>>]
    /\ UNCHANGED <<world, registry, at, board, conn, outgoing>>

-----------------------------------------------------------------------------
(* PolymarketPriceFeed *)

\* run: wait for the first token; Changed() wakes the loop, Len() is asked again.
AwaitTokens ==
    /\ conn.at \in {"start", "blocked"}
    /\ conn.at = "blocked" => notify
    /\ notify' = IF conn.at = "blocked" THEN FALSE ELSE notify
    /\ conn' = [conn EXCEPT !.at = IF byToken = {} THEN "blocked" ELSE "down"]
    /\ UNCHANGED <<world, matcher, byToken, at, board, inbox, outgoing, inputs>>

\* connectAndStream: dial, then read the registry ...
Dial ==
    /\ conn.at = "down"
    /\ conn' = [NoConn EXCEPT !.at = "dialled", !.ids = byToken]
    /\ UNCHANGED <<world, registry, at, board, inbox, outgoing, inputs>>

\* Mutant: the subscription is counted as made and never written.
SubscribeUnsent ==
    /\ conn.at = "dialled"
    /\ conn' = IF conn.broken THEN [conn EXCEPT !.at = "down"]
               ELSE [conn EXCEPT !.at = "up", !.subscribed = conn.ids]
    /\ UNCHANGED <<world, registry, at, board, inbox, outgoing, inputs>>

\* ... and subscribe to what it held.
Subscribe ==
    /\ conn.at = "dialled"
    /\ conn' = IF conn.broken THEN [conn EXCEPT !.at = "down"]
               ELSE [conn EXCEPT !.at = "up", !.subscribed = conn.ids, !.server = conn.ids]
    /\ UNCHANGED <<world, registry, at, board, inbox, outgoing, inputs>>

\* handleRegistryChange: asks for the tokens that are new; a write that fails is logged
\* and they count as subscribed.
HandleRegistryChange ==
    /\ conn.at = "up" /\ notify
    /\ notify' = FALSE
    /\ conn' = [conn EXCEPT !.subscribed = byToken,
                            !.server = IF conn.broken THEN @ ELSE @ \cup (byToken \ conn.subscribed)]
    /\ UNCHANGED <<world, matcher, byToken, at, board, inbox, outgoing, inputs>>

ConnBreaks ==
    /\ Input
    /\ conn.at \in {"dialled", "up"} /\ ~conn.broken
    /\ conn' = [conn EXCEPT !.broken = TRUE, !.server = {}]
    /\ UNCHANGED <<world, registry, at, board, inbox, outgoing>>

\* The reader's error or a failing PING ends the stream; run dials again.
StreamEnds ==
    /\ conn.at = "up" /\ conn.broken
    /\ conn' = NoConn
    /\ inbox' = [inbox EXCEPT !["price"] = <<>>]
    /\ UNCHANGED <<world, registry, at, board, outgoing, inputs>>

PricePushed(t) ==
    /\ Input
    /\ t \in conn.server /\ Len(inbox["price"]) < ChanBuf
    /\ inbox' = [inbox EXCEPT !["price"] = Append(@, t)]
    /\ UNCHANGED <<world, registry, at, board, conn, outgoing>>

HandlePrice ==
    /\ inbox["price"] # <<>>
    /\ inbox' = [inbox EXCEPT !["price"] = Tail(@)]
    /\ raw' = IF Head(inbox["price"]) \in byToken /\ Len(raw["price"]) < ChanBuf
              THEN [raw EXCEPT !["price"] = Append(@, Head(inbox["price"]))] ELSE raw
    /\ UNCHANGED <<world, registry, at, board, conn, batch, last, inputs>>

-----------------------------------------------------------------------------
(* IngestionService.consumeFeed *)

\* CompositeNormaliser.  A price loses its value on the way, what is left is a trigger
\* (polymarket_ws_price_normaliser.go).
Normalise(f, r) ==
    CASE f \in Events         -> NormaliseGame(now, StartOf[f], BookOf[f])
      [] f = "price"          -> <<PriceUpdate([id |-> r])>>
      [] f \in {"rest", "ws"} -> <<[type |-> "game.state", event |-> r.event,
                                    status |-> IF f = "ws" THEN SocketStatus(r.game)
                                                           ELSE BoardStatus(r.game)]>>

\* What is kept of a published message: the state of a game.
Published(m) == last' = IF m.type = "game.state" THEN [last EXCEPT ![m.event] = m.status] ELSE last

\* An event of many messages is taken and published one by one.
Consume(f) ==
    /\ f \in Events /\ batch[f] = <<>> /\ raw[f] # <<>>
    /\ raw' = [raw EXCEPT ![f] = Tail(@)]
    /\ batch' = [batch EXCEPT ![f] = Normalise(f, Head(raw[f]))]
    /\ UNCHANGED <<world, registry, at, board, conn, inbox, last, inputs>>

Publish(f) ==
    /\ f \in Events /\ batch[f] # <<>>
    /\ batch' = [batch EXCEPT ![f] = Tail(@)]
    /\ Published(Head(batch[f]))
    /\ UNCHANGED <<world, registry, at, board, conn, inbox, raw, inputs>>

\* SendMessage fails: logged, and the loop goes on with the next message.
PublishFails(f) ==
    /\ Input
    /\ batch[f] # <<>>
    /\ batch' = [batch EXCEPT ![f] = Tail(@)]
    /\ UNCHANGED <<world, registry, at, board, conn, inbox, raw, last>>

\* The feeds whose events make one message.
ConsumeOne(f) ==
    /\ f \notin Events /\ raw[f] # <<>>
    /\ raw' = [raw EXCEPT ![f] = Tail(@)]
    /\ Published(Normalise(f, Head(raw[f]))[1])
    /\ UNCHANGED <<world, registry, at, board, conn, inbox, batch, inputs>>

ConsumeOneFails(f) ==
    /\ Input
    /\ f \notin Events /\ raw[f] # <<>>
    /\ raw' = [raw EXCEPT ![f] = Tail(@)]
    /\ UNCHANGED <<world, registry, at, board, conn, inbox, batch, last>>

-----------------------------------------------------------------------------
PollStep(e)   == Register(e) \/ SendEvent(e)
PriceStep     == AwaitTokens \/ Dial \/ Subscribe \/ HandleRegistryChange \/ StreamEnds
BoardStep     == FetchBoard \/ SendScore
IngestStep(f) == Consume(f) \/ Publish(f) \/ ConsumeOne(f)

FeedsNext ==
    \/ TimePasses \/ ScoresReconnect \/ ConnBreaks
    \/ \E e \in Events : GameMoves(e) \/ Tick(e) \/ ScorePushed(e) \/ PollStep(e)
    \/ \E t \in Tokens : PricePushed(t)
    \/ PriceStep \/ HandlePrice \/ BoardStep \/ HandleScore
    \/ \E f \in Feeds : IngestStep(f) \/ ConsumeOneFails(f)
    \/ \E e \in Events : PublishFails(e)

FeedsSpec == FeedsInit /\ [][FeedsNext]_feedsVars

(***************************************************************************)
(* Fairness: the pollers, the price feed and the consumer of the           *)
(* scoreboard run on, tickers tick and dialling succeeds in the end.       *)
(* Nothing has to be pushed, to move or to fail, and the other consumers   *)
(* need not keep up.                                                       *)
(***************************************************************************)
FairFeedsSpec ==
    /\ FeedsSpec
    /\ \A e \in Events : WF_feedsVars(PollStep(e))
    /\ WF_feedsVars(PriceStep) /\ WF_feedsVars(BoardStep) /\ WF_feedsVars(ConsumeOne("rest"))

-----------------------------------------------------------------------------
\* No wake-up is lost between the pollers' Register and the price feed's select: a
\* token it has not asked for has a signal waiting or about to be sent
\* (token_registry.go:31-43, polymarket_price_feed.go:47-53 and 133).
NoLostWakeup ==
    \/ notify \/ \E e \in Events : at[e] = "notify"
    \/ /\ conn.at = "blocked" => byToken = {}
       /\ conn.at = "up" => byToken \subseteq conn.subscribed

\* Every token is subscribed in the end, after lost connections and subscriptions
\* that failed and were counted as made.
SubscriptionsSettle == <>[](byToken \subseteq conn.server)

\* The score feeds repeat themselves, overtake each other and lose messages: the last
\* state published of a game that is over says so in the end.  Said of titles that name
\* the teams of one game each; others are filed at random (FindByTeams).
FinalScorePublished ==
    <>[](\A g \in Events : game[g] = "over" /\ g \in matcher => last[g] = "FINISHED")
=============================================================================
