---------------------------- MODULE CatalogProofs ----------------------------
(***************************************************************************)
(* Proofs about CatalogService: the tables, the feed consumer's offsets    *)
(* and what the browsers see, for every set of connections, any size of    *)
(* their channels and any number of messages, failures and restarts.       *)
(***************************************************************************)
EXTENDS CatalogService, TLAPS, SequenceTheorems

-----------------------------------------------------------------------------
(***************************************************************************)
(* The inductive invariant.                                                *)
(***************************************************************************)

TableNames == {"sport", "competition", "event", "market", "selection"}

ConsumerTypes ==
    /\ feed \in [Partitions -> Seq(Messages)] /\ cg \in [Partitions -> Claim]
    /\ at \in [Partitions -> TableNames \cup {"idle", "broadcast"}]
    /\ event \in [status : {"SCHEDULED", "LIVE", "FINISHED"}, score : Nat]

\* The partitions keep their kinds of messages apart, and a goroutine that is busy is
\* busy with a message.
ConsumerOrder ==
    /\ \A p \in Partitions : \A i \in 1..Len(feed[p]) : PartitionOf(feed[p][i]) = p
    /\ \A p \in Partitions : at[p] # "idle" => cg[p].next < Len(feed[p])
    /\ at["events"] \in {"idle", "broadcast"} /\ at["markets"] # "broadcast"

\* The score that is being broadcast is the one in the table.
ScoreInHand ==
    /\ "events" \in sending => at["events"] = "broadcast"
    /\ at["events"] = "broadcast" => orphan \/ Message("events").score = event.score

\* What an operator has set is set in a row that exists.
RuleInv == ruled # None => "market" \in rows /\ status = ruled

Note == [type : {"score", "odds"}, val : Nat]

LiveTypes ==
    /\ odds \in [written : Nat, cached : Nat] /\ odds.cached <= odds.written /\ odds_cg \in Claim
    /\ sending \subseteq Casters /\ todo \in [Casters -> SUBSET Clients] /\ clients \subseteq Clients
    /\ phase \in [Clients -> {"new", "snapshot", "live", "gone"}]
    /\ send \in [Clients -> Seq(Note)] /\ kicks \in [Clients -> Nat]
    /\ view \in [Clients -> [score : SUBSET Nat, odds : Nat]]
    /\ "odds" \in sending => odds_cg.next < odds.written
    /\ \A w \in Casters : w \notin sending => todo[w] = {}

\* A connection is in the Broadcaster's map only while it is live, and nothing is sent to
\* it before.
ClientOrder ==
    \A c \in Clients :
        /\ c \in clients => phase[c] = "live"
        /\ phase[c] \in {"new", "snapshot"} =>
              c \notin overflowed /\ send[c] = <<>> /\ \A w \in Casters : c \notin todo[w]

\* What a client knows of kind t when it has read its channel s: the last of that kind in
\* it, or what it knows now.
Knows(s, now, Now, t, Vals) ==
    /\ \A i \in 1..Len(s) : /\ s[i].type = t
                            /\ \A j \in (i + 1)..Len(s) : s[j].type # t
                            => s[i].val \in Vals
    /\ (\A i \in 1..Len(s) : s[i].type # t) => now \in Now

\* The clients nothing has passed by.
Served(c) == (phase[c] = "snapshot" \/ c \in clients) /\ c \notin broken \cup missed \cup overflowed

\* The prices c has been sent, or had in its snapshot, reach at least this far.
SentTo(c) == odds_cg.next + (IF "odds" \in sending /\ c \notin todo["odds"] THEN 1 ELSE 0)

KnowsOdds(c) == Knows(send[c], view[c].odds, SentTo(c)..odds.written, "odds", SentTo(c)..odds.written)

\* The broadcast of the score in the table is still to reach c.
Pending(c) == at["events"] = "broadcast" /\ ("events" \notin sending \/ c \in todo["events"])

KnowsScore(c) == Knows(send[c], view[c].score, SUBSET {event.score}, "score", {event.score})

ViewOf(c) == Served(c) => KnowsOdds(c) /\ (orphan \/ Pending(c) \/ KnowsScore(c))

ViewInv == \A c \in Clients : ViewOf(c)

ServiceInv ==
    /\ ConsumerTypes /\ ConsumerOrder /\ ScoreInHand /\ RuleInv
    /\ LiveTypes /\ ClientOrder /\ OverflowIsLeaving /\ ViewInv

-----------------------------------------------------------------------------
(***************************************************************************)
(* The feed consumer.                                                      *)
(***************************************************************************)

ConsumerInv == ConsumerTypes /\ ConsumerOrder

LEMMA Names == "markets" \in Partitions /\ "events" \in Partitions /\ "markets" # "events"
BY DEF Partitions

\* The statements of an upsert.
LEMMA TableFacts ==
    /\ {Tables[i] : i \in DOMAIN Tables} = TableNames
    /\ \A t \in TableNames : LET i == CHOOSE j \in DOMAIN Tables : Tables[j] = t
                             IN i # Len(Tables) => Tables[i + 1] \in TableNames
<1>1. DOMAIN Tables = 1..5 /\ Len(Tables) = 5
  BY DEF Tables
<1>2. /\ Tables[1] = "sport" /\ Tables[2] = "competition" /\ Tables[3] = "event"
      /\ Tables[4] = "market" /\ Tables[5] = "selection"
  BY DEF Tables
<1>3. {Tables[i] : i \in DOMAIN Tables} = TableNames
  BY <1>1, <1>2 DEF TableNames
<1>4. ASSUME NEW t \in TableNames
      PROVE  LET i == CHOOSE j \in DOMAIN Tables : Tables[j] = t
             IN i # Len(Tables) => Tables[i + 1] \in TableNames
  <2> DEFINE i == CHOOSE j \in DOMAIN Tables : Tables[j] = t
  <2>1. \E j \in DOMAIN Tables : Tables[j] = t
    BY <1>3, <1>4
  <2>2. i \in DOMAIN Tables
    BY <2>1
  <2> HIDE DEF i
  <2>3. i \in 1..5 /\ (i # Len(Tables) => i + 1 \in 1..5)
    BY <1>1, <2>2
  <2>4. i # Len(Tables) => Tables[i + 1] \in TableNames
    BY <1>1, <1>3, <2>3
  <2> QED
    BY <2>4 DEF i
<1> QED
  BY <1>3, <1>4

\* HandledUncommitted, and what a claim's other operations are.
LEMMA ClaimMoves ==
    ASSUME NEW c \in Claim
    PROVE  /\ c.next \in Nat /\ c.committed \in Nat
           /\ LET d == HandledUncommitted(c)
              IN /\ d \in Claim /\ d.next = c.next + 1 /\ d.committed = c.committed
                 /\ d.handled = c.handled \cup {c.next} /\ d.failed = c.failed
           /\ LET d == [c EXCEPT !.committed = c.next]
              IN /\ d \in Claim /\ d.next = c.next /\ d.committed = c.next
                 /\ d.handled = c.handled /\ d.failed = c.failed
           /\ LET d == Restarted(c)
              IN /\ d \in Claim /\ d.next = c.committed /\ d.committed = c.committed
                 /\ d.handled = c.handled /\ d.failed = c.failed
<1>1. HandledUncommitted(c) = [next |-> c.next + 1, committed |-> c.committed,
                               handled |-> c.handled \cup {c.next}, failed |-> c.failed]
  BY DEF Handled, HandledUncommitted
<1>2. Restarted(c) = [next |-> c.committed, committed |-> c.committed,
                      handled |-> c.handled, failed |-> c.failed]
  BY DEF Claim, Restarted
<1>3. [c EXCEPT !.committed = c.next] = [next |-> c.next, committed |-> c.next,
                                         handled |-> c.handled, failed |-> c.failed]
  BY DEF Claim
<1> QED
  BY <1>1, <1>2, <1>3 DEF Claim

LEMMA Offsets ==
    ASSUME ConsumerInv, NEW p \in Partitions
    PROVE  /\ cg[p] \in Claim /\ cg[p].next \in Nat /\ cg[p].committed \in Nat
           /\ feed[p] \in Seq(Messages) /\ Len(feed[p]) \in Nat
<1>1. cg[p] \in Claim /\ feed[p] \in Seq(Messages)
  BY DEF ConsumerInv, ConsumerTypes
<1>2. cg[p].next \in Nat /\ cg[p].committed \in Nat
  BY <1>1 DEF Claim
<1> QED
  BY <1>1, <1>2

\* A message is done with.
LEMMA MarkedKeeps ==
    ASSUME ConsumerInv, NEW p \in Partitions, cg[p].next < Len(feed[p]), Marked(p), UNCHANGED feed,
           event' \in [status : {"SCHEDULED", "LIVE", "FINISHED"}, score : Nat]
    PROVE  ConsumerInv'
<1> DEFINE d == HandledUncommitted(cg[p])
<1>1. at' = [at EXCEPT ![p] = "idle"] /\ cg' = [cg EXCEPT ![p] = d]
  BY DEF Marked
<1>2. d \in Claim
  BY ClaimMoves DEF ConsumerInv, ConsumerTypes
<1> HIDE DEF d
<1>3. ConsumerTypes'
  BY <1>1, <1>2 DEF ConsumerInv, ConsumerTypes
<1>4. /\ at'[p] = "idle" /\ \A q \in Partitions : q # p => at'[q] = at[q] /\ cg'[q] = cg[q]
  BY <1>1 DEF ConsumerInv, ConsumerTypes
<1>5. ConsumerOrder'
  BY <1>4, Names DEF ConsumerInv, ConsumerOrder
<1> QED
  BY <1>3, <1>5 DEF ConsumerInv

\* A goroutine goes on to its next step.
LEMMA GoesOn ==
    ASSUME ConsumerInv, NEW p \in Partitions, NEW place \in TableNames \cup {"broadcast"},
           cg[p].next < Len(feed[p]), at' = [at EXCEPT ![p] = place], UNCHANGED <<feed, cg>>,
           place = "broadcast" <=> p = "events",
           event' \in [status : {"SCHEDULED", "LIVE", "FINISHED"}, score : Nat]
    PROVE  ConsumerInv'
<1>1. ConsumerTypes'
  BY DEF ConsumerInv, ConsumerTypes
<1>2. /\ at'[p] = place /\ \A q \in Partitions : q # p => at'[q] = at[q]
  BY DEF ConsumerInv, ConsumerTypes
<1>3. ConsumerOrder'
  BY <1>2, Names DEF ConsumerInv, ConsumerOrder, Partitions
<1> QED
  BY <1>1, <1>3 DEF ConsumerInv

\* The message at hand.
LEMMA MessageFacts ==
    ASSUME ConsumerInv, NEW p \in Partitions, cg[p].next < Len(feed[p])
    PROVE  /\ Message(p) \in Messages /\ PartitionOf(Message(p)) = p
           /\ Message(p).status \in {"SCHEDULED", "LIVE", "FINISHED"} /\ Message(p).score \in Nat
           /\ Message(p).type = "game.state" <=> p = "events"
<1>1. cg[p].next \in Nat /\ feed[p] \in Seq(Messages) /\ Len(feed[p]) \in Nat
  BY Offsets
<1>2. cg[p].next + 1 \in 1..Len(feed[p])
  BY <1>1
<1>3. Message(p) \in Messages /\ PartitionOf(Message(p)) = p
  BY <1>1, <1>2, ElementOfSeq DEF ConsumerInv, ConsumerOrder, Message
<1> QED
  BY <1>3, CatalogAssumption, Names DEF PartitionOf

LEMMA FeedArrivesKeeps ==
    ASSUME ConsumerInv, NEW m \in Messages, FeedArrives(m)
    PROVE  /\ ConsumerInv' /\ UNCHANGED <<tables, cg, at>>
           /\ \A p \in Partitions : /\ Len(feed[p]) \in Nat /\ Len(feed'[p]) \in {Len(feed[p]), Len(feed[p]) + 1}
                                    /\ \A i \in 1..Len(feed[p]) : feed'[p][i] = feed[p][i]
<1> DEFINE q == PartitionOf(m)
<1>1. feed' = [feed EXCEPT ![q] = Append(feed[q], m)] /\ UNCHANGED <<tables, cg, at>> /\ q \in Partitions
  BY DEF FeedArrives, PartitionOf, Partitions
<1>2. /\ feed[q] \in Seq(Messages) /\ Append(feed[q], m) \in Seq(Messages)
      /\ Len(feed[q]) \in Nat /\ Len(Append(feed[q], m)) = Len(feed[q]) + 1
      /\ \A i \in 1..Len(feed[q]) : Append(feed[q], m)[i] = feed[q][i]
      /\ Append(feed[q], m)[Len(feed[q]) + 1] = m
  BY <1>1 DEF ConsumerInv, ConsumerTypes
<1>3. feed'[q] = Append(feed[q], m) /\ \A p \in Partitions : p # q => feed'[p] = feed[p]
  BY <1>1 DEF ConsumerInv, ConsumerTypes
<1>4. \A p \in Partitions : cg[p].next \in Nat /\ Len(feed[p]) \in Nat
  BY Offsets
<1>5. ConsumerTypes'
  BY <1>1, <1>2 DEF ConsumerInv, ConsumerTypes, tables
<1>6. \A p \in Partitions : /\ Len(feed'[p]) \in {Len(feed[p]), Len(feed[p]) + 1}
                            /\ \A i \in 1..Len(feed[p]) : feed'[p][i] = feed[p][i]
  BY <1>2, <1>3, <1>4
<1>7. ASSUME NEW p \in Partitions, NEW i \in 1..Len(feed'[p]) PROVE PartitionOf(feed'[p][i]) = p
  <2>1. CASE i \in 1..Len(feed[p])
    BY <1>6, <2>1 DEF ConsumerInv, ConsumerOrder
  <2>2. CASE i \notin 1..Len(feed[p])
    <3>1. p = q /\ i = Len(feed[p]) + 1
      BY <1>2, <1>3, <1>4, <1>7, <2>2
    <3> QED
      BY <1>2, <1>3, <3>1
  <2> QED
    BY <2>1, <2>2
<1>8. \A p \in Partitions : at'[p] # "idle" => cg'[p].next < Len(feed'[p])
  BY <1>1, <1>4, <1>6 DEF ConsumerInv, ConsumerOrder
<1>9. ConsumerOrder'
  <2>1. \A p \in Partitions : \A i \in 1..Len(feed'[p]) : PartitionOf(feed[p][i])' = p
    BY <1>7 DEF PartitionOf
  <2> QED
    BY <1>1, <1>8, <2>1 DEF ConsumerInv, ConsumerOrder
<1> QED
  BY <1>1, <1>4, <1>5, <1>6, <1>9 DEF ConsumerInv

LEMMA UpsertKeeps ==
    ASSUME ConsumerInv, NEW p \in Partitions, Upsert(p)
    PROVE  ConsumerInv' /\ p = "markets" /\ event'.score = event.score
<1>1. at[p] \in TableNames /\ UNCHANGED feed
  BY TableFacts DEF Upsert
<1>2. p = "markets" /\ cg[p].next < Len(feed[p])
  BY <1>1 DEF ConsumerInv, ConsumerOrder, Partitions, TableNames
<1>3. event' \in {event, [event EXCEPT !.status = Message(p).status]}
  BY DEF Upsert
<1>4. event' \in [status : {"SCHEDULED", "LIVE", "FINISHED"}, score : Nat] /\ event'.score = event.score
  <2>1. Message(p).status \in {"SCHEDULED", "LIVE", "FINISHED"}
    BY <1>2, MessageFacts
  <2> QED
    BY <1>3, <2>1 DEF ConsumerInv, ConsumerTypes
<1> DEFINE i == CHOOSE j \in DOMAIN Tables : Tables[j] = at[p]
<1>5. CASE i = Len(Tables)
  <2>1. Marked(p)
    BY <1>5 DEF Upsert
  <2> QED
    BY <1>1, <1>2, <1>4, <2>1, MarkedKeeps
<1>6. CASE i # Len(Tables)
  <2>1. at' = [at EXCEPT ![p] = Tables[i + 1]] /\ cg' = cg
    BY <1>6 DEF Upsert
  <2>2. Tables[i + 1] \in TableNames
    BY <1>1, <1>6, TableFacts
  <2> HIDE DEF i
  <2>3. Tables[i + 1] # "broadcast"
    BY <2>2 DEF TableNames
  <2> QED
    BY <1>1, <1>2, <1>4, <2>1, <2>2, <2>3, GoesOn, Names
<1> QED
  BY <1>5, <1>6

LEMMA GameStateKeeps ==
    ASSUME ConsumerInv, NEW p \in Partitions, GameState(p)
    PROVE  /\ ConsumerInv' /\ p = "events" /\ at["events"] = "idle" /\ at'["events"] = "broadcast"
           /\ UNCHANGED <<feed, cg>>
           /\ orphan' \/ event'.score = Message("events").score
<1>1. /\ at[p] = "idle" /\ cg[p].next < Len(feed[p]) /\ Message(p).type = "game.state" /\ UNCHANGED <<feed, cg>>
      /\ at' = [at EXCEPT ![p] = "broadcast"]
      /\ event' = IF orphan' THEN event ELSE [status |-> Message(p).status, score |-> Message(p).score]
  BY DEF GameState, Receives
<1>2. /\ p = "events" /\ Message(p).status \in {"SCHEDULED", "LIVE", "FINISHED"} /\ Message(p).score \in Nat
  BY <1>1, MessageFacts
<1>3. event' \in [status : {"SCHEDULED", "LIVE", "FINISHED"}, score : Nat]
  BY <1>1, <1>2 DEF ConsumerInv, ConsumerTypes
<1>4. ConsumerInv'
  BY <1>1, <1>2, <1>3, GoesOn
<1>5. at'["events"] = "broadcast"
  BY <1>1, <1>2 DEF ConsumerInv, ConsumerTypes
<1> QED
  BY <1>1, <1>2, <1>4, <1>5

\* Steps that leave the consumer's part alone.
LEMMA ConsumerIdle ==
    ASSUME ConsumerInv, UNCHANGED <<feed, cg, at, event>>
    PROVE  ConsumerInv'
BY DEF ConsumerInv, ConsumerTypes, ConsumerOrder, PartitionOf

LEMMA AutoCommitKeeps ==
    ASSUME ConsumerInv, NEW p \in Partitions, AutoCommit(p)
    PROVE  /\ ConsumerInv' /\ UNCHANGED <<feed, at, tables>>
           /\ cg' = [cg EXCEPT ![p] = [cg[p] EXCEPT !.committed = cg[p].next]]
           /\ \A q \in Partitions : cg'[q].next = cg[q].next
<1> DEFINE d == [cg[p] EXCEPT !.committed = cg[p].next]
<1>1. cg' = [cg EXCEPT ![p] = d] /\ UNCHANGED <<feed, at, tables>>
  BY DEF AutoCommit
<1>2. d \in Claim /\ d.next = cg[p].next
  BY Offsets, ClaimMoves
<1> HIDE DEF d
<1>3. ConsumerTypes'
  BY <1>1, <1>2 DEF ConsumerInv, ConsumerTypes, tables
<1>4. \A q \in Partitions : cg'[q].next = cg[q].next
  BY <1>1, <1>2 DEF ConsumerInv, ConsumerTypes
<1>5. ConsumerOrder'
  BY <1>1, <1>4 DEF ConsumerInv, ConsumerOrder, PartitionOf
<1> QED
  BY <1>1, <1>3, <1>4, <1>5 DEF ConsumerInv, d

LEMMA StopKeeps ==
    ASSUME ConsumerInv, ConsumerStops
    PROVE  ConsumerInv'
<1>1. /\ at' = [p \in Partitions |-> "idle"] /\ cg' = [p \in Partitions |-> Restarted(cg[p])]
      /\ UNCHANGED <<feed, event>>
  BY DEF ConsumerStops, tables
<1>2. \A p \in Partitions : Restarted(cg[p]) \in Claim
  BY Offsets, ClaimMoves
<1>3. ConsumerTypes'
  BY <1>1, <1>2 DEF ConsumerInv, ConsumerTypes
<1>4. ConsumerOrder'
  BY <1>1, Names DEF ConsumerInv, ConsumerOrder, PartitionOf
<1> QED
  BY <1>3, <1>4 DEF ConsumerInv

\* A message that is marked without a change of the tables.
Drops(p) == /\ cg[p].next < Len(feed[p]) /\ Marked(p) /\ UNCHANGED <<feed, tables>>
            /\ p = "events" => at["events"] = "idle"

LEMMA DropSteps ==
    ASSUME ConsumerInv, NEW p \in Partitions, UpsertFails(p) \/ GameStateFails(p) \/ Ignore(p)
    PROVE  Drops(p)
<1>1. CASE UpsertFails(p)
  <2>1. at[p] \in TableNames
    BY <1>1, TableFacts DEF UpsertFails
  <2>2. at[p] # "idle" /\ p # "events"
    BY <2>1 DEF ConsumerInv, ConsumerOrder, TableNames
  <2> QED
    BY <1>1, <2>2 DEF ConsumerInv, ConsumerOrder, UpsertFails, Drops
<1>2. CASE GameStateFails(p) \/ Ignore(p)
  BY <1>2 DEF GameStateFails, Ignore, Receives, Drops
<1> QED
  BY <1>1, <1>2

LEMMA DropKeeps ==
    ASSUME ConsumerInv, NEW p \in Partitions, Drops(p)
    PROVE  ConsumerInv' /\ at'["events"] = at["events"]
<1>1. event' \in [status : {"SCHEDULED", "LIVE", "FINISHED"}, score : Nat]
  BY DEF ConsumerInv, ConsumerTypes, Drops, tables
<1>2. ConsumerInv'
  BY <1>1, MarkedKeeps DEF Drops
<1>3. at'["events"] = at["events"]
  BY Names DEF Drops, Marked, ConsumerInv, ConsumerTypes
<1> QED
  BY <1>2, <1>3

LEMMA BeginKeeps ==
    ASSUME ConsumerInv, NEW p \in Partitions, BeginUpsert(p)
    PROVE  ConsumerInv' /\ p = "markets" /\ UNCHANGED <<feed, cg, tables>> /\ at'["events"] = at["events"]
<1>1. /\ cg[p].next < Len(feed[p]) /\ at' = [at EXCEPT ![p] = "sport"] /\ UNCHANGED <<feed, cg, tables>>
      /\ Message(p).type = "catalog.upsert"
  BY DEF BeginUpsert, Receives
<1>2. p = "markets"
  BY <1>1, MessageFacts DEF Partitions
<1>3. ConsumerInv'
  <2>1. event' \in [status : {"SCHEDULED", "LIVE", "FINISHED"}, score : Nat]
    BY <1>1 DEF ConsumerInv, ConsumerTypes, tables
  <2>2. "sport" \in TableNames /\ "sport" # "broadcast"
    BY DEF TableNames
  <2> QED
    BY <1>1, <1>2, <2>1, <2>2, GoesOn, Names
<1>4. at'["events"] = at["events"]
  BY <1>1, <1>2, Names DEF ConsumerInv, ConsumerTypes
<1> QED
  BY <1>1, <1>2, <1>3, <1>4

-----------------------------------------------------------------------------
(***************************************************************************)
(* Who changes what.                                                       *)
(***************************************************************************)

CatalogActs == CatalogInputs \/ CatalogStep
LiveActs    == LiveInputs \/ LiveStep

LEMMA NextCases ==
    ASSUME [ServiceNext]_service
    PROVE  \/ CatalogActs /\ UNCHANGED live
           \/ StatusStep /\ UNCHANGED live
           \/ LiveActs
           \/ ProcessEnds
           \/ UNCHANGED <<tables, consume, live>>
BY DEF ServiceNext, CatalogActs, LiveActs, Crash, Panic, service, catalog

LEMMA LiveFrame == LiveActs => UNCHANGED <<tables, consume>> \/ ScoreSent
<1>1. LiveInputs => UNCHANGED <<tables, consume>>
  BY DEF LiveInputs, OddsArrive, Snapshot, Breaks
<1>2. ASSUME NEW c, Register(c) \/ SnapshotFails(c) \/ Disconnect(c)
                    \/ PumpWrites(c) \/ PumpDrained(c) \/ PumpExits(c) \/ Kicked(c)
      PROVE  UNCHANGED catalog
  BY <1>2 DEF Register, SnapshotFails, Disconnect, PumpWrites, PumpDrained, PumpExits, Kicked
<1>3. OddsCached \/ OddsAutoCommit \/ BroadcastScore \/ BroadcastOdds \/ OddsSent => UNCHANGED catalog
  BY DEF OddsCached, OddsAutoCommit, BroadcastScore, BroadcastOdds, OddsSent
<1>4. ASSUME NEW w, NEW c, SendTo(w, c) PROVE UNCHANGED catalog
  BY <1>4 DEF SendTo
<1>5. LiveStep => UNCHANGED catalog \/ ScoreSent
  BY <1>2, <1>3, <1>4, Zenon DEF LiveStep
<1> QED
  BY <1>1, <1>5 DEF LiveActs, catalog

LEMMA StatusFrame ==
    StatusStep => UNCHANGED <<rows, event, orphan, consume>>
                  /\ (UNCHANGED <<status, ruled>> \/ \E s \in Statuses : UpdateStatus(s))
<1>1. ASSUME NEW o, NEW s \in Statuses, SetMarketStatus(o, s)
      PROVE  UNCHANGED <<rows, event, orphan, consume>> /\ UpdateStatus(s)
  BY <1>1 DEF SetMarketStatus, UpdateStatus
<1>2. ASSUME NEW o, WriteThrough(o) \/ WriteThroughFails(o) PROVE UNCHANGED <<tables, consume>>
  BY <1>2 DEF WriteThrough, WriteThroughFails, catalog
<1>3. Warm \/ WarmFails \/ CacheExpires => UNCHANGED <<tables, consume>>
  BY DEF Warm, WarmRead, WarmWrite, WarmFails, CacheExpires, catalog
<1> QED
  BY <1>1, <1>2, <1>3 DEF StatusStep, tables

-----------------------------------------------------------------------------
(***************************************************************************)
(* The consumer, the operator's rulings and the offsets.                   *)
(***************************************************************************)

\* What ScoreSent does to the consumer.
LEMMA ScoreSentFacts ==
    ASSUME ConsumerInv, ScoreInHand, ScoreSent
    PROVE  /\ cg["events"].next < Len(feed["events"]) /\ Marked("events") /\ UNCHANGED <<feed, tables>>
           /\ at["events"] = "broadcast" /\ ConsumerInv' /\ at'["events"] = "idle"
           /\ at'["markets"] = at["markets"] /\ cg'["markets"] = cg["markets"]
<1>1. "events" \in sending /\ Marked("events") /\ UNCHANGED <<feed, tables>>
  BY DEF ScoreSent
<1>2. at["events"] = "broadcast" /\ cg["events"].next < Len(feed["events"])
  BY <1>1, Names DEF ScoreInHand, ConsumerInv, ConsumerOrder
<1>3. event' \in [status : {"SCHEDULED", "LIVE", "FINISHED"}, score : Nat]
  BY <1>1 DEF ConsumerInv, ConsumerTypes, tables
<1>4. ConsumerInv'
  BY <1>1, <1>2, <1>3, MarkedKeeps, Names
<1>5. at'["events"] = "idle" /\ at'["markets"] = at["markets"] /\ cg'["markets"] = cg["markets"]
  BY <1>1, Names DEF Marked, ConsumerInv, ConsumerTypes
<1> QED
  BY <1>1, <1>2, <1>4, <1>5

LEMMA CatalogActsCases ==
    ASSUME CatalogActs
    PROVE  \/ \E m \in Messages : FeedArrives(m)
           \/ \E p \in Partitions : \/ UpsertFails(p) \/ GameStateFails(p) \/ Ignore(p)
                                    \/ BeginUpsert(p) \/ Upsert(p) \/ GameState(p) \/ AutoCommit(p)
BY Zenon DEF CatalogActs, CatalogInputs, CatalogStep, ConsumerFails, ConsumerStep

LEMMA ConsumerSteps == ConsumerInv /\ ScoreInHand /\ [ServiceNext]_service => ConsumerInv'
<1> SUFFICES ASSUME ConsumerInv, ScoreInHand, [ServiceNext]_service PROVE ConsumerInv'
  OBVIOUS
<1>1. CASE CatalogActs
  BY <1>1, CatalogActsCases, FeedArrivesKeeps, DropSteps, DropKeeps, BeginKeeps, UpsertKeeps, GameStateKeeps,
     AutoCommitKeeps
<1>2. CASE UNCHANGED <<event, consume>>
  BY <1>2, ConsumerIdle DEF consume
<1>3. CASE ScoreSent
  BY <1>3, ScoreSentFacts
<1>4. CASE ProcessEnds
  BY <1>4, StopKeeps DEF ProcessEnds
<1>5. StatusStep => UNCHANGED <<event, consume>>
  BY StatusFrame
<1>6. UNCHANGED <<tables, consume>> => UNCHANGED <<event, consume>>
  BY DEF tables
<1> QED
  BY <1>1, <1>2, <1>3, <1>4, <1>5, <1>6, NextCases, LiveFrame

LEMMA RuleSteps == RuleInv /\ ConsumerInv /\ ScoreInHand /\ [ServiceNext]_service => RuleInv'
<1> SUFFICES ASSUME RuleInv, ConsumerInv, ScoreInHand, [ServiceNext]_service PROVE RuleInv'
  OBVIOUS
<1>1. CASE UNCHANGED <<rows, status, ruled>>
  BY <1>1 DEF RuleInv
<1>2. ASSUME NEW p, Upsert(p) PROVE RuleInv'
  <2>1. rows \subseteq rows' /\ ruled' = ruled /\ (status' = status \/ MarketRow)
    BY <1>2 DEF Upsert
  <2> QED
    BY <2>1 DEF RuleInv, MarketRow
<1>3. ASSUME NEW s \in Statuses, UpdateStatus(s), UNCHANGED rows PROVE RuleInv'
  BY <1>3 DEF UpdateStatus, RuleInv
<1>4. CASE StatusStep
  BY <1>1, <1>3, <1>4, StatusFrame
<1>5. UNCHANGED tables => UNCHANGED <<rows, status, ruled>>
  BY DEF tables
<1>6. CASE CatalogActs
  <2>1. ASSUME NEW m \in Messages, FeedArrives(m) PROVE RuleInv'
    BY <1>1, <1>5, <2>1 DEF FeedArrives
  <2>2. ASSUME NEW p \in Partitions, UpsertFails(p) \/ GameStateFails(p) \/ Ignore(p) \/ BeginUpsert(p) \/ AutoCommit(p)
        PROVE  RuleInv'
    BY <1>1, <1>5, <2>2 DEF UpsertFails, GameStateFails, Ignore, BeginUpsert, AutoCommit
  <2>3. ASSUME NEW p \in Partitions, GameState(p) PROVE RuleInv'
    BY <1>1, <2>3 DEF GameState
  <2> QED
    BY <1>2, <1>6, <2>1, <2>2, <2>3, CatalogActsCases
<1>7. ProcessEnds \/ ScoreSent => UNCHANGED tables
  BY DEF ProcessEnds, ConsumerStops, ScoreSent
<1> QED
  BY <1>1, <1>4, <1>5, <1>6, <1>7, NextCases, LiveFrame

\* A step of the process is a step of Delivery on the partition of the markets, or none.
LEMMA MarketsStep ==
    ConsumerInv /\ ScoreInHand /\ [ServiceNext]_service => [Markets_cg!Next]_(Markets_cg!partition)
<1> SUFFICES ASSUME ConsumerInv, ScoreInHand, [ServiceNext]_service
             PROVE  [Markets_cg!Next]_(Markets_cg!partition)
  OBVIOUS
<1> DEFINE f == feed["markets"]
           c == cg["markets"]
<1>1. c \in Claim /\ c.next \in Nat /\ Len(f) \in Nat
  BY Offsets, Names
<1>2. CASE Len(f') = Len(f) /\ c' = c
  BY <1>2 DEF Markets_cg!partition
<1>3. ASSUME NEW m \in Messages, FeedArrives(m) PROVE [Markets_cg!Next]_(Markets_cg!partition)
  <2>1. c' = c /\ Len(f') \in {Len(f), Len(f) + 1}
    BY <1>3, FeedArrivesKeeps, Names
  <2> QED
    BY <1>1, <1>2, <2>1 DEF Markets_cg!Next, Markets_cg!Produce
<1>4. ASSUME NEW p \in Partitions, cg[p].next < Len(feed[p]), Marked(p), UNCHANGED feed
      PROVE  [Markets_cg!Next]_(Markets_cg!partition)
  <2>1. CASE p = "events"
    <3>1. c' = c
      BY <1>4, <2>1, Names DEF Marked, ConsumerInv, ConsumerTypes
    <3> QED
      BY <1>2, <1>4, <3>1
  <2>2. CASE p = "markets"
    <3>1. c' = HandledUncommitted(c) /\ c.next < Len(f) /\ f' = f
      BY <1>4, <2>2 DEF Marked, ConsumerInv, ConsumerTypes
    <3>2. c'.next = c.next + 1 /\ c'.committed = c.committed /\ c'.handled = c.handled \cup {c.next} /\ c'.failed = c.failed
      BY <1>1, <3>1, ClaimMoves
    <3> QED
      BY <3>1, <3>2 DEF Markets_cg!Next, Markets_cg!Handle
  <2> QED
    BY <2>1, <2>2 DEF Partitions
<1>5. ASSUME NEW p \in Partitions, UpsertFails(p) \/ GameStateFails(p) \/ Ignore(p)
      PROVE  [Markets_cg!Next]_(Markets_cg!partition)
  BY <1>4, <1>5, DropSteps DEF Drops
<1>6. ASSUME NEW p \in Partitions, BeginUpsert(p) \/ GameState(p) PROVE [Markets_cg!Next]_(Markets_cg!partition)
  BY <1>2, <1>6 DEF BeginUpsert, GameState
<1>7. ASSUME NEW p \in Partitions, Upsert(p) PROVE [Markets_cg!Next]_(Markets_cg!partition)
  <2>1. at[p] \in TableNames /\ UNCHANGED feed /\ (Marked(p) \/ cg' = cg)
    BY <1>7, TableFacts DEF Upsert
  <2>2. at[p] # "idle"
    BY <2>1 DEF TableNames
  <2>3. cg[p].next < Len(feed[p])
    BY <2>2 DEF ConsumerInv, ConsumerOrder
  <2> QED
    BY <1>2, <1>4, <2>1, <2>3
<1>8. ASSUME NEW p \in Partitions, AutoCommit(p) PROVE [Markets_cg!Next]_(Markets_cg!partition)
  <2> DEFINE d == [cg[p] EXCEPT !.committed = cg[p].next]
  <2>1. cg' = [cg EXCEPT ![p] = d] /\ UNCHANGED feed
    BY <1>8, AutoCommitKeeps
  <2>2. CASE p = "events"
    <3>1. c' = c
      BY <2>1, <2>2, Names DEF ConsumerInv, ConsumerTypes
    <3> QED
      BY <1>2, <2>1, <3>1
  <2>3. CASE p = "markets"
    <3>1. d.next = c.next /\ d.committed = c.next /\ d.handled = c.handled /\ d.failed = c.failed
      BY <1>1, <2>3, ClaimMoves
    <3> HIDE DEF d
    <3>2. c' = d
      BY <2>1, <2>3 DEF ConsumerInv, ConsumerTypes
    <3> QED
      BY <2>1, <3>1, <3>2 DEF Markets_cg!Next, Markets_cg!Commit
  <2> QED
    BY <2>2, <2>3 DEF Partitions
<1>9. CASE CatalogActs
  BY <1>3, <1>5, <1>6, <1>7, <1>8, <1>9, CatalogActsCases
<1>10. CASE UNCHANGED consume
  BY <1>2, <1>10 DEF consume
<1>11. CASE ScoreSent
  BY <1>4, <1>11, ScoreSentFacts, Names
<1>12. CASE ProcessEnds
  <2>1. c' = Restarted(c) /\ f' = f
    BY <1>12, Names DEF ProcessEnds, ConsumerStops
  <2>2. c'.next = c.committed /\ c'.committed = c.committed /\ c'.handled = c.handled /\ c'.failed = c.failed
    BY <1>1, <2>1, ClaimMoves
  <2> QED
    BY <2>1, <2>2 DEF Markets_cg!Next, Markets_cg!Restart
<1> QED
  BY <1>9, <1>10, <1>11, <1>12, NextCases, LiveFrame, StatusFrame

-----------------------------------------------------------------------------
(***************************************************************************)
(* The score at hand.                                                      *)
(***************************************************************************)

\* The step leaves the score, and the message that is being broadcast, alone.
ScoreKept ==
    /\ at'["events"] = at["events"] /\ orphan' = orphan /\ event'.score = event.score
    /\ at["events"] = "broadcast" => Message("events")' = Message("events")

\* The step writes a score; its broadcast is to come.
ScoreWritten ==
    /\ at["events"] = "idle" /\ at'["events"] = "broadcast"
    /\ orphan' \/ Message("events")'.score = event'.score

LEMMA UpsertScore ==
    ASSUME ConsumerInv, NEW p \in Partitions, Upsert(p)
    PROVE  ScoreKept
<1>1. at[p] \in TableNames /\ UNCHANGED <<feed, orphan>>
  BY TableFacts DEF Upsert
<1>2. p # "events"
  BY <1>1 DEF ConsumerInv, ConsumerOrder, TableNames
<1>3. \/ at' = [at EXCEPT ![p] = "idle"] /\ cg' = [cg EXCEPT ![p] = HandledUncommitted(cg[p])]
      \/ \E s : at' = [at EXCEPT ![p] = s] /\ cg' = cg
  BY DEF Upsert, Marked
<1>4. at'["events"] = at["events"] /\ cg'["events"] = cg["events"]
  BY <1>2, <1>3, Names DEF ConsumerInv, ConsumerTypes
<1>5. event'.score = event.score
  <2>1. event' = event \/ event' = [event EXCEPT !.status = Message(p).status]
    BY DEF Upsert
  <2> QED
    BY <2>1 DEF ConsumerInv, ConsumerTypes
<1> QED
  BY <1>1, <1>4, <1>5 DEF ScoreKept, Message

LEMMA CatalogScore ==
    ASSUME ConsumerInv, CatalogActs
    PROVE  ScoreKept \/ ScoreWritten
<1>1. ASSUME NEW m \in Messages, FeedArrives(m) PROVE ScoreKept
  <2>1. /\ UNCHANGED <<tables, cg, at>> /\ Len(feed["events"]) \in Nat
        /\ \A i \in 1..Len(feed["events"]) : feed'["events"][i] = feed["events"][i]
    BY <1>1, FeedArrivesKeeps, Names
  <2>2. at["events"] = "broadcast" => cg["events"].next \in Nat /\ cg["events"].next < Len(feed["events"])
    BY Names, Offsets DEF ConsumerInv, ConsumerOrder
  <2>3. at["events"] = "broadcast" => cg["events"].next + 1 \in 1..Len(feed["events"])
    BY <2>1, <2>2
  <2> QED
    BY <2>1, <2>3 DEF ScoreKept, tables, Message
<1>2. ASSUME NEW p \in Partitions, Drops(p) PROVE ScoreKept
  <2>1. at'["events"] = at["events"] /\ UNCHANGED <<feed, tables>>
    BY <1>2, DropKeeps DEF Drops
  <2>2. at["events"] = "broadcast" => cg'["events"] = cg["events"]
    BY <1>2, Names DEF Drops, Marked, ConsumerInv, ConsumerTypes
  <2> QED
    BY <2>1, <2>2 DEF ScoreKept, tables, Message
<1>3. ASSUME NEW p \in Partitions, BeginUpsert(p) PROVE ScoreKept
  BY <1>3, BeginKeeps DEF ScoreKept, tables, Message
<1>4. ASSUME NEW p \in Partitions, AutoCommit(p) PROVE ScoreKept
  BY <1>4, AutoCommitKeeps, Names DEF ScoreKept, tables, Message
<1>5. ASSUME NEW p \in Partitions, GameState(p) PROVE ScoreWritten
  BY <1>5, GameStateKeeps DEF ScoreWritten, Message
<1> QED
  BY <1>1, <1>2, <1>3, <1>4, <1>5, UpsertScore, DropSteps, CatalogActsCases

\* What a step of the process is to the live view.
LEMMA Steps ==
    ASSUME ConsumerInv, [ServiceNext]_service
    PROVE  \/ (ScoreKept \/ ScoreWritten) /\ UNCHANGED live
           \/ LiveActs /\ ScoreKept
           \/ LiveActs /\ ScoreSent
           \/ ProcessEnds
<1>1. UNCHANGED <<event, orphan, consume>> => ScoreKept
  BY DEF ScoreKept, consume, Message
<1>2. UNCHANGED <<tables, consume>> => ScoreKept
  BY <1>1 DEF tables
<1>3. StatusStep => ScoreKept
  BY <1>1, StatusFrame
<1> QED
  BY <1>2, <1>3, CatalogScore, NextCases, LiveFrame

\* The steps of the live view that change what the casters are at.
LEMMA CastSteps ==
    LiveActs => \/ UNCHANGED casting
                \/ BroadcastScore \/ BroadcastOdds \/ ScoreSent \/ OddsSent
                \/ \E w \in Casters, c \in Clients : SendTo(w, c)
<1>1. LiveInputs => UNCHANGED casting
  BY DEF LiveInputs, OddsArrive, Snapshot, Breaks
<1>2. ASSUME NEW c, Register(c) \/ SnapshotFails(c) \/ Disconnect(c)
                    \/ PumpWrites(c) \/ PumpDrained(c) \/ PumpExits(c) \/ Kicked(c)
      PROVE  UNCHANGED casting
  BY <1>2 DEF Register, SnapshotFails, Disconnect, PumpWrites, PumpDrained, PumpExits, Kicked
<1>3. OddsCached \/ OddsAutoCommit => UNCHANGED casting
  BY DEF OddsCached, OddsAutoCommit
<1> QED
  BY <1>1, <1>2, <1>3, Zenon DEF LiveStep, LiveActs

LEMMA HandSteps == ConsumerInv /\ ScoreInHand /\ [ServiceNext]_service => ScoreInHand'
<1> SUFFICES ASSUME ConsumerInv, ScoreInHand, [ServiceNext]_service PROVE ScoreInHand'
  OBVIOUS
<1>1. CASE ScoreKept /\ UNCHANGED casting
  BY <1>1 DEF ScoreInHand, ScoreKept, casting
<1>2. CASE ScoreWritten /\ UNCHANGED casting
  BY <1>2 DEF ScoreInHand, ScoreWritten, casting
<1>3. CASE ScoreKept /\ BroadcastScore
  BY <1>3 DEF ScoreInHand, ScoreKept, BroadcastScore, CopyClients
<1>4. CASE ScoreKept /\ BroadcastOdds
  <2>1. "events" \in sending' => "events" \in sending
    BY <1>4 DEF BroadcastOdds, CopyClients
  <2> QED
    BY <1>4, <2>1 DEF ScoreInHand, ScoreKept
<1>5. CASE ScoreKept /\ OddsSent
  BY <1>5 DEF ScoreInHand, ScoreKept, OddsSent
<1>6. ASSUME ScoreKept, NEW w, NEW c, SendTo(w, c) PROVE ScoreInHand'
  BY <1>6 DEF ScoreInHand, ScoreKept, SendTo
<1>7. CASE ScoreSent
  <2>1. at'["events"] = "idle" /\ "events" \notin sending'
    BY <1>7, ScoreSentFacts DEF ScoreSent
  <2> QED
    BY <2>1 DEF ScoreInHand
<1>8. CASE ProcessEnds
  <2>1. at'["events"] = "idle" /\ "events" \notin sending'
    BY <1>8, Names DEF ProcessEnds, ConsumerStops, LiveStops
  <2> QED
    BY <2>1 DEF ScoreInHand
<1>9. UNCHANGED live => UNCHANGED casting
  BY DEF live
<1> QED
  BY <1>1, <1>2, <1>3, <1>4, <1>5, <1>6, <1>7, <1>8, <1>9, Steps, CastSteps

-----------------------------------------------------------------------------
(***************************************************************************)
(* The connections.                                                        *)
(***************************************************************************)

LiveInv == LiveTypes /\ ClientOrder /\ OverflowIsLeaving

LEMMA CasterNames == "events" \in Casters /\ "odds" \in Casters /\ \A w \in Casters : w = "events" \/ w = "odds"
BY DEF Casters

LEMMA LiveIdle == LiveInv /\ UNCHANGED live => LiveInv'
BY DEF LiveInv, LiveTypes, ClientOrder, OverflowIsLeaving, live, casting

LEMMA SnapshotKeeps ==
    ASSUME ConsumerInv, LiveInv, NEW c \in Clients, NEW s, NEW o, Snapshot(c, s, o)
    PROVE  LiveInv'
<1> USE DEF Snapshot, casting
<1>1. view' \in [Clients -> [score : SUBSET Nat, odds : Nat]]
  <2> DEFINE v == [score |-> IF Offered /\ s THEN {event.score} ELSE {},
                   odds  |-> IF Offered /\ o THEN odds.cached ELSE 0]
  <2>1. v \in [score : SUBSET Nat, odds : Nat]
    BY DEF LiveInv, LiveTypes, ConsumerInv, ConsumerTypes
  <2>2. view' = [view EXCEPT ![c] = v]
    OBVIOUS
  <2> HIDE DEF v
  <2> QED
    BY <2>1, <2>2 DEF LiveInv, LiveTypes
<1>2. LiveTypes'
  BY <1>1 DEF LiveInv, LiveTypes
<1>3. ClientOrder'
  BY DEF LiveInv, LiveTypes, ClientOrder
<1>4. OverflowIsLeaving'
  BY DEF LiveInv, OverflowIsLeaving
<1> QED
  BY <1>2, <1>3, <1>4 DEF LiveInv

LEMMA RegisterKeeps ==
    ASSUME LiveInv, NEW c \in Clients, Register(c) \/ SnapshotFails(c)
    PROVE  LiveInv'
<1> USE DEF Register, SnapshotFails, casting
<1>1. LiveTypes'
  BY DEF LiveInv, LiveTypes
<1>2. ClientOrder'
  BY DEF LiveInv, LiveTypes, ClientOrder
<1>3. OverflowIsLeaving'
  BY DEF LiveInv, ClientOrder, OverflowIsLeaving
<1> QED
  BY <1>1, <1>2, <1>3 DEF LiveInv

\* The steps that change neither the connections nor what is sent to them.
LEMMA LooseKeeps ==
    ASSUME LiveInv, \E c \in Clients : Breaks(c) \/ PumpDrained(c)
    PROVE  LiveInv'
BY DEF Breaks, PumpDrained, casting, LiveInv, LiveTypes, ClientOrder, OverflowIsLeaving

LEMMA RemovalKeeps ==
    ASSUME LiveInv, NEW c \in Clients, Disconnect(c) \/ PumpExits(c) \/ Kicked(c)
    PROVE  LiveInv'
<1>1. /\ clients' = clients \ {c} /\ UNCHANGED <<odds, odds_cg, casting, send, view, missed, overflowed>>
      /\ phase' = phase \/ phase' = [phase EXCEPT ![c] = "gone"]
      /\ kicks' = kicks \/ (kicks[c] > 0 /\ kicks' = [kicks EXCEPT ![c] = @ - 1])
  BY DEF Disconnect, PumpExits, Kicked, RemoveClient
<1>2. LiveTypes'
  <2>1. phase' \in [Clients -> {"new", "snapshot", "live", "gone"}]
    BY <1>1 DEF LiveInv, LiveTypes
  <2>2. kicks' \in [Clients -> Nat]
    BY <1>1 DEF LiveInv, LiveTypes
  <2> QED
    BY <1>1, <2>1, <2>2 DEF LiveInv, LiveTypes, casting
<1>3. ClientOrder'
  BY <1>1 DEF LiveInv, LiveTypes, ClientOrder, casting
<1>4. OverflowIsLeaving'
  BY <1>1 DEF LiveInv, LiveTypes, OverflowIsLeaving
<1> QED
  BY <1>2, <1>3, <1>4 DEF LiveInv

LEMMA ToldFacts ==
    ASSUME NEW v \in [score : SUBSET Nat, odds : Nat], NEW m \in Note
    PROVE  /\ Told(v, m) \in [score : SUBSET Nat, odds : Nat]
           /\ m.type = "score" => Told(v, m).score = {m.val} /\ Told(v, m).odds = v.odds
           /\ m.type = "odds" => Told(v, m).score = v.score /\ Told(v, m).odds = m.val
BY DEF Note, Told

LEMMA PumpKeeps ==
    ASSUME LiveInv, NEW c \in Clients, PumpWrites(c)
    PROVE  LiveInv'
<1>1. send[c] \in Seq(Note) /\ send[c] # <<>> /\ send' = [send EXCEPT ![c] = Tail(send[c])]
  BY DEF LiveInv, LiveTypes, PumpWrites
<1>2. Tail(send[c]) \in Seq(Note) /\ Head(send[c]) \in Note
  BY <1>1
<1>3. view' = view \/ view' = [view EXCEPT ![c] = Told(view[c], Head(send[c]))]
  BY DEF PumpWrites
<1>4. Told(view[c], Head(send[c])) \in [score : SUBSET Nat, odds : Nat]
  BY <1>2, ToldFacts DEF LiveInv, LiveTypes
<1>5. view' \in [Clients -> [score : SUBSET Nat, odds : Nat]]
  BY <1>3, <1>4 DEF LiveInv, LiveTypes
<1>6. UNCHANGED <<odds, odds_cg, casting, phase, clients, kicks, overflowed>>
  BY DEF PumpWrites
<1>7. LiveTypes'
  BY <1>1, <1>2, <1>5, <1>6 DEF LiveInv, LiveTypes, casting
<1>8. ClientOrder'
  <2>1. \A d \in Clients : d # c => send'[d] = send[d]
    BY <1>1 DEF LiveInv, LiveTypes
  <2>2. phase[c] \notin {"new", "snapshot"}
    BY <1>1 DEF LiveInv, ClientOrder
  <2> QED
    BY <1>6, <2>1, <2>2 DEF LiveInv, ClientOrder, casting
<1>9. OverflowIsLeaving'
  BY <1>6 DEF LiveInv, OverflowIsLeaving
<1> QED
  BY <1>7, <1>8, <1>9 DEF LiveInv

LEMMA CopyKeeps ==
    ASSUME LiveInv, BroadcastScore \/ BroadcastOdds
    PROVE  LiveInv'
<1>1. PICK w \in Casters : /\ w \notin sending /\ sending' = sending \cup {w} /\ todo' = [todo EXCEPT ![w] = clients]
                           /\ w = "odds" => odds_cg.next < odds.written
  BY CasterNames DEF BroadcastScore, BroadcastOdds, CopyClients
<1>2. UNCHANGED <<odds, odds_cg, phase, clients, send, kicks, view, overflowed>>
  BY DEF BroadcastScore, BroadcastOdds
<1>3. LiveTypes'
  BY <1>1, <1>2 DEF LiveInv, LiveTypes
<1>4. ClientOrder'
  BY <1>1, <1>2 DEF LiveInv, LiveTypes, ClientOrder
<1>5. OverflowIsLeaving'
  BY <1>2 DEF LiveInv, OverflowIsLeaving
<1> QED
  BY <1>3, <1>4, <1>5 DEF LiveInv

\* What is sent.
LEMMA PayloadFacts ==
    ASSUME ConsumerInv, ScoreInHand, LiveInv, NEW w \in Casters, w \in sending
    PROVE  /\ Payload(w) \in Note
           /\ w = "events" => /\ Payload(w).type = "score"
                              /\ orphan \/ Payload(w).val = event.score
           /\ w = "odds" => Payload(w).type = "odds" /\ Payload(w).val = odds_cg.next + 1
<1>1. CASE w = "events"
  <2>1. at["events"] = "broadcast" /\ (orphan \/ Message("events").score = event.score)
    BY <1>1 DEF ScoreInHand
  <2>2. Message("events").score \in Nat
    BY <2>1, MessageFacts, Names DEF ConsumerInv, ConsumerOrder
  <2>3. Payload(w) = [type |-> "score", val |-> Message("events").score]
    BY <1>1 DEF Payload
  <2> QED
    BY <1>1, <2>1, <2>2, <2>3 DEF Note
<1>2. CASE w = "odds"
  <2>1. Payload(w) = [type |-> "odds", val |-> odds_cg.next + 1]
    BY <1>2 DEF Payload
  <2>2. odds_cg.next \in Nat
    BY DEF LiveInv, LiveTypes, Claim
  <2> QED
    BY <1>2, <2>1, <2>2 DEF Note
<1> QED
  BY <1>1, <1>2, CasterNames

LEMMA SendKeeps ==
    ASSUME ConsumerInv, ScoreInHand, LiveInv, NEW w \in Casters, NEW c \in Clients, SendTo(w, c)
    PROVE  LiveInv' /\ w \in sending
<1>1. c \in todo[w] /\ todo' = [todo EXCEPT ![w] = todo[w] \ {c}] /\ sending' = sending
  BY DEF SendTo
<1>2. w \in sending
  BY <1>1 DEF LiveInv, LiveTypes
<1>3. Payload(w) \in Note
  BY <1>2, PayloadFacts
<1>4. \/ send' = [send EXCEPT ![c] = Append(send[c], Payload(w))] /\ UNCHANGED <<kicks, overflowed>>
      \/ kicks' = [kicks EXCEPT ![c] = kicks[c] + 1] /\ overflowed' = overflowed \cup {c} /\ send' = send
  BY DEF SendTo, SendOrKick
<1>5. UNCHANGED <<odds, odds_cg, phase, clients, view>>
  BY DEF SendTo
<1>6. send' \in [Clients -> Seq(Note)]
  <2> DEFINE s == Append(send[c], Payload(w))
  <2>1. s \in Seq(Note)
    BY <1>3, AppendProperties DEF LiveInv, LiveTypes
  <2>2. send' = send \/ send' = [send EXCEPT ![c] = s]
    BY <1>4
  <2> HIDE DEF s
  <2> QED
    BY <2>1, <2>2 DEF LiveInv, LiveTypes
<1>7. LiveTypes'
  <2>1. kicks' \in [Clients -> Nat]
    <3>1. kicks' = kicks \/ kicks' = [kicks EXCEPT ![c] = kicks[c] + 1]
      BY <1>4
    <3>2. kicks \in [Clients -> Nat]
      BY DEF LiveInv, LiveTypes
    <3> QED
      BY <3>1, <3>2
  <2>2. todo' \in [Casters -> SUBSET Clients] /\ \A v \in Casters : v \notin sending' => todo'[v] = {}
    BY <1>1, <1>2 DEF LiveInv, LiveTypes
  <2> QED
    BY <1>1, <1>5, <1>6, <2>1, <2>2 DEF LiveInv, LiveTypes
<1>8. ClientOrder'
  <2>1. phase[c] \notin {"new", "snapshot"}
    BY <1>1 DEF LiveInv, ClientOrder
  <2>2. \A d \in Clients : d # c => send'[d] = send[d] /\ (d \in overflowed' => d \in overflowed)
    BY <1>4 DEF LiveInv, LiveTypes
  <2>3. \A v \in Casters : todo'[v] \subseteq todo[v]
    BY <1>1 DEF LiveInv, LiveTypes
  <2> QED
    BY <1>5, <2>1, <2>2, <2>3 DEF LiveInv, ClientOrder
<1>9. OverflowIsLeaving'
  <2>1. \/ UNCHANGED <<kicks, overflowed>>
        \/ kicks' = [kicks EXCEPT ![c] = kicks[c] + 1] /\ overflowed' = overflowed \cup {c}
    BY <1>4
  <2> QED
    BY <1>5, <2>1 DEF LiveInv, LiveTypes, OverflowIsLeaving
<1> QED
  BY <1>2, <1>7, <1>8, <1>9 DEF LiveInv

LEMMA SentKeeps ==
    ASSUME LiveInv, ScoreSent \/ OddsSent
    PROVE  LiveInv'
<1>1. PICK w \in Casters : /\ w \in sending /\ todo[w] = {} /\ sending' = sending \ {w} /\ todo' = todo
                           /\ \/ UNCHANGED odds_cg
                              \/ w = "odds" /\ odds_cg' = HandledUncommitted(odds_cg)
  BY CasterNames DEF ScoreSent, OddsSent
<1>2. UNCHANGED <<odds, phase, clients, send, kicks, view, overflowed>>
  BY DEF ScoreSent, OddsSent
<1>3. odds_cg' \in Claim
  <2>1. odds_cg \in Claim
    BY DEF LiveInv, LiveTypes
  <2>2. HandledUncommitted(odds_cg) \in Claim
    BY <2>1, ClaimMoves
  <2> QED
    BY <1>1, <2>1, <2>2
<1>4. LiveTypes'
  BY <1>1, <1>2, <1>3 DEF LiveInv, LiveTypes
<1>5. ClientOrder'
  BY <1>1, <1>2 DEF LiveInv, ClientOrder
<1>6. OverflowIsLeaving'
  BY <1>2 DEF LiveInv, OverflowIsLeaving
<1> QED
  BY <1>4, <1>5, <1>6 DEF LiveInv

LEMMA OddsKeeps ==
    ASSUME LiveInv, OddsArrive \/ OddsCached \/ OddsAutoCommit
    PROVE  LiveInv' /\ odds_cg'.next = odds_cg.next /\ odds'.written >= odds.written /\ odds'.written \in Nat
<1>1. UNCHANGED <<casting, phase, clients, send, kicks, view, overflowed>>
  BY DEF OddsArrive, OddsCached, OddsAutoCommit
<1>2. odds_cg' \in Claim /\ odds_cg'.next = odds_cg.next
  BY ClaimMoves DEF OddsArrive, OddsCached, OddsAutoCommit, LiveInv, LiveTypes
<1>3. odds' \in [written : Nat, cached : Nat] /\ odds'.cached <= odds'.written /\ odds'.written >= odds.written
  BY DEF OddsArrive, OddsCached, OddsAutoCommit, LiveInv, LiveTypes
<1>4. odds_cg.next \in Nat
  BY DEF LiveInv, LiveTypes, Claim
<1>5. LiveTypes'
  BY <1>1, <1>2, <1>3, <1>4 DEF LiveInv, LiveTypes, casting
<1>6. ClientOrder' /\ OverflowIsLeaving'
  BY <1>1 DEF LiveInv, ClientOrder, OverflowIsLeaving, casting
<1> QED
  BY <1>2, <1>3, <1>5, <1>6 DEF LiveInv

LEMMA LiveStopKeeps ==
    ASSUME LiveInv, LiveStops
    PROVE  LiveInv'
<1>1. /\ sending' = {} /\ todo' = [w \in Casters |-> {}]
      /\ phase' = [c \in Clients |-> IF phase[c] = "new" THEN "new" ELSE "gone"]
      /\ clients' = {} /\ send' = [c \in Clients |-> <<>>] /\ kicks' = [c \in Clients |-> 0]
      /\ UNCHANGED <<odds, view, overflowed>>
  BY DEF LiveStops
<1>2. odds_cg' \in Claim
  <2>1. Restarted(odds_cg) \in Claim
    BY ClaimMoves DEF LiveInv, LiveTypes
  <2>2. [odds_cg EXCEPT !.next = odds.written] \in Claim
    BY DEF LiveInv, LiveTypes, Claim
  <2> QED
    BY <2>1, <2>2 DEF LiveStops
<1>3. LiveTypes'
  BY <1>1, <1>2 DEF LiveInv, LiveTypes
<1>4. ClientOrder' /\ OverflowIsLeaving'
  BY <1>1 DEF LiveInv, ClientOrder, OverflowIsLeaving
<1> QED
  BY <1>3, <1>4 DEF LiveInv

LEMMA LiveActsCases ==
    ASSUME LiveActs
    PROVE  \/ OddsArrive \/ OddsCached \/ OddsAutoCommit
           \/ \E c \in Clients : \/ \E s \in BOOLEAN, o \in BOOLEAN : Snapshot(c, s, o)
                                 \/ Breaks(c) \/ Register(c) \/ SnapshotFails(c) \/ Disconnect(c)
                                 \/ PumpWrites(c) \/ PumpDrained(c) \/ PumpExits(c) \/ Kicked(c)
           \/ BroadcastScore \/ BroadcastOdds \/ ScoreSent \/ OddsSent
           \/ \E w \in Casters, c \in Clients : SendTo(w, c)
BY Zenon DEF LiveActs, LiveInputs, LiveStep

LEMMA LiveSteps == ConsumerInv /\ ScoreInHand /\ LiveInv /\ [ServiceNext]_service => LiveInv'
<1> SUFFICES ASSUME ConsumerInv, ScoreInHand, LiveInv, [ServiceNext]_service PROVE LiveInv'
  OBVIOUS
<1>1. CASE LiveActs
  <2>1. ASSUME NEW c \in Clients, NEW s \in BOOLEAN, NEW o \in BOOLEAN, Snapshot(c, s, o) PROVE LiveInv'
    BY <2>1, SnapshotKeeps
  <2>2. ASSUME NEW c \in Clients, Breaks(c) \/ PumpDrained(c) PROVE LiveInv'
    BY <2>2, LooseKeeps
  <2>3. ASSUME NEW c \in Clients, Register(c) \/ SnapshotFails(c) PROVE LiveInv'
    BY <2>3, RegisterKeeps
  <2>4. ASSUME NEW c \in Clients, Disconnect(c) \/ PumpExits(c) \/ Kicked(c) PROVE LiveInv'
    BY <2>4, RemovalKeeps
  <2>5. ASSUME NEW c \in Clients, PumpWrites(c) PROVE LiveInv'
    BY <2>5, PumpKeeps
  <2>6. ASSUME NEW w \in Casters, NEW c \in Clients, SendTo(w, c) PROVE LiveInv'
    BY <2>6, SendKeeps
  <2>7. CASE OddsArrive \/ OddsCached \/ OddsAutoCommit
    BY <2>7, OddsKeeps
  <2>8. CASE BroadcastScore \/ BroadcastOdds \/ ScoreSent \/ OddsSent
    BY <2>8, CopyKeeps, SentKeeps
  <2> QED
    BY <1>1, <2>1, <2>2, <2>3, <2>4, <2>5, <2>6, <2>7, <2>8, LiveActsCases, Zenon
<1>2. CASE ProcessEnds
  BY <1>2, LiveStopKeeps DEF ProcessEnds
<1> QED
  BY <1>1, <1>2, Steps, LiveIdle

-----------------------------------------------------------------------------
(***************************************************************************)
(* What a client knows.                                                    *)
(***************************************************************************)

LEMMA KnowsMore ==
    ASSUME NEW s, NEW now, NEW Now, NEW t, NEW Vals, Knows(s, now, Now, t, Vals),
           NEW Now2, NEW Vals2, Now \subseteq Now2, Vals \subseteq Vals2
    PROVE  Knows(s, now, Now2, t, Vals2)
BY DEF Knows

LEMMA KnowsSent ==
    ASSUME NEW s \in Seq(Note), NEW m \in Note, NEW now, NEW Now, NEW Vals, m.val \in Vals
    PROVE  Knows(Append(s, m), now, Now, m.type, Vals)
<1> DEFINE r == Append(s, m)
           n == Len(s) + 1
<1>1. Len(s) \in Nat /\ Len(r) = n /\ r[n] = m
  BY AppendProperties
<1> HIDE DEF r
<1>2. n \in 1..Len(r)
  BY <1>1
<1>3. ASSUME NEW i \in 1..Len(r), \A j \in (i + 1)..Len(r) : r[j].type # m.type PROVE i = n
  <2>1. n \notin (i + 1)..Len(r)
    BY <1>1, <1>3
  <2> QED
    BY <1>1, <2>1
<1>4. \A i \in 1..Len(r) : (\A j \in (i + 1)..Len(r) : r[j].type # m.type) => r[i].val \in Vals
  BY <1>1, <1>3
<1> QED
  BY <1>1, <1>2, <1>4 DEF Knows, r

LEMMA KnowsOtherSent ==
    ASSUME NEW s \in Seq(Note), NEW m \in Note, NEW now, NEW Now, NEW t, NEW Vals,
           m.type # t, Knows(s, now, Now, t, Vals)
    PROVE  Knows(Append(s, m), now, Now, t, Vals)
<1> DEFINE r == Append(s, m)
           n == Len(s) + 1
<1>1. Len(s) \in Nat /\ Len(r) = n /\ r[n] = m /\ \A i \in 1..Len(s) : r[i] = s[i]
  BY AppendProperties
<1> HIDE DEF r
<1>2. ASSUME NEW i \in 1..Len(r), r[i].type = t, \A j \in (i + 1)..Len(r) : r[j].type # t PROVE r[i].val \in Vals
  <2>1. i \in 1..Len(s)
    BY <1>1, <1>2
  <2>2. \A j \in (i + 1)..Len(s) : j \in (i + 1)..Len(r) /\ r[j] = s[j]
    BY <1>1, <2>1
  <2>3. s[i].type = t /\ \A j \in (i + 1)..Len(s) : s[j].type # t
    BY <1>1, <1>2, <2>1, <2>2
  <2> QED
    BY <1>1, <2>1, <2>3 DEF Knows
<1>3. ASSUME \A i \in 1..Len(r) : r[i].type # t PROVE now \in Now
  <2>1. \A i \in 1..Len(s) : i \in 1..Len(r) /\ r[i] = s[i]
    BY <1>1
  <2> QED
    BY <1>3, <2>1 DEF Knows
<1> QED
  BY <1>2, <1>3 DEF Knows, r

\* The pump writes the head of the channel to the browser.
LEMMA KnowsWritten ==
    ASSUME NEW s \in Seq(Note), s # <<>>, NEW now, NEW Now, NEW t, NEW Vals, Knows(s, now, Now, t, Vals),
           NEW next, IF Head(s).type = t THEN Head(s).val \in Vals => next \in Now ELSE next = now
    PROVE  Knows(Tail(s), next, Now, t, Vals)
<1> DEFINE r == Tail(s)
<1>1. /\ Len(s) \in Nat /\ Len(s) > 0 /\ Len(r) = Len(s) - 1 /\ Head(s) = s[1]
      /\ \A i \in 1..Len(r) : r[i] = s[i + 1]
  BY HeadTailProperties
<1> HIDE DEF r
<1>2. ASSUME NEW i \in 1..Len(r), r[i].type = t, \A j \in (i + 1)..Len(r) : r[j].type # t PROVE r[i].val \in Vals
  <2>1. i + 1 \in 1..Len(s) /\ s[i + 1] = r[i]
    BY <1>1
  <2>2. ASSUME NEW j \in ((i + 1) + 1)..Len(s) PROVE s[j].type # t
    <3>1. j - 1 \in (i + 1)..Len(r) /\ j - 1 \in 1..Len(r) /\ (j - 1) + 1 = j
      BY <1>1, <2>2
    <3>2. r[j - 1] = s[j]
      BY <1>1, <3>1
    <3> QED
      BY <1>2, <3>1, <3>2
  <2> QED
    BY <1>2, <2>1, <2>2 DEF Knows
<1>3. ASSUME \A i \in 1..Len(r) : r[i].type # t PROVE next \in Now
  <2>1. ASSUME NEW j \in 2..Len(s) PROVE s[j].type # t
    <3>1. j - 1 \in 1..Len(r) /\ (j - 1) + 1 = j
      BY <1>1, <2>1
    <3>2. r[j - 1] = s[j]
      BY <1>1, <3>1
    <3> QED
      BY <1>3, <3>1, <3>2
  <2>2. CASE s[1].type = t
    <3>1. 1 \in 1..Len(s) /\ 1 + 1 = 2
      BY <1>1
    <3>2. s[1].val \in Vals
      BY <2>1, <2>2, <3>1 DEF Knows
    <3> QED
      BY <1>1, <2>2, <3>2
  <2>3. CASE s[1].type # t
    <3>1. \A j \in 1..Len(s) : j = 1 \/ j \in 2..Len(s)
      BY <1>1
    <3>2. \A j \in 1..Len(s) : s[j].type # t
      BY <2>1, <2>3, <3>1
    <3> QED
      BY <1>1, <2>3, <3>2 DEF Knows
  <2> QED
    BY <2>2, <2>3
<1> QED
  BY <1>2, <1>3 DEF Knows, r

-----------------------------------------------------------------------------
(***************************************************************************)
(* The views.                                                              *)
(***************************************************************************)

LEMMA OddsFacts ==
    ASSUME LiveInv, NEW c
    PROVE  /\ odds_cg.next \in Nat /\ odds.written \in Nat /\ odds.cached \in Nat /\ odds.cached <= odds.written
           /\ SentTo(c) \in Nat /\ ("odds" \in sending => odds_cg.next < odds.written)
<1>1. odds_cg.next \in Nat
  BY DEF LiveInv, LiveTypes, Claim
<1> QED
  BY <1>1 DEF LiveInv, LiveTypes, SentTo

LEMMA ClientFacts ==
    ASSUME LiveInv, NEW c \in Clients
    PROVE  /\ send[c] \in Seq(Note) /\ view[c] \in [score : SUBSET Nat, odds : Nat]
           /\ c \in clients => phase[c] = "live"
           /\ phase[c] \in {"new", "snapshot"} =>
                 c \notin overflowed /\ send[c] = <<>> /\ \A w \in Casters : c \notin todo[w]
BY DEF LiveInv, LiveTypes, ClientOrder

\* A step that neither sends nor writes anything to c, and passes nothing by it.
LEMMA Unconcerned ==
    ASSUME LiveInv, NEW c \in Clients, ViewOf(c), ScoreKept,
           Served(c)' => Served(c), send'[c] = send[c], view'[c] = view[c],
           Served(c)' => SentTo(c)' = SentTo(c),
           odds'.written \in Nat, odds'.written >= odds.written,
           Served(c)' /\ Pending(c) => Pending(c)'
    PROVE  ViewOf(c)'
<1> SUFFICES ASSUME Served(c)' PROVE KnowsOdds(c)' /\ (orphan' \/ Pending(c)' \/ KnowsScore(c)')
  BY DEF ViewOf
<1>1. KnowsOdds(c) /\ (orphan \/ Pending(c) \/ KnowsScore(c))
  BY DEF ViewOf
<1>2. SentTo(c)..odds.written \subseteq SentTo(c)'..odds'.written
  BY OddsFacts
<1>3. KnowsOdds(c)'
  BY <1>1, <1>2, KnowsMore DEF KnowsOdds
<1>4. KnowsScore(c) => KnowsScore(c)'
  BY DEF KnowsScore, ScoreKept, Knows
<1> QED
  BY <1>1, <1>3, <1>4 DEF ScoreKept

LEMMA SnapshotView ==
    ASSUME ConsumerInv, LiveInv, ViewInv, ScoreKept, NEW c \in Clients, NEW s, NEW o, Snapshot(c, s, o)
    PROVE  ViewInv'
<1>1. /\ phase[c] = "new" /\ phase' = [phase EXCEPT ![c] = "snapshot"]
      /\ UNCHANGED <<odds, odds_cg, sending, todo, clients, send, broken, overflowed>>
  BY DEF Snapshot, casting
<1> DEFINE v == [score |-> IF Offered /\ s THEN {event.score} ELSE {},
                 odds  |-> IF Offered /\ o THEN odds.cached ELSE 0]
<1>2. view' = [view EXCEPT ![c] = v]
  BY DEF Snapshot
<1>3. missed \subseteq missed' /\ (c \notin missed' => odds.cached >= Passed /\ Offered /\ o)
  <2>1. odds.cached \in Nat /\ Passed \in Nat
    BY OddsFacts DEF Passed
  <2> QED
    BY <2>1 DEF Snapshot
<1>4. v.score \subseteq {event.score} /\ (Offered /\ o => v.odds = odds.cached)
  OBVIOUS
<1> HIDE DEF v
<1>5. ViewOf(c)'
  <2> SUFFICES ASSUME Served(c)' PROVE KnowsOdds(c)' /\ KnowsScore(c)'
    BY DEF ViewOf
  <2>1. c \notin missed' /\ send'[c] = <<>> /\ view'[c] = v
    BY <1>1, <1>2, ClientFacts DEF Served, LiveInv, LiveTypes
  <2>2. SentTo(c)' = Passed
    BY <1>1, ClientFacts, CasterNames DEF SentTo, Passed
  <2>3. v.odds \in SentTo(c)'..odds'.written
    BY <1>1, <1>3, <1>4, <2>1, <2>2, OddsFacts DEF Passed
  <2>4. v.score \in SUBSET {event'.score}
    BY <1>4 DEF ScoreKept
  <2>5. KnowsOdds(c)'
    BY <2>1, <2>3 DEF KnowsOdds, Knows
  <2>6. KnowsScore(c)'
    BY <2>1, <2>4 DEF KnowsScore, Knows
  <2> QED
    BY <2>5, <2>6
<1>6. ASSUME NEW d \in Clients, d # c PROVE ViewOf(d)'
  <2>1. phase'[d] = phase[d] /\ view'[d] = view[d] /\ send'[d] = send[d]
    BY <1>1, <1>2, <1>6 DEF LiveInv, LiveTypes
  <2>2. Served(d)' => Served(d)
    BY <1>1, <1>3, <2>1 DEF Served
  <2>3. SentTo(d)' = SentTo(d) /\ (Pending(d) => Pending(d)')
    BY <1>1 DEF SentTo, Pending, ScoreKept
  <2>4. odds'.written \in Nat /\ odds'.written >= odds.written
    BY <1>1, OddsFacts
  <2> QED
    BY <2>1, <2>2, <2>3, <2>4, Unconcerned DEF ViewInv
<1> QED
  BY <1>5, <1>6 DEF ViewInv

\* The steps of a connection that send nothing and show nothing.
LEMMA HandshakeView ==
    ASSUME LiveInv, ViewInv, ScoreKept, NEW c \in Clients,
           \/ Register(c) \/ SnapshotFails(c) \/ Breaks(c) \/ Disconnect(c) \/ PumpDrained(c)
           \/ PumpExits(c) \/ Kicked(c)
    PROVE  ViewInv'
<1>1. UNCHANGED <<odds, odds_cg, sending, todo, send, view, missed, overflowed>>
  BY DEF Register, SnapshotFails, Breaks, Disconnect, PumpDrained, PumpExits, Kicked, casting
<1>2. broken \subseteq broken'
  BY DEF Register, SnapshotFails, Breaks, Disconnect, PumpDrained, PumpExits, Kicked, RemoveClient
<1>3. \A d \in Clients : /\ phase'[d] = "snapshot" => phase[d] = "snapshot"
                         /\ d \in clients' => d \in clients \/ phase[d] = "snapshot"
  <2>1. phase \in [Clients -> {"new", "snapshot", "live", "gone"}]
    BY DEF LiveInv, LiveTypes
  <2>2. CASE Register(c)
    BY <2>1, <2>2 DEF Register
  <2>3. CASE SnapshotFails(c) \/ Breaks(c) \/ PumpDrained(c)
    BY <2>1, <2>3 DEF SnapshotFails, Breaks, PumpDrained
  <2>4. CASE Disconnect(c) \/ PumpExits(c) \/ Kicked(c)
    BY <2>1, <2>4 DEF Disconnect, PumpExits, Kicked, RemoveClient
  <2> QED
    BY <2>2, <2>3, <2>4
<1>4. ASSUME NEW d \in Clients PROVE ViewOf(d)'
  <2>1. Served(d)' => Served(d)
    BY <1>1, <1>2, <1>3 DEF Served
  <2>2. SentTo(d)' = SentTo(d) /\ (Pending(d) => Pending(d)')
    BY <1>1 DEF SentTo, Pending, ScoreKept
  <2>3. odds'.written \in Nat /\ odds'.written >= odds.written
    BY <1>1, OddsFacts
  <2> QED
    BY <1>1, <2>1, <2>2, <2>3, Unconcerned DEF ViewInv
<1> QED
  BY <1>4 DEF ViewInv

LEMMA PumpView ==
    ASSUME LiveInv, ViewInv, ScoreKept, NEW c \in Clients, PumpWrites(c)
    PROVE  ViewInv'
<1>1. UNCHANGED <<odds, odds_cg, sending, todo, phase, clients, broken, missed, overflowed>>
  BY DEF PumpWrites, casting
<1>2. send[c] # <<>> /\ send' = [send EXCEPT ![c] = Tail(send[c])]
  BY DEF PumpWrites
<1>3. \/ c \in broken /\ view' = view
      \/ view' = [view EXCEPT ![c] = Told(view[c], Head(send[c]))]
  BY DEF PumpWrites
<1>4. \A d \in Clients : /\ SentTo(d)' = SentTo(d) /\ (Pending(d) => Pending(d)') /\ (Served(d)' => Served(d))
  BY <1>1 DEF SentTo, Pending, Served, ScoreKept
<1>5. ViewOf(c)'
  <2> SUFFICES ASSUME Served(c)' PROVE KnowsOdds(c)' /\ (orphan' \/ Pending(c)' \/ KnowsScore(c)')
    BY DEF ViewOf
  <2> DEFINE s == send[c]
             m == Head(s)
             v == view[c]
             u == Told(v, m)
  <2>1. s \in Seq(Note) /\ s # <<>> /\ v \in [score : SUBSET Nat, odds : Nat] /\ m \in Note
    BY <1>2, ClientFacts
  <2>2. send'[c] = Tail(s) /\ view'[c] = u
    BY <1>1, <1>2, <1>3 DEF LiveInv, LiveTypes, Served
  <2>3. KnowsOdds(c) /\ (orphan \/ Pending(c) \/ KnowsScore(c))
    BY <1>4 DEF ViewInv, ViewOf
  <2>4. /\ m.type = "score" => u.score = {m.val} /\ u.odds = v.odds
        /\ m.type = "odds" => u.score = v.score /\ u.odds = m.val
        /\ m.type \in {"score", "odds"}
    BY <2>1, ToldFacts DEF Note
  <2>5. KnowsOdds(c)'
    <3> DEFINE R == SentTo(c)..odds.written
    <3>1. Knows(s, v.odds, R, "odds", R)
      BY <2>3 DEF KnowsOdds
    <3>2. IF m.type = "odds" THEN m.val \in R => u.odds \in R ELSE u.odds = v.odds
      BY <2>4
    <3> HIDE DEF s, m, v, u, R
    <3>3. Knows(Tail(s), u.odds, R, "odds", R)
      BY <2>1, <3>1, <3>2, KnowsWritten DEF m
    <3> QED
      BY <1>1, <1>4, <2>2, <3>3 DEF KnowsOdds, R
  <2>6. KnowsScore(c) => KnowsScore(c)'
    <3> SUFFICES ASSUME KnowsScore(c) PROVE KnowsScore(c)'
      OBVIOUS
    <3> DEFINE E == {event.score}
    <3>1. Knows(s, v.score, SUBSET E, "score", E)
      BY DEF KnowsScore
    <3>2. IF m.type = "score" THEN m.val \in E => u.score \in SUBSET E ELSE u.score = v.score
      BY <2>4
    <3> HIDE DEF s, m, v, u, E
    <3>3. Knows(Tail(s), u.score, SUBSET E, "score", E)
      BY <2>1, <3>1, <3>2, KnowsWritten DEF m
    <3> QED
      BY <2>2, <3>3 DEF KnowsScore, ScoreKept, E
  <2> QED
    BY <1>4, <2>3, <2>5, <2>6 DEF ScoreKept
<1>6. ASSUME NEW d \in Clients, d # c PROVE ViewOf(d)'
  <2>1. view'[d] = view[d] /\ send'[d] = send[d]
    BY <1>2, <1>3, <1>6 DEF LiveInv, LiveTypes
  <2>2. odds'.written \in Nat /\ odds'.written >= odds.written
    BY <1>1, OddsFacts
  <2> QED
    BY <1>4, <2>1, <2>2, Unconcerned DEF ViewInv
<1> QED
  BY <1>5, <1>6 DEF ViewInv

\* Broadcast copies the list of clients.
LEMMA CopyView ==
    ASSUME LiveInv, ViewInv, ScoreKept, BroadcastScore \/ BroadcastOdds
    PROVE  ViewInv'
<1>1. UNCHANGED <<odds, odds_cg, phase, clients, send, broken, view, overflowed>>
  BY DEF BroadcastScore, BroadcastOdds
<1>2. missed' = missed \cup {c \in Clients : phase[c] = "snapshot"}
  BY DEF BroadcastScore, BroadcastOdds, CopyClients
<1>3. todo \in [Casters -> SUBSET Clients] /\ odds'.written \in Nat /\ odds'.written >= odds.written
  BY <1>1, OddsFacts DEF LiveInv, LiveTypes
<1>4. ASSUME NEW c \in Clients PROVE ViewOf(c)'
  <2>1. Served(c)' => Served(c) /\ c \in clients
    BY <1>1, <1>2 DEF Served
  <2>2. CASE BroadcastScore
    <3>1. /\ at["events"] = "broadcast" /\ "events" \notin sending /\ sending' = sending \cup {"events"}
          /\ todo' = [todo EXCEPT !["events"] = clients]
      BY <2>2 DEF BroadcastScore, CopyClients
    <3>2. SentTo(c)' = SentTo(c)
      BY <1>1, <1>3, <3>1, CasterNames DEF SentTo
    <3>3. Served(c)' => Pending(c)'
      BY <1>3, <2>1, <3>1, CasterNames DEF Pending, ScoreKept
    <3> QED
      BY <1>1, <1>3, <2>1, <3>2, <3>3, Unconcerned DEF ViewInv
  <2>3. CASE BroadcastOdds
    <3>1. /\ "odds" \notin sending /\ sending' = sending \cup {"odds"} /\ todo' = [todo EXCEPT !["odds"] = clients]
      BY <2>3 DEF BroadcastOdds, CopyClients
    <3>2. Served(c)' => SentTo(c)' = SentTo(c)
      BY <1>1, <1>3, <2>1, <3>1, CasterNames DEF SentTo
    <3>3. Pending(c) => Pending(c)'
      BY <1>3, <3>1, CasterNames DEF Pending, ScoreKept
    <3> QED
      BY <1>1, <1>3, <2>1, <3>2, <3>3, Unconcerned DEF ViewInv
  <2> QED
    BY <2>2, <2>3
<1> QED
  BY <1>4 DEF ViewInv

LEMMA SendView ==
    ASSUME ConsumerInv, ScoreInHand, LiveInv, ViewInv, ScoreKept, NEW w \in Casters, NEW c \in Clients, SendTo(w, c)
    PROVE  ViewInv'
<1>1. /\ c \in todo[w] /\ todo' = [todo EXCEPT ![w] = todo[w] \ {c}] /\ sending' = sending
      /\ UNCHANGED <<odds, odds_cg, phase, clients, broken, view, missed>>
  BY DEF SendTo
<1>2. w \in sending /\ todo \in [Casters -> SUBSET Clients] /\ send \in [Clients -> Seq(Note)]
  BY SendKeeps DEF LiveInv, LiveTypes
<1> DEFINE m == Payload(w)
           s == Append(send[c], m)
<1>3. /\ m \in Note
      /\ w = "events" => m.type = "score" /\ (orphan \/ m.val = event.score)
      /\ w = "odds" => m.type = "odds" /\ m.val = odds_cg.next + 1
  BY <1>2, PayloadFacts
<1>4. \/ send' = [send EXCEPT ![c] = s] /\ UNCHANGED overflowed
      \/ overflowed' = overflowed \cup {c} /\ send' = send
  BY DEF SendTo, SendOrKick
<1> HIDE DEF m
<1>5. ViewOf(c)'
  <2> SUFFICES ASSUME Served(c)' PROVE KnowsOdds(c)' /\ (orphan' \/ Pending(c)' \/ KnowsScore(c)')
    BY DEF ViewOf
  <2>1. c \notin overflowed' /\ Served(c)
    BY <1>1, <1>4 DEF Served
  <2>2. send'[c] = s /\ send[c] \in Seq(Note)
    <3> HIDE DEF s
    <3> QED
      BY <1>2, <1>4, <2>1
  <2>3. KnowsOdds(c) /\ (orphan \/ Pending(c) \/ KnowsScore(c))
    BY <2>1 DEF ViewInv, ViewOf
  <2>4. CASE w = "events"
    <3>1. SentTo(c)' = SentTo(c)
      BY <1>1, <1>2, <2>4, CasterNames DEF SentTo
    <3>2. KnowsOdds(c)'
      <4> DEFINE R == SentTo(c)..odds.written
      <4>1. Knows(s, view[c].odds, R, "odds", R)
        BY <1>3, <2>2, <2>3, <2>4, KnowsOtherSent DEF KnowsOdds
      <4> QED
        BY <1>1, <2>2, <3>1, <4>1 DEF KnowsOdds
    <3>3. orphan' \/ KnowsScore(c)'
      <4> SUFFICES ASSUME ~orphan PROVE KnowsScore(c)'
        BY DEF ScoreKept
      <4> DEFINE E == {event.score}
      <4>1. Knows(s, view[c].score, SUBSET E, m.type, E)
        <5>1. m.val \in E
          BY <1>3, <2>4
        <5> HIDE DEF E
        <5> QED
          BY <1>3, <2>2, <5>1, KnowsSent
      <4>2. Knows(s, view[c].score, SUBSET E, "score", E)
        BY <1>3, <2>4, <4>1
      <4> QED
        BY <1>1, <2>2, <4>2 DEF KnowsScore, ScoreKept
    <3> QED
      BY <3>2, <3>3
  <2>5. CASE w = "odds"
    <3>1. SentTo(c)' = odds_cg.next + 1
      BY <1>1, <1>2, <2>5, CasterNames DEF SentTo
    <3>2. KnowsOdds(c)'
      <4> DEFINE R == (odds_cg.next + 1)..odds.written
      <4>1. m.val \in R
        <5>1. odds_cg.next \in Nat /\ odds.written \in Nat /\ odds_cg.next < odds.written
          BY <1>2, <2>5, OddsFacts
        <5>2. m.val = odds_cg.next + 1
          BY <1>3, <2>5
        <5> QED
          BY <5>1, <5>2
      <4>2. Knows(s, view[c].odds, R, m.type, R)
        <5> HIDE DEF R
        <5> QED
          BY <1>3, <2>2, <4>1, KnowsSent
      <4>3. Knows(s, view[c].odds, R, "odds", R)
        BY <1>3, <2>5, <4>2
      <4> QED
        BY <1>1, <2>2, <3>1, <4>3 DEF KnowsOdds
    <3>3. Pending(c) => Pending(c)'
      BY <1>1, <1>2, <2>5, CasterNames DEF Pending, ScoreKept
    <3>4. KnowsScore(c) => KnowsScore(c)'
      <4> DEFINE E == {event.score}
      <4>1. KnowsScore(c) => Knows(s, view[c].score, SUBSET E, "score", E)
        BY <1>3, <2>2, <2>5, KnowsOtherSent DEF KnowsScore
      <4> QED
        BY <1>1, <2>2, <4>1 DEF KnowsScore, ScoreKept
    <3> QED
      BY <2>3, <3>2, <3>3, <3>4 DEF ScoreKept
  <2> QED
    BY <2>4, <2>5, CasterNames
<1>6. ASSUME NEW d \in Clients, d # c PROVE ViewOf(d)'
  <2> HIDE DEF s
  <2>1. send'[d] = send[d] /\ view'[d] = view[d] /\ (Served(d)' => Served(d))
    BY <1>1, <1>2, <1>4, <1>6 DEF Served
  <2>2. \A u \in Casters : d \in todo'[u] <=> d \in todo[u]
    BY <1>1, <1>2, <1>6
  <2>3. SentTo(d)' = SentTo(d) /\ (Pending(d) => Pending(d)')
    BY <1>1, <2>2, CasterNames DEF SentTo, Pending, ScoreKept
  <2>4. odds'.written \in Nat /\ odds'.written >= odds.written
    BY <1>1, OddsFacts
  <2> QED
    BY <2>1, <2>3, <2>4, Unconcerned DEF ViewInv
<1> QED
  BY <1>5, <1>6 DEF ViewInv

\* The prices: a new one is written, cached, or its broadcast is over.
LEMMA OddsView ==
    ASSUME LiveInv, ViewInv, ScoreKept, OddsArrive \/ OddsCached \/ OddsAutoCommit \/ OddsSent
    PROVE  ViewInv'
<1>1. UNCHANGED <<todo, phase, clients, send, broken, view, missed, overflowed>>
  BY DEF OddsArrive, OddsCached, OddsAutoCommit, OddsSent, casting
<1>2. "events" \in sending' <=> "events" \in sending
  BY DEF OddsArrive, OddsCached, OddsAutoCommit, OddsSent, casting
<1>3. odds'.written \in Nat /\ odds'.written >= odds.written
  <2>1. OddsSent => UNCHANGED odds
    BY DEF OddsSent
  <2> QED
    BY <2>1, OddsKeeps, OddsFacts
<1>4. ASSUME NEW c \in Clients PROVE SentTo(c)' = SentTo(c)
  <2>1. CASE OddsArrive \/ OddsCached \/ OddsAutoCommit
    <3>1. UNCHANGED casting
      BY <2>1 DEF OddsArrive, OddsCached, OddsAutoCommit
    <3> QED
      BY <2>1, <3>1, OddsKeeps DEF SentTo, casting
  <2>2. CASE OddsSent
    <3>1. /\ "odds" \in sending /\ todo["odds"] = {} /\ "odds" \notin sending'
          /\ odds_cg' = HandledUncommitted(odds_cg)
      BY <2>2 DEF OddsSent
    <3>2. odds_cg'.next = odds_cg.next + 1
      BY <3>1, ClaimMoves DEF LiveInv, LiveTypes
    <3> QED
      BY <3>1, <3>2, OddsFacts DEF SentTo
  <2> QED
    BY <2>1, <2>2
<1>5. ASSUME NEW c \in Clients PROVE ViewOf(c)'
  <2>1. (Served(c)' => Served(c)) /\ (Pending(c) => Pending(c)')
    BY <1>1, <1>2 DEF Served, Pending, ScoreKept
  <2> QED
    BY <1>1, <1>3, <1>4, <2>1, Unconcerned DEF ViewInv
<1> QED
  BY <1>5 DEF ViewInv

\* The broadcast of a score is over: nobody in its copy is left.
LEMMA ScoreSentView ==
    ASSUME ConsumerInv, ScoreInHand, LiveInv, ViewInv, ScoreSent
    PROVE  ViewInv'
<1>1. /\ "events" \in sending /\ todo["events"] = {} /\ sending' = sending \ {"events"}
      /\ UNCHANGED <<todo, odds, odds_cg, phase, clients, send, broken, view, missed, overflowed, event, orphan>>
  BY DEF ScoreSent, tables
<1>2. ASSUME NEW c \in Clients, Served(c)' PROVE KnowsOdds(c)' /\ (orphan' \/ KnowsScore(c)')
  <2>1. Served(c) /\ ~Pending(c)
    BY <1>1, <1>2 DEF Served, Pending
  <2>2. KnowsOdds(c) /\ (orphan \/ KnowsScore(c))
    BY <2>1 DEF ViewInv, ViewOf
  <2>3. SentTo(c)' = SentTo(c)
    BY <1>1 DEF SentTo
  <2> QED
    BY <1>1, <2>2, <2>3 DEF KnowsOdds, KnowsScore
<1> QED
  BY <1>2 DEF ViewInv, ViewOf

LEMMA ViewSteps ==
    ConsumerInv /\ ScoreInHand /\ LiveInv /\ ViewInv /\ [ServiceNext]_service => ViewInv'
<1> SUFFICES ASSUME ConsumerInv, ScoreInHand, LiveInv, ViewInv, [ServiceNext]_service PROVE ViewInv'
  OBVIOUS
<1>1. CASE ScoreKept /\ UNCHANGED live
  <2>1. ASSUME NEW c \in Clients PROVE ViewOf(c)'
    <3>1. (Served(c)' => Served(c)) /\ SentTo(c)' = SentTo(c) /\ (Pending(c) => Pending(c)')
      BY <1>1 DEF live, casting, Served, SentTo, Pending, ScoreKept
    <3>2. send'[c] = send[c] /\ view'[c] = view[c] /\ odds'.written \in Nat /\ odds'.written >= odds.written
      BY <1>1, OddsFacts DEF live
    <3> QED
      BY <1>1, <3>1, <3>2, Unconcerned DEF ViewInv
  <2> QED
    BY <2>1 DEF ViewInv
<1>2. CASE ScoreWritten /\ UNCHANGED live
  <2>1. "events" \notin sending'
    BY <1>2 DEF ScoreWritten, ScoreInHand, live, casting
  <2>2. \A c \in Clients : Pending(c)'
    BY <1>2, <2>1 DEF ScoreWritten, Pending
  <2>3. ASSUME NEW c \in Clients, Served(c)' PROVE KnowsOdds(c)'
    <3>1. Served(c)
      BY <1>2, <2>3 DEF live, Served
    <3>2. KnowsOdds(c)
      BY <3>1 DEF ViewInv, ViewOf
    <3> QED
      BY <1>2, <3>2 DEF live, casting, KnowsOdds, SentTo
  <2> QED
    BY <2>2, <2>3 DEF ViewInv, ViewOf
<1>3. CASE LiveActs /\ ScoreKept
  <2>1. ASSUME NEW c \in Clients, NEW s \in BOOLEAN, NEW o \in BOOLEAN, Snapshot(c, s, o) PROVE ViewInv'
    BY <1>3, <2>1, SnapshotView
  <2>2. ASSUME NEW c \in Clients, \/ Register(c) \/ SnapshotFails(c) \/ Breaks(c) \/ Disconnect(c) \/ PumpDrained(c)
                                  \/ PumpExits(c) \/ Kicked(c)
        PROVE  ViewInv'
    BY <1>3, <2>2, HandshakeView
  <2>3. ASSUME NEW c \in Clients, PumpWrites(c) PROVE ViewInv'
    BY <1>3, <2>3, PumpView
  <2>4. ASSUME NEW w \in Casters, NEW c \in Clients, SendTo(w, c) PROVE ViewInv'
    BY <1>3, <2>4, SendView
  <2>5. CASE BroadcastScore \/ BroadcastOdds
    BY <1>3, <2>5, CopyView
  <2>6. CASE OddsArrive \/ OddsCached \/ OddsAutoCommit \/ OddsSent
    BY <1>3, <2>6, OddsView
  <2>7. CASE ScoreSent
    BY <2>7, ScoreSentView
  <2> QED
    BY <1>3, <2>1, <2>2, <2>3, <2>4, <2>5, <2>6, <2>7, LiveActsCases, Zenon
<1>4. CASE ProcessEnds
  <2>1. \A c \in Clients : ~Served(c)'
    BY <1>4 DEF ProcessEnds, LiveStops, Served
  <2> QED
    BY <2>1 DEF ViewInv, ViewOf
<1> QED
  BY <1>1, <1>2, <1>3, <1>4, Steps, ScoreSentView

-----------------------------------------------------------------------------
(***************************************************************************)
(* The theorems.                                                           *)
(***************************************************************************)

LEMMA ServiceParts ==
    ServiceInv <=> ConsumerInv /\ ScoreInHand /\ RuleInv /\ LiveInv /\ ViewInv
BY DEF ServiceInv, ConsumerInv, LiveInv

LEMMA ServiceStart == ServiceInit => ServiceInv
<1> SUFFICES ASSUME CatalogInit, LiveInit PROVE ServiceInv
  BY DEF ServiceInit
<1>1. NewClaim \in Claim
  BY DEF NewClaim, Claim
<1>2. ConsumerInv
  <2>1. ConsumerTypes
    BY <1>1 DEF CatalogInit, ConsumerTypes
  <2>2. ConsumerOrder
    BY Names DEF CatalogInit, ConsumerOrder
  <2> QED
    BY <2>1, <2>2 DEF ConsumerInv
<1>3. ScoreInHand /\ RuleInv
  BY Names DEF CatalogInit, LiveInit, ScoreInHand, RuleInv
<1>4. LiveInv
  <2>1. LiveTypes
    BY <1>1 DEF LiveInit, LiveTypes, NoView
  <2>2. ClientOrder /\ OverflowIsLeaving
    BY DEF LiveInit, ClientOrder, OverflowIsLeaving
  <2> QED
    BY <2>1, <2>2 DEF LiveInv
<1>5. ViewInv
  <2>1. \A c \in Clients : ~Served(c)
    BY DEF LiveInit, Served
  <2> QED
    BY <2>1 DEF ViewInv, ViewOf
<1> QED
  BY <1>2, <1>3, <1>4, <1>5, ServiceParts

LEMMA ServiceStep == ServiceInv /\ [ServiceNext]_service => ServiceInv'
<1> SUFFICES ASSUME ServiceInv, [ServiceNext]_service PROVE ServiceInv'
  OBVIOUS
<1>1. ConsumerInv /\ ScoreInHand /\ RuleInv /\ LiveInv /\ ViewInv
  BY ServiceParts
<1>2. ConsumerInv' /\ ScoreInHand' /\ RuleInv' /\ LiveInv' /\ ViewInv'
  BY <1>1, ConsumerSteps, HandSteps, RuleSteps, LiveSteps, ViewSteps
<1> QED
  BY <1>2 DEF ServiceInv, ConsumerInv, LiveInv

\* The inductive invariant of the catalog process.
THEOREM ServiceInvariant == ServiceSpec => []ServiceInv
<1>1. ServiceInit => ServiceInv
  BY ServiceStart
<1>2. ServiceInv /\ [ServiceNext]_service => ServiceInv'
  BY ServiceStep
<1> QED
  BY <1>1, <1>2, PTL DEF ServiceSpec

\* The feed never reopens what an operator suspended or closed, whatever is offered
\* again, fails or restarts (consumer.go:131-136).
THEOREM OperatorRulesAlways == ServiceSpec => []OperatorRules
<1>1. ServiceInv => OperatorRules
  BY DEF ServiceInv, RuleInv, OperatorRules
<1> QED
  BY <1>1, ServiceInvariant, PTL

\* A client whose channel was full is in the map only with a removal on its way, for
\* every size of the channels (broadcaster.go:82-89).
THEOREM OverflowLeavingAlways == ServiceSpec => []OverflowIsLeaving
<1>1. ServiceInv => OverflowIsLeaving
  BY DEF ServiceInv
<1> QED
  BY <1>1, ServiceInvariant, PTL

\* Nobody is busy: a client nothing passed by shows the score in the table and the
\* price in Redis (http.go, broadcaster.go, odds_consumer.go).
THEOREM QuietClientAlways == ServiceSpec => []QuietClientIsCurrent
<1>1. ASSUME ServiceInv, NEW c \in Clients, Quiet(c)
      PROVE  (orphan \/ view[c].score \subseteq {event.score}) /\ view[c].odds = odds.cached
  <2>1. /\ c \in clients /\ c \notin broken \cup missed \cup overflowed /\ send[c] = <<>>
        /\ at["events"] = "idle" /\ "odds" \notin sending
        /\ odds_cg.next = odds.written /\ odds.cached = odds.written
    BY <1>1 DEF Quiet
  <2>2. KnowsOdds(c) /\ (orphan \/ KnowsScore(c))
    BY <1>1, <2>1 DEF ServiceInv, ViewInv, ViewOf, Served, Pending
  <2>3. view[c].odds \in SentTo(c)..odds.written
    BY <2>1, <2>2 DEF KnowsOdds, Knows
  <2>4. orphan \/ view[c].score \in SUBSET {event.score}
    BY <2>1, <2>2 DEF KnowsScore, Knows
  <2>5. odds.written \in Nat /\ SentTo(c) = odds.written
    BY <1>1, <2>1 DEF ServiceInv, LiveTypes, SentTo
  <2> QED
    BY <2>1, <2>3, <2>4, <2>5
<1>2. ServiceInv => QuietClientIsCurrent
  BY <1>1 DEF QuietClientIsCurrent
<1> QED
  BY <1>2, ServiceInvariant, PTL

\* The feed consumer keeps the contract of Delivery on the partition of the markets: five
\* statements and a ticker's commit are one message handled and one commit
\* (consumer.go).
THEOREM MarketsImplementDelivery == ServiceSpec => MarketsDelivered
<1>1. ServiceInit => Markets_cg!Init
  BY Names DEF ServiceInit, CatalogInit, NewClaim, Markets_cg!Init
<1>2. ServiceInv /\ [ServiceNext]_service => [Markets_cg!Next]_(Markets_cg!partition)
  BY MarketsStep DEF ServiceInv, ConsumerInv
<1> QED
  BY <1>1, <1>2, ServiceInvariant, PTL DEF ServiceSpec, MarketsDelivered, Markets_cg!Spec

-----------------------------------------------------------------------------
(***************************************************************************)
(* RemoveClient is called by the reader, by the pump and by goroutines of  *)
(* Broadcast, for one client any number of times.                          *)
(***************************************************************************)

\* A channel is closed when its client leaves the map, and then only: closing it a second
\* time would panic (broadcaster.go:57-68).
ClosedOnce ==
    \A c \in Clients : /\ closes[c] \in {0, 1}
                       /\ c \in clients \/ phase[c] \in {"new", "snapshot"} => closes[c] = 0

LEMMA ClosedOnceStep ==
    ASSUME ClosedOnce, closes \in [Clients -> Nat], ConsumerInv, LiveInv, [ServiceNext]_service
    PROVE  ClosedOnce' /\ closes' \in [Clients -> Nat]
<1>1. phase \in [Clients -> {"new", "snapshot", "live", "gone"}]
  BY DEF LiveInv, LiveTypes
<1>2. CASE UNCHANGED <<phase, clients, closes>>
  BY <1>2 DEF ClosedOnce
<1>3. ASSUME NEW c \in Clients, NEW s, NEW o, Snapshot(c, s, o) PROVE ClosedOnce' /\ closes' \in [Clients -> Nat]
  BY <1>1, <1>3 DEF ClosedOnce, Snapshot
<1>4. ASSUME NEW c \in Clients, Register(c) \/ SnapshotFails(c) PROVE ClosedOnce' /\ closes' \in [Clients -> Nat]
  BY <1>1, <1>4 DEF ClosedOnce, Register, SnapshotFails
<1>5. ASSUME NEW c \in Clients, Disconnect(c) \/ PumpExits(c) \/ Kicked(c)
      PROVE  ClosedOnce' /\ closes' \in [Clients -> Nat]
  <2>1. /\ clients' = clients \ {c}
        /\ phase' = phase \/ phase' = [phase EXCEPT ![c] = "gone"]
        /\ closes' = IF c \in clients THEN [closes EXCEPT ![c] = closes[c] + 1] ELSE closes
    BY <1>5 DEF Disconnect, PumpExits, Kicked, RemoveClient
  <2>2. c \in clients => phase[c] = "live" /\ closes[c] = 0
    BY DEF ClosedOnce, LiveInv, ClientOrder
  <2>3. closes' \in [Clients -> Nat] /\ closes'[c] \in {0, 1} /\ \A d \in Clients \ {c} : closes'[d] = closes[d]
    BY <2>1, <2>2 DEF ClosedOnce
  <2>4. phase'[c] \in {phase[c], "gone"} /\ \A d \in Clients \ {c} : phase'[d] = phase[d]
    BY <1>1, <2>1
  <2>5. phase'[c] \in {"new", "snapshot"} => closes'[c] = 0
    BY <2>1, <2>2, <2>4 DEF ClosedOnce
  <2>6. c \notin clients' /\ \A d \in Clients \ {c} : d \in clients' <=> d \in clients
    BY <2>1
  <2>7. ASSUME NEW d \in Clients
        PROVE  /\ closes'[d] \in {0, 1}
               /\ d \in clients' \/ phase'[d] \in {"new", "snapshot"} => closes'[d] = 0
    <3>1. CASE d = c
      BY <2>3, <2>5, <2>6, <3>1
    <3>2. CASE d # c
      BY <2>3, <2>4, <2>6, <3>2 DEF ClosedOnce
    <3> QED
      BY <3>1, <3>2
  <2> QED
    BY <2>3, <2>7 DEF ClosedOnce
<1>6. CASE ProcessEnds
  <2>1. /\ phase' = [c \in Clients |-> IF phase[c] = "new" THEN "new" ELSE "gone"]
        /\ clients' = {} /\ UNCHANGED closes
    BY <1>6 DEF ProcessEnds, LiveStops
  <2> QED
    BY <2>1 DEF ClosedOnce
<1>7. CASE LiveActs
  <2>1. ASSUME NEW c \in Clients, Breaks(c) \/ PumpWrites(c) \/ PumpDrained(c) PROVE UNCHANGED <<phase, clients, closes>>
    BY <2>1 DEF Breaks, PumpWrites, PumpDrained
  <2>2. \/ OddsArrive \/ OddsCached \/ OddsAutoCommit \/ BroadcastScore \/ BroadcastOdds \/ ScoreSent \/ OddsSent
        => UNCHANGED <<phase, clients, closes>>
    BY DEF OddsArrive, OddsCached, OddsAutoCommit, BroadcastScore, BroadcastOdds, ScoreSent, OddsSent
  <2>3. ASSUME NEW w \in Casters, NEW c \in Clients, SendTo(w, c) PROVE UNCHANGED <<phase, clients, closes>>
    BY <2>3 DEF SendTo
  <2> QED
    BY <1>2, <1>3, <1>4, <1>5, <1>7, <2>1, <2>2, <2>3, LiveActsCases, Zenon
<1>8. UNCHANGED live => UNCHANGED <<phase, clients, closes>>
  BY DEF live
<1> QED
  BY <1>2, <1>6, <1>7, <1>8, Steps

\* However often RemoveClient is called for a client, its channel is closed once, and the
\* client is out of the map then.
THEOREM ClosedOnceAlways == ServiceSpec => []ClosedOnce
<1>1. ServiceInit => ClosedOnce /\ closes \in [Clients -> Nat]
  BY DEF ServiceInit, LiveInit, ClosedOnce
<1>2. ServiceInv /\ ClosedOnce /\ closes \in [Clients -> Nat] /\ [ServiceNext]_service
        => (ClosedOnce /\ closes \in [Clients -> Nat])'
  BY ClosedOnceStep, ServiceParts
<1> QED
  BY <1>1, <1>2, ServiceInvariant, PTL DEF ServiceSpec
=============================================================================
