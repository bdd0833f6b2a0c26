----------------------------- MODULE FeedsProofs -----------------------------
(***************************************************************************)
(* Proofs about Feeds, for every set of events, any titles and team names, *)
(* any capacity of the channels and any number of inputs.                  *)
(***************************************************************************)
EXTENDS Feeds, TLAPS

-----------------------------------------------------------------------------
(***************************************************************************)
(* The wake-up.  Between Dial and Subscribe the connection holds a copy of *)
(* the registry; a token that is not in the copy has its signal ahead.     *)
(***************************************************************************)

WakeupInv ==
    /\ at \in [Events -> {"idle", "due", "notify", "send"}]
    /\ \/ notify \/ \E e \in Events : at[e] = "notify"
       \/ /\ conn.at = "blocked" => byToken = {}
          /\ conn.at = "dialled" => byToken \subseteq conn.ids
          /\ conn.at = "up" => byToken \subseteq conn.subscribed

wakeup == <<at, notify, byToken, conn>>

LEMMA WakeupSteps == WakeupInv /\ [FeedsNext]_feedsVars => WakeupInv'
<1> SUFFICES ASSUME WakeupInv, [FeedsNext]_feedsVars PROVE WakeupInv'
  OBVIOUS
<1>1. CASE UNCHANGED wakeup
  BY <1>1 DEF WakeupInv, wakeup
<1>2. ASSUME NEW e \in Events, at[e] # "notify", UNCHANGED <<notify, byToken, conn>>,
             NEW place \in {"idle", "due", "notify", "send"}, at' = [at EXCEPT ![e] = place]
      PROVE  WakeupInv'
  BY <1>2 DEF WakeupInv
<1>3. ASSUME NEW e \in Events, Register(e) PROVE WakeupInv'
  BY <1>3 DEF Register, WakeupInv
<1>4. ASSUME NEW e \in Events, Tick(e) \/ SendEvent(e) PROVE WakeupInv'
  BY <1>2, <1>4 DEF Tick, SendEvent, registry
<1>5. CASE AwaitTokens
  BY <1>5 DEF AwaitTokens, WakeupInv
<1>6. CASE Dial
  BY <1>6 DEF Dial, WakeupInv, registry, NoConn
<1>7. CASE Subscribe
  BY <1>7 DEF Subscribe, WakeupInv, registry
<1>8. CASE HandleRegistryChange
  BY <1>8 DEF HandleRegistryChange, WakeupInv
<1>9. CASE ConnBreaks
  BY <1>9 DEF ConnBreaks, WakeupInv, registry
<1>10. CASE StreamEnds
  BY <1>10 DEF StreamEnds, WakeupInv, registry, NoConn
<1>11. UNCHANGED feedsVars \/ TimePasses \/ ScoresReconnect \/ HandlePrice \/ BoardStep \/ HandleScore
         => UNCHANGED wakeup
  BY DEF feedsVars, TimePasses, ScoresReconnect, HandlePrice, BoardStep, FetchBoard, SendScore, HandleScore,
         registry, wakeup
<1>12. ASSUME NEW e, GameMoves(e) \/ ScorePushed(e) \/ PricePushed(e) \/ IngestStep(e) \/ ConsumeOneFails(e)
                     \/ PublishFails(e)
       PROVE  UNCHANGED wakeup
  BY <1>12 DEF GameMoves, ScorePushed, PricePushed, IngestStep, Consume, Publish, ConsumeOne, ConsumeOneFails,
               PublishFails, registry, wakeup
<1>13. PriceStep => WakeupInv'
  BY <1>5, <1>6, <1>7, <1>8, <1>10 DEF PriceStep
<1>14. ASSUME NEW e \in Events, PollStep(e) PROVE WakeupInv'
  BY <1>3, <1>4, <1>14 DEF PollStep
<1>15. ASSUME FeedsNext PROVE WakeupInv'
  BY <1>1, <1>4, <1>9, <1>11, <1>12, <1>13, <1>14, <1>15, Zenon DEF FeedsNext
<1> QED
  BY <1>1, <1>11, <1>15

\* No wake-up is lost between the pollers' Register and the price feed's select
\* (token_registry.go:31-43), for any number of pollers.
THEOREM NoLostWakeupAlways == FeedsSpec => []NoLostWakeup
<1>1. FeedsInit => WakeupInv
  <2> SUFFICES ASSUME FeedsInit PROVE WakeupInv
    OBVIOUS
  <2>1. at = [e \in Events |-> "due"] /\ byToken = {} /\ conn = [NoConn EXCEPT !.at = "start"]
    BY DEF FeedsInit
  <2>2. conn.at = "start"
    BY <2>1 DEF NoConn
  <2> QED
    BY <2>1, <2>2 DEF WakeupInv
<1>2. WakeupInv => NoLostWakeup
  BY DEF WakeupInv, NoLostWakeup
<1> QED
  BY <1>1, <1>2, WakeupSteps, PTL DEF FeedsSpec

=============================================================================
