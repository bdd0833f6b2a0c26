--------------------------- MODULE DeliveryProofs ---------------------------
(***************************************************************************)
(* Delivery's promise holds in every run of it, and with it in every       *)
(* consumer that implements Delivery.                                      *)
(***************************************************************************)
EXTENDS Delivery, TLAPS

\* Below n every message has been tried.
TriedBelow(n) == \A k \in 0..(n - 1) : k \in handled \cup failed

\* CommittedIsTried alone is not inductive: Commit moves the commit up to `next', so
\* everything below `next' must have been tried as well, and a Restart moves `next'
\* back to a commit that is a number.
DeliveryInv ==
    /\ written \in Nat /\ next \in Nat /\ committed \in Nat
    /\ TriedBelow(next) /\ TriedBelow(committed)

\* A step of the consumer keeps DeliveryInv, whether its handler succeeds, fails, has
\* its commit lost or is thrown back.
LEMMA StepKeepsInv == DeliveryInv /\ [Next]_partition => DeliveryInv'
<1> SUFFICES ASSUME DeliveryInv, [Next]_partition PROVE DeliveryInv'
  OBVIOUS
<1> USE DEF DeliveryInv, TriedBelow
<1>1. CASE Produce
  BY <1>1 DEF Produce
<1>2. CASE Handle
  <2>1. \A k \in 0..(next' - 1) : k \in handled' \cup failed'
    <3> TAKE k \in 0..(next' - 1)
    <3>1. k \in 0..(next - 1) \/ k = next
      BY <1>2 DEF Handle
    <3> QED BY <3>1, <1>2 DEF Handle
  <2>2. committed' \in {committed, next'}
    BY <1>2 DEF Handle
  <2>3. CASE committed' = committed
    BY <1>2, <2>1, <2>3 DEF Handle
  <2>4. CASE committed' = next'
    BY <1>2, <2>1, <2>4 DEF Handle
  <2> QED BY <2>2, <2>3, <2>4
<1>3. CASE Skip
  <2>1. \A k \in 0..(next' - 1) : k \in handled' \cup failed'
    <3> TAKE k \in 0..(next' - 1)
    <3>1. k \in 0..(next - 1) \/ k = next
      BY <1>3 DEF Skip
    <3> QED BY <3>1, <1>3 DEF Skip
  <2> QED BY <1>3, <2>1 DEF Skip
<1>4. CASE Commit
  BY <1>4 DEF Commit
<1>5. CASE Restart
  BY <1>5 DEF Restart
<1>6. CASE UNCHANGED partition
  BY <1>6 DEF partition
<1> QED BY <1>1, <1>2, <1>3, <1>4, <1>5, <1>6 DEF Next

\* Every consumer that implements Delivery (BetConsumersDeliver and MarketsDelivered
\* say which) has tried each message below its commit.
THEOREM CommitsFollowAttempts == Spec => []CommittedIsTried
<1>1. Init => DeliveryInv
  BY DEF Init, DeliveryInv, TriedBelow
<1>2. DeliveryInv => CommittedIsTried
  BY DEF DeliveryInv, TriedBelow, CommittedIsTried
<1> QED BY <1>1, <1>2, StepKeepsInv, PTL DEF Spec
=============================================================================
