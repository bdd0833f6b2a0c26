------------------------------- MODULE Claims -------------------------------
(***************************************************************************)
(* What a consumer group keeps of one partition, as the ConsumeClaim loops *)
(* of this repository use it.  Offsets count from 0; `next' is the offset  *)
(* of the message the loop receives next, `committed' the offset Kafka     *)
(* hands out after a restart.  `handled' and `failed' remember which       *)
(* offsets a handler returned nil for and which it returned an error for.  *)
(***************************************************************************)
EXTENDS Naturals

Claim    == [next : Nat, committed : Nat, handled : SUBSET Nat, failed : SUBSET Nat]
NewClaim == [next |-> 0, committed |-> 0, handled |-> {}, failed |-> {}]

\* The handler returns nil; MarkMessage and Commit follow.
Handled(c) == [next |-> c.next + 1, committed |-> c.next + 1,
               handled |-> c.handled \cup {c.next}, failed |-> c.failed]

\* The same with a commit that does not reach the broker: sarama reports it on a
\* channel, not to the loop.
HandledUncommitted(c) == [Handled(c) EXCEPT !.committed = c.committed]

\* Mutant: the loop leaves at an error and the session delivers the message again.
SkippedNever(c) == c

\* The handler returns an error: `continue' without marking.
Skipped(c) == [next |-> c.next + 1, committed |-> c.committed,
               handled |-> c.handled, failed |-> c.failed \cup {c.next}]

\* A restart or a rebalance: the new session starts at the committed offset.
Restarted(c) == [c EXCEPT !.next = c.committed]
=============================================================================
