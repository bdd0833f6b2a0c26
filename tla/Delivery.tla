------------------------------ MODULE Delivery ------------------------------
(***************************************************************************)
(* What a consumer of this repository promises about one partition of a    *)
(* topic, whatever its handler does: messages are tried in order, a commit *)
(* never passes a message that was not tried, and a restart goes back to   *)
(* the commit.  A message whose handler failed may be passed: delivery is  *)
(* at least once for the handler's attempts, not for its successes.        *)
(***************************************************************************)
EXTENDS Naturals

VARIABLES
    written,    \* messages in the partition
    next,       \* offset of the next message to try
    committed,  \* committed offset of the group
    handled,    \* offsets whose handler returned nil, once at least
    failed      \* offsets whose handler returned an error, once at least

partition == <<written, next, committed, handled, failed>>

Init ==
    /\ written = 0 /\ next = 0 /\ committed = 0
    /\ handled = {} /\ failed = {}

Produce ==
    /\ written' > written /\ written' \in Nat
    /\ UNCHANGED <<next, committed, handled, failed>>

Handle ==
    /\ next < written
    /\ next' = next + 1
    /\ handled' = handled \cup {next}
    /\ committed' \in {committed, next + 1}
    /\ UNCHANGED <<written, failed>>

Skip ==
    /\ next < written
    /\ next' = next + 1
    /\ failed' = failed \cup {next}
    /\ UNCHANGED <<written, committed, handled>>

\* Groups with auto-commit commit what has been marked at times of their own.
Commit ==
    /\ committed' = next
    /\ UNCHANGED <<written, next, handled, failed>>

Restart ==
    /\ next' = committed
    /\ UNCHANGED <<written, committed, handled, failed>>

Next == Produce \/ Handle \/ Skip \/ Commit \/ Restart

Spec == Init /\ [][Next]_partition

\* No message is passed over in silence (bethistory/consumer.go:106 and
\* oddsmanagement/service.go:107 rely on it): below the committed offset every
\* message has been tried.
CommittedIsTried == \A k \in 0..(committed - 1) : k \in handled \cup failed
=============================================================================
