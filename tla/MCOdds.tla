------------------------------- MODULE MCOdds -------------------------------
(* Instance of OddsPipeline for TLC. *)
EXTENDS OddsPipeline

\* A large bet, a small one on the other side, and one that is not JSON.
MCBets == {[sel |-> "s0", stake |-> 6000, parses |-> TRUE],
           [sel |-> "s1", stake |-> 100,  parses |-> TRUE],
           [sel |-> "s0", stake |-> 6000, parses |-> FALSE]}
=============================================================================
