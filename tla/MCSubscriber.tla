---------------------------- MODULE MCSubscriber ----------------------------
(* Instances of Subscriber for TLC.                                         *)
EXTENDS Subscriber

CONSTANTS s1, s2, h1, h2

MCTrials == {[price |-> "citizen", dated |-> TRUE], [price |-> "other", dated |-> FALSE]}
=============================================================================
