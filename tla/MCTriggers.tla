---------------------------- MODULE MCTriggers ----------------------------
\* Instances of Triggers for TLC: the notices of one reservation.
EXTENDS Triggers
===========================================================================
