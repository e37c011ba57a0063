---------------------------- MODULE SchedulerMC ----------------------------
(* Scheduler on a small instance: @every 2 and a named expression with a   *)
(* period of 2.                                                            *)
EXTENDS Scheduler, TLC

Every(n) == [named |-> FALSE, n |-> n]
Named(n) == [named |-> TRUE, n |-> n]

TwoCrons == {Every(2), Named(2)}
=============================================================================
