---------------------------- MODULE BackgroundMC ----------------------------
(***************************************************************************)
(* The parts of the crawler that work by the clock: the scheduler, and the *)
(* client of Reddit with the circuit breaker.  They share no state and are *)
(* checked side by side: each behaviour is one of one of them, and the     *)
(* others rest in their initial states.                                    *)
(***************************************************************************)
EXTENDS SchedulerMC, OutboundMC

\* Of the initial states of the scheduler one will do for the others' behaviours.
BackgroundInit ==
  /\ active \in {"scheduler", "client", "breaker"}
  /\ SchedulerInit /\ OutboundStart
  /\ active = "scheduler" \/ row = [j \in Jobs |-> {}]

BackgroundNext ==
  \/ /\ active = "scheduler" /\ SchedulerNext
     /\ UNCHANGED <<active, clientVars, breakerVars>>
  \/ OutboundNext /\ UNCHANGED schedulerVars

\* SchedulerFairness, for the behaviours of the scheduler.
SchedulersFairness ==
  /\ WF_schedulerVars(active = "scheduler" /\ SchedulerTick)
  /\ \A p \in Schedulers :
       /\ WF_schedulerVars(active = "scheduler" /\ RunnerNext(p))
       /\ <>[][~Stopped(p)]_schedulerVars

BackgroundSpec ==
  /\ BackgroundInit
  /\ [][BackgroundNext]_<<active, schedulerVars, clientVars, breakerVars>>
  /\ SchedulersFairness /\ OwnFairness
=============================================================================
