---------------------------- MODULE OutboundMC ----------------------------
(***************************************************************************)
(* The Reddit client and the circuit breaker share no state and are        *)
(* checked side by side: each behaviour is one of one of them, and the     *)
(* other rests in its initial state.                                       *)
(*                                                                         *)
(* RedditClient has two workers, two credentials, and tokens that live for *)
(* two and for four units: half-life, and 60 s before the end.  The        *)
(* breaker has three callers and both thresholds two.  Not reduced by      *)
(* symmetry, because the run checks liveness properties.                   *)
(***************************************************************************)
EXTENDS RedditClient, CircuitBreaker, TLC

VARIABLE active    \* the component whose behaviour this is

\* Of the initial states of the client one will do for the other's behaviours.
OutboundStart ==
  /\ ClientInit /\ BreakerInit
  /\ active = "client" \/ (accepted = Creds /\ creds = CHOOSE c \in Creds : TRUE)

OutboundInit == active \in {"client", "breaker"} /\ OutboundStart

OutboundNext ==
  \/ active = "client" /\ ClientNext /\ UNCHANGED <<active, breakerVars>>
  \/ active = "breaker" /\ BreakerNext /\ UNCHANGED <<active, clientVars>>

\* ClientFairness and BreakerFairness, each for its own behaviours.
OwnFairness ==
  /\ \A w \in Workers :
       /\ SF_clientVars(active = "client" /\ Lock(w))
       /\ WF_clientVars(active = "client" /\ Refresh(w))
       /\ WF_clientVars(active = "client" /\ Request(w))
  /\ \A p \in {"timer", "rotator"} : WF_clientVars(active = "client" /\ RefreshFor(p))
  /\ WF_breakerVars(active = "breaker" /\ BreakerTick)
  /\ \A c \in Callers : WF_breakerVars(active = "breaker" /\ CallerNext(c))

OutboundSpec ==
  OutboundInit /\ [][OutboundNext]_<<active, clientVars, breakerVars>> /\ OwnFairness

\* The types of both, and how far the counts of the breaker go.
OutboundTypeOK == ClientTypeOK /\ BreakerTypeOK /\ BelowThresholds

\* A call of the client ends, and so does a time in which the breaker refuses
\* every call.
WaitsEnd == CallsEnd /\ OpenEnds
=============================================================================
