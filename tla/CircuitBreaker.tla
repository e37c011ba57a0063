--------------------------- MODULE CircuitBreaker ---------------------------
(***************************************************************************)
(* The circuit breaker (circuitbreaker/circuitbreaker.go) under concurrent *)
(* callers, one step per critical section of its mutex.                    *)
(*                                                                         *)
(* Time is the time since the last failure, which stops mattering once it  *)
(* is past the timeout.  A call that is refused changes nothing and is no  *)
(* step.  A protected function that never returns holds no lock; a caller  *)
(* whose function panics is lost without a record, like one that is not    *)
(* scheduled again.                                                        *)
(***************************************************************************)
EXTENDS Integers, FiniteSets

CONSTANTS
  Callers,
  FailureThreshold, SuccessThreshold, Timeout    \* Config

ASSUME CircuitBreakerAssumption ==
  /\ FailureThreshold \in Nat \ {0}
  /\ SuccessThreshold \in Nat \ {0}
  /\ Timeout \in Nat

VARIABLES
  state, failureCount, successCount,
  age,       \* time.Since(lastFailureTime), up to Timeout + 1
  caller,    \* where each caller is in Call
  streak     \* history: successes recorded since the last failure or the last
             \* change to half-open, up to SuccessThreshold

breakerVars == <<state, failureCount, successCount, age, caller, streak>>

States == {"Closed", "Open", "HalfOpen"}

BreakerTypeOK ==
  /\ state \in States
  /\ failureCount \in 0..FailureThreshold
  /\ successCount \in 0..SuccessThreshold
  /\ age \in 0..Timeout + 1
  /\ caller \in [Callers -> {"idle", "upgrading", "running"}]
  /\ streak \in 0..SuccessThreshold

BreakerInit ==
  /\ state = "Closed" /\ failureCount = 0 /\ successCount = 0
  /\ age = Timeout + 1      \* the zero time is long ago
  /\ caller = [c \in Callers |-> "idle"]
  /\ streak = 0

-----------------------------------------------------------------------------
Elapsed == age > Timeout

\* canAttempt, under the read lock.
Admit(c) ==
  /\ caller[c] = "idle"
  /\ state \in {"Closed", "HalfOpen"}
  /\ caller' = [caller EXCEPT ![c] = "running"]
  /\ UNCHANGED <<state, failureCount, successCount, age, streak>>

\* The timeout has passed: the read lock is given up for the write lock ...
Release(c) ==
  /\ caller[c] = "idle"
  /\ state = "Open" /\ Elapsed
  /\ caller' = [caller EXCEPT ![c] = "upgrading"]
  /\ UNCHANGED <<state, failureCount, successCount, age, streak>>

\* Mutant: the state is changed, the count is not.
TrialsKept    == successCount
TrialsAtStart == 0

\* Mutant: a check with the condition the wrong way round.
TrialStateInverted == IF state = "Open" THEN "Open" ELSE "HalfOpen"
TrialState         == "HalfOpen"

\* ... under which nothing is checked again.
ToHalfOpen(c) ==
  /\ caller[c] = "upgrading"
  /\ state' = TrialState /\ successCount' = TrialsAtStart
  /\ caller' = [caller EXCEPT ![c] = "running"]
  /\ streak' = 0
  /\ UNCHANGED <<failureCount, age>>

\* Mutant: one failure too many is tolerated.
AfterFailureLate ==
  IF state = "HalfOpen" \/ (state = "Closed" /\ failureCount >= FailureThreshold)
  THEN "Open" ELSE state
AfterFailure ==
  IF state = "HalfOpen" \/ (state = "Closed" /\ failureCount + 1 >= FailureThreshold)
  THEN "Open" ELSE state

RecordFailure(c) ==
  /\ caller[c] = "running"
  /\ state' = AfterFailure
  /\ \/ state = "Closed" /\ failureCount' = failureCount + 1
     \/ state = "HalfOpen" /\ failureCount' = 0
     \/ state = "Open" /\ UNCHANGED failureCount
  /\ successCount' = 0
  /\ age' = 0
  /\ caller' = [caller EXCEPT ![c] = "idle"]
  /\ streak' = 0

RecordSuccess(c) ==
  /\ caller[c] = "running"
  /\ \/ state = "Closed" /\ failureCount' = 0 /\ UNCHANGED <<state, successCount>>
     \/ state = "Open" /\ UNCHANGED <<state, failureCount, successCount>>
     \/ /\ state = "HalfOpen" /\ successCount + 1 < SuccessThreshold
        /\ successCount' = successCount + 1
        /\ UNCHANGED <<state, failureCount>>
     \/ /\ state = "HalfOpen" /\ successCount + 1 >= SuccessThreshold
        /\ state' = "Closed" /\ failureCount' = 0 /\ successCount' = 0
  /\ caller' = [caller EXCEPT ![c] = "idle"]
  /\ streak' = IF streak = SuccessThreshold THEN streak ELSE streak + 1
  /\ UNCHANGED age

BreakerTick ==
  /\ age <= Timeout
  /\ age' = age + 1
  /\ UNCHANGED <<state, failureCount, successCount, caller, streak>>

CallerNext(c) ==
  \/ Admit(c) \/ Release(c) \/ ToHalfOpen(c) \/ RecordFailure(c) \/ RecordSuccess(c)

BreakerNext == BreakerTick \/ \E c \in Callers : CallerNext(c)

BreakerSpec == BreakerInit /\ [][BreakerNext]_breakerVars

\* Callers keep calling, their functions return, time passes.
BreakerFairness ==
  /\ WF_breakerVars(BreakerTick)
  /\ \A c \in Callers : WF_breakerVars(CallerNext(c))
BreakerFairSpec == BreakerSpec /\ BreakerFairness

-----------------------------------------------------------------------------
(* Properties.                                                             *)

\* A closed breaker has fewer failures than open it, a half-open one fewer
\* successes than close it: nobody finds a breaker that should have moved.
BelowThresholds ==
  /\ state = "Closed" => failureCount < FailureThreshold
  /\ state = "HalfOpen" => successCount < SuccessThreshold

\* The breaker closes only on as many successes in a row, since it became
\* half-open and since the last failure, as the threshold asks for.
ClosesOnSuccesses ==
  [][state # "Closed" /\ state' = "Closed" => streak + 1 >= SuccessThreshold]_breakerVars

\* An open breaker does not stay open while its callers keep calling.
OpenEnds == []<>(state # "Open")
=============================================================================
