------------------------------ MODULE ReadersMC ------------------------------
(***************************************************************************)
(* The parts of the API that read the graph, side by side: the answers and *)
(* their cache, the diffs between versions with the runs that store them,  *)
(* and the rate limits.  They share no state that is modelled, and each    *)
(* behaviour is one of the part that is active.                            *)
(***************************************************************************)
EXTENDS GraphAPIMC, GraphVersions, RateLimiter, TLC

VARIABLE active

ReadersInit ==
  /\ active \in {"answers", "versions", "rates"}
  /\ ApiInit /\ Init /\ LimiterInit
  /\ active # "answers" => /\ asked = CHOOSE S \in Asked : TRUE
                           /\ tables["legacy"] = GraphA

ReadersNext ==
  \/ active = "answers"  /\ ApiNext     /\ UNCHANGED <<active, vars, limiterVars>>
  \/ active = "versions" /\ Next        /\ UNCHANGED <<active, apiVars, limiterVars>>
  \/ active = "rates"    /\ LimiterNext /\ UNCHANGED <<active, apiVars, vars>>

ReadersSpec ==
  ReadersInit /\ [][ReadersNext]_<<active, apiVars, vars, limiterVars>>

\* Processes are told apart by nothing but their names.
Symmetry == Permutations(Procs)

\* Bound: runs that find links, and store no diffs, up to the first version.
FewWithLinks == Capturable \/ next = 1

Bounded == OnlyTablesRead /\ FewWithLinks

\* The variables keep their types.
ReadersTypeOK == ApiTypeOK /\ TypeOK /\ LimiterTypeOK

\* The answers are those to what was asked, and no older than they may be.
AnswersHold == AnswersAreRecent /\ AnswersFit
=============================================================================
