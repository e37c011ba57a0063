----------------------------- MODULE DisplayMC -----------------------------
(***************************************************************************)
(* What the graph is shown by: the detection of its communities, the parts *)
(* of the browser and the walk of a client through its pages.  They share  *)
(* no state and are checked side by side: each behaviour is one of one of  *)
(* them, and the others rest in their initial states.                      *)
(***************************************************************************)
EXTENDS CommunitiesMC, FrontendMC

DisplayInit ==
  /\ active \in {"detection", "stream", "search", "lod", "layout", "pages"}
  /\ DetectionInit /\ FrontendStart

DisplayNext ==
  \/ /\ active = "detection" /\ DetectionNext
     /\ UNCHANGED <<active, vars, browserVars>>
  \/ FrontendNext /\ UNCHANGED detectionVars

\* The fairness of DetectionFairSpec, for the behaviours of the detection.
DetectionFairness == WF_detectionVars(active = "detection" /\ stage # "idle" /\ DetectionNext)

DisplaySpec ==
  /\ DisplayInit
  /\ [][DisplayNext]_<<active, detectionVars, vars, browserVars>>
  /\ DetectionFairness /\ OwnFairness
=============================================================================
