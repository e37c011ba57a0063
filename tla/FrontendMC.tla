---------------------------- MODULE FrontendMC ----------------------------
(***************************************************************************)
(* Four components of the browser and the walk of a client through the     *)
(* pages of the graph: they share no state and are checked side by side.   *)
(* Each behaviour is one of one of them, and the others rest.              *)
(*                                                                         *)
(* GraphStream has no filter, one whose graph is small enough to be shown  *)
(* at once, and one whose graph comes in three batches; two loads in       *)
(* flight.  SearchBar has three texts, one of which finds nothing, and     *)
(* three requests.  LevelOfDetail has rates on both sides of and between   *)
(* its thresholds, and gaps below, at and above its delays.  LayoutSim has *)
(* no nodes, two graphs that share a node at different positions, one of   *)
(* which comes with places, and a smaller one.  GraphPages has three ids,  *)
(* pages of one and two rows, a filter and none, and a negative val.       *)
(***************************************************************************)
EXTENDS GraphStream, SearchBar, LevelOfDetail, LayoutSim, GraphPagesMC

\* Three nodes in a path with a link back, and two of them.
TwoAnswers ==
  [f \in {"none", "some", "all"} |->
     CASE f = "none" -> [nodes |-> {}, links |-> {}]
       [] f = "some" -> [nodes |-> {"a", "b"}, links |-> {<<"a", "b">>}]
       [] f = "all"  -> [nodes |-> {"a", "b", "c"},
                         links |-> {<<"a", "b">>, <<"b", "c">>, <<"c", "a">>}]]

FourLayouts ==
  [g \in {"empty", "A", "B", "C"} |->
     CASE g = "empty" -> <<>>
       [] g = "A" -> <<"a", "b">>
       [] g = "B" -> <<"b", "c">>
       [] g = "C" -> <<"c">>]

VARIABLE active    \* the component whose behaviour this is

FrontendStart ==
  /\ StreamInit /\ SearchInit /\ LodInit /\ LayoutInit /\ Init
  /\ active = "stream" \/ (filter = "all" /\ load[1].pc = "fetching")
  /\ active = "layout" \/ (sim.threaded /\ sim.useGiven)
  /\ active = "pages"  \/ (val = [n \in {} |-> 0] /\ size = 1 /\ types = {"user"})

FrontendInit == active \in {"stream", "search", "lod", "layout", "pages"} /\ FrontendStart

browserVars == <<streamVars, searchVars, lodVars, layoutVars>>

FrontendNext ==
  \/ /\ \/ active = "stream" /\ StreamNext /\ UNCHANGED <<searchVars, lodVars, layoutVars>>
        \/ active = "search" /\ SearchNext /\ UNCHANGED <<streamVars, lodVars, layoutVars>>
        \/ active = "lod" /\ LodNext /\ UNCHANGED <<streamVars, searchVars, layoutVars>>
        \/ active = "layout" /\ LayoutNext /\ UNCHANGED <<streamVars, searchVars, lodVars>>
     /\ UNCHANGED <<active, vars>>
  \/ active = "pages" /\ Next /\ UNCHANGED <<active, browserVars>>

\* LodFairness, LayoutFairness and that of FairSpec, each for its own behaviours.
OwnFairness ==
  /\ WF_lodVars(active = "lod" /\ \E rate \in Rates, gap \in Gaps \ {0} : Frame(rate, gap))
  /\ WF_layoutVars(active = "layout" /\ WorkerReceive)
  /\ WF_layoutVars(active = "layout" /\ PageReceive)
  /\ WF_layoutVars(active = "layout" /\ \E last \in BOOLEAN : WorkerTick(last))
  /\ WF_layoutVars(active = "layout" /\ \E last \in BOOLEAN : MainTick(last))
  /\ WF_vars(active = "pages" /\ Page)

FrontendSpec ==
  /\ FrontendInit /\ [][FrontendNext]_<<active, vars, browserVars>>
  /\ OwnFairness

\* The variables keep their types.
FrontendTypeOK == StreamTypeOK /\ SearchTypeOK /\ LodTypeOK /\ LayoutTypeOK /\ TypeOK

\* Wherever links are drawn or moved both their ends are there: in the part of
\* a graph the page shows, and in the scene the layout works on.
LinksAreWhole == LinksHaveEnds /\ LinksMeetNodes

\* The tier ends where the frame rate keeps it, and a graph at its own places.
BrowserSettles == EndsWithTheRate /\ EndsAtOwnPlaces
=============================================================================
