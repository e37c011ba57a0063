----------------------------- MODULE LayoutSim -----------------------------
(***************************************************************************)
(* From a graph to the places where its nodes stand on the screen: the     *)
(* effects of components/Graph3DInstanced.tsx, ForceSimulation             *)
(* (rendering/ForceSimulation.ts), its worker (workers/layoutWorker.ts)    *)
(* and what the node and the link renderer keep of it.                     *)
(*                                                                         *)
(* The worker sends places without names, in the order of its nodes; the   *)
(* page gives them to the nodes it has by then, in their order.            *)
(*                                                                         *)
(* Abstractions: a place is whom it was computed for and by which graph's  *)
(* layout ("server" for a place that came with the graph, "none" for the   *)
(* origin).  All effects of one commit run in one action.  Left out: types *)
(* of nodes, labels, colours, the camera, culling and picking, fixed       *)
(* nodes, the forces.                                                      *)
(***************************************************************************)
EXTENDS Integers, Sequences, SequencesExt

CONSTANTS
  Order,       \* the nodes of each graph, in its order
  Placed,      \* the graphs that come with places for most of their nodes
  MaxChanges,  \* changes of the page, a bound of the model
  MaxPosts     \* messages on the way to the page, a bound of the model

Layouts == DOMAIN Order

ASSUME LayoutAssumption ==
  /\ \A g \in Layouts : Order[g] \in Seq(ToSet(Order[g]))
  /\ "empty" \in Layouts /\ Order["empty"] = <<>>
  /\ Placed \subseteq {g \in Layouts : Order[g] # <<>>}
  /\ MaxChanges \in Nat /\ MaxPosts \in Nat \ {0}

VARIABLES
  view,       \* the filtered graph, and how often the page changed
  sim,        \* ForceSimulation: nodes with their places, hasPrecomputedPositions,
              \* useWorker, the simulation of the main thread, its configuration
  toWorker,   \* messages to the worker
  worker,     \* the worker's graph, and whether its simulation runs
  toPage,     \* the worker's messages: the graph whose places they hold
  scene,      \* the places the node renderer shows and those the links end at
  marred      \* history: the scene was made anew, or coloured anew, and no data
              \* came since; the worker was ever given nodes

layoutVars == <<view, sim, toWorker, worker, toPage, scene, marred>>

NodesOf(g) == ToSet(Order[g])

\* The places that come with a graph.
Given(g) == [n \in NodesOf(g) |-> <<n, IF g \in Placed THEN "server" ELSE "none">>]

\* The places that the layout of a graph computes, once it had a tick.
Computed(g) == [n \in NodesOf(g) |-> <<n, g>>]

AllNodes == UNION {NodesOf(g) : g \in Layouts}
Places   == AllNodes \X (Layouts \cup {"server", "none"})
Spread   == UNION {[S -> Places] : S \in SUBSET AllNodes}

LayoutTypeOK ==
  /\ view \in [graph : Layouts, changes : 0..MaxChanges]
  /\ DOMAIN sim = {"at", "pre", "threaded", "main", "useGiven"}
  /\ sim.at \in Spread /\ DOMAIN sim.at = NodesOf(view.graph)
  /\ sim.pre \in BOOLEAN /\ sim.threaded \in BOOLEAN /\ sim.useGiven \in BOOLEAN
  /\ sim.main \in {"none", "running", "still"}
  /\ toWorker \in Seq([type : {"init", "updatePhysics", "stop"}, graph : Layouts])
  /\ worker \in [graph : Layouts \cup {"none"}, running : BOOLEAN]
  /\ toPage \in BoundedSeq(Layouts, MaxPosts)
  /\ DOMAIN scene = {"at", "ends"} /\ scene.at \in Spread /\ scene.ends \in Spread
  /\ marred \in [rebuilt : BOOLEAN, recoloured : BOOLEAN, laidOut : BOOLEAN]

\* A mounted page without data.  App always gives physics, so the first effects
\* send two messages.
LayoutInit ==
  /\ view = [graph |-> "empty", changes |-> 0]
  /\ \E threaded, useGiven \in BOOLEAN :
       /\ sim = [at |-> Given("empty"), pre |-> FALSE, threaded |-> threaded, useGiven |-> useGiven,
                 main |-> IF threaded THEN "none" ELSE "running"]
       /\ toWorker = IF threaded THEN <<[type |-> "init", graph |-> "empty"],
                                        [type |-> "updatePhysics", graph |-> "empty"]>>
                     ELSE <<>>
  /\ worker = [graph |-> "none", running |-> FALSE]
  /\ toPage = <<>>
  /\ scene = [at |-> Given("empty"), ends |-> Given("empty")]
  /\ marred = [rebuilt |-> FALSE, recoloured |-> FALSE, laidOut |-> FALSE]

-----------------------------------------------------------------------------
(* The renderers.                                                          *)

\* updatePositions of the node renderer: nodes it does not have are ignored,
\* nodes without a new place stay.
MovedTo(shown, places) ==
  [n \in DOMAIN shown |-> IF n \in DOMAIN places THEN places[n] ELSE shown[n]]

\* onTick.
\* Mutant: the links are not told.
TickedNodesOnly(places) == [scene EXCEPT !.at = MovedTo(@, places)]
Ticked(places)          == [at |-> MovedTo(scene.at, places), ends |-> places]

Mended(places) ==
  [marred EXCEPT !.recoloured = @ /\ ~(DOMAIN scene.at \subseteq DOMAIN places)]

-----------------------------------------------------------------------------
(* The effects of the page.                                                *)

\* stop(), from the cleanup of the simulation's effect.
Stop == IF sim.threaded THEN <<[type |-> "stop", graph |-> view.graph]>> ELSE <<>>

\* setData: places that came with most nodes are used as they are, if the
\* simulation was created to do so; anything else is laid out.
Pre(g) == sim.useGiven /\ g \in Placed

\* Mutant: the worker is only told the first time.
InitOnce(g) ==
  IF Pre(g) \/ worker.graph # "none" THEN <<>> ELSE <<[type |-> "init", graph |-> g]>>
InitMessage(g) == IF Pre(g) THEN <<>> ELSE <<[type |-> "init", graph |-> g]>>

Simulated(g) == CASE sim.threaded          -> sim.main
                  [] ~sim.threaded /\ Pre(g) -> IF sim.main = "running" THEN "still" ELSE sim.main
                  [] OTHER                 -> "running"

DataSet(g) == [sim EXCEPT !.at = Given(g), !.pre = Pre(g), !.main = Simulated(g)]

Counted == view.changes < MaxChanges

\* filtered changed: cleanup, node renderer, simulation, links.
SetGraph(g) ==
  /\ Counted /\ view' = [graph |-> g, changes |-> view.changes + 1]
  /\ sim' = DataSet(g)
  /\ toWorker' = toWorker \o Stop \o (IF sim.threaded THEN InitMessage(g) ELSE <<>>)
  /\ scene' = [at |-> Given(g), ends |-> IF g \in Placed THEN Given(g) ELSE <<>>]
  /\ marred' = [rebuilt |-> FALSE, recoloured |-> FALSE,
                laidOut |-> marred.laidOut \/ (~Pre(g) /\ Order[g] # <<>>)]
  /\ UNCHANGED <<worker, toPage>>

\* physics, showLabels or usePrecomputedLayout changed: the simulation gets the
\* same data again, and with physics one message more.
Relayout(physics) ==
  LET g == view.graph
  IN  /\ Counted /\ view' = [view EXCEPT !.changes = @ + 1]
      /\ sim' = DataSet(g)
      /\ toWorker' = IF ~sim.threaded THEN toWorker
                     ELSE toWorker \o Stop \o InitMessage(g)
                            \o (IF physics THEN <<[type |-> "updatePhysics", graph |-> g]>> ELSE <<>>)
      /\ IF Pre(g) THEN scene' = Ticked(Given(g)) /\ marred' = Mended(Given(g))
         ELSE UNCHANGED <<scene, marred>>
      /\ UNCHANGED <<worker, toPage>>

\* The scene's effect: new renderers without data, and no other effect runs.
Rebuild ==
  /\ Counted /\ view' = [view EXCEPT !.changes = @ + 1]
  /\ scene' = [at |-> <<>>, ends |-> <<>>]
  /\ marred' = [marred EXCEPT !.rebuilt = TRUE, !.recoloured = FALSE]
  /\ UNCHANGED <<sim, toWorker, worker, toPage>>

\* communityResult changed: the node renderer gets the nodes again, at the
\* places they came with.
Recolour ==
  /\ Counted /\ view' = [view EXCEPT !.changes = @ + 1]
  /\ scene' = [scene EXCEPT !.at = Given(view.graph)]
  /\ marred' = [marred EXCEPT !.recoloured = TRUE]
  /\ UNCHANGED <<sim, toWorker, worker, toPage>>

-----------------------------------------------------------------------------
(* The worker, and the simulation of the main thread.                      *)

\* updatePhysics restarts the simulation there is.
WorkerReceive ==
  /\ toWorker # <<>>
  /\ toWorker' = Tail(toWorker)
  /\ worker' = CASE Head(toWorker).type = "init" -> [graph |-> Head(toWorker).graph, running |-> TRUE]
                 [] Head(toWorker).type = "stop" -> [worker EXCEPT !.running = FALSE]
                 [] Head(toWorker).type = "updatePhysics" ->
                      [worker EXCEPT !.running = worker.graph # "none"]
  /\ UNCHANGED <<view, sim, toPage, scene, marred>>

\* A tick, perhaps the last; sendPositions sends nothing for no nodes.
WorkerTick(last) ==
  /\ worker.running /\ Len(toPage) < MaxPosts
  /\ worker' = [worker EXCEPT !.running = ~last]
  /\ toPage' = IF Order[worker.graph] = <<>> THEN toPage ELSE Append(toPage, worker.graph)
  /\ UNCHANGED <<view, sim, toWorker, scene, marred>>

\* handleWorkerMessage: places by position in the two orders.
ByIndex(from, to) ==
  LET both == {i \in DOMAIN Order[to] : i <= Len(Order[from])}
  IN  [n \in {Order[to][i] : i \in both} |->
         <<Order[from][CHOOSE i \in both : Order[to][i] = n], from>>]

PageReceive ==
  LET places == ByIndex(Head(toPage), view.graph)
  IN  /\ toPage # <<>>
      /\ toPage' = Tail(toPage)
      /\ sim' = [sim EXCEPT !.at = MovedTo(@, places)]
      /\ scene' = Ticked(places) /\ marred' = Mended(places)
      /\ UNCHANGED <<view, toWorker, worker>>

\* The simulation of the main thread after a failure of the worker: none for no
\* nodes, one that rests at once for places that are used as they are.
FallenBack == CASE Order[view.graph] = <<>> -> sim.main
                [] sim.pre                  -> "still"
                [] OTHER                    -> "running"

\* The error handler: the worker is terminated with its messages, and the main
\* thread goes on from the places the nodes have.
WorkerError ==
  /\ sim.threaded
  /\ sim' = [sim EXCEPT !.threaded = FALSE, !.main = FallenBack]
  /\ toWorker' = <<>> /\ toPage' = <<>>
  /\ worker' = [graph |-> "none", running |-> FALSE]
  /\ IF sim.pre THEN scene' = Ticked(sim.at) /\ marred' = Mended(sim.at)
     ELSE UNCHANGED <<scene, marred>>
  /\ UNCHANGED view

MainTick(last) ==
  /\ sim.main = "running"
  /\ sim' = [sim EXCEPT !.at = Computed(view.graph), !.main = IF last THEN "still" ELSE @]
  /\ scene' = Ticked(sim'.at) /\ marred' = Mended(sim'.at)
  /\ UNCHANGED <<view, toWorker, worker, toPage>>

-----------------------------------------------------------------------------
LayoutNext ==
  \/ \E g \in Layouts : SetGraph(g)
  \/ \E physics \in BOOLEAN : Relayout(physics)
  \/ Rebuild \/ Recolour
  \/ WorkerReceive \/ PageReceive \/ WorkerError
  \/ \E last \in BOOLEAN : WorkerTick(last) \/ MainTick(last)

\* Both event loops run, and so do the timers of d3.
LayoutFairness ==
  /\ WF_layoutVars(WorkerReceive)
  /\ WF_layoutVars(PageReceive)
  /\ WF_layoutVars(\E last \in BOOLEAN : WorkerTick(last))
  /\ WF_layoutVars(\E last \in BOOLEAN : MainTick(last))

LayoutSpec == LayoutInit /\ [][LayoutNext]_layoutVars /\ LayoutFairness

-----------------------------------------------------------------------------
(* Properties.                                                             *)

\* Where a link is drawn, it ends where its node stands, unless the nodes were
\* given new colours since the last tick.
LinksMeetNodes ==
  ~marred.recoloured =>
    \A n \in DOMAIN scene.ends \cap DOMAIN scene.at : scene.ends[n] = scene.at[n]

\* A graph ends at its own places and all of its nodes are shown, whatever order
\* the messages of earlier graphs, changes of physics and the failure of the
\* worker came in, unless the scene was made or coloured anew: at the places it
\* came with, if they are used and the worker never had another graph to lay
\* out, and else at those computed for it.
EndsAtOwnPlaces ==
  []<>(\/ marred.rebuilt \/ marred.recoloured
       \/ IF sim.pre THEN marred.laidOut \/ scene.at = Given(view.graph)
          ELSE scene.at = Computed(view.graph))
=============================================================================
