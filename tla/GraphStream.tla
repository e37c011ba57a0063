---------------------------- MODULE GraphStream ----------------------------
(***************************************************************************)
(* How the 3D view gets its graph: load of components/Graph3D.tsx, the     *)
(* effect that calls it when the filters change, the Reload and Retry      *)
(* buttons, and the loader they use (data/StreamingGraphLoader.ts), which  *)
(* shows NDJSON as it arrives and JSON in batches.                         *)
(*                                                                         *)
(* Each action is what runs between two awaits.  An abort rejects a        *)
(* pending fetch or read, whose continuation then ends the load; the timer *)
(* between two batches of JSON is not recalled.                            *)
(*                                                                         *)
(* Abstractions: the order of nodes and of links (importance; the server's *)
(* order) is any order.                                                    *)
(***************************************************************************)
EXTENDS Integers, FiniteSets

CONSTANTS
  TypeFilters,      \* choices of node types, "none" when no type is enabled
  Answer,       \* what the server holds for each filter: [nodes, links]
  Loads,        \* loads in flight, a bound of the model
  BatchSize,    \* batchSize, in nodes; twice as many links
  YieldAbove    \* the number of nodes up to which JSON is shown at once

ASSUME GraphStreamAssumption ==
  /\ "none" \in TypeFilters
  /\ BatchSize \in Nat \ {0} /\ YieldAbove \in Nat
  /\ \A f \in TypeFilters :
       /\ IsFiniteSet(Answer[f].nodes)
       /\ Answer[f] \in [nodes : {Answer[f].nodes},
                        links : SUBSET (Answer[f].nodes \X Answer[f].nodes)]

VARIABLES
  filter,   \* activeTypes
  page,     \* graphData, error, loading, loadProgress, initialLoadComplete
  load,     \* the loads, idle or in flight
  muddled   \* history: since the page was last at rest two loads were in
            \* flight that no abort kept apart

streamVars == <<filter, page, load, muddled>>

EmptyGraph == [nodes |-> {}, links |-> {}]
Graphs     == UNION {[nodes : SUBSET Answer[f].nodes, links : SUBSET Answer[f].links] : f \in TypeFilters}

\* got: what the load has read (NDJSON) or put into batches (JSON).
\* shown: what it has handed to the page.
Idle == [pc |-> "idle", for |-> "none", signal |-> FALSE, aborted |-> FALSE,
         got |-> EmptyGraph, shown |-> EmptyGraph]

StreamTypeOK ==
  /\ filter \in TypeFilters
  /\ page \in [data : {{}} \cup {{g} : g \in Graphs}, error : BOOLEAN, loading : BOOLEAN,
               progress : BOOLEAN, ready : BOOLEAN]
  /\ \A l \in Loads :
       /\ load[l] \in [pc : {"idle", "fetching", "parsing", "reading", "yielding"}, for : TypeFilters,
                       signal : BOOLEAN, aborted : BOOLEAN, got : Graphs, shown : Graphs]
       /\ load[l].shown.nodes \subseteq load[l].got.nodes
       /\ load[l].shown.links \subseteq load[l].got.links
       /\ load[l].pc = "idle" => load[l] = Idle
  /\ muddled \in BOOLEAN

InFlight == {l \in Loads : load[l].pc # "idle"}

\* No load was stopped by an abort, or will be, while l goes on to the end.
Shown(l)       == load[l].got.nodes = Answer[load[l].for].nodes
Unstoppable(l) == ~load[l].signal \/ (load[l].pc = "yielding" /\ Shown(l))

\* A first render with some filter on: the effect has started a load.
StreamInit ==
  /\ filter \in TypeFilters \ {"none"}
  /\ page = [data |-> {EmptyGraph}, error |-> FALSE, loading |-> TRUE, progress |-> FALSE, ready |-> FALSE]
  /\ \E l \in Loads : load = [k \in Loads |->
       IF k = l THEN [Idle EXCEPT !.pc = "fetching", !.for = filter, !.signal = TRUE] ELSE Idle]
  /\ muddled = FALSE

-----------------------------------------------------------------------------
(* Starting and stopping loads.                                            *)

\* The cleanup of the effect aborts the load the effect started.
\* Mutant: there is no cleanup.
AbortedNone(l) == load[l]
Aborted(l)     == [load[l] EXCEPT !.aborted = load[l].signal]

\* load: the page is emptied and the request sent.
Begin(l, f, signal) ==
  [Idle EXCEPT !.pc = "fetching", !.for = f, !.signal = signal]
Emptied(loading) ==
  page' = [data |-> {EmptyGraph}, error |-> FALSE, loading |-> loading, progress |-> FALSE,
           ready |-> page.ready /\ ~loading]

\* The effect on [activeTypes, load]: load changes with the layout setting,
\* so it also runs for the filter there was.
SetFilter(f) ==
  /\ filter' = f
  /\ IF f = "none"
     THEN /\ page' = [page EXCEPT !.data = {EmptyGraph}, !.error = FALSE, !.loading = FALSE]
          /\ load' = [l \in Loads |-> IF l \in InFlight THEN Aborted(l) ELSE load[l]]
     ELSE \E new \in Loads \ InFlight :
            /\ Emptied(TRUE)
            /\ load' = [l \in Loads |-> IF l = new THEN Begin(l, f, TRUE)
                                        ELSE IF l \in InFlight THEN Aborted(l) ELSE load[l]]
  /\ muddled' = (InFlight # {} /\ (muddled \/ \E l \in InFlight : Unstoppable(l)))

\* The Reload and Retry buttons call load without a signal.  While a load has
\* shown nothing, a skeleton stands where the buttons are.
Reload ==
  /\ page.loading => page.ready
  /\ IF filter = "none"
     THEN Emptied(FALSE) /\ UNCHANGED load
     ELSE \E new \in Loads \ InFlight :
            /\ Emptied(TRUE)
            /\ load' = [load EXCEPT ![new] = Begin(new, filter, FALSE)]
  /\ muddled' = (InFlight # {})
  /\ UNCHANGED filter

-----------------------------------------------------------------------------
(* One load.                                                               *)

\* A load goes on: it is not aborted, or at a place where nobody asks.
Step(l, pc) == load[l].pc = pc /\ ~load[l].aborted

\* The finally of load.
NotLoading(l) == ~load[l].signal \/ ~load[l].aborted

Quit(l) == load' = [load EXCEPT ![l] = Idle] /\ UNCHANGED <<filter, muddled>>

\* onComplete, then the finally.
Complete(l, g) ==
  /\ page' = [page EXCEPT !.data = {g}, !.progress = FALSE, !.ready = TRUE,
                          !.loading = IF NotLoading(l) THEN FALSE ELSE @]
  /\ Quit(l)

\* onProgress.
Progress(l, pc, got, shown) ==
  /\ load' = [load EXCEPT ![l].pc = pc, ![l].got = got, ![l].shown = shown]
  /\ page' = IF shown = load[l].shown THEN page
             ELSE [page EXCEPT !.data = {shown}, !.progress = TRUE,
                     !.ready = @ \/ (load[l].shown.nodes = {} /\ shown.nodes # {})]
  /\ UNCHANGED <<filter, muddled>>

\* The response has come; its content type says what follows.
Respond(l, pc) ==
  /\ Step(l, "fetching")
  /\ load' = [load EXCEPT ![l].pc = pc]
  /\ UNCHANGED <<filter, page, muddled>>

\* The network, the status or the body is bad: onError, then the catch.
Fail(l) ==
  /\ Step(l, "fetching") \/ Step(l, "parsing") \/ Step(l, "reading")
  /\ page' = [page EXCEPT !.data = {}, !.error = TRUE, !.progress = FALSE,
                          !.loading = IF NotLoading(l) THEN FALSE ELSE @]
  /\ Quit(l)

\* The pending promise is rejected with an AbortError, which load ignores.
Reject(l) ==
  /\ load[l].aborted /\ load[l].pc \in {"fetching", "parsing", "reading"}
  /\ UNCHANGED page
  /\ Quit(l)

-----------------------------------------------------------------------------
(* JSON.                                                                   *)

\* The links that come with a batch: those of its nodes whose two ends are
\* there by now.
BatchLinks(f, batch, nodes) ==
  {k \in Answer[f].links : (k[1] \in batch /\ k[2] \in nodes) \/ (k[2] \in batch /\ k[1] \in nodes)}

AddBatch(l, batch) ==
  LET nodes == load[l].got.nodes \cup batch
  IN  [nodes |-> nodes, links |-> load[l].got.links \cup BatchLinks(load[l].for, batch, nodes)]

BatchDue(l) == Step(l, "parsing") \/ Step(l, "yielding")

\* The next nodes by importance, and a timer of 0 ms after them.
Batch(l) ==
  LET all == Answer[load[l].for].nodes
      todo == all \ load[l].got.nodes
      size == IF Cardinality(todo) < BatchSize THEN Cardinality(todo) ELSE BatchSize
  IN  /\ BatchDue(l)
      /\ Cardinality(all) > YieldAbove /\ todo # {}
      /\ \E batch \in {S \in SUBSET todo : Cardinality(S) = size} :
           Progress(l, "yielding", AddBatch(l, batch), AddBatch(l, batch))

\* A small graph: all its batches without a pause.
WholeJSON(l) ==
  LET all == Answer[load[l].for].nodes
  IN  /\ Step(l, "parsing")
      /\ Cardinality(all) <= YieldAbove
      /\ Complete(l, AddBatch(l, all))

\* The timer after the last batch: the loop ends, and nobody asks again.
EndJSON(l) ==
  /\ load[l].pc = "yielding" /\ Shown(l)
  /\ Complete(l, load[l].got)

\* The timer after another batch finds the load aborted.
StopJSON(l) ==
  /\ load[l].pc = "yielding" /\ load[l].aborted /\ ~Shown(l)
  /\ UNCHANGED page
  /\ Quit(l)

-----------------------------------------------------------------------------
(* NDJSON: the nodes, then the links.                                      *)

\* What is in full batches: a batch is closed by its BatchSize-th node or its
\* 2 * BatchSize-th link.
Closed(n, size) == (n \div size) * size

\* Mutant: links are not held back until their nodes are shown.
InBatchesLoose(got, shown) ==
  Cardinality(shown.links) = Closed(Cardinality(got.links), BatchSize)
InBatches(got, shown) ==
  LET links == Closed(Cardinality(got.links), 2 * BatchSize)
  IN  /\ Cardinality(shown.links) = links
      /\ IF links > 0 THEN shown.nodes = got.nodes
         ELSE Cardinality(shown.nodes) = Closed(Cardinality(got.nodes), BatchSize)

\* A chunk completes some lines.
ReadChunk(l) ==
  LET all == Answer[load[l].for] old == load[l]
  IN  /\ Step(l, "reading")
      /\ \E ns \in SUBSET all.nodes, ks \in SUBSET all.links :
           LET got == [nodes |-> ns, links |-> ks]
           IN  /\ old.got.nodes \subseteq ns /\ old.got.links \subseteq ks /\ got # old.got
               /\ ks # {} => ns = all.nodes
               /\ \E sn \in SUBSET ns, sk \in SUBSET ks :
                    LET shown == [nodes |-> sn, links |-> sk]
                    IN  /\ old.shown.nodes \subseteq sn /\ old.shown.links \subseteq sk
                        /\ InBatches(got, shown)
                        /\ Progress(l, "reading", got, shown)

\* The stream ends, with at most one line not yet closed by a newline.
ReadEnd(l) ==
  LET all == Answer[load[l].for] got == load[l].got
  IN  /\ Step(l, "reading")
      /\ Cardinality(all.nodes \ got.nodes) + Cardinality(all.links \ got.links) <= 1
      /\ Complete(l, all)

-----------------------------------------------------------------------------
LoadNext(l) ==
  \/ Respond(l, "parsing") \/ Respond(l, "reading")
  \/ Fail(l) \/ Reject(l)
  \/ Batch(l) \/ WholeJSON(l) \/ EndJSON(l) \/ StopJSON(l)
  \/ ReadChunk(l) \/ ReadEnd(l)

StreamNext ==
  \/ \E f \in TypeFilters : SetFilter(f)
  \/ Reload
  \/ \E l \in Loads : LoadNext(l)

StreamSpec == StreamInit /\ [][StreamNext]_streamVars

-----------------------------------------------------------------------------
(* Properties.                                                             *)

\* Whatever part of a graph the page shows, both ends of a link are in it.
LinksHaveEnds ==
  \A g \in page.data : g.links \subseteq g.nodes \X g.nodes

\* When nothing is in flight the page does not say it is loading; it shows a
\* progress bar only where a load was aborted by turning the last type off.
QuietPage ==
  InFlight = {} => ~page.loading /\ (page.progress => filter = "none")

\* At rest the page does not say it is loading, and shows the whole graph of the
\* filters, or that it failed, unless loads overlapped that no abort kept apart:
\* one without a signal, or one that was aborted after its last batch.
RestingPageIsCurrent ==
  /\ QuietPage
  /\ InFlight = {} /\ ~muddled =>
       page.error \/ page.data = {IF filter = "none" THEN EmptyGraph ELSE Answer[filter]}
=============================================================================
