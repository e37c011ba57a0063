--------------------------- MODULE GraphVersions ---------------------------
(***************************************************************************)
(* Versions of the graph and the diffs between them: what a precalculation *)
(* records (graph/versioning.go) and what GET /api/graph/diff returns.     *)
(*                                                                         *)
(* Abstractions: the graph maps entities (nodes and links) to values, 0    *)
(* when absent; how a run computes it is module Precalc, here it makes any *)
(* change.  A diff entry is an entity and its new value, 0 for a removal.  *)
(* Positions count as values; names are in no diff and are left out.  The  *)
(* response cache is left out: its entries live for 300 ns (Set takes a    *)
(* Duration and is given 300), so no later request can find one.           *)
(***************************************************************************)
EXTENDS Integers, FiniteSets, FiniteSetsExt

CONSTANTS
  Entities, Values,   \* nodes and links, and the values they take
  Links,              \* those that are links
  Procs, Clients,     \* precalculation processes, consumers of the diffs
  Retention,          \* GRAPH_VERSION_RETENTION
  MaxVersion,         \* bound of the model on the versions created
  MaxFaults           \* bound on the statements that fail, the processes that
                      \* die in a run, and the purges of cmd/integrity

ASSUME GraphVersionsAssumption ==
  /\ 0 \in Values /\ Values \subseteq Nat
  /\ Retention \in Nat \ {0}    \* CleanupOldVersions raises smaller values to 1
  /\ Links \subseteq Entities
  /\ MaxVersion \in Nat /\ MaxFaults \in Nat

VARIABLES
  graph,      \* graph_nodes and graph_links
  versions,   \* ids in graph_versions, all with status 'completed'
  next,       \* the id the sequence of graph_versions gives next
  diffs,      \* graph_diffs of each version
  tagged,     \* precalc_state.current_version_id, 0 for NULL
  run,        \* what each process is doing
  client,     \* what each consumer has, and its request under way
  faults,     \* statements that failed, processes that died and purges so far
  published,  \* history: the graph when each version was created
  spoilt      \* history: versions whose run failed, overlapped or met a purge,
              \* and the next one when the graph has changed without a version

vars == <<graph, versions, next, diffs, tagged, run, client, faults, published, spoilt>>
log  == <<versions, next, diffs, tagged, published>>

Graphs   == [Entities -> Values]
Empty    == [e \in Entities |-> 0]
Ids      == 1..MaxVersion
Entries  == Entities \X Values
Newest   == IF versions = {} THEN 0 ELSE Max(versions)

\* A snapshot: the set of the one graph captured, {} when capturing failed.
Snapshots == {{}} \cup {{g} : g \in Graphs}

PCs   == {"idle", "changing", "created", "tagged", "diffing", "cleanup"}
NoRun == [pc |-> "idle", old |-> {}, id |-> 0, todo |-> {}, good |-> TRUE]

\* ver = 0: the consumer holds no version.  sure is history: it has followed
\* no spoilt version, none whose diffs were still being stored, and none that
\* was pruned while its request was under way.
NoClient == [pc |-> "idle", ver |-> 0, cur |-> 0, view |-> Empty, sure |-> TRUE]

AllIdle == \A p \in Procs : run[p].pc = "idle"

TypeOK ==
  /\ graph \in Graphs
  /\ versions \subseteq Ids /\ next \in 1..MaxVersion + 1
  /\ \A v \in versions : v < next
  /\ diffs \in [Ids -> SUBSET Entries]
  /\ tagged \in versions \cup {0}
  /\ run \in [Procs -> [pc : PCs, old : Snapshots, id : Ids \cup {0},
                        todo : SUBSET Entries, good : BOOLEAN]]
  /\ client \in [Clients -> [pc : {"idle", "check", "fetch"}, ver : Ids \cup {0},
                             cur : Ids \cup {0}, view : Graphs, sure : BOOLEAN]]
  /\ faults \in 0..MaxFaults
  /\ published \in [Ids -> Graphs]
  /\ spoilt \subseteq 1..MaxVersion + 1

Init ==
  /\ graph = Empty /\ versions = {} /\ next = 1
  /\ diffs = [v \in Ids |-> {}] /\ tagged = 0
  /\ run = [p \in Procs |-> NoRun]
  /\ client = [c \in Clients |-> NoClient] /\ faults = 0
  /\ published = [v \in Ids |-> Empty]
  /\ spoilt = {}

-----------------------------------------------------------------------------
(* A run of the precalculation.                                            *)

At(p, pc) == run[p].pc = pc

Fault   == faults < MaxFaults /\ faults' = faults + 1
NoFault == UNCHANGED faults

\* History: the runs under way and their versions are spoilt.
SpoiltRuns == [p \in Procs |-> IF At(p, "idle") THEN run[p] ELSE [run[p] EXCEPT !.good = FALSE]]
SpoiltIds  == spoilt \cup ({run[p].id : p \in Procs} \ {0})

\* Versions that are there before all of their diffs are.
Storing == {run[p].id : p \in {p \in Procs : run[p].pc \in {"created", "tagged", "diffing"}}}

\* CaptureGraphSnapshot reads links as rows with a NULL name and val, which do
\* not scan into strings: there is no snapshot of a graph that has links.
Capturable == \A l \in Links : graph[l] = 0

\* The snapshot before the first change; if it fails the run goes on without one.
Begin(p) ==
  /\ At(p, "idle")
  /\ \E snap \in {{graph}, {}} :
       /\ \/ Capturable /\ snap # {} /\ NoFault
          \/ ~Capturable /\ snap = {} /\ NoFault
          \/ Capturable /\ snap = {} /\ Fault
       /\ run' = [SpoiltRuns EXCEPT ![p] = [NoRun EXCEPT !.pc = "changing", !.old = snap,
                                                     !.good = AllIdle /\ snap # {}]]
  /\ spoilt' = SpoiltIds
  /\ UNCHANGED <<graph, log, client>>

\* The statements of the run on the graph tables: upserts, and the clear.
Change(p) ==
  /\ At(p, "changing")
  /\ \E e \in Entities, x \in Values \ {0} : graph' = [graph EXCEPT ![e] = x]
  /\ UNCHANGED <<log, run, client, spoilt, faults>>

ClearAll(p) ==
  /\ At(p, "changing")
  /\ graph' = Empty
  /\ UNCHANGED <<log, run, client, spoilt, faults>>

\* CreateGraphVersion: the version is 'completed' from its first moment.
CreateVersion(p) ==
  /\ At(p, "changing")
  /\ next <= MaxVersion
  /\ versions' = versions \cup {next}
  /\ next' = next + 1
  /\ published' = [published EXCEPT ![next] = graph]
  /\ run' = [run EXCEPT ![p].pc = "created", ![p].id = next]
  /\ spoilt' = IF run[p].good THEN spoilt ELSE spoilt \cup {next}
  /\ UNCHANGED <<graph, diffs, tagged, client, faults>>

\* Foreign keys: a row that refers to a version is refused unless it exists.
\* Mutant: no REFERENCES clause.
ReferableAlways(v) == v \in Ids
Referable(v)       == v \in versions

\* UpdatePrecalcStateVersion; its error is logged.  Without a first snapshot
\* there is nothing to compare with.
TagState(p) ==
  /\ At(p, "created")
  /\ \/ Referable(run[p].id) /\ tagged' = run[p].id /\ NoFault
     \/ ~Referable(run[p].id) /\ UNCHANGED tagged /\ NoFault
     \/ Referable(run[p].id) /\ UNCHANGED tagged /\ Fault
  /\ run' = [run EXCEPT ![p].pc = IF run[p].old = {} THEN "cleanup" ELSE "tagged"]
  /\ UNCHANGED <<graph, versions, next, diffs, client, published, spoilt>>

\* CalculateAndStoreDiffs: additions, updates and removals.
\* Mutant: entities that are gone are not looked at.
DiffNoRemovals(old, new) ==
  {<<e, new[e]>> : e \in {f \in Entities : new[f] \notin {old[f], 0}}}
Diff(old, new) == {<<e, new[e]>> : e \in {f \in Entities : new[f] # old[f]}}

\* The second snapshot.
CaptureNew(p) ==
  /\ At(p, "tagged")
  /\ \E old \in run[p].old :
       \/ /\ Capturable /\ NoFault
          /\ run' = [run EXCEPT ![p].pc = "diffing", ![p].old = {},
                                ![p].todo = Diff(old, graph)]
          /\ UNCHANGED spoilt
       \/ /\ IF Capturable THEN Fault ELSE NoFault
          /\ run' = [run EXCEPT ![p].pc = "cleanup", ![p].old = {}]
          /\ spoilt' = spoilt \cup {run[p].id}
  /\ UNCHANGED <<graph, log, client>>

\* One INSERT per entry, in the order of a Go map; the first error ends it.
StoreDiff(p) ==
  /\ At(p, "diffing")
  /\ Referable(run[p].id)
  /\ \E x \in run[p].todo :
       /\ diffs' = [diffs EXCEPT ![run[p].id] = @ \cup {x}]
       /\ run' = [run EXCEPT ![p].todo = @ \ {x}]
  /\ UNCHANGED <<graph, versions, next, tagged, client, published, spoilt, faults>>

DiffsStored(p) ==
  /\ At(p, "diffing")
  /\ IF run[p].todo = {} \/ ~Referable(run[p].id) THEN NoFault ELSE Fault
  /\ run' = [run EXCEPT ![p].pc = "cleanup", ![p].todo = {}]
  /\ spoilt' = IF run[p].todo = {} THEN spoilt ELSE spoilt \cup {run[p].id}
  /\ UNCHANGED <<graph, log, client>>

\* CleanupOldVersions: DELETE all but the newest, diffs cascade; the foreign
\* key of precalc_state.current_version_id refuses to lose its version.
Kept == {v \in versions : Cardinality({w \in versions : w > v}) < Retention}

Cleanup(p) ==
  /\ At(p, "cleanup")
  /\ run' = [run EXCEPT ![p] = NoRun]
  /\ \/ /\ tagged \in Kept \cup {0}
        /\ versions' = Kept
        /\ diffs' = [v \in Ids |-> IF v \in Kept THEN diffs[v] ELSE {}]
        /\ NoFault
     \/ /\ IF tagged \in Kept \cup {0} THEN Fault ELSE NoFault
        /\ UNCHANGED <<versions, diffs>>
  /\ UNCHANGED <<graph, next, tagged, client, published, spoilt>>

\* The run returns an error, or CreateGraphVersion fails: no version.
FailRun(p) ==
  /\ Fault
  /\ At(p, "changing")
  /\ run' = [run EXCEPT ![p] = NoRun]
  /\ spoilt' = spoilt \cup {next}
  /\ UNCHANGED <<graph, log, client>>

Crash(p) ==
  /\ Fault
  /\ ~At(p, "idle")
  /\ run' = [run EXCEPT ![p] = NoRun]
  /\ spoilt' = spoilt \cup {IF run[p].id = 0 THEN next ELSE run[p].id}
  /\ UNCHANGED <<graph, log, client>>

\* cmd/integrity, beside the runs: orphan nodes and dangling links go.
Purge ==
  /\ Fault
  /\ \E e \in Entities : graph[e] # 0 /\ graph' = [graph EXCEPT ![e] = 0]
  /\ run' = SpoiltRuns
  /\ spoilt' = SpoiltIds \cup {next}
  /\ UNCHANGED <<log, client>>

-----------------------------------------------------------------------------
(* Consumers: VersionHandler.GetDiffSince, statement by statement.         *)

\* External: a consumer that holds exactly the newest version.
Subscribe(c) ==
  /\ client[c].pc = "idle" /\ client[c].ver = 0
  /\ Newest # 0 /\ AllIdle
  /\ client' = [client EXCEPT ![c] = [pc |-> "idle", ver |-> Newest, cur |-> 0,
                                      view |-> published[Newest], sure |-> TRUE]]
  /\ UNCHANGED <<graph, log, run, spoilt, faults>>

\* GetCurrentGraphVersion; 'since' must be less.
ReadCurrent(c) ==
  /\ client[c].pc = "idle" /\ client[c].ver # 0
  /\ client[c].ver < Newest
  /\ client' = [client EXCEPT ![c].pc = "check", ![c].cur = Newest]
  /\ UNCHANGED <<graph, log, run, spoilt, faults>>

\* GetGraphVersion(since): pruned versions are refused and the consumer has to
\* fetch the whole graph again.
CheckSince(c) ==
  /\ client[c].pc = "check"
  /\ client' = [client EXCEPT ![c] = IF @.ver \in versions THEN [@ EXCEPT !.pc = "fetch"]
                                                           ELSE NoClient]
  /\ UNCHANGED <<graph, log, run, spoilt, faults>>

\* GetGraphDiffsSinceVersion: WHERE version_id > since, ordered by version.
\* Mutants: version_id > since + 1; up to the version of the check only.
ReturnedLate(c)  == {v \in versions : v > client[c].ver + 1}
ReturnedNamed(c) == {v \in versions : v > client[c].ver /\ v <= client[c].cur}
Returned(c)      == {v \in versions : v > client[c].ver}

\* Entity e after the changes of the versions V, taken in order, on base.
Patched(base, V, e) ==
  LET touching == {v \in V : \E x \in Values : <<e, x>> \in diffs[v]}
  IN IF touching = {} THEN base
     ELSE CHOOSE x \in Values : <<e, x>> \in diffs[Max(touching)]

FetchDiffs(c) ==
  /\ client[c].pc = "fetch"
  /\ client' = [client EXCEPT ![c] =
       [pc |-> "idle", ver |-> @.cur, cur |-> 0,
        sure |-> @.sure /\ client[c].ver + 1 .. Newest \subseteq versions \ (spoilt \cup Storing),
        view |-> [e \in Entities |-> Patched(@.view[e], Returned(c), e)]]]
  /\ UNCHANGED <<graph, log, run, spoilt, faults>>

-----------------------------------------------------------------------------
RunNext(p) ==
  \/ Begin(p) \/ Change(p) \/ ClearAll(p) \/ CreateVersion(p)
  \/ TagState(p) \/ CaptureNew(p) \/ StoreDiff(p) \/ DiffsStored(p) \/ Cleanup(p)
  \/ FailRun(p) \/ Crash(p)

ClientNext(c) ==
  \/ Subscribe(c) \/ ReadCurrent(c) \/ CheckSince(c) \/ FetchDiffs(c)

Next ==
  \/ Purge
  \/ \E p \in Procs : RunNext(p)
  \/ \E c \in Clients : ClientNext(c)

Spec == Init /\ [][Next]_vars

-----------------------------------------------------------------------------
(* Properties.                                                             *)

\* The newest versions, as many as are to be retained, are there, however many
\* processes clean up, fail or die.
NewestKept == \A v \in Ids : v \in next - Retention .. next - 1 => v \in versions

\* migrations/000027_graph_versioning.up.sql:56, graph_diffs "stores
\* differences between graph versions": once its run is over, the diffs of a
\* version turn the graph of the version before it into its own, whatever
\* failed, crashed or overlapped before and after that run.
DiffLogComplete ==
  \A v \in versions \ spoilt :
    v - 1 \in versions /\ (\A p \in Procs : run[p].id # v) =>
      published[v] = [e \in Entities |-> Patched(published[v - 1][e], {v}, e)]

\* A consumer that keeps up is never told that its version is gone, and finds
\* the diffs from there on complete.
RetainedLogComplete == NewestKept /\ DiffLogComplete

\* Runs, diffs and retention implement GraphHistory: a consumer that could be
\* sure is left by each response with the newest graph there is, never with one
\* older than it had, though that response may repeat diffs it has applied
\* (the query has no upper bound) and name an earlier version.
Held(c) == IF client[c].ver # 0 /\ client[c].sure
           THEN {[told |-> client[c].ver, graph |-> client[c].view]} ELSE {}

History == INSTANCE GraphHistory WITH history <- [v \in 1..next - 1 |-> published[v]],
                                      held <- [c \in Clients |-> Held(c)]
ImplementsHistory == History!Spec

\* What that means for a consumer that starts from a version and follows the
\* diffs of unspoilt versions, each of which is complete and not yet pruned when
\* they are read: it holds the graph of the version it has been told, or of a
\* later one.
FollowersAgree ==
  \A c \in Clients : client[c].ver # 0 /\ client[c].sure =>
    \E v \in client[c].ver .. next - 1 : client[c].view = published[v]
=============================================================================
