---------------------------- MODULE Communities ----------------------------
(***************************************************************************)
(* Community detection of a precalculation run: graph/communities.go.      *)
(*                                                                         *)
(* A run reads the nodes, heaviest first, and the links among them, builds *)
(* a hierarchy of communities level by level (detectHierarchicalCommuni-   *)
(* ties) and then a flat set of communities for the older endpoints        *)
(* (detectCommunitiesFromData).  Both move one node at a time to the       *)
(* neighbouring community with the highest gain, in passes over the nodes  *)
(* in a random order, until a pass moves nothing or a cap is reached.      *)
(*                                                                         *)
(* A node is its position in the list the query returns; a community of a  *)
(* pass has the number of the node it started from, as in the code.  Maps  *)
(* are walked in random order, so a choice among equal gains is open.  The *)
(* meta-nodes of a higher level are listed in random order too; here each  *)
(* keeps its own number, which only changes how the next level is numbered.*)
(* The gain is computed in whole numbers, scaled by the square of twice    *)
(* the total weight; the floating-point gain has the same sign.  Labels,   *)
(* centroids and modularity scores, which no decision of the algorithm     *)
(* reads, are left out.                                                    *)
(***************************************************************************)
EXTENDS Integers, Sequences, FiniteSets, FiniteSetsExt

CONSTANTS NodeCount,     \* number of nodes of the graph
          LinkSets,      \* the sets of links a run may find
          MaxIterations, \* passes of one clustering (50 in the code)
          MaxLevels      \* levels of the hierarchy (4 in the code)

Vertices == 0 .. NodeCount - 1

ASSUME CommunitiesAssumption ==
  /\ NodeCount \in Nat \ {0}
  /\ \A links \in LinkSets : links \subseteq Vertices \X Vertices
  /\ MaxIterations \in Nat \ {0}
  /\ MaxLevels \in Nat

(***************************************************************************)
(* links: graph_links of this run, at most one per ordered pair of nodes.  *)
(* cur, adj, total: the graph a pass works on: the nodes themselves, or    *)
(* the communities of the level below as meta-nodes.                       *)
(* comm: nodeToCommunity of the pass.  todo: the nodes this iteration has  *)
(* still to visit.                                                         *)
(* hierarchy: the community of every node and the parent of every          *)
(* community, from level 0 on.  flat: the flat communities.                *)
(***************************************************************************)
VARIABLES stage, links, cur, adj, total, comm, todo, improved, iteration,
          hierarchy, flat

graph == <<cur, adj, total>>
pass  == <<comm, todo, improved, iteration>>
detectionVars == <<stage, links, graph, pass, hierarchy, flat>>

-----------------------------------------------------------------------------
(* The graph.                                                              *)

\* A map of maps: the neighbours of a node and the weight of each.  Every link
\* counts in both directions.
BaseAdjacency(L) ==
  [m \in Vertices |->
    [n \in {n \in Vertices : <<m, n>> \in L \/ <<n, m>> \in L} |->
       Cardinality({<<m, n>>} \cap L) + Cardinality({<<n, m>>} \cap L)]]

Neighbours(n) == DOMAIN adj[n]

Degree(n) == MapThenSumSet(LAMBDA m : adj[n][m], Neighbours(n))

DegreeSum(c) == MapThenSumSet(Degree, {n \in cur : comm[n] = c})

WeightTo(n, c) ==
  MapThenSumSet(LAMBDA m : adj[n][m], {m \in Neighbours(n) : comm[m] = c})

\* modularityGain.  The node itself counts in the degrees of the community it
\* leaves, and at higher levels its inner links count as links to it.
Gain(n, c) ==
  LET m2 == 2 * total
  IN (WeightTo(n, c) - WeightTo(n, comm[n])) * m2
       - Degree(n) * (DegreeSum(c) - DegreeSum(comm[n]))

Around(n) == {comm[m] : m \in Neighbours(n)} \ {comm[n]}

Better(n) == {c \in Around(n) : Gain(n, c) > 0}

\* The communities a visit may leave n in.
Targets(n) ==
  IF Better(n) = {} THEN {comm[n]}
  ELSE {c \in Better(n) : \A d \in Better(n) : Gain(n, d) <= Gain(n, c)}

-----------------------------------------------------------------------------
(* A clustering.                                                           *)

\* Each node on its own, before the first iteration.
StartPass ==
  /\ comm' = [n \in cur' |-> n]
  /\ todo' = cur'
  /\ improved' = FALSE
  /\ iteration' = 1

OnNodes(L) ==
  /\ cur' = Vertices
  /\ adj' = BaseAdjacency(L)
  /\ total' = Cardinality(L)

Level0 == [comm |-> [n \in Vertices |-> n], parent |-> [c \in Vertices |-> -1]]

\* The run reads nodes and links and starts on level 1.
Fetch ==
  /\ stage = "idle"
  /\ links' \in LinkSets
  /\ OnNodes(links') /\ StartPass
  /\ hierarchy' = <<Level0>>
  /\ flat' = Level0.comm
  /\ stage' = "levels"

Running == stage \in {"levels", "flat"}

Visit(n) ==
  /\ Running /\ n \in todo
  /\ todo' = todo \ {n}
  /\ \E c \in Targets(n) : comm' = [comm EXCEPT ![n] = c]
  /\ improved' = (improved \/ comm'[n] # comm[n])
  /\ UNCHANGED <<stage, links, graph, iteration, hierarchy, flat>>

\* Mutant of the next: one iteration too many.
MayIterateMore == improved /\ iteration <= MaxIterations

MayIterate == improved /\ iteration < MaxIterations

\* Mutant of the next: the iteration is not counted.
NextIterationUncounted ==
  /\ Running /\ todo = {} /\ MayIterate
  /\ todo' = cur
  /\ improved' = FALSE
  /\ UNCHANGED <<stage, links, graph, comm, iteration, hierarchy, flat>>

NextIteration ==
  /\ Running /\ todo = {} /\ MayIterate
  /\ todo' = cur
  /\ improved' = FALSE
  /\ iteration' = iteration + 1
  /\ UNCHANGED <<stage, links, graph, comm, hierarchy, flat>>

PassEnded == todo = {} /\ ~MayIterate

-----------------------------------------------------------------------------
(* The hierarchy.                                                          *)

FoundComms == {comm[n] : n \in cur}

\* Communities are renumbered 0, 1, ... in the order of their numbers.
Renumbered(c) == Cardinality({d \in FoundComms : d < c})

\* Mutant of the next: a level that joined nothing is kept.
EffectiveAlways == 1 < Cardinality(FoundComms)

Effective == 1 < Cardinality(FoundComms) /\ Cardinality(FoundComms) < Cardinality(cur)

Top == hierarchy[Len(hierarchy)]

\* Mutant of the next: the list of meta-nodes is one off.
NewCommShifted ==
  [n \in Vertices |-> Renumbered(comm[(Top.comm[n] + 1) % Cardinality(cur)])]

\* A node of the graph goes where the meta-node of its community went.
NewComm == [n \in Vertices |-> Renumbered(comm[Top.comm[n]])]

\* The one community of the level below that all members come from, or -1.
Parent(new, old, c) ==
  LET from == {old[n] : n \in {n \in Vertices : new[n] = c}}
  IN IF Cardinality(from) = 1 THEN CHOOSE p \in from : TRUE ELSE -1

NewLevel ==
  [comm   |-> NewComm,
   parent |-> [c \in {NewComm[n] : n \in Vertices} |-> Parent(NewComm, Top.comm, c)]]

Members(c) == {n \in cur : Renumbered(comm[n]) = c}

MetaNeighbours(c) ==
  {Renumbered(comm[n]) : n \in UNION {Neighbours(m) : m \in Members(c)}}

\* Mutant of the next: the links inside a community are dropped.
MetaWeightNoLoops(c, d) ==
  IF c = d THEN 0
  ELSE MapThenSumSet(LAMBDA m :
           MapThenSumSet(LAMBDA n : adj[m][n], Neighbours(m) \cap Members(d)),
         Members(c))

\* The weight between the members of two communities, in one direction; the
\* links inside a community become a loop.
MetaWeight(c, d) ==
  MapThenSumSet(LAMBDA m :
      MapThenSumSet(LAMBDA n : adj[m][n], Neighbours(m) \cap Members(d)),
    Members(c))

MetaNodes == {Renumbered(c) : c \in FoundComms}

\* The communities become the nodes.  The total now counts both directions.
OnMetaNodes ==
  /\ cur' = MetaNodes
  /\ adj' = [c \in MetaNodes |-> [d \in MetaNeighbours(c) |-> MetaWeight(c, d)]]
  /\ total' = MapThenSumSet(Degree, cur)

GoesOn == Cardinality(MetaNodes) >= 3 /\ Len(hierarchy) + 1 < MaxLevels

AddLevel ==
  /\ stage = "levels" /\ PassEnded /\ Effective
  /\ hierarchy' = Append(hierarchy, NewLevel)
  /\ IF GoesOn THEN OnMetaNodes /\ UNCHANGED stage
               ELSE OnNodes(links) /\ stage' = "flat"
  /\ StartPass
  /\ UNCHANGED <<links, flat>>

\* The clustering joined everything or nothing: the level is dropped.
StopHierarchy ==
  /\ stage = "levels" /\ PassEnded /\ ~Effective
  /\ stage' = "flat"
  /\ OnNodes(links) /\ StartPass
  /\ UNCHANGED <<links, hierarchy, flat>>

EndFlat ==
  /\ stage = "flat" /\ PassEnded
  /\ flat' = [n \in Vertices |-> Renumbered(comm[n])]
  /\ stage' = "idle"
  /\ UNCHANGED <<links, graph, pass, hierarchy>>

-----------------------------------------------------------------------------
DetectionInit ==
  /\ stage = "idle"
  /\ links = {}
  /\ cur = Vertices /\ adj = BaseAdjacency({}) /\ total = 0
  /\ comm = [n \in Vertices |-> n] /\ todo = {} /\ improved = FALSE /\ iteration = 1
  /\ hierarchy = <<Level0>>
  /\ flat = Level0.comm

DetectionNext ==
  \/ Fetch
  \/ \E n \in cur : Visit(n)
  \/ NextIteration
  \/ AddLevel \/ StopHierarchy \/ EndFlat

DetectionSpec == DetectionInit /\ [][DetectionNext]_detectionVars

\* The algorithm runs on its own once it has its data.
DetectionFairSpec == DetectionSpec /\ WF_detectionVars(stage # "idle" /\ DetectionNext)

-----------------------------------------------------------------------------
Partitions == [Vertices -> Vertices]

DetectionTypeOK ==
  /\ stage \in {"idle", "levels", "flat"}
  /\ links \in LinkSets \cup {{}}
  /\ cur \subseteq Vertices
  /\ DOMAIN adj = cur
  /\ \A n \in cur : /\ DOMAIN adj[n] \subseteq cur
                     /\ \A m \in DOMAIN adj[n] : adj[n][m] \in Nat \ {0}
  /\ total \in Nat
  /\ comm \in [cur -> cur]
  /\ todo \subseteq cur
  /\ improved \in BOOLEAN
  /\ iteration \in 1 .. MaxIterations
  /\ \A i \in DOMAIN hierarchy :
       LET level == hierarchy[i]
       IN /\ level.comm \in Partitions
          /\ DOMAIN level.parent \subseteq Vertices
          /\ \A c \in DOMAIN level.parent : level.parent[c] \in Vertices \cup {-1}
  /\ hierarchy # <<>>
  /\ flat \in Partitions

\* A set of nodes no link leaves.
ClosedUnder(C) == \A l \in links : l[1] \in C <=> l[2] \in C

Within(f, C) == \A m, n \in Vertices : f[m] = f[n] => (m \in C <=> n \in C)

\* Vertices that no path of links joins are never put in one community, at any
\* level of the hierarchy or in the flat communities, whatever the gains are:
\* nodes move to neighbouring communities only, and the links between
\* communities are those between their members.
WithinComponents ==
  \A C \in SUBSET Vertices : ClosedUnder(C) =>
    /\ \A i \in DOMAIN hierarchy : Within(hierarchy[i].comm, C)
    /\ Within(flat, C)

\* Each level only merges communities of the level below, and merges some: a
\* view that zooms out never splits a community it showed.
Refines(f, g) == \A m, n \in Vertices : f[m] = f[n] => g[m] = g[n]

CommCount(f) == Cardinality({f[n] : n \in Vertices})

LevelsNested ==
  \A i \in 1 .. Len(hierarchy) - 1 :
    /\ Refines(hierarchy[i].comm, hierarchy[i + 1].comm)
    /\ CommCount(hierarchy[i + 1].comm) < CommCount(hierarchy[i].comm)
    /\ CommCount(hierarchy[i + 1].comm) > 1

\* At every level two meta-nodes are neighbours when nodes they stand for are,
\* and their weight is the number of links between those nodes, counted from
\* both ends: building level on level loses no link and counts none twice.
MetaWeightsExact ==
  LET base == BaseAdjacency(links)
      In(c) == {n \in Vertices : Top.comm[n] = c}
  IN stage = "levels" =>
       \A c, d \in cur :
         LET pairs == {p \in In(c) \X In(d) : p[2] \in DOMAIN base[p[1]]}
         IN /\ d \in Neighbours(c) <=> pairs # {}
            /\ d \in Neighbours(c) =>
                 adj[c][d] = MapThenSumSet(LAMBDA p : base[p[1]][p[2]], pairs)

\* The detection ends, and with it the precalculation goes on: moves may go
\* round in circles, but not for more iterations than the cap.
DetectionEnds == []<>(stage = "idle")
=============================================================================
