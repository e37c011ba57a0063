--------------------------- MODULE CommunityStore ---------------------------
(***************************************************************************)
(* Storing what the community detection found: storeHierarchy, storeCom-   *)
(* munities and computeAndStoreEdgeBundles of graph/communities.go, which  *)
(* the end of a precalculation run calls in this order.                    *)
(*                                                                         *)
(* Every row is a statement of its own: readers see the tables half full,  *)
(* an insert that fails is logged and passed over, the process may die in  *)
(* between, the server's run and one started by hand may store at once,    *)
(* and nodes are removed meanwhile.  Labels, modularity, centroids and     *)
(* control points are left out.                                            *)
(***************************************************************************)
EXTENDS Integers, FiniteSets, FiniteSetsExt, Functions

CONSTANTS Storers,      \* precalculation processes
          GraphNodes,
          Detections,   \* results of the detection, [flat, links, levels]
          MaxStores,    \* bound: stores started
          MaxStoreFaults     \* bound: statements that fail, processes that die,
                        \* nodes that are removed

\* flat names the community of a node, links are the links it was found in,
\* levels give a node's community and that one's parent on every level.
ASSUME StoreAssumption ==
  /\ MaxStores \in Nat /\ MaxStoreFaults \in Nat /\ IsFiniteSet(GraphNodes)
  /\ \A d \in Detections :
       /\ DOMAIN d.flat \subseteq GraphNodes
       /\ d.links \subseteq GraphNodes \X GraphNodes
       /\ \A k \in DOMAIN d.levels : DOMAIN d.levels[k] \subseteq DOMAIN d.flat

(***************************************************************************)
(* The tables: graph_nodes, graph_communities (the size of each id),       *)
(* graph_community_members, graph_community_links, graph_bundles (a weight *)
(* for a pair) and graph_community_hierarchy (a community and its parent   *)
(* for a node and a level).  serial counts the ids given.                  *)
(* store: what every process is doing.  todo and joining hold the rows it  *)
(* has still to insert, nodeToDB the id of each node's community.          *)
(* exact (of the model): the detection the tables show, when the last      *)
(* store was disturbed by nothing, and nothing happened since.             *)
(***************************************************************************)
VARIABLES graphNodes, communities, members, communityLinks, bundles, hierarchy,
          serial, store, stores, storeFaults, exact

tables    == <<communities, members, communityLinks, bundles, hierarchy>>
others    == <<graphNodes, stores, exact>>
storeVars == <<others, tables, serial, store, storeFaults>>

Empty    == <<>>
Unknown  == [flat |-> Empty]
Resting     == [pc |-> "idle"]
NoParent == -1

Put(f, k, v) == [x \in DOMAIN f \cup {k} |-> IF x = k THEN v ELSE f[x]]

Goes(s, pc, todo) == store' = [store EXCEPT ![s].pc = pc, ![s].todo = todo]

\* A row is done with, inserted or not.
Done(s, r) == store' = [store EXCEPT ![s].todo = @ \ {r}]

StoreFault == storeFaults < MaxStoreFaults /\ storeFaults' = storeFaults + 1
NoStoreFault == UNCHANGED storeFaults

\* An insert of the code: refused by the database, where a row it refers to
\* is missing, or failing by itself, it changes nothing and is only logged.
Inserts(allowed, insert, rest) ==
  \/ allowed /\ insert /\ NoStoreFault
  \/ ~allowed /\ rest /\ NoStoreFault
  \/ rest /\ StoreFault

\* Others at work, and faults, disturb a store.
Disturbing(s) == \E t \in Storers \ {s} : store[t] # Resting

-----------------------------------------------------------------------------
(* storeHierarchy.                                                         *)

HierarchyRows(d) ==
  UNION {{<<n, k, d.levels[k][n]>> : n \in DOMAIN d.levels[k]} : k \in DOMAIN d.levels}

\* The run reads the nodes there are and detects d among them.
Begin(s, d) ==
  /\ DOMAIN d.flat \subseteq graphNodes
  /\ store[s] = Resting /\ stores < MaxStores /\ stores' = stores + 1
  /\ store' = [t \in Storers |->
       IF t = s THEN [pc |-> "clearHierarchy", detected |-> d, todo |-> {}, joining |-> {},
                      nodeToDB |-> Empty, since |-> storeFaults, alone |-> ~Disturbing(s)]
       ELSE IF store[t] = Resting THEN Resting ELSE [store[t] EXCEPT !.alone = FALSE]]
  /\ exact' = Unknown
  /\ UNCHANGED <<graphNodes, tables, serial, storeFaults>>

\* Mutant of the next: nothing is cleared.
KeepHierarchy(s) ==
  /\ store[s].pc = "clearHierarchy"
  /\ Goes(s, "hierarchy", HierarchyRows(store[s].detected))
  /\ UNCHANGED <<others, tables, serial, storeFaults>>

\* When it cannot be cleared the hierarchy stays, and the run goes on.
ClearCommunityHierarchy(s) ==
  /\ store[s].pc = "clearHierarchy"
  /\ \/ /\ hierarchy' = Empty /\ NoStoreFault
        /\ Goes(s, "hierarchy", HierarchyRows(store[s].detected))
     \/ /\ Goes(s, "clearCommunities", {}) /\ UNCHANGED hierarchy
        /\ StoreFault
  /\ UNCHANGED <<others, communities, members, communityLinks, bundles, serial>>

\* Level by level, the nodes of one in any order.
InsertCommunityHierarchy(s) ==
  /\ store[s].pc = "hierarchy"
  /\ IF store[s].todo = {}
     THEN Goes(s, "clearCommunities", {}) /\ NoStoreFault /\ UNCHANGED hierarchy
     ELSE \E r \in store[s].todo :
            /\ \A o \in store[s].todo : r[2] <= o[2]
            /\ Inserts(r[1] \in graphNodes,
                       hierarchy' = Put(hierarchy, <<r[1], r[2]>>, r[3]), UNCHANGED hierarchy)
            /\ Done(s, r)
  /\ UNCHANGED <<others, communities, members, communityLinks, bundles, serial>>

-----------------------------------------------------------------------------
(* storeCommunities.                                                       *)

\* TRUNCATE graph_communities CASCADE takes what refers to it along.
ClearCommunityTables(s) ==
  /\ store[s].pc = "clearCommunities"
  /\ \/ /\ communities' = Empty /\ members' = {}
        /\ communityLinks' = Empty /\ bundles' = Empty /\ NoStoreFault
        /\ Goes(s, "communities", Range(store[s].detected.flat))
     \/ /\ store' = [store EXCEPT ![s] = Resting] /\ StoreFault
        /\ UNCHANGED <<communities, members, communityLinks, bundles>>
  /\ UNCHANGED <<others, hierarchy, serial>>

MembersOf(d, c) == {n \in DOMAIN d.flat : d.flat[n] = c}

\* The id comes from a sequence, so no two rows ever share one.  The nodes of
\* a community that is not created get none.
CreateCommunity(s) ==
  /\ store[s].pc = "communities" /\ store[s].todo # {}
  /\ \E c \in store[s].todo :
       LET M == MembersOf(store[s].detected, c)
           Rest == store[s].todo \ {c}
       IN  \/ /\ serial' = serial + 1
              /\ communities' = Put(communities, serial', Cardinality(M))
              /\ store' = [store EXCEPT ![s].pc = "members", ![s].todo = Rest,
                                        ![s].joining = {<<serial', n>> : n \in M}]
              /\ NoStoreFault
           \/ /\ Goes(s, "communities", Rest) /\ StoreFault
              /\ UNCHANGED <<communities, serial>>
  /\ UNCHANGED <<others, members, communityLinks, bundles, hierarchy>>

\* nodeToDB has the node whether or not its row went in.
CreateCommunityMember(s) ==
  /\ store[s].pc = "members"
  /\ IF store[s].joining = {}
     THEN Goes(s, "communities", store[s].todo) /\ NoStoreFault /\ UNCHANGED members
     ELSE \E r \in store[s].joining :
            /\ Inserts(r[1] \in DOMAIN communities /\ r[2] \in graphNodes,
                       members' = members \cup {r}, UNCHANGED members)
            /\ store' = [store EXCEPT ![s].joining = @ \ {r},
                                      ![s].nodeToDB = Put(@, r[2], r[1])]
  /\ UNCHANGED <<others, communities, communityLinks, bundles, hierarchy, serial>>

\* Links between two communities, in either direction.
Between(s, a, b) ==
  LET of == store[s].nodeToDB
  IN  {l \in store[s].detected.links :
         l[1] \in DOMAIN of /\ l[2] \in DOMAIN of /\ {of[l[1]], of[l[2]]} = {a, b}}

\* The pairs of communities some link joins, the smaller id first, and how many.
Weighed(s) ==
  LET ids == Range(store[s].nodeToDB)
  IN  {<<p[1], p[2], Cardinality(Between(s, p[1], p[2]))>> :
         p \in {q \in ids \X ids : q[1] < q[2] /\ Between(s, q[1], q[2]) # {}}}

Referred(r) == {r[1], r[2]} \subseteq DOMAIN communities

CountLinks(s) ==
  /\ store[s].pc = "communities" /\ store[s].todo = {}
  /\ Goes(s, "links", Weighed(s))
  /\ UNCHANGED <<others, tables, serial, storeFaults>>

CreateCommunityLink(s) ==
  /\ store[s].pc = "links"
  /\ IF store[s].todo = {}
     THEN Goes(s, "clearBundles", {}) /\ NoStoreFault /\ UNCHANGED communityLinks
     ELSE \E r \in store[s].todo :
            /\ Inserts(Referred(r),
                       communityLinks' = Put(communityLinks, <<r[1], r[2]>>, r[3]),
                       UNCHANGED communityLinks)
            /\ Done(s, r)
  /\ UNCHANGED <<others, communities, members, bundles, hierarchy, serial>>

-----------------------------------------------------------------------------
(* computeAndStoreEdgeBundles.                                             *)

\* Mutant of the next: the pairs are not put in order.
WeighedOneWay(s) ==
  {<<r[1], r[2], Cardinality({l \in Between(s, r[1], r[2]) :
                                store[s].nodeToDB[l[1]] = r[1]})>> : r \in Weighed(s)}

BundleWeights(s) == Weighed(s)

ClearEdgeBundles(s) ==
  /\ store[s].pc = "clearBundles"
  /\ \/ /\ bundles' = Empty /\ NoStoreFault
        /\ Goes(s, "bundles", BundleWeights(s))
     \/ /\ store' = [store EXCEPT ![s] = Resting] /\ StoreFault
        /\ UNCHANGED bundles
  /\ UNCHANGED <<others, communities, members, communityLinks, hierarchy, serial>>

CreateEdgeBundle(s) ==
  /\ store[s].pc = "bundles" /\ store[s].todo # {}
  /\ \E r \in store[s].todo :
       /\ Inserts(Referred(r),
                  bundles' = Put(bundles, <<r[1], r[2]>>, r[3]), UNCHANGED bundles)
       /\ Done(s, r)
  /\ UNCHANGED <<others, communities, members, communityLinks, hierarchy, serial>>

End(s) ==
  /\ store[s].pc = "bundles" /\ store[s].todo = {}
  /\ store' = [store EXCEPT ![s] = Resting]
  /\ exact' = IF store[s].alone /\ store[s].since = storeFaults
              THEN store[s].detected ELSE Unknown
  /\ UNCHANGED <<graphNodes, tables, serial, stores, storeFaults>>

-----------------------------------------------------------------------------
\* The process dies.
Die(s) ==
  /\ store[s] # Resting /\ store' = [store EXCEPT ![s] = Resting] /\ StoreFault
  /\ UNCHANGED <<others, tables, serial>>

\* A node is deleted, and its rows with it.
DeleteNode(n) ==
  /\ n \in graphNodes /\ StoreFault
  /\ graphNodes' = graphNodes \ {n}
  /\ members' = {m \in members : m[2] # n}
  /\ hierarchy' = [k \in {k \in DOMAIN hierarchy : k[1] # n} |-> hierarchy[k]]
  /\ exact' = Unknown
  /\ UNCHANGED <<communities, communityLinks, bundles, serial, store, stores>>

StoreInit ==
  /\ graphNodes = GraphNodes
  /\ communities = Empty /\ members = {} /\ communityLinks = Empty
  /\ bundles = Empty /\ hierarchy = Empty
  /\ serial = 0 /\ store = [s \in Storers |-> Resting]
  /\ stores = 0 /\ storeFaults = 0 /\ exact = Unknown

StoreStep(s) ==
  \/ \E d \in Detections : Begin(s, d)
  \/ ClearCommunityHierarchy(s) \/ InsertCommunityHierarchy(s)
  \/ ClearCommunityTables(s) \/ CreateCommunity(s) \/ CreateCommunityMember(s)
  \/ CountLinks(s) \/ CreateCommunityLink(s)
  \/ ClearEdgeBundles(s) \/ CreateEdgeBundle(s) \/ End(s)
  \/ Die(s)

StoreNext == (\E s \in Storers : StoreStep(s)) \/ (\E n \in GraphNodes : DeleteNode(n))

StoreSpec == StoreInit /\ [][StoreNext]_storeVars

-----------------------------------------------------------------------------
StoreTypeOK ==
  /\ graphNodes \subseteq GraphNodes
  /\ communities \in [DOMAIN communities -> Nat] /\ DOMAIN communities \subseteq 1 .. serial
  /\ members \subseteq (DOMAIN communities) \X graphNodes
  /\ \A p \in DOMAIN communityLinks \cup DOMAIN bundles : Referred(p)
  /\ \A k \in DOMAIN hierarchy : k[1] \in graphNodes
  /\ stores \in 0 .. MaxStores /\ storeFaults \in 0 .. MaxStoreFaults

\* Where a link between two communities and its bundle are both there, they
\* have the same weight: also with half of the rows missing, when a run died
\* in between, and when two runs fill the tables at once.
StoredWeightsAgree ==
  \A p \in DOMAIN communityLinks \cap DOMAIN bundles : communityLinks[p] = bundles[p]

\* What detection d stores: its communities as a partition, each of its size,
\* every pair weighed by the links between its members, and every level.
Shows(d) ==
  /\ {m[2] : m \in members} = DOMAIN d.flat
  /\ \A m, o \in members : (m[1] = o[1]) = (d.flat[m[2]] = d.flat[o[2]])
  /\ \A c \in DOMAIN communities : communities[c] = Cardinality({m \in members : m[1] = c})
  /\ \A c, e \in DOMAIN communities :
       LET joining == {l \in d.links : <<c, l[1]>> \in members /\ <<e, l[2]>> \in members}
                 \cup {l \in d.links : <<e, l[1]>> \in members /\ <<c, l[2]>> \in members}
       IN  c < e => IF joining = {} THEN <<c, e>> \notin DOMAIN communityLinks \cup DOMAIN bundles
                    ELSE /\ communityLinks[<<c, e>>] = Cardinality(joining)
                         /\ bundles[<<c, e>>] = Cardinality(joining)
  /\ {<<k[1], k[2], hierarchy[k]>> : k \in DOMAIN hierarchy} = HierarchyRows(d)

\* A store that no fault, no other store and no deletion disturbed leaves
\* what it was given and nothing else, whatever earlier stores left behind.
UndisturbedStoreIsExact == exact # Unknown => Shows(exact)
=============================================================================
