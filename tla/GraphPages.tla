----------------------------- MODULE GraphPages -----------------------------
(***************************************************************************)
(* Paging through the graph: getGraphDataPaginated of handlers/graph.go    *)
(* and the query GetPaginatedGraphNodes, against a table that is being     *)
(* rewritten.                                                              *)
(*                                                                         *)
(* A client asks for page after page with the cursor of the page before,   *)
(* as fetchAllNodes of docs/api-pagination.md does, until a page comes     *)
(* without one.  A page is one statement; the second one of a request, for *)
(* the links inside the page, changes nothing a later page depends on and  *)
(* is left out.  Clients share nothing but the table: one is enough.       *)
(***************************************************************************)
EXTENDS Integers, FiniteSets

CONSTANTS N,         \* ids of nodes are 1 .. N, in the order of the texts
          MaxVal,    \* the highest val; the score of a comment may be negative
          Type,      \* the type of every node
          PageSizes, \* page sizes clients ask for
          Filters,   \* type filters clients ask for
          NoCursor

Ids  == 1 .. N
Vals == -1 .. MaxVal

Cursors == Vals \X Ids

ASSUME PagesAssumption ==
  /\ N \in Nat \ {0} /\ MaxVal \in Nat
  /\ PageSizes \subseteq Nat \ {0}
  /\ DOMAIN Type = Ids
  /\ NoCursor \notin Cursors

(***************************************************************************)
(* val: graph_nodes, from the ids that are there to their val.             *)
(* The walk of the client: whether it is under way, page_size and types,   *)
(* the cursor it started from and the one it goes on with, and has_more of *)
(* the last page.                                                          *)
(* got, again: the nodes it was given, and those it was given once more.   *)
(* History, stable: the nodes no write has moved, added or removed since   *)
(* the walk began.                                                         *)
(***************************************************************************)
VARIABLES val, pc, size, types, start, cursor, more, got, again, stable

request == <<size, types, start>>
walk    == <<pc, request, cursor, more, got, again>>
vars    == <<val, walk, stable>>

Nodes == DOMAIN val

-----------------------------------------------------------------------------
(* The query.                                                              *)

\* What the query orders by: a val that is not all digits counts as 0.
Weight(v) == IF v < 0 THEN 0 ELSE v

\* Mutant of the next: the cursor's own row is taken again.
AfterInclusive(n, c) == \/ Weight(val[n]) < c[1]
                        \/ Weight(val[n]) = c[1] /\ n >= c[2]

\* Mutant of the next: the tie-breaker does not hold rows of one weight back.
AfterUnbroken(n, c) == Weight(val[n]) <= c[1]

\* The row of n comes after a cursor.
After(n, c) == \/ Weight(val[n]) < c[1]
               \/ Weight(val[n]) = c[1] /\ n > c[2]

Before(m, n) == After(n, <<Weight(val[m]), m>>)

\* Without a cursor the handler passes the zero values of its two NULLs, which
\* the query takes for a cursor: sql.NullInt64{}.Int64 is 0, not NULL.
Bound(c) == IF c = NoCursor THEN <<0, 0>> ELSE c

Matching(c) == {n \in Nodes : After(n, Bound(c))}

First(S, k) == {n \in S : Cardinality({m \in S : Before(m, n)}) < k}

Rows == First(Matching(cursor), size)

\* Mutant of the next: the extra row is counted as one of the page.
HasMoreThanOne == Cardinality(Matching(cursor)) > size + 1

HasMore == Cardinality(Matching(cursor)) > size

Kept == {n \in Rows : Type[n] \in types}

LastKept == CHOOSE n \in Kept : \A m \in Kept \ {n} : Before(m, n)

\* Mutant of the next: the id is left out of the cursor.
NextCursorNoId ==
  IF HasMore /\ Kept # {} THEN <<val[LastKept], 0>> ELSE NoCursor

\* encodeCursor of the last node the filter left, with its val, not its weight.
NextCursor ==
  IF HasMore /\ Kept # {} THEN <<val[LastKept], LastKept>> ELSE NoCursor

-----------------------------------------------------------------------------
(* The client.                                                             *)

\* A walk starts at the beginning or where an earlier one was left.
StartWalk ==
  /\ pc = "idle"
  /\ size' \in PageSizes /\ types' \in Filters
  /\ start' \in {NoCursor} \cup Cursors
  /\ cursor' = start' /\ more' = TRUE
  /\ got' = {} /\ again' = {}
  /\ stable' = Ids
  /\ pc' = "walking"
  /\ UNCHANGED val

\* The cursor a walk was given last stays when it ends, for what is said of it.
Page ==
  /\ pc = "walking"
  /\ got' = got \cup Kept
  /\ again' = again \cup (got \cap Kept)
  /\ more' = HasMore
  /\ IF NextCursor = NoCursor THEN pc' = "ended" /\ UNCHANGED cursor
                              ELSE cursor' = NextCursor /\ UNCHANGED pc
  /\ UNCHANGED <<val, request, stable>>

\* The walk is over, and what is known of it forgotten.
Forget ==
  /\ pc' = "idle"
  /\ cursor' = NoCursor /\ more' = FALSE
  /\ got' = {} /\ again' = {} /\ stable' = {}
  /\ UNCHANGED <<val, request>>

\* The query fails or times out: the client gives up.
FailPage == pc = "walking" /\ Forget

Leave == pc = "ended" /\ Forget

-----------------------------------------------------------------------------
(* The writers of graph_nodes.                                             *)

\* BulkInsertGraphNode, one row or one of a batch.
Upsert(n, v) ==
  /\ n \in Nodes => val[n] # v
  /\ val' = [m \in Nodes \cup {n} |-> IF m = n THEN v ELSE val[m]]
  /\ stable' = stable \ {n}
  /\ UNCHANGED walk

\* A batch of CleanupOrphanGraphNodes.
RemoveNode(n) ==
  /\ n \in Nodes
  /\ val' = [m \in Nodes \ {n} |-> val[m]]
  /\ stable' = stable \ {n}
  /\ UNCHANGED walk

-----------------------------------------------------------------------------
Init ==
  /\ val \in UNION {[S -> Vals] : S \in SUBSET Ids}
  /\ pc = "idle"
  /\ size \in PageSizes /\ types \in Filters
  /\ start = NoCursor /\ cursor = NoCursor /\ more = FALSE
  /\ got = {} /\ again = {} /\ stable = {}

Write == \E n \in Ids : RemoveNode(n) \/ \E v \in Vals : Upsert(n, v)

Next == StartWalk \/ Page \/ FailPage \/ Leave \/ Write

Spec == Init /\ [][Next]_vars

\* A client that has a cursor asks for the next page, and is answered.
FairSpec == Spec /\ WF_vars(Page)

-----------------------------------------------------------------------------
TypeOK ==
  /\ Nodes \subseteq Ids /\ val \in [Nodes -> Vals]
  /\ pc \in {"idle", "walking", "ended"}
  /\ size \in PageSizes /\ types \in Filters
  /\ start \in {NoCursor} \cup Cursors
  /\ cursor \in {NoCursor} \cup Cursors
  /\ more \in BOOLEAN
  /\ got \subseteq Ids /\ again \subseteq got /\ stable \subseteq Ids

\* A node nobody touches is given at most once in a walk, however the nodes
\* around it move, come and go.
StableOnce == again \cap stable = {}

\* A walk that ends on a page without has_more has been given every untouched
\* node of its types from where it started on, also when the filter thinned
\* out its pages.  A cursor with a negative val is a dead end: the query
\* compares it with weights, which are not negative.
EndIsComplete ==
  pc = "ended" /\ ~more /\ (cursor # NoCursor => cursor[1] >= 0) =>
    \A n \in stable \cap Nodes :
      Type[n] \in types /\ After(n, Bound(start)) => n \in got

\* A walk ends whatever the writers do: every cursor lies behind the one before.
WalkEnds == []<>(pc # "walking")

\* docs/api-pagination.md:128, fetchAllNodes: a walk from the beginning
\* without a filter is given every node that was there all along.
FetchesAllNodes ==
  pc = "ended" /\ start = NoCursor /\ (\A n \in Ids : Type[n] \in types) =>
    stable \cap Nodes \subseteq got
=============================================================================
