------------------------------ MODULE GraphAPI ------------------------------
(***************************************************************************)
(* The readers of the graph: handlers/graph.go, communities.go, export.go  *)
(* and the response cache of cache/lru.go they share.                      *)
(*                                                                         *)
(* A request looks its answer up in the cache, and otherwise runs one or   *)
(* two statements under one deadline, answers what they gave and fills the *)
(* cache.  The tables are rewritten meanwhile, by the precalculation and   *)
(* the crawler, and an administrator may clear the cache at any time.      *)
(* The answer goes to the buffer of the ETag middleware first, so a slow   *)
(* client does not hold up the fill that follows.  Positions are left out, *)
(* and with them the suffix :pos of a key.                                 *)
(***************************************************************************)
EXTENDS Integers, Sequences, FiniteSets, FiniteSetsExt

CONSTANTS Requesters,
          Contents,      \* what the tables take, [nodes, links]
          Score,         \* the val of a node, the size of a community
          KindOf,        \* the type of a node
          Strength,      \* the weight of a link between communities
          Community,     \* the community a node is a member of
          Asked,         \* what the clients may ask for, sets of requests
          DefaultCap,    \* 20000 nodes and 50000 links
          TTL,           \* CACHE_TTL_SECONDS
          QueryTimeout,  \* GRAPH_QUERY_TIMEOUT_MS
          MaxRewrites,   \* bound: writes to the tables
          Error

Tables == {"precalc", "legacy", "communities", "bundles"}

\* The filter of parseTypes is that of the names in types, unless allowAll: no
\* filter was given.  Any cap may come in where the handler replaces those
\* below one; elsewhere the database refuses a negative one, which is not
\* modelled.
IsRequest(q) ==
  /\ q.kind \in {"graph", "region", "export", "overview", "communities", "community",
                 "bundles", "search", "details"}
  /\ q.kind \in {"graph", "export"} => q.allowAll \in BOOLEAN
  /\ q.kind \in {"graph", "region"} => q.maxNodes \in Int /\ q.maxLinks \in Int
  /\ q.kind \in {"export", "overview", "communities", "community"} =>
       q.maxNodes \in Nat /\ q.maxLinks \in Nat
  /\ q.kind \in {"search", "details"} => q.maxNodes \in Nat

ASSUME ApiAssumption ==
  /\ TTL \in Nat /\ QueryTimeout \in Nat /\ MaxRewrites \in Nat
  /\ DefaultCap \in Nat \ {0}
  /\ \A g \in Contents : /\ g = [nodes |-> g.nodes, links |-> g.links]
                         /\ IsFiniteSet(g.nodes) /\ g.links \subseteq g.nodes \X g.nodes
  /\ \A Q \in Asked : \A q \in Q : IsRequest(q)

(***************************************************************************)
(* asked: what the clients ask for.                                        *)
(* tables: what each of them holds.  rewrites counts the writes.           *)
(* asking: the request of every requester.  left is the time to its        *)
(* deadline, age the time since its answer's first statement was started,  *)
(* rows what the statement under way selected, part what the one before    *)
(* did.                                                                    *)
(* cache: the entries, [body, age, left], with left = -1 once expired.     *)
(* answer: what the last step answered, [to, body, age], if it did.        *)
(***************************************************************************)
VARIABLES asked, tables, rewrites, asking, cache, answer

apiVars == <<asked, tables, rewrites, asking, cache, answer>>

None  == [nodes |-> {}, links |-> {}]
Rest  == [pc |-> "idle"]
Nobody == [to |-> Error]

-----------------------------------------------------------------------------
(* The statements.                                                         *)

\* What LIMIT k may leave of S: no row that is left out comes before a row
\* that is taken.
Limited(S, k, Precedes(_, _)) ==
  {T \in kSubset(IF k < Cardinality(S) THEN k ELSE Cardinality(S), S) :
     \A t \in T, s \in S \ T : ~Precedes(s, t)}

\* No ORDER BY.
Unordered(a, b) == FALSE

\* ORDER BY val DESC, id.
Heavier(m, n) == Score[m] > Score[n] \/ (Score[m] = Score[n] /\ m < n)

\* ORDER BY size DESC and ORDER BY weight DESC, which leave ties open.
Larger(m, n)   == Score[m] > Score[n]
Stronger(k, l) == Strength[k] > Strength[l]

Among(L, S) == {l \in L : l[1] \in S /\ l[2] \in S}

Allowed(q, n) == q.allowAll \/ KindOf[n] \in q.types

Cap(c) == IF c <= 0 THEN DefaultCap ELSE c

\* sel_nodes and sel_links: the heaviest of the nodes N, any links among them.
CappedRows(N, maxNodes, maxLinks) ==
  UNION {{[nodes |-> S, links |-> L] :
            L \in Limited(Among(tables["precalc"].links, S), maxLinks, Unordered)} :
         S \in Limited(N, maxNodes, Heavier)}

CappedFiltered(q, maxNodes, maxLinks) ==
  CappedRows({n \in tables["precalc"].nodes : Allowed(q, n)}, maxNodes, maxLinks)

FetchPrecalcCapped(q) == CappedFiltered(q, Cap(q.maxNodes), Cap(q.maxLinks))

\* Links come before nodes in the order of data_type.
CommunitySubgraph(q) ==
  LET S == {n \in tables["precalc"].nodes : Community[n] = q.id}
      L == Among(tables["precalc"].links, S)
      k == q.maxNodes + q.maxLinks
  IN  {[nodes |-> T, links |-> M] :
         T \in Limited(S, IF k > Cardinality(L) THEN k - Cardinality(L) ELSE 0, Unordered),
         M \in Limited(L, k, Unordered)}

\* The links are those of all nodes in the box, not of the nodes selected.
AtLeast1(c) == IF c <= 0 THEN 1 ELSE c

NodesInBoundingBox(q) ==
  Limited({n \in tables["precalc"].nodes : n \in q.box}, AtLeast1(q.maxNodes), Heavier)

LinksInBoundingBox(q) ==
  Limited(Among(tables["precalc"].links, q.box), AtLeast1(q.maxLinks), Unordered)

CommunitySupernodes == tables["communities"].nodes

CommunityLinks(q) == Limited(tables["communities"].links, q.maxLinks, Stronger)

EdgeBundles(q) == {l \in tables["bundles"].links : Strength[l] >= q.minWeight}

\* The users, the subreddits and their activity as one JSON object.
LegacyGraph == tables["legacy"]

\* The ends of a node's links, those it has most links with first.
Degree(L, n) == Cardinality({l \in L : l[1] = n}) + Cardinality({l \in L : l[2] = n})

NodeNeighbors(q) ==
  LET g == tables["precalc"]
      Of(n) == Degree({l \in g.links : q.id \in {l[1], l[2]}}, n)
      Nearer(m, n) == Of(m) > Of(n) \/ (Of(m) = Of(n) /\ m < n)
  IN  Limited({n \in g.nodes \ {q.id} : Of(n) > 0}, q.maxNodes, Nearer)

\* The exact match first, then by weight.
SearchGraphNodes(q) ==
  LET Before(m, n) == m = q.exact \/ (n # q.exact /\ Larger(m, n))
  IN  Limited(tables["precalc"].nodes \cap q.matching, q.maxNodes, Before)

OfNodes(Sets) == {[nodes |-> S, links |-> {}] : S \in Sets}
OfLinks(Sets) == {[nodes |-> {}, links |-> L] : L \in Sets}

\* What a statement may select.
RowsOf(stmt, q) ==
  CASE stmt = "precalc"        -> IF q.kind = "export"
                                  THEN CappedFiltered(q, q.maxNodes, q.maxLinks)
                                  ELSE FetchPrecalcCapped(q)
    [] stmt = "legacy"         -> {LegacyGraph}
    [] stmt = "supernodes"     -> OfNodes({CommunitySupernodes})
    [] stmt = "communityLinks" -> OfLinks(CommunityLinks(q))
    [] stmt = "boxNodes"       -> OfNodes(NodesInBoundingBox(q))
    [] stmt = "boxLinks"       -> OfLinks(LinksInBoundingBox(q))
    [] stmt = "bundles"        -> OfLinks({EdgeBundles(q)})
    [] stmt = "community"      -> OfNodes({CommunitySupernodes \cap {q.id}})
    [] stmt = "subgraph"       -> CommunitySubgraph(q)
    [] stmt = "node"           -> OfNodes({tables["precalc"].nodes \cap {q.id}})
    [] stmt = "neighbors"      -> OfNodes(NodeNeighbors(q))
    [] stmt = "search"         -> OfNodes(SearchGraphNodes(q))

\* The name and the val of a link row are NULL, which does not scan into the
\* plain strings of the generated row: one such row fails the statement.
Scans(stmt, rows) == stmt \in {"precalc", "subgraph"} => rows.links = {}

-----------------------------------------------------------------------------
(* The cache.                                                              *)

\* The names of the filter in one string, which is all when there is no filter
\* and when that is the only name.  (A filter without a name has a key for
\* every way it is written, under each of which the empty graph is stored.)
TypeKey(q) == IF q.allowAll THEN {"all"} ELSE q.types

\* Mutant of the next: the type filter is left out of the key.
KeyOfCaps(q) ==
  IF q.kind = "graph"
  THEN [kind |-> "graph", maxNodes |-> q.maxNodes, maxLinks |-> q.maxLinks]
  ELSE q

\* The flag fallback and the format asked for are not part of the key.
Key(q) ==
  IF q.kind = "graph"
  THEN [kind |-> "graph", types |-> TypeKey(q), maxNodes |-> q.maxNodes, maxLinks |-> q.maxLinks]
  ELSE q

\* Mutant of the next: an entry is never too old.
Present(key) == key \in DOMAIN cache

Fresh(key) == key \in DOMAIN cache /\ cache[key].left >= 0

Without(key) == [k \in DOMAIN cache \ {key} |-> cache[k]]

With(key, item) == [k \in DOMAIN cache \cup {key} |-> IF k = key THEN item ELSE cache[k]]

\* A Get that finds an expired entry deletes it.
Get(key) == cache' = IF Fresh(key) THEN cache ELSE Without(key)

\* The entry is taken after a while, in the order of the fills, or not at all,
\* which is an entry evicted for that while.
Set(r) ==
  /\ asking[r].pc = "fill"
  /\ cache' = With(asking[r].key,
                   [body |-> asking[r].body, age |-> asking[r].age, left |-> TTL])
  /\ asking' = [asking EXCEPT ![r] = Rest]
  /\ answer' = Nobody /\ UNCHANGED <<asked, tables, rewrites>>

\* The admission policy refuses an entry, or one is evicted for room.
Evict ==
  /\ \E key \in DOMAIN cache : cache' = Without(key)
  /\ answer' = Nobody /\ UNCHANGED <<asked, tables, rewrites, asking>>

InvalidateCache ==
  /\ cache # <<>> /\ cache' = <<>>
  /\ answer' = Nobody /\ UNCHANGED <<asked, tables, rewrites, asking>>

-----------------------------------------------------------------------------
(* The handlers.                                                           *)

\* Two readers go to the tables each time, without a deadline of their own.
Uncached(q)  == q.kind \in {"export", "search", "details"}
Deadlined(q) == q.kind \notin {"search", "details"}

FirstOf(kind) ==
  CASE kind \in {"graph", "export"}         -> "precalc"
    [] kind \in {"overview", "communities"} -> "supernodes"
    [] kind = "region"                      -> "boxNodes"
    [] kind = "bundles"                     -> "bundles"
    [] kind = "community"                   -> "community"
    [] kind = "search"                      -> "search"
    [] kind = "details"                     -> "node"

\* Their rows are answered together with those of the statement before.
SecondHalf == {"communityLinks", "boxLinks", "neighbors"}

UnderWay(r) == asking[r].pc \in {"ready", "query"}

Goto(r, stmt, part) ==
  /\ asking' = [asking EXCEPT ![r].pc = "ready", ![r].stmt = stmt, ![r].part = part,
                 ![r].rows = None]
  /\ answer' = Nobody

Answered(q, body, age) == answer' = [to |-> q, body |-> body, age |-> age]

Answer(r, body) ==
  /\ Answered(asking[r].req, body, asking[r].age)
  /\ asking' = [asking EXCEPT ![r] = Rest]

AnswerAndFill(r, q, body, age) ==
  /\ Answered(q, body, age)
  /\ asking' = [asking EXCEPT ![r] =
                  [pc |-> "fill", key |-> Key(q), body |-> body, age |-> age]]

\* The answer of the request under way.
Respond(r, body) == AnswerAndFill(r, asking[r].req, body, asking[r].age)

\* A stream is not cached.  It is plain JSON all the same: the writer of the
\* ETag middleware is no Flusher.
WriteGraphResponse(r, body) ==
  IF asking[r].req.ndjson THEN Answer(r, body) ELSE Respond(r, body)

\* capGraph: the links are cut in the order they came in.
CapGraph(S, L, q) ==
  LET Weight(n)      == IF Degree(L, n) > Score[n] THEN Degree(L, n) ELSE Score[n]
      Outweighs(m, n) == Weight(m) > Weight(n) \/ (Weight(m) = Weight(n) /\ m < n)
  IN  UNION {{[nodes |-> T, links |-> M] :
                M \in Limited(Among(L, T), Cap(q.maxLinks), Unordered)} :
             T \in Limited(S, Cap(q.maxNodes), Outweighs)}

\* The precalculated tables gave nothing, or the statement failed.
NextSource(r) ==
  IF asking[r].req.fallback
  THEN Goto(r, "legacy", None)
  ELSE WriteGraphResponse(r, None)

GetGraphData(r) ==
  /\ asking[r].stmt = "precalc" /\ asking[r].req.kind = "graph"
  /\ IF asking[r].rows = None THEN NextSource(r)
     ELSE \E body \in CapGraph(asking[r].rows.nodes, asking[r].rows.links, asking[r].req) :
            WriteGraphResponse(r, body)

HandleLegacyGraph(r) ==
  /\ asking[r].stmt = "legacy"
  /\ \E body \in CapGraph({n \in asking[r].rows.nodes : Allowed(asking[r].req, n)},
                          asking[r].rows.links, asking[r].req) :
       WriteGraphResponse(r, body)

ExportGraph(r) ==
  /\ asking[r].stmt = "precalc" /\ asking[r].req.kind = "export"
  /\ Answer(r, asking[r].rows)

\* The supernodes are cut after they are read, and the links whether or not
\* their ends were kept.
CommunityLevel(r) ==
  \/ /\ asking[r].stmt = "supernodes"
     /\ \E S \in Limited(asking[r].rows.nodes, asking[r].req.maxNodes, Larger) :
          Goto(r, "communityLinks", [None EXCEPT !.nodes = S])
  \/ /\ asking[r].stmt = "communityLinks"
     /\ Respond(r, [asking[r].part EXCEPT !.links = asking[r].rows.links])

GetGraphOverview(r) == asking[r].req.kind = "overview" /\ CommunityLevel(r)

GetCommunities(r) == asking[r].req.kind = "communities" /\ CommunityLevel(r)

GetGraphRegion(r) ==
  \/ asking[r].stmt = "boxNodes" /\ Goto(r, "boxLinks", asking[r].rows)
  \/ /\ asking[r].stmt = "boxLinks"
     /\ Respond(r, [asking[r].part EXCEPT !.links = asking[r].rows.links])

GetEdgeBundles(r) == asking[r].stmt = "bundles" /\ Respond(r, asking[r].rows)

GetCommunityByID(r) ==
  \/ /\ asking[r].stmt = "community"
     /\ IF asking[r].rows = None THEN Answer(r, Error) ELSE Goto(r, "subgraph", None)
  \/ /\ asking[r].stmt = "subgraph"
     /\ \E S \in Limited(asking[r].rows.nodes, asking[r].req.maxNodes, Unordered) :
          Respond(r, [asking[r].rows EXCEPT !.nodes = S])

GetNodeDetails(r) ==
  \/ /\ asking[r].stmt = "node"
     /\ IF asking[r].rows = None THEN Answer(r, Error)
        ELSE Goto(r, "neighbors", asking[r].rows)
  \/ /\ asking[r].stmt = "neighbors"
     /\ Answer(r, [asking[r].part EXCEPT !.nodes = @ \cup asking[r].rows.nodes])

SearchNode(r) == asking[r].stmt = "search" /\ Answer(r, asking[r].rows)

\* An error that is not the end of the context: two statements can be done without.
Broken(r) ==
  IF asking[r].req.kind = "graph" /\ asking[r].stmt = "precalc" THEN NextSource(r)
  ELSE Answer(r, IF asking[r].stmt = "neighbors" THEN asking[r].part ELSE Error)

\* A filter that names no type is answered before anything is looked up, and
\* the empty graph cached; an export of none is empty too.
NamesNoType(q) == q.kind \in {"graph", "export"} /\ ~q.allowAll /\ q.types = {}

WriteCachedEmpty(r, q) ==
  /\ NamesNoType(q)
  /\ IF Uncached(q) THEN Answered(q, None, 0) /\ UNCHANGED asking
                    ELSE AnswerAndFill(r, q, None, 0)
  /\ UNCHANGED cache

\* A request comes in.
Ask(r, q) ==
  /\ asking[r] = Rest
  /\ \/ WriteCachedEmpty(r, q)
     \/ /\ ~NamesNoType(q) /\ ~Uncached(q) /\ Fresh(Key(q))
        /\ Answered(q, cache[Key(q)].body, cache[Key(q)].age)
        /\ UNCHANGED <<asking, cache>>
     \/ /\ ~NamesNoType(q)
        /\ Uncached(q) \/ ~Fresh(Key(q))
        /\ asking' = [asking EXCEPT ![r] =
             [pc |-> "ready", req |-> q, stmt |-> FirstOf(q.kind), rows |-> None,
              part |-> None, left |-> QueryTimeout, age |-> 0]]
        /\ answer' = Nobody
        /\ IF Uncached(q) THEN UNCHANGED cache ELSE Get(Key(q))
  /\ UNCHANGED <<asked, tables, rewrites>>

\* A statement is started, and sees the tables as they are now.
Issue(r) ==
  /\ asking[r].pc = "ready"
  /\ \E rows \in RowsOf(asking[r].stmt, asking[r].req) :
       asking' = [asking EXCEPT ![r].pc = "query", ![r].rows = rows,
                    ![r].age = IF asking[r].stmt \in SecondHalf THEN @ ELSE 0]
  /\ answer' = Nobody /\ UNCHANGED <<asked, tables, rewrites, cache>>

\* Its rows are there, and the handler goes on.
Arrive(r) ==
  /\ asking[r].pc = "query"
  /\ IF Scans(asking[r].stmt, asking[r].rows)
     THEN \/ GetGraphData(r) \/ HandleLegacyGraph(r) \/ ExportGraph(r)
          \/ GetGraphOverview(r) \/ GetCommunities(r) \/ GetGraphRegion(r)
          \/ GetEdgeBundles(r) \/ GetCommunityByID(r)
          \/ GetNodeDetails(r) \/ SearchNode(r)
     ELSE Broken(r)
  /\ UNCHANGED <<asked, tables, rewrites, cache>>

\* The statement fails in the database.
QueryFails(r) ==
  /\ asking[r].pc = "query"
  /\ Broken(r)
  /\ UNCHANGED <<asked, tables, rewrites, cache>>

\* The deadline passes or the client hangs up.
Abandon(r) ==
  /\ UnderWay(r)
  /\ Answer(r, Error)
  /\ UNCHANGED <<asked, tables, rewrites, cache>>

-----------------------------------------------------------------------------
\* The precalculation, the crawler or the detection rewrite a table.
Rewrite ==
  /\ rewrites < MaxRewrites /\ rewrites' = rewrites + 1
  /\ \E t \in Tables, g \in Contents : g # tables[t] /\ tables' = [tables EXCEPT ![t] = g]
  /\ answer' = Nobody /\ UNCHANGED <<asked, asking, cache>>

\* Mutant of the next: no context ends a statement at its deadline.
UntimedTick ==
  /\ \A r \in Requesters : asking[r].pc # "fill"
  /\ asking' = [r \in Requesters |->
       IF UnderWay(r) /\ Deadlined(asking[r].req) /\ asking[r].age < QueryTimeout + 1
       THEN [asking[r] EXCEPT !.left = @ - 1, !.age = @ + 1] ELSE asking[r]]
  /\ answer' = Nobody /\ UNCHANGED <<asked, tables, rewrites, cache>>

\* A unit of time passes.  A context ends a statement at its deadline; what a
\* handler does with the rows takes no time to speak of.
ApiTick ==
  /\ \A r \in Requesters :
       /\ asking[r].pc # "fill"
       /\ UnderWay(r) /\ Deadlined(asking[r].req) => asking[r].left > 0
  /\ asking' = [r \in Requesters |->
       IF UnderWay(r) /\ Deadlined(asking[r].req)
       THEN [asking[r] EXCEPT !.left = @ - 1, !.age = @ + 1] ELSE asking[r]]
  /\ cache' = [k \in DOMAIN cache |->
       IF cache[k].left < 0 THEN cache[k]
       ELSE [cache[k] EXCEPT !.age = @ + 1, !.left = @ - 1]]
  /\ answer' = Nobody /\ UNCHANGED <<asked, tables, rewrites>>

ApiInit ==
  /\ asked \in Asked
  /\ tables \in {[t \in Tables |-> g] : g \in Contents}
  /\ rewrites = 0
  /\ asking = [r \in Requesters |-> Rest]
  /\ cache = <<>> /\ answer = Nobody

Serve(r) ==
  \/ \E q \in asked : Ask(r, q)
  \/ Issue(r) \/ Arrive(r) \/ QueryFails(r) \/ Abandon(r) \/ Set(r)

ApiNext ==
  \/ \E r \in Requesters : Serve(r)
  \/ Evict \/ InvalidateCache \/ Rewrite \/ ApiTick

ApiSpec == ApiInit /\ [][ApiNext]_apiVars

-----------------------------------------------------------------------------
Bodies == [nodes : SUBSET UNION {g.nodes : g \in Contents},
           links : SUBSET UNION {g.links : g \in Contents}]

ApiTypeOK ==
  /\ asked \in Asked
  /\ tables \in [Tables -> Contents]
  /\ rewrites \in 0 .. MaxRewrites
  /\ \A r \in Requesters :
       \/ asking[r] = Rest
       \/ asking[r].pc = "fill" /\ asking[r].body \in Bodies
       \/ /\ asking[r].pc \in {"ready", "query"} /\ asking[r].req \in asked
          /\ asking[r].left \in 0 .. QueryTimeout /\ asking[r].age \in 0 .. QueryTimeout
          /\ asking[r].rows \in Bodies /\ asking[r].part \in Bodies
  /\ \A k \in DOMAIN cache : cache[k].body \in Bodies /\ cache[k].left \in -1 .. TTL
  /\ answer = Nobody \/ (answer.to \in asked /\ answer.body \in Bodies \cup {Error})

Served == answer # Nobody /\ answer.body # Error

\* However requests, fills, evictions and clears interleave, no answer of the
\* handlers with a deadline shows the tables as they were longer ago than an
\* entry of the cache lives and a request may take.
AnswersAreRecent ==
  Served /\ Deadlined(answer.to) => answer.age <= TTL + QueryTimeout

\* A filter of the type all, which no node is of.
NamesAll(q) == ~q.allowAll /\ q.types = {"all"}

Fits(q, b) ==
  CASE q.kind = "graph" ->
         /\ \A n \in b.nodes : Allowed(q, n) \/ NamesAll(q)
         /\ b.links \subseteq b.nodes \X b.nodes
         /\ Cardinality(b.nodes) <= Cap(q.maxNodes)
         /\ Cardinality(b.links) <= Cap(q.maxLinks)
    [] q.kind = "region" ->
         /\ b.nodes \subseteq q.box /\ b.links \subseteq q.box \X q.box
         /\ Cardinality(b.nodes) <= AtLeast1(q.maxNodes)
         /\ Cardinality(b.links) <= AtLeast1(q.maxLinks)
    [] q.kind = "bundles"   -> \A l \in b.links : Strength[l] >= q.minWeight
    [] q.kind = "community" -> \A n \in b.nodes : Community[n] = q.id
    [] q.kind = "details"   -> q.id \in b.nodes /\ Cardinality(b.nodes) <= q.maxNodes + 1
    [] q.kind = "search"    -> b.nodes \subseteq q.matching /\ Cardinality(b.nodes) <= q.maxNodes
    [] OTHER -> /\ Cardinality(b.nodes) <= q.maxNodes
                /\ Cardinality(b.links) <= q.maxLinks

\* An answer keeps to what its own request asked for, also when another
\* request filled the cache: types, caps, box, weight and community.  Links
\* of a graph have both their ends in it.  Only a filter of the type all may
\* be answered with nodes of every type: see FilterIsOptional.
AnswersFit == Served => Fits(answer.to, answer.body)

\* docs/api.md:24, 34: the filter is optional, and results are cached per
\* combination of the parameters.  While the tables have nodes, a request that
\* does not filter and may fall back is not answered with none.
FilterIsOptional ==
  Served /\ answer.to.kind = "graph" =>
    (answer.to.allowAll /\ answer.to.fallback => answer.body.nodes # {})
=============================================================================
