----------------------------- MODULE GraphAPIMC -----------------------------
(* GraphAPI on two graphs of three entities, one with links and one without. *)
EXTENDS GraphAPI

GraphA == [nodes |-> {1, 2, 3}, links |-> {<<1, 2>>, <<1, 3>>}]
GraphB == [nodes |-> {1, 3}, links |-> {}]
SomeGraphs == {GraphA, GraphB}

Kinds     == [n \in 1 .. 3 |-> IF n = 1 THEN "subreddit" ELSE "user"]
Scores    == [n \in 1 .. 3 |-> IF n = 3 THEN 3 ELSE 1]
Strengths == [l \in (1 .. 3) \X (1 .. 3) |-> l[1]]
Members   == [n \in 1 .. 3 |-> IF n = 3 THEN 2 ELSE 1]

\* What parseTypes makes of no filter, and of the filter with the names S.
All     == [allowAll |-> TRUE, types |-> {}]
Only(S) == [allowAll |-> FALSE, types |-> S]
Users   == Only({"user"})

Graph(filter, fallback, ndjson) ==
  [kind |-> "graph", types |-> filter.types, allowAll |-> filter.allowAll,
   maxNodes |-> 2, maxLinks |-> 1, fallback |-> fallback, ndjson |-> ndjson]
Export(filter) ==
  [kind |-> "export", types |-> filter.types, allowAll |-> filter.allowAll,
   maxNodes |-> 1, maxLinks |-> 1]
Level(kind, n, l) == [kind |-> kind, maxNodes |-> n, maxLinks |-> l]
Region(box, n, l) == [kind |-> "region", box |-> box, maxNodes |-> n, maxLinks |-> l]
Bundles(w)        == [kind |-> "bundles", minWeight |-> w]
OneCommunity(id)  == [kind |-> "community", id |-> id, maxNodes |-> 1, maxLinks |-> 1]
Details(id)       == [kind |-> "details", id |-> id, maxNodes |-> 1]
Search(S, exact)  == [kind |-> "search", matching |-> S, exact |-> exact, maxNodes |-> 1]

\* Requests that may share an entry of the cache, and those that must not.
AllByName  == {Graph(All, TRUE, FALSE), Graph(Only({"all"}), TRUE, FALSE)}
JustByName == {AllByName}

AskedPairs ==
  {AllByName,
   {Graph(All, TRUE, FALSE), Graph(Users, TRUE, FALSE)},
   {Graph(Users, TRUE, FALSE), Graph(Users, FALSE, FALSE)},
   {Graph(Only({}), TRUE, FALSE), Graph(All, FALSE, TRUE)},
   {Level("overview", 2, 1), Level("communities", 3, 0)},
   {Region({1, 2}, 1, 1), Region({1, 2, 3}, 2, 0)},
   {Bundles(1), Bundles(2)},
   {OneCommunity(1), OneCommunity(2)},
   {Export(All), Export(Only({}))},
   {Details(2), Search({1, 2}, 1)}}

ReadBy(q) ==
  CASE q.kind = "graph"                     -> {"precalc", "legacy"}
    [] q.kind = "community"                 -> {"communities", "precalc"}
    [] q.kind \in {"overview", "communities"} -> {"communities"}
    [] q.kind = "bundles"                   -> {"bundles"}
    [] OTHER                                -> {"precalc"}

\* A table no request reads is not rewritten: nothing would tell.
OnlyTablesRead ==
  \A t, u \in Tables \ UNION {ReadBy(q) : q \in asked} : tables[t] = tables[u]
=============================================================================
