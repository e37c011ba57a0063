----------------------------- MODULE WritersMC -----------------------------
(***************************************************************************)
(* The three that write the tables, side by side: what a crawl stores, the *)
(* run of the precalculation up to the detection, and the storing of what  *)
(* the detection found.  Each behaviour is one of one of them.  Precalc    *)
(* has a writer of its own that is any crawl, and the detection is module  *)
(* Communities.                                                            *)
(***************************************************************************)
EXTENDS PrecalcMC, CommunityStore, CrawlContent

\* Two communities joined in both directions, one of both nodes, and what is
\* left when node 2 is gone.
Joined ==
  [flat   |-> <<"a", "b">>,
   links  |-> {<<1, 2>>, <<2, 1>>},
   levels |-> [k \in {0, 1} |-> [n \in 1 .. 2 |-> IF k = 0 THEN <<n, 1>> ELSE <<1, NoParent>>]]]
Together ==
  [flat   |-> <<"a", "a">>,
   links  |-> {<<1, 2>>},
   levels |-> [k \in {0} |-> [n \in 1 .. 2 |-> <<1, NoParent>>]]]
Alone ==
  [flat   |-> <<"a">>,
   links  |-> {},
   levels |-> [k \in {0} |-> [n \in {1} |-> <<1, NoParent>>]]]
SomeDetections == {Joined, Together, Alone}

\* One thread, a reply to a reply, by two authors.
Thread  == 1 :> "p1" @@ 2 :> "p1" @@ 3 :> "p1"
Replies == 1 :> 0 @@ 2 :> 1 @@ 3 :> 2
Writer == 1 :> "a1" @@ 2 :> "a2" @@ 3 :> "a1"

\* The two processes of each kind are told apart by nothing but their names,
\* and neither are the subreddits; the three kinds may change names together.
Swapped(S) == CHOOSE f \in Permutations(S) : \A x \in S : f[x] # x

Processes == Swapped(Crawlers) @@ Swapped(Procs) @@ Swapped(Storers)
Names     == [x \in Crawlers \cup Procs \cup Storers |-> x]

WritersSymmetry == {f @@ g : f \in {Names, Processes}, g \in Permutations(Subs)}

VARIABLE active

WritersInit == active \in {"crawl", "run", "store"} /\ ContentInit /\ Init /\ StoreInit

WritersNext ==
  \/ active = "crawl" /\ ContentNext /\ UNCHANGED <<active, vars, storeVars>>
  \/ active = "run"   /\ Next        /\ UNCHANGED <<active, contentVars, storeVars>>
  \/ active = "store" /\ StoreNext   /\ UNCHANGED <<active, contentVars, vars>>

WritersSpec == WritersInit /\ [][WritersNext]_<<active, contentVars, vars, storeVars>>

\* The variables keep their types.
WritersTypeOK == ContentTypeOK /\ TypeOK /\ StoreTypeOK
=============================================================================
