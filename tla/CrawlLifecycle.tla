--------------------------- MODULE CrawlLifecycle ---------------------------
(***************************************************************************)
(* What the crawl queue does for one subreddit, with no table, locks or    *)
(* transactions: a request waits, one crawler at a time takes it, the      *)
(* crawl ends in an outcome that stays, or the crawler drops it and it may *)
(* go back to waiting.  The documents have failed requests retried; the    *)
(* code has no such step (FailedIsRetried of module JobQueue).             *)
(***************************************************************************)
CONSTANTS Subs, Crawlers, NoOne

VARIABLES
  state,   \* of each subreddit's request
  owner    \* the crawler at work on it, or NoOne

vars == <<state, owner>>

Init ==
  /\ state = [s \in Subs |-> "absent"]
  /\ owner = [s \in Subs |-> NoOne]

\* A first request for s.
Submit(s) ==
  /\ state[s] = "absent"
  /\ state' = [state EXCEPT ![s] = "queued"]
  /\ UNCHANGED owner

\* Crawler w takes a waiting request that nobody works on.
Take(s, w) ==
  /\ state[s] = "queued" /\ owner[s] = NoOne
  /\ state' = [state EXCEPT ![s] = "crawling"]
  /\ owner' = [owner EXCEPT ![s] = w]

\* The owner records how the crawl ended.
Settle(s, outcome) ==
  /\ state[s] = "crawling" /\ owner[s] # NoOne
  /\ state' = [state EXCEPT ![s] = outcome]
  /\ owner' = [owner EXCEPT ![s] = NoOne]

\* The owner is gone and recorded nothing.
Abandon(s) ==
  /\ owner[s] # NoOne
  /\ owner' = [owner EXCEPT ![s] = NoOne]
  /\ UNCHANGED state

\* Abandoned requests wait again.
Reclaim(S) ==
  /\ \A s \in S : state[s] = "crawling" /\ owner[s] = NoOne
  /\ state' = [s \in Subs |-> IF s \in S THEN "queued" ELSE state[s]]
  /\ UNCHANGED owner

Next ==
  \/ \E s \in Subs :
       \/ Submit(s) \/ Abandon(s)
       \/ \E w \in Crawlers : Take(s, w)
       \/ \E outcome \in {"success", "failed"} : Settle(s, outcome)
  \/ \E S \in SUBSET Subs : Reclaim(S)

Spec == Init /\ [][Next]_vars
=============================================================================
