------------------------------ MODULE Precalc ------------------------------
(***************************************************************************)
(* The precalculation: one or more processes that turn the crawled tables  *)
(* into graph_nodes and graph_links, while the crawler keeps writing.      *)
(* A run is full (clear, then copy everything) or incremental (copy what   *)
(* changed since precalc_state.last_precalc_at).                           *)
(*                                                                         *)
(* Abstractions: a post or comment is the time of its last update; the     *)
(* subscribers of a subreddit are the time its row was last written, so a  *)
(* newer value is a greater one.  The optional content nodes (posts and    *)
(* comments as nodes, DETAILED_GRAPH), the layout and the communities are  *)
(* left out; versions and diffs are module GraphVersions.                  *)
(***************************************************************************)
EXTENDS Integers, FiniteSets, FiniteSetsExt

CONSTANTS
  Users, Subs,        \* rows that may appear in users and subreddits
  Procs,              \* precalculation processes
  MaxTime,            \* bound of the model on the writes to the source tables
  MaxItems,           \* bound on the posts and comments of a user in a subreddit
  MinSubs,            \* 2: subreddits with posts before the first run
  ClearOnStart,       \* PRECALC_CLEAR_ON_START
  ManualFull,         \* whether somebody runs precalculate --full
  MaxFaults,          \* bound on failing statements, dying processes and cleanups
  ClearRefused        \* whether PostgreSQL refuses to truncate graph_nodes

ASSUME PrecalcAssumption ==
  /\ {MaxTime, MaxItems, MinSubs, MaxFaults} \subseteq Nat
  /\ IsFiniteSet(Users) /\ IsFiniteSet(Subs) /\ Users \cap Subs = {}
  /\ {ClearOnStart, ManualFull, ClearRefused} \subseteq BOOLEAN

VARIABLES
  now,        \* the time of the last write to a source table
  items,      \* update times of the posts and comments of a user in a subreddit
  profile,    \* update time of the user's row
  row,        \* update time of the subreddit's row, 0 when there is none
  nodes,      \* graph_nodes.val of a user or subreddit, 0 when there is no node
  links,      \* graph_links
  activity,   \* user_subreddit_activity
  related,    \* subreddit_relationships
  last,       \* precalc_state.last_precalc_at
  counted,    \* precalc_state.total_nodes + total_links, 0 when they are NULL
  run,        \* what each process is doing
  faults      \* statements that failed and processes that died so far

source == <<now, items, profile, row>>
graph  == <<nodes, links>>
rels   == <<activity, related>>
state  == <<last, counted>>
vars   == <<source, graph, rels, state, run, faults>>

Never == -1
Times == 0..MaxTime
Entities == Users \cup Subs

\* The steps of a run, in order.
PCs == {"idle", "count", "clear", "fetchUsers", "fetchSubs", "upsert",
        "clearActivity", "buildActivity", "relate", "link", "finish", "deferred"}

Nothing == [e \in Entities |-> 0]
NoRun   == [pc |-> "idle", start |-> 0, since |-> Never, counted |-> 0,
            full |-> FALSE, fetched |-> Nothing, disturbed |-> FALSE]
Idle(p) == run[p].pc = "idle"

\* History, run[p].disturbed: the run met another one, a failure or a cleanup.
\* What the crawler writes meanwhile does not disturb it.

TypeOK ==
  /\ now \in Times
  /\ items \in [Users \X Subs -> SUBSET Times]
  /\ profile \in [Users -> Times] /\ row \in [Subs -> Times]
  /\ nodes \in [Entities -> Nat]
  /\ links \subseteq Entities \X Entities
  /\ activity \subseteq Users \X Subs /\ related \subseteq Subs \X Subs
  /\ last \in Times \cup {Never} /\ counted \in Nat
  /\ run \in [Procs -> [pc : PCs, start : Times, since : Times \cup {Never},
                        counted : Nat, full : BOOLEAN, fetched : [Entities -> Nat],
                        disturbed : BOOLEAN]]
  /\ faults \in 0..MaxFaults

Init ==
  /\ now = 0
  /\ items = [us \in Users \X Subs |-> {}]
  /\ profile = [u \in Users |-> 0] /\ row = [s \in Subs |-> 0]
  /\ nodes = Nothing /\ links = {} /\ activity = {} /\ related = {}
  /\ last = Never /\ counted = 0
  /\ run = [p \in Procs |-> NoRun]
  /\ faults = 0

\* Something disturbs every run under way.
Disturb == [p \in Procs |-> IF Idle(p) THEN run[p]
                            ELSE [run[p] EXCEPT !.disturbed = TRUE]]

-----------------------------------------------------------------------------
(* The source tables, written by the crawler.                              *)

Written == /\ now' = now + 1
           /\ UNCHANGED <<graph, rels, state, run, faults>>

\* A post or comment is stored for the first time, its author and subreddit
\* with it.
Store(u, s) ==
  /\ now < MaxTime /\ Cardinality(items[<<u, s>>]) < MaxItems
  /\ Written
  /\ items' = [items EXCEPT ![<<u, s>>] = @ \cup {now + 1}]
  /\ profile' = [profile EXCEPT ![u] = IF @ = 0 THEN now + 1 ELSE @]
  /\ row' = [row EXCEPT ![s] = IF @ = 0 THEN now + 1 ELSE @]

\* A stored post or comment is written again (its score, say).
Touch(u, s) ==
  /\ now < MaxTime
  /\ Written
  /\ \E t \in items[<<u, s>>] :
       items' = [items EXCEPT ![<<u, s>>] = (@ \ {t}) \cup {now + 1}]
  /\ UNCHANGED <<profile, row>>

\* The row of a user or of a subreddit is updated.
UpdateProfile(u) ==
  /\ now < MaxTime /\ profile[u] # 0
  /\ Written
  /\ profile' = [profile EXCEPT ![u] = now + 1]
  /\ UNCHANGED <<items, row>>

UpdateSub(s) ==
  /\ now < MaxTime /\ row[s] # 0
  /\ Written
  /\ row' = [row EXCEPT ![s] = now + 1]
  /\ UNCHANGED <<items, profile>>

-----------------------------------------------------------------------------
(* What the queries of a run return.                                       *)

Newer(T, t) == {x \in T : x > t}

\* ListUsersWithActivity: posts and comments of a user, all of them.
Total(u) == MapThenSumSet(LAMBDA s : Cardinality(items[<<u, s>>]), Subs)

\* GetUserActivitySince: those updated after the cutoff.
Recent(u, t) == MapThenSumSet(LAMBDA s : Cardinality(Newer(items[<<u, s>>], t)), Subs)

\* Mutant of ChangedSubs: an update right after the cutoff is missed.
ChangedSubsLater(t) == {s \in Subs : row[s] > t + 1}
ChangedUsers(t) == {u \in Users : profile[u] > t}
ChangedSubs(t)  == {s \in Subs : row[s] > t}

\* Those after the cutoff of a run and not updated since it started at t, the
\* ones that it must have seen.
Due(u, cutoff, t) ==
  MapThenSumSet(LAMBDA s : Cardinality({x \in items[<<u, s>>] : x > cutoff /\ x <= t}), Subs)
Past(u, t) == Due(u, Never, t)

\* CountChangedEntities: subreddits, users, posts and comments.
Changes(t) ==
  Cardinality(ChangedSubs(t)) + Cardinality(ChangedUsers(t))
    + MapThenSumSet(LAMBDA u : Recent(u, t), Users)

\* Users and subreddits that the run p copies, with the value it gives them.
\* A user with recent activity gets the count of the recent activity; one
\* whose profile alone changed gets the total.
\* Mutant: the recent activity on top of what the node has.
FetchedAdded(u, full, t) == IF full THEN Total(u) ELSE nodes[u] + Recent(u, t)
FetchedUser(u, full, t) ==
  IF full THEN Total(u)
  ELSE IF Recent(u, t) > 0 THEN Recent(u, t)
  ELSE IF u \in ChangedUsers(t) THEN Total(u) ELSE 0

FetchedSub(s, full, t) == IF full \/ s \in ChangedSubs(t) THEN row[s] ELSE 0

\* Pairs of subreddits that share a user, in both directions.
CoOccurring(acts) ==
  {ab \in Subs \X Subs : /\ ab[1] # ab[2]
                         /\ \E u \in Users : <<u, ab[1]>> \in acts /\ <<u, ab[2]>> \in acts}

Posted == {us \in Users \X Subs : items[us] # {}}

-----------------------------------------------------------------------------
(* A run: PrecalculateGraphDataWithMode.                                   *)

Goto(p, from, to) ==
  /\ run[p].pc = from
  /\ run' = [run EXCEPT ![p].pc = to]

\* Something goes wrong, at most MaxFaults times.
Fault   == faults < MaxFaults /\ faults' = faults + 1
NoFault == UNCHANGED faults

\* The same step for a batch S of which T is inserted: rows whose insertion
\* fails one by one are skipped.
GotoInserted(p, from, to, S, T) ==
  /\ run[p].pc = from
  /\ \/ T = S /\ NoFault /\ run' = [run EXCEPT ![p].pc = to]
     \/ T # S /\ Fault   /\ run' = [Disturb EXCEPT ![p].pc = to]

\* runOnce: enough data; then startTime, GetPrecalcState and the first part
\* of the decision.  If the state cannot be read the run is full.
Start(p, flag) ==
  /\ Idle(p)
  /\ Cardinality({s \in Subs : \E u \in Users : items[<<u, s>>] # {}}) >= MinSubs
  /\ \E readable \in BOOLEAN :
       /\ IF readable THEN NoFault ELSE Fault
       /\ LET begun == [NoRun EXCEPT !.start = now, !.disturbed = \E q \in Procs : ~Idle(q)]
              full  == flag \/ ClearOnStart \/ ~readable \/ last = Never
          IN run' = [Disturb EXCEPT ![p] =
                    IF full
                    THEN [begun EXCEPT !.pc = "clear", !.full = TRUE]
                    ELSE [begun EXCEPT !.pc = "count", !.since = last, !.counted = counted]]
  /\ UNCHANGED <<source, graph, rels, state>>

\* More than a fifth of the nodes and links changed: a full run instead.
TooManyChanges(changes, total) == total > 0 /\ 5 * changes > total

Count(p) ==
  /\ run[p].pc = "count"
  /\ \E full \in BOOLEAN :
       /\ \/ full = TooManyChanges(Changes(run[p].since), run[p].counted) /\ NoFault
          \/ full /\ Fault
       /\ run' = [run EXCEPT ![p] =
                 IF full THEN [@ EXCEPT !.pc = "clear", !.full = TRUE,
                                        !.since = Never, !.counted = 0]
                 ELSE [@ EXCEPT !.pc = "fetchUsers", !.counted = 0]]
  /\ UNCHANGED <<source, graph, rels, state>>

\* TRUNCATE TABLE graph_nodes, graph_links.
Clear(p) ==
  /\ ~ClearRefused
  /\ Goto(p, "clear", "fetchUsers")
  /\ nodes' = Nothing /\ links' = {}
  /\ UNCHANGED <<source, rels, state, faults>>

FetchUsers(p) ==
  /\ run[p].pc = "fetchUsers"
  /\ run' = [run EXCEPT ![p].pc = "fetchSubs",
       ![p].fetched = [e \in Entities |->
          IF e \in Users THEN FetchedUser(e, run[p].full, run[p].since) ELSE 0]]
  /\ UNCHANGED <<source, graph, rels, state, faults>>

FetchSubs(p) ==
  /\ run[p].pc = "fetchSubs"
  /\ run' = [run EXCEPT ![p].pc = "upsert",
       ![p].fetched = [e \in Entities |->
          IF e \in Subs THEN FetchedSub(e, run[p].full, run[p].since) ELSE @[e]]]
  /\ UNCHANGED <<source, graph, rels, state, faults>>

\* One transaction: INSERT ... ON CONFLICT (id) DO UPDATE for all of them.
Upsert(p) ==
  /\ run[p].pc = "upsert"
  /\ run' = [run EXCEPT ![p] = [@ EXCEPT !.pc = "clearActivity", !.fetched = Nothing]]
  /\ nodes' = [e \in Entities |-> IF run[p].fetched[e] # 0 THEN run[p].fetched[e]
                                                          ELSE nodes[e]]
  /\ UNCHANGED <<links, source, rels, state, faults>>

\* CalculateUserActivity, always for all users.
ClearActivity(p) ==
  /\ Goto(p, "clearActivity", "buildActivity")
  /\ activity' = {}
  /\ UNCHANGED <<related, source, graph, state, faults>>

BuildActivity(p) ==
  /\ \E T \in SUBSET Posted : /\ activity' = activity \cup T
                                  /\ GotoInserted(p, "buildActivity", "relate", Posted, T)
  /\ UNCHANGED <<related, source, graph, state>>

\* CalculateSubredditRelationships: upserts, nothing is ever removed.
Relate(p) ==
  /\ LET pairs == CoOccurring(activity)
     IN \E T \in SUBSET pairs : /\ related' = related \cup T
                                   /\ GotoInserted(p, "relate", "link", pairs, T)
  /\ UNCHANGED <<activity, source, graph, state>>

\* The links of both tables, for pairs whose ends are nodes.
\* Mutant: the last batch, that of the activities, is not flushed.
LinkableUnflushed == {ab \in related : nodes[ab[1]] # 0 /\ nodes[ab[2]] # 0}
Linkable == {ab \in related \cup activity : nodes[ab[1]] # 0 /\ nodes[ab[2]] # 0}

Link(p) ==
  /\ \E T \in SUBSET Linkable : /\ links' = links \cup T
                                    /\ GotoInserted(p, "link", "finish", Linkable, T)
  /\ UNCHANGED <<nodes, source, rels, state>>

\* UpdatePrecalcState; its error is logged.
\* Mutant: the cutoff is rounded up.
SetStateAhead(t, n) == last' = t + 1 /\ counted' = n /\ NoFault
SetState(t, n) == \/ last' = t /\ counted' = n /\ NoFault
                  \/ UNCHANGED state /\ Fault

\* The last statement of a successful run: startTime is the new cutoff.
Finish(p) ==
  /\ Goto(p, "finish", "deferred")
  /\ SetState(run[p].start, Cardinality({e \in Entities : nodes[e] # 0}) + Cardinality(links))
  /\ UNCHANGED <<source, graph, rels>>

\* A statement of the run fails: the run returns.
Fail(p) ==
  /\ IF ClearRefused /\ run[p].pc = "clear" THEN NoFault ELSE Fault
  /\ run[p].pc \in {"clear", "fetchUsers", "fetchSubs", "upsert", "clearActivity",
                    "buildActivity", "relate", "link"}
  /\ run' = [Disturb EXCEPT ![p] = [NoRun EXCEPT !.pc = "deferred", !.disturbed = TRUE]]
  /\ UNCHANGED <<source, graph, rels, state>>

\* The deferred UpdatePrecalcState of every run that got past the decision:
\* time.Now() is the new cutoff and the totals are NULL.
Deferred(p) ==
  /\ run[p].pc = "deferred"
  /\ run' = [run EXCEPT ![p] = NoRun]
  /\ SetState(now, 0)
  /\ UNCHANGED <<source, graph, rels>>

\* The process is killed: nothing is deferred.
Crash(p) ==
  /\ Fault
  /\ ~Idle(p)
  /\ run' = [Disturb EXCEPT ![p] = NoRun]
  /\ UNCHANGED <<source, graph, rels, state>>

\* cmd/integrity deletes a batch of the nodes without links.
CleanupOrphanGraphNodes ==
  /\ Fault
  /\ LET orphans == {e \in Entities : nodes[e] # 0 /\ \A l \in links : e \notin {l[1], l[2]}}
     IN \E S \in SUBSET orphans : /\ S # {}
                                  /\ nodes' = [e \in Entities |-> IF e \in S THEN 0 ELSE nodes[e]]
  /\ run' = Disturb
  /\ UNCHANGED <<links, source, rels, state>>

-----------------------------------------------------------------------------
RunStep(p) ==
  \/ Count(p) \/ Clear(p) \/ FetchUsers(p) \/ FetchSubs(p) \/ Upsert(p)
  \/ ClearActivity(p) \/ BuildActivity(p) \/ Relate(p) \/ Link(p)
  \/ Finish(p) \/ Deferred(p)

Crawl ==
  \/ \E u \in Users, s \in Subs : Store(u, s) \/ Touch(u, s)
  \/ \E u \in Users : UpdateProfile(u)
  \/ \E s \in Subs : UpdateSub(s)

Next ==
  \/ Crawl \/ CleanupOrphanGraphNodes
  \/ \E p \in Procs : \/ Start(p, FALSE) \/ (ManualFull /\ Start(p, TRUE))
                      \/ RunStep(p) \/ Fail(p) \/ Crash(p)

Spec == Init /\ [][Next]_vars

-----------------------------------------------------------------------------
(* Properties.                                                             *)

\* No value is ahead of the source, nor one that a run has fetched and not yet
\* written; no activity, relationship or link joins a pair that never shared any.
UsersGrounded == \A u \in Users : /\ nodes[u] <= Total(u)
                                  /\ \A p \in Procs : run[p].fetched[u] <= Total(u)
SubsGrounded  == \A s \in Subs : /\ nodes[s] <= row[s]
                                 /\ \A p \in Procs : run[p].fetched[s] <= row[s]
PairsGrounded ==
  /\ activity \subseteq Posted
  /\ related \subseteq CoOccurring(Posted)
  /\ links \subseteq Posted \cup CoOccurring(Posted)

\* Whatever crashes, fails or overlaps, the graph invents nothing.
GraphIsGrounded == UsersGrounded /\ SubsGrounded /\ PairsGrounded

AllIdle == \A p \in Procs : Idle(p)

\* Process p comes to the end of its run, which nothing disturbed.
Finishes(p) == run[p].pc = "finish" /\ run'[p].pc = "deferred" /\ ~run[p].disturbed

\* Where the tables can be cleared: a full run that comes to its end alone holds
\* everything that was there when it started, although the crawler kept writing:
\* no row, no activity, no link gets lost between the steps of the run.
FullRunCovers ==
  [][\A p \in Procs :
       Finishes(p) /\ run[p].full =>
         /\ \A s \in Subs : row[s] \in 1..run[p].start => nodes[s] = row[s]
         /\ \A u \in Users : nodes[u] >= Past(u, run[p].start)
         /\ \A us \in Users \X Subs :
              (\E t \in items[us] : t <= run[p].start) => us \in links]_vars

\* An incremental run that comes to its end alone lost nothing of what changed
\* between its cutoff and its start, although the crawler kept writing and
\* whatever runs before it left: the changed rows and the recent activity are in
\* the nodes, and every pair of nodes with activity is linked.
IncrementalRunCovers ==
  [][\A p \in Procs :
       Finishes(p) /\ ~run[p].full =>
         /\ \A s \in Subs : row[s] \in run[p].since + 1 .. run[p].start => nodes[s] = row[s]
         /\ \A u \in Users : nodes[u] >= Due(u, run[p].since, run[p].start)
         /\ \A us \in Users \X Subs :
              /\ \E t \in items[us] : t <= run[p].start
              /\ nodes[us[1]] # 0 /\ nodes[us[2]] # 0
              => us \in links]_vars

\* service.go:944, "Use startTime as the cutoff to avoid missing updates that
\* occur during the run": when a run that nothing disturbed is over, a row that
\* was written after its start is in the graph or newer than the cutoff, so that
\* the next incremental run takes it.
MissesNoUpdate ==
  [][\A p \in Procs :
       run[p].pc = "deferred" /\ ~run[p].disturbed /\ run'[p].pc = "idle" =>
         \A s \in Subs : row[s] > run[p].start => nodes[s] = row[s] \/ row[s] > last']_vars

\* docs/INCREMENTAL_PRECALCULATION.md:328, the first run is to "perform a full
\* rebuild, initializing the state": a cutoff stands for a graph that was built.
InitializedByFullRebuild ==
  AllIdle /\ last # Never => \E e \in Entities : nodes[e] # 0
=============================================================================
