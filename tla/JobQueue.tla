------------------------------ MODULE JobQueue ------------------------------
(***************************************************************************)
(* The crawl queue: the table crawl_jobs and everybody who writes to it.   *)
(*                                                                         *)
(* The table holds at most one row per subreddit (UNIQUE subreddit_id) and *)
(* no statement deletes a row.  Crawler processes claim a row, crawl the   *)
(* subreddit for minutes and mark the row; the API, the scheduler and the  *)
(* admin handlers write to the same rows at any moment; a crawler or the   *)
(* precalculation process resets rows left in 'crawling' when it starts.   *)
(* One SQL statement is one step, so everything that happens between two   *)
(* statements of a handler may interleave with it.                         *)
(*                                                                         *)
(* Abstractions: a subreddit is its row; timestamps are kept as the        *)
(* comparisons the code makes with them (older, starved, stale, retryDue). *)
(* visible_at is only ever written as now(), so it never hides a row and   *)
(* is left out, as are retries, retry_count and max_retries, which no      *)
(* reachable decision reads (retryDue is empty, see RetryReady).           *)
(***************************************************************************)
EXTENDS Integers

CONSTANTS
  Subs,            \* subreddits that may get a row in crawl_jobs
  Crawlers,        \* crawler processes
  Clients,         \* request handlers and scheduler runs in flight
  NoSub,           \* "no row": the job of an idle crawler
  MaxPriority,     \* 100: the cap that aging and boosting respect
  AgeBoost,        \* 10: what one maintenance run adds to a starved row
  PriorityBound,   \* bound of the model on the uncapped bumps
  Boosts,          \* boosts an admin asks for
  SetPriorities,   \* priorities an admin or a scheduled job sets
  Admins,          \* whether the admin endpoints are in use
  Faults,          \* whether a single SQL statement may fail
  SlowCrawls       \* whether a crawl may outlast RESET_CRAWLING_AFTER_MIN

ASSUME JobQueueAssumption ==
  /\ NoSub \notin Subs \cup Crawlers
  /\ MaxPriority \in Nat /\ AgeBoost \in Nat /\ PriorityBound \in Int
  /\ Boosts \subseteq Int /\ SetPriorities \subseteq Int
  /\ {Admins, Faults, SlowCrawls} \subseteq BOOLEAN

VARIABLES
  status,      \* crawl_jobs.status by subreddit, "absent" when there is no row
  priority,    \* crawl_jobs.priority
  older,       \* pairs <<s, t>>: the created_at of s is before that of t
  starved,     \* rows whose created_at is over an hour ago
  stale,       \* 'crawling' rows whose updated_at is over the reset threshold
  retryDue,    \* rows with next_retry_at <= now()
  pc,          \* where each crawler is in its loop
  job,         \* the row each crawler works on
  call,        \* what each handler has decided and not yet written
  enabled,     \* the service setting crawler_enabled
  overridden   \* history: rows whose status was overwritten under a crawler

vars == <<status, priority, older, starved, stale, retryDue, pc, job, call,
          enabled, overridden>>

table   == <<status, priority, older, starved, stale, retryDue>>
workers == <<pc, job>>

Statuses == {"queued", "crawling", "success", "failed"}
Busy     == {"claimed", "crawling", "linking"}
PCs      == {"down", "idle", "claiming"} \cup Busy

NoCall == [op |-> "none", sub |-> NoSub, value |-> 0]
Calls  == {NoCall} \cup
          [op : {"enqueue", "bump", "set"}, sub : Subs, value : Int]

Rows == {s \in Subs : status[s] # "absent"}

\* Crawler w is between the commit of its claim and its final mark of s.
Processing(w, s) == pc[w] \in Busy /\ job[w] = s
InProgress(s)    == \E w \in Crawlers : Processing(w, s)

\* The open transaction of a claim holds the lock of the row it selected.
Locked(s) == \E w \in Crawlers : pc[w] = "claiming" /\ job[w] = s

TypeOK ==
  /\ status \in [Subs -> Statuses \cup {"absent"}]
  /\ priority \in [Subs -> Int]
  /\ older \subseteq Subs \X Subs
  /\ starved \subseteq Subs /\ stale \subseteq Subs /\ retryDue \subseteq Subs
  /\ pc \in [Crawlers -> PCs]
  /\ job \in [Crawlers -> Subs \cup {NoSub}]
  /\ \A w \in Crawlers : job[w] = NoSub <=> pc[w] \in {"down", "idle"}
  /\ call \in [Clients -> Calls]
  /\ enabled \in BOOLEAN
  /\ overridden \subseteq Subs

Init ==
  /\ status = [s \in Subs |-> "absent"]
  /\ priority = [s \in Subs |-> 0]
  /\ older = {} /\ starved = {} /\ stale = {} /\ retryDue = {}
  /\ pc = [w \in Crawlers |-> "down"]
  /\ job = [w \in Crawlers |-> NoSub]
  /\ call = [c \in Clients |-> NoCall]
  /\ enabled = TRUE
  /\ overridden = {}

-----------------------------------------------------------------------------
(* Statements on crawl_jobs.                                               *)

\* Mutant: an upsert that also requeues whatever row it meets.
InsertOrRequeue(s) ==
  /\ status' = [status EXCEPT ![s] = "queued"]
  /\ older' = IF s \in Rows THEN older ELSE older \cup (Rows \X {s})
  /\ UNCHANGED <<priority, starved, stale, retryDue>>

\* EnqueueCrawlJob: INSERT ... WHERE NOT EXISTS.  A row that is there, in
\* whatever status, is left alone.
Insert(s) ==
  /\ status' = IF s \in Rows THEN status ELSE [status EXCEPT ![s] = "queued"]
  /\ older' = IF s \in Rows THEN older ELSE older \cup (Rows \X {s})
  /\ UNCHANGED <<priority, starved, stale, retryDue>>

\* UPDATE ... SET status = st, updated_at = now() WHERE id = s.
SetStatus(s, st) ==
  /\ ~Locked(s)
  /\ status' = [status EXCEPT ![s] = st]
  /\ stale' = stale \ {s}
  /\ UNCHANGED <<priority, older, starved, retryDue>>

\* UPDATE ... SET priority = p, updated_at = now() WHERE id = s.
SetPriority(s, p) ==
  /\ ~Locked(s)
  /\ priority' = [priority EXCEPT ![s] = p]
  /\ stale' = stale \ {s}
  /\ UNCHANGED <<status, older, starved, retryDue>>

\* The rows S are overwritten: remember those a crawler is working on.
Override(S) == overridden' = overridden \cup {s \in S : InProgress(s)}

\* Mutant of the next: the crawler keeps its row.
KeepRow(w, next) ==
  /\ pc' = [pc EXCEPT ![w] = next]
  /\ UNCHANGED <<job, overridden>>

\* Crawler w is done with its row; nobody is disturbed by old overwrites once
\* the last crawler has left the row.
Leave(w, next) ==
  /\ pc' = [pc EXCEPT ![w] = next]
  /\ job' = [job EXCEPT ![w] = NoSub]
  /\ overridden' = IF \E v \in Crawlers \ {w} : Processing(v, job[w])
                   THEN overridden ELSE overridden \ {job[w]}
-----------------------------------------------------------------------------
(* The crawler: Crawler.Start, processNextJob, ClaimNextJob, handleJob.    *)

\* Rows ResetIncompleteJobs picks: WHERE status = 'crawling' AND updated_at
\* < now() - threshold.
\* Mutant: without the age condition.
AllCrawling == {s \in Subs : status[s] = "crawling"}
Resettable  == {s \in Subs : status[s] = "crawling" /\ s \in stale}

ResetIncompleteJobs ==
  /\ status' = [s \in Subs |-> IF s \in Resettable THEN "queued" ELSE status[s]]
  /\ stale' = stale \ Resettable
  /\ Override(Resettable)
  /\ UNCHANGED <<priority, older, starved, retryDue>>

\* A failed statement changes nothing; the caller carries on or returns.
NothingWritten == Faults /\ UNCHANGED <<table, overridden>>

\* Crawler.Start: the reset runs once and its error is dropped.
Start(w) ==
  /\ pc[w] = "down"
  /\ pc' = [pc EXCEPT ![w] = "idle"]
  /\ ResetIncompleteJobs \/ NothingWritten
  /\ UNCHANGED <<job, call, enabled>>

\* The precalculation process starts: the same reset.
PrecalcStart ==
  /\ ResetIncompleteJobs
  /\ UNCHANGED <<workers, call, enabled>>

\* WHERE status = 'queued' ... FOR UPDATE SKIP LOCKED.
\* Mutant: the SELECT without row locks.
ClaimableUnlocked == {s \in Subs : status[s] = "queued"}
Claimable         == {s \in Subs : status[s] = "queued" /\ ~Locked(s)}

\* ORDER BY priority DESC, created_at ASC.
Precedes(s, t) ==
  \/ priority[s] > priority[t]
  \/ priority[s] = priority[t] /\ <<s, t>> \in older

\* Crawler w may poll: crawler_enabled reads true, or the read fails and
\* GetBool falls back to the default, true.
MayPoll(w) == pc[w] = "idle" /\ (enabled \/ Faults)

\* The SELECT of ClaimNextJob: the first claimable row, now locked by w.
ClaimSelect(w) ==
  /\ MayPoll(w)
  /\ \E s \in Claimable :
       /\ \A t \in Claimable \ {s} : Precedes(s, t)
       /\ job' = [job EXCEPT ![w] = s]
  /\ pc' = [pc EXCEPT ![w] = "claiming"]
  /\ UNCHANGED <<table, call, enabled, overridden>>

\* The UPDATE and the COMMIT of ClaimNextJob.
ClaimCommit(w) ==
  /\ pc[w] = "claiming"
  /\ pc' = [pc EXCEPT ![w] = "claimed"]
  /\ status' = [status EXCEPT ![job[w]] = "crawling"]
  /\ stale' = stale \ {job[w]}
  /\ UNCHANGED <<priority, older, starved, retryDue, job, call, enabled, overridden>>

\* The UPDATE or the COMMIT fails: the transaction is rolled back.
ClaimAbort(w) ==
  /\ Faults
  /\ pc[w] = "claiming"
  /\ pc' = [pc EXCEPT ![w] = "idle"]
  /\ job' = [job EXCEPT ![w] = NoSub]
  /\ UNCHANGED <<table, call, enabled, overridden>>

\* handleJob begins with MarkCrawlJobStarted, WHERE id only.
MarkStarted(w) ==
  /\ pc[w] = "claimed"
  /\ SetStatus(job[w], "crawling")
  /\ pc' = [pc EXCEPT ![w] = "crawling"]
  /\ UNCHANGED <<job, call, enabled, overridden>>

\* MarkCrawlJobStarted fails: handleJob returns and marks nothing.
MarkStartedFails(w) ==
  /\ Faults
  /\ pc[w] = "claimed"
  /\ Leave(w, "idle")
  /\ UNCHANGED <<table, call, enabled>>

\* MarkJobFailedWithRetry, which nothing calls: in the place of MarkFailed it
\* would make FailedIsRetried hold.
MarkFailedWithRetry(s) ==
  /\ ~Locked(s)
  /\ status' = [status EXCEPT ![s] = "failed"]
  /\ stale' = stale \ {s}
  /\ retryDue' = retryDue \cup {s}
  /\ UNCHANGED <<priority, older, starved>>
\* Mutant: back into the queue at once.
MarkRequeued(s) == SetStatus(s, "queued")
\* Any error of handleJob up to the comments: MarkCrawlJobFailed, whose own
\* error is dropped.
MarkFailed(s) == SetStatus(s, "failed")

CrawlFails(w) ==
  /\ pc[w] = "crawling"
  /\ MarkFailed(job[w]) \/ (Faults /\ UNCHANGED table)
  /\ Leave(w, "idle")
  /\ UNCHANGED <<call, enabled>>

\* Posts and comments are stored: on to the subreddits they mention.
CrawlStored(w) ==
  /\ pc[w] = "crawling"
  /\ pc' = [pc EXCEPT ![w] = "linking"]
  /\ UNCHANGED <<table, job, call, enabled, overridden>>

\* enqueueLinkedSubreddits and the discovery from authors: one more row.
Discover(w, s) ==
  /\ pc[w] = "linking"
  /\ Insert(s)
  /\ UNCHANGED <<workers, call, enabled, overridden>>

\* MarkCrawlJobSuccess, WHERE id only; if it fails the row stays 'crawling'.
CrawlSucceeds(w) ==
  /\ pc[w] = "linking"
  /\ SetStatus(job[w], "success") \/ (Faults /\ UNCHANGED table)
  /\ Leave(w, "idle")
  /\ UNCHANGED <<call, enabled>>

\* The process dies, or is told to stop: handleJob's context is cancelled and
\* none of its later statements runs.  An open claim is rolled back.
Crash(w) ==
  /\ pc[w] # "down"
  /\ Leave(w, "down")
  /\ UNCHANGED <<table, call, enabled>>

-----------------------------------------------------------------------------
(* The crawler's tickers.                                                  *)

\* RequeueRetryableJobs: next_retry_at is written by MarkJobFailedWithRetry
\* alone, which nothing calls, so no row ever qualifies.
RetryReady == {s \in Subs : status[s] = "failed" /\ s \in retryDue}

\* AgeStarvedJobs: LEAST(priority + AgeBoost, MaxPriority).
\* Mutant: no aging.
NotAged(p) == p
Aged(p) == IF p + AgeBoost < MaxPriority THEN p + AgeBoost ELSE MaxPriority

AgeReady(st) ==
  {s \in Subs : st[s] = "queued" /\ s \in starved /\ priority[s] < MaxPriority}

\* The maintenance ticker: both statements in turn, either may fail alone.
Maintenance(w) ==
  /\ pc[w] = "idle"
  /\ \E R \in {RetryReady} \cup (IF Faults THEN {{}} ELSE {}) :
       LET requeued == [s \in Subs |-> IF s \in R THEN "queued" ELSE status[s]]
       IN \E A \in {AgeReady(requeued)} \cup (IF Faults THEN {{}} ELSE {}) :
            /\ \A s \in A : ~Locked(s)
            /\ status' = requeued
            /\ priority' = [s \in Subs |-> IF s \in A THEN Aged(priority[s])
                                                      ELSE priority[s]]
            /\ stale' = stale \ (R \cup A)
  /\ UNCHANGED <<older, starved, retryDue, workers, call, enabled, overridden>>

\* The stale ticker: checkAndRequeueStaleSubreddits and RequeueStaleSubreddits
\* reach EnqueueCrawlJob for one subreddit after the other.
RequeueStale(w, s) ==
  /\ pc[w] = "idle"
  /\ Insert(s)
  /\ UNCHANGED <<workers, call, enabled, overridden>>

-----------------------------------------------------------------------------
(* API, scheduler and admin handlers.                                      *)

\* PostCrawl, first statement: CrawlJobExists decides what the second does.
PostCrawlCheck(c, s) ==
  /\ call[c] = NoCall
  /\ call' = [call EXCEPT ![c] = [op |-> IF s \in Rows THEN "bump" ELSE "enqueue",
                                  sub |-> s, value |-> 0]]
  /\ UNCHANGED <<table, workers, enabled, overridden>>

\* BoostJobPriority, first statement: the sum is computed from this read.
BoostedPriority(p, b) == IF p + b > MaxPriority THEN MaxPriority ELSE p + b

BoostRead(c, s, b) ==
  /\ Admins
  /\ call[c] = NoCall
  /\ s \in Rows
  /\ call' = [call EXCEPT ![c] = [op |-> "set", sub |-> s,
                                  value |-> BoostedPriority(priority[s], b)]]
  /\ UNCHANGED <<table, workers, enabled, overridden>>

\* executeScheduledJob: enqueue, then overwrite the priority of the row.
ScheduledEnqueue(c, s, p) ==
  /\ call[c] = NoCall
  /\ Insert(s)
  /\ call' = IF p > 0
             THEN [call EXCEPT ![c] = [op |-> "set", sub |-> s, value |-> p]]
             ELSE call
  /\ UNCHANGED <<workers, enabled, overridden>>

\* The second statement of each of the three; it may fail.
CallWrite(c) ==
  /\ call[c] # NoCall
  /\ LET s == call[c].sub
     IN \/ call[c].op = "enqueue" /\ Insert(s)
        \/ call[c].op = "bump" /\ priority[s] < PriorityBound
                               /\ SetPriority(s, priority[s] + 1)
        \/ call[c].op = "set"  /\ SetPriority(s, call[c].value)
        \/ Faults /\ UNCHANGED table
  /\ call' = [call EXCEPT ![c] = NoCall]
  /\ UNCHANGED <<workers, enabled, overridden>>

\* UpdateJobStatus, and each step of BulkUpdateJobStatus.
AdminSetStatus(s, st) ==
  /\ Admins /\ s \in Rows
  /\ SetStatus(s, st)
  /\ Override({s})
  /\ UNCHANGED <<workers, call, enabled>>

\* RetryJob, and each step of BulkRetryJobs: whatever the status was.
AdminRetry(s) ==
  /\ Admins /\ s \in Rows
  /\ SetStatus(s, "queued")
  /\ Override({s})
  /\ UNCHANGED <<workers, call, enabled>>

\* UpdateJobPriority: any value.
AdminSetPriority(s, p) ==
  /\ Admins /\ s \in Rows
  /\ SetPriority(s, p)
  /\ UNCHANGED <<workers, call, enabled, overridden>>

\* The service setting crawler_enabled is switched.
AdminToggle ==
  /\ Admins
  /\ enabled' = ~enabled
  /\ UNCHANGED <<table, workers, call, overridden>>

-----------------------------------------------------------------------------
(* Time.                                                                   *)

\* A 'crawling' row has not been written to for RESET_CRAWLING_AFTER_MIN.
GrowStale(s) ==
  /\ status[s] = "crawling"
  /\ SlowCrawls \/ ~InProgress(s)
  /\ stale' = stale \cup {s}
  /\ UNCHANGED <<status, priority, older, starved, retryDue, workers, call,
                 enabled, overridden>>

\* A row is an hour old.
GrowStarved(s) ==
  /\ s \in Rows
  /\ starved' = starved \cup {s}
  /\ UNCHANGED <<status, priority, older, stale, retryDue, workers, call,
                 enabled, overridden>>

-----------------------------------------------------------------------------
CrawlStep(w) ==
  \/ ClaimSelect(w) \/ ClaimCommit(w) \/ ClaimAbort(w)
  \/ MarkStarted(w) \/ MarkStartedFails(w)
  \/ CrawlFails(w) \/ CrawlStored(w) \/ CrawlSucceeds(w)

CrawlerNext(w) ==
  \/ Start(w) \/ Crash(w)
  \/ CrawlStep(w)
  \/ \E s \in Subs : Discover(w, s) \/ RequeueStale(w, s)
  \/ Maintenance(w)

ClientStep(c) ==
  \/ \E s \in Subs : PostCrawlCheck(c, s)
  \/ \E s \in Subs, b \in Boosts : BoostRead(c, s, b)
  \/ \E s \in Subs, p \in SetPriorities : ScheduledEnqueue(c, s, p)
  \/ CallWrite(c)

AdminNext ==
  \/ \E s \in Subs, st \in Statuses : AdminSetStatus(s, st)
  \/ \E s \in Subs : AdminRetry(s)
  \/ \E s \in Subs, p \in SetPriorities : AdminSetPriority(s, p)
  \/ AdminToggle

Time == \E s \in Subs : GrowStale(s) \/ GrowStarved(s)

Next ==
  \/ \E w \in Crawlers : CrawlerNext(w)
  \/ \E c \in Clients : ClientStep(c)
  \/ PrecalcStart
  \/ AdminNext
  \/ Time

Spec == Init /\ [][Next]_vars

(***************************************************************************)
(* Fairness.  The container of a crawler restarts it (restart: unless-     *)
(* stopped).  Its tickers fire every 5 seconds and 5 minutes and Go's      *)
(* select picks among the ready ones at random, so a poll or a maintenance *)
(* run that is possible again and again happens: strong fairness, because  *)
(* crashes and long crawls come between.  The steps of a crawl are strongly*)
(* fair too: no row brings the crawler down each time it is tried, which   *)
(* the code could not survive; nor does the statement that records an      *)
(* outcome fail each time.  Crashes, requests and admins are not fair.     *)
(***************************************************************************)
Recorded(w) == status'[job[w]] # "crawling"

Fairness ==
  /\ \A w \in Crawlers :
       /\ WF_vars(Start(w))
       /\ SF_vars(ClaimSelect(w)) /\ SF_vars(ClaimCommit(w))
       /\ SF_vars(MarkStarted(w))
       /\ SF_vars(CrawlStored(w) \/ (CrawlFails(w) /\ Recorded(w)))
       /\ SF_vars(CrawlSucceeds(w) /\ Recorded(w))
       /\ SF_vars(Maintenance(w))
  /\ \A c \in Clients : WF_vars(CallWrite(c))
  /\ \A s \in Subs : WF_vars(GrowStarved(s)) /\ WF_vars(GrowStale(s))

FairSpec == Spec /\ Fairness

-----------------------------------------------------------------------------
(* Safety.                                                                 *)

\* Two crawlers work on the same row only after somebody overwrote its
\* status while the first was at it: the claim (SKIP LOCKED, commit before
\* handleJob) never hands out a row twice by itself.
ExclusiveClaim ==
  \A s \in Subs : \A v, w \in Crawlers :
    Processing(v, s) /\ Processing(w, s) /\ v # w => s \in overridden

\* A row under a crawler reads 'crawling' to everybody else unless it was
\* overwritten: nobody sees a claimed row as waiting or done.
ClaimedReadsCrawling ==
  \A s \in Subs : \A w \in Crawlers :
    Processing(w, s) /\ s \notin overridden => status[s] = "crawling"

\* An open claim holds a row that is still 'queued', and no two open claims
\* hold the same one.
OpenClaims ==
  \A v \in Crawlers : pc[v] = "claiming" =>
    /\ status[job[v]] = "queued"
    /\ \A w \in Crawlers : pc[w] = "claiming" /\ job[w] = job[v] => v = w

\* ExclusiveClaim with what it takes to be preserved by every step.
ExclusiveInv == ExclusiveClaim /\ ClaimedReadsCrawling /\ OpenClaims

\* No request to crawl is lost: a waiting row gets an outcome without having
\* been crawled only by an admin's hand, or from a crawler that was still at
\* it when the row was overwritten.
OutcomeNeedsCrawl ==
  [][\A s \in Subs :
       status[s] = "queued" /\ status'[s] \in {"success", "failed"}
         => s \in overridden \/ \E st \in Statuses : AdminSetStatus(s, st)]_vars

\* While admins keep out and crawls are shorter than the reset threshold, the
\* table and the crawlers implement CrawlLifecycle: one crawler per request at
\* a time, outcomes that stay (failed ones too, see FailedIsRetried), and no way
\* round a crawl.
Owner ==
  [s \in Subs |-> IF InProgress(s) THEN CHOOSE w \in Crawlers : Processing(w, s)
                                   ELSE NoSub]

Lifecycle == INSTANCE CrawlLifecycle WITH state <- status, owner <- Owner,
                                          NoOne <- NoSub

ImplementsLifecycle == Lifecycle!Spec

-----------------------------------------------------------------------------
(* Liveness.                                                               *)

\* Without admins every queued row is crawled to an outcome in the end, or
\* left behind by a crawler that went down: rows that keep failing, crashes
\* and resets never hold up another row for good.
QueuedGetsOutcome ==
  \A s \in Subs :
    status[s] = "queued" ~> \/ status[s] \in {"success", "failed"}
                            \/ status[s] = "crawling" /\ ~InProgress(s)

\* docs/JOB_SYSTEM.md:38, "Failed jobs are automatically retried", as long as
\* retry_count is below max_retries.  MarkJobFailedWithRetry alone counts, so
\* without a caller every failed row has its retries left: it is to be back in
\* the queue some time, and RequeueRetryableJobs to bring it there.
FailedIsRetried ==
  \A s \in Subs : status[s] = "failed" ~> status[s] = "queued"

\* Aging keeps the oldest row from starving however often admins retry and
\* prioritise younger rows, as long as the crawler is enabled and admins only
\* ever set the highest priority (nothing holds against one who keeps setting
\* the oldest row back).
OldestIsServed ==
  /\ SetPriorities \subseteq {MaxPriority}
  /\ [](enabled /\ \A s \in Subs : priority[s] <= MaxPriority) =>
    \A s \in Subs :
      (status[s] = "queued" /\ \A t \in Rows \ {s} : <<s, t>> \in older)
        ~> status[s] # "queued"
=============================================================================
