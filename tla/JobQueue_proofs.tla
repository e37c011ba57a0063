--------------------------- MODULE JobQueue_proofs ---------------------------
(* Proofs about JobQueue, for every set of rows, crawlers and clients and  *)
(* every value of the bounds.                                              *)
EXTENDS JobQueue, TLAPS

USE JobQueueAssumption

\* Every step of the table's statements keeps the table's types.
LEMMA StatementTypes ==
  ASSUME TypeOK, NEW s \in Subs
  PROVE  /\ Insert(s) => status' \in [Subs -> Statuses \cup {"absent"}]
                         /\ older' \subseteq Subs \X Subs
         /\ \A st \in Statuses : SetStatus(s, st) =>
              status' \in [Subs -> Statuses \cup {"absent"}] /\ stale' \subseteq Subs
         /\ \A p \in Int : SetPriority(s, p) =>
              priority' \in [Subs -> Int] /\ stale' \subseteq Subs
<1>1. Rows \X {s} \subseteq Subs \X Subs
  BY DEF Rows
<1>. QED  BY <1>1 DEF TypeOK, Insert, SetStatus, SetPriority, Statuses

\* Every value of the table, of the crawlers' loops and of the handlers' pending
\* writes stays in its domain; in particular a crawler holds a row exactly when
\* its loop is past the SELECT of a claim (jobqueue.go:75-137, jobs.go:26-147).
THEOREM TypeCorrect == Spec => []TypeOK
<1>1. Init => TypeOK
  BY DEF Init, TypeOK, Calls, NoCall, PCs, Busy, Statuses
<1>2. TypeOK /\ [Next]_vars => TypeOK'
  <2> SUFFICES ASSUME TypeOK, [Next]_vars PROVE TypeOK'
    OBVIOUS
  <2>1. ASSUME NEW w \in Crawlers, CrawlerNext(w) PROVE TypeOK'
    <3>1. CASE Start(w)
      BY <3>1 DEF TypeOK, Start, ResetIncompleteJobs, NothingWritten, Override, Resettable, PCs, Busy, Statuses, table
    <3>2. CASE Crash(w)
      BY <3>2 DEF TypeOK, Crash, Leave, PCs, Busy, table
    <3>3. CASE ClaimSelect(w)
      BY <3>3 DEF TypeOK, ClaimSelect, MayPoll, Claimable, PCs, Busy, table
    <3>4. CASE ClaimCommit(w)
      BY <3>4 DEF TypeOK, ClaimCommit, PCs, Busy, Statuses, table
    <3>5. CASE ClaimAbort(w)
      BY <3>5 DEF TypeOK, ClaimAbort, PCs, Busy, table
    <3>6. CASE MarkStarted(w)
      BY <3>6, StatementTypes DEF TypeOK, MarkStarted, SetStatus, PCs, Busy, Statuses
    <3>7. CASE MarkStartedFails(w)
      BY <3>7 DEF TypeOK, MarkStartedFails, Leave, PCs, Busy, table
    <3>8. CASE CrawlFails(w)
      BY <3>8 DEF TypeOK, CrawlFails, MarkFailed, SetStatus, Leave, PCs, Busy, Statuses, table
    <3>9. CASE CrawlStored(w)
      BY <3>9 DEF TypeOK, CrawlStored, PCs, Busy, table
    <3>10. CASE CrawlSucceeds(w)
      BY <3>10 DEF TypeOK, CrawlSucceeds, SetStatus, Leave, PCs, Busy, Statuses, table
    <3>11. ASSUME NEW s \in Subs, Discover(w, s) \/ RequeueStale(w, s) PROVE TypeOK'
      BY <3>11, StatementTypes DEF TypeOK, Discover, RequeueStale, Insert, workers
    <3>12. CASE Maintenance(w)
      BY <3>12 DEF TypeOK, Maintenance, RetryReady, AgeReady, Aged, Statuses, workers
    <3>. QED  BY <2>1, <3>1, <3>2, <3>3, <3>4, <3>5, <3>6, <3>7, <3>8, <3>9, <3>10, <3>11, <3>12
              DEF CrawlerNext, CrawlStep
  <2>2. ASSUME NEW c \in Clients, ClientStep(c) PROVE TypeOK'
    <3>1. ASSUME NEW s \in Subs, PostCrawlCheck(c, s) PROVE TypeOK'
      BY <3>1 DEF TypeOK, PostCrawlCheck, Calls, table, workers
    <3>2. ASSUME NEW s \in Subs, NEW b \in Boosts, BoostRead(c, s, b) PROVE TypeOK'
      BY <3>2 DEF TypeOK, BoostRead, BoostedPriority, Calls, table, workers
    <3>3. ASSUME NEW s \in Subs, NEW p \in SetPriorities, ScheduledEnqueue(c, s, p) PROVE TypeOK'
      <4>1. [op |-> "set", sub |-> s, value |-> p] \in Calls
        BY DEF Calls
      <4>2. call' \in [Clients -> Calls]
        BY <3>3, <4>1 DEF TypeOK, ScheduledEnqueue
      <4>3. status' \in [Subs -> Statuses \cup {"absent"}] /\ older' \subseteq Subs \X Subs
        BY <3>3, StatementTypes DEF ScheduledEnqueue
      <4>. QED  BY <3>3, <4>2, <4>3 DEF TypeOK, ScheduledEnqueue, Insert, workers
    <3>4. CASE CallWrite(c)
      <4>1. call[c].sub \in Subs /\ call[c].value \in Int
        BY <3>4 DEF CallWrite, TypeOK, Calls
      <4>. QED  BY <3>4, <4>1, StatementTypes
                DEF TypeOK, CallWrite, Insert, SetPriority, Calls, table, workers
    <3>. QED  BY <2>2, <3>1, <3>2, <3>3, <3>4 DEF ClientStep
  <2>3. CASE PrecalcStart
    BY <2>3 DEF TypeOK, PrecalcStart, ResetIncompleteJobs, Override, Resettable, Statuses, workers
  <2>4. CASE AdminNext
    <3>1. ASSUME NEW s \in Subs, NEW st \in Statuses, AdminSetStatus(s, st) PROVE TypeOK'
      BY <3>1 DEF TypeOK, AdminSetStatus, SetStatus, Override, Statuses, workers
    <3>2. ASSUME NEW s \in Subs, AdminRetry(s) PROVE TypeOK'
      BY <3>2 DEF TypeOK, AdminRetry, SetStatus, Override, Statuses, workers
    <3>3. ASSUME NEW s \in Subs, NEW p \in SetPriorities, AdminSetPriority(s, p) PROVE TypeOK'
      BY <3>3 DEF TypeOK, AdminSetPriority, SetPriority, workers
    <3>4. CASE AdminToggle
      <4>1. enabled' \in BOOLEAN
        BY <3>4 DEF AdminToggle
      <4>. QED  BY <3>4, <4>1 DEF TypeOK, AdminToggle, table, workers
    <3>. QED  BY <2>4, <3>1, <3>2, <3>3, <3>4 DEF AdminNext
  <2>5. CASE Time
    BY <2>5 DEF TypeOK, Time, GrowStale, GrowStarved, Rows, workers
  <2>6. CASE UNCHANGED vars
    BY <2>6 DEF TypeOK, vars
  <2>. QED  BY <2>1, <2>2, <2>3, <2>4, <2>5, <2>6 DEF Next
<1>. QED  BY <1>1, <1>2, PTL DEF Spec

-----------------------------------------------------------------------------
(* ExclusiveInv: no step hands out a row that another crawler holds.       *)
(* A step can disturb it by moving a crawler into Busy (ClaimCommit), by   *)
(* changing the status of a row in progress (every status write), or by    *)
(* taking a row out of overridden (Leave).                                 *)

\* A crawler that leaves its row disturbs nobody else on that row.
LEMMA LeavePreserves ==
  ASSUME TypeOK, ExclusiveInv, NEW w \in Crawlers, NEW next \in {"down", "idle"},
         Leave(w, next),
         \A s \in Subs : status'[s] = status[s] \/ (pc[w] \in Busy /\ s = job[w] /\ ~Locked(s))
  PROVE  ExclusiveInv'
<1>1. \A v \in Crawlers, s \in Subs : Processing(v, s)' => Processing(v, s) /\ v # w
  BY DEF Leave, Processing, TypeOK, Busy
<1>2. \A s \in Subs, v \in Crawlers : s \in overridden /\ Processing(v, s)' => s \in overridden'
  BY <1>1 DEF Leave, Processing, TypeOK
<1>3. \A s \in Subs : status'[s] # status[s] /\ s \notin overridden =>
         \A v \in Crawlers : ~Processing(v, s)'
  BY <1>1 DEF ExclusiveInv, ExclusiveClaim, Processing, TypeOK
<1>4. overridden' \subseteq overridden
  BY DEF Leave
<1>5. ExclusiveClaim'
  BY <1>1, <1>2 DEF ExclusiveInv, ExclusiveClaim
<1>6. ClaimedReadsCrawling'
  BY <1>1, <1>2, <1>3 DEF ExclusiveInv, ClaimedReadsCrawling
<1>7. OpenClaims'
  <2> SUFFICES ASSUME NEW v \in Crawlers, pc'[v] = "claiming"
               PROVE  /\ status'[job'[v]] = "queued"
                      /\ \A u \in Crawlers : pc'[u] = "claiming" /\ job'[u] = job'[v] => v = u
    BY DEF OpenClaims
  <2>1. v # w /\ pc[v] = "claiming" /\ job'[v] = job[v] /\ job[v] \in Subs
    BY DEF Leave, TypeOK
  <2>2. status'[job[v]] = status[job[v]]
    BY <2>1 DEF Locked, TypeOK
  <2>. QED  BY <2>1, <2>2 DEF ExclusiveInv, OpenClaims, Leave, TypeOK
<1>. QED  BY <1>5, <1>6, <1>7 DEF ExclusiveInv

\* A status write by somebody who is no crawler at work: it overwrites rows
\* that are not locked and records those in progress.
LEMMA OverridePreserves ==
  ASSUME TypeOK, ExclusiveInv, NEW S \in SUBSET Subs, Override(S),
         \A s \in S : ~Locked(s),
         \A s \in Subs \ S : status'[s] = status[s],
         job' = job,
         \A v \in Crawlers : pc'[v] = pc[v] \/ (pc[v] = "down" /\ pc'[v] = "idle")
  PROVE  ExclusiveInv'
<1>1. \A v \in Crawlers, s \in Subs : Processing(v, s)' => Processing(v, s)
  BY DEF Processing, Busy
<1>2. overridden \subseteq overridden' /\ \A s \in S : InProgress(s) => s \in overridden'
  BY DEF Override
<1>3. ExclusiveClaim'
  BY <1>1, <1>2 DEF ExclusiveInv, ExclusiveClaim
<1>4. ClaimedReadsCrawling'
  BY <1>1, <1>2 DEF ExclusiveInv, ClaimedReadsCrawling, InProgress
<1>5. OpenClaims'
  <2> SUFFICES ASSUME NEW v \in Crawlers, pc'[v] = "claiming"
               PROVE  /\ status'[job'[v]] = "queued"
                      /\ \A u \in Crawlers : pc'[u] = "claiming" /\ job'[u] = job'[v] => v = u
    BY DEF OpenClaims
  <2>1. pc[v] = "claiming" /\ job[v] \in Subs
    BY DEF TypeOK
  <2>2. status'[job[v]] = status[job[v]]
    BY <2>1 DEF Locked
  <2>. QED  BY <2>1, <2>2 DEF ExclusiveInv, OpenClaims
<1>. QED  BY <1>3, <1>4, <1>5 DEF ExclusiveInv

\* A step that moves no crawler across claiming and Busy, writes no status of
\* a row in progress or claimed, and forgets no overwrite.
LEMMA QuietPreserves ==
  ASSUME TypeOK, ExclusiveInv, UNCHANGED overridden, job' = job,
         \A v \in Crawlers : /\ pc'[v] = "claiming" <=> pc[v] = "claiming"
                             /\ pc'[v] \in Busy => pc[v] \in Busy,
         \A s \in Subs : status'[s] = status[s] \/ status[s] = "absent"
                         \/ (status[s] = "failed" /\ status'[s] = "queued")
                         \/ (status'[s] = "crawling" /\ ~Locked(s))
  PROVE  ExclusiveInv'
<1>1. \A v \in Crawlers, s \in Subs : Processing(v, s)' => Processing(v, s)
  BY DEF Processing
<1>2. ExclusiveClaim'
  BY <1>1 DEF ExclusiveInv, ExclusiveClaim
<1>3. ClaimedReadsCrawling'
  BY <1>1 DEF ExclusiveInv, ClaimedReadsCrawling
<1>4. OpenClaims'
  <2> SUFFICES ASSUME NEW v \in Crawlers, pc'[v] = "claiming"
               PROVE  /\ status'[job'[v]] = "queued"
                      /\ \A u \in Crawlers : pc'[u] = "claiming" /\ job'[u] = job'[v] => v = u
    BY DEF OpenClaims
  <2>1. pc[v] = "claiming" /\ job[v] \in Subs /\ Locked(job[v])
    BY DEF TypeOK, Locked
  <2>2. status'[job[v]] = "queued"
    BY <2>1 DEF ExclusiveInv, OpenClaims
  <2>. QED  BY <2>1, <2>2 DEF ExclusiveInv, OpenClaims
<1>. QED  BY <1>2, <1>3, <1>4 DEF ExclusiveInv

LEMMA ExclusiveStep == TypeOK /\ ExclusiveInv /\ [Next]_vars => ExclusiveInv'
<1> SUFFICES ASSUME TypeOK, ExclusiveInv, [Next]_vars PROVE ExclusiveInv'
  OBVIOUS
<1>1. ASSUME NEW w \in Crawlers, CrawlerNext(w) PROVE ExclusiveInv'
  <2>1. ASSUME pc[w] = "down", pc' = [pc EXCEPT ![w] = "idle"], job' = job,
               ResetIncompleteJobs \/ NothingWritten
        PROVE  ExclusiveInv'
    <3>1. CASE ResetIncompleteJobs
      <4>1. \A s \in Resettable : ~Locked(s)
        BY DEF Resettable, Locked, ExclusiveInv, OpenClaims
      <4>2. Resettable \in SUBSET Subs
        BY DEF Resettable
      <4>3. \A s \in Subs \ Resettable : status'[s] = status[s]
        BY <3>1 DEF ResetIncompleteJobs
      <4>4. \A v \in Crawlers : pc'[v] = pc[v] \/ (pc[v] = "down" /\ pc'[v] = "idle")
        BY <2>1 DEF TypeOK
      <4>. QED  BY <2>1, <3>1, <4>1, <4>2, <4>3, <4>4, OverridePreserves DEF ResetIncompleteJobs
    <3>2. CASE NothingWritten
      BY <2>1, <3>2, QuietPreserves DEF NothingWritten, table, Busy, TypeOK
    <3>. QED  BY <2>1, <3>1, <3>2
  <2>2. CASE Start(w)
    BY <2>1, <2>2 DEF Start
  <2>3. CASE Crash(w)
    BY <2>3, LeavePreserves DEF Crash, table
  <2>4. CASE ClaimSelect(w)
    <3>1. PICK s \in Claimable : job' = [job EXCEPT ![w] = s]
      BY <2>4 DEF ClaimSelect
    <3>2. pc[w] = "idle" /\ pc' = [pc EXCEPT ![w] = "claiming"] /\ UNCHANGED <<status, overridden>>
      BY <2>4 DEF ClaimSelect, MayPoll, table
    <3>3. s \in Subs /\ status[s] = "queued" /\ ~Locked(s)
      BY DEF Claimable
    <3>4. \A v \in Crawlers, r \in Subs : Processing(v, r)' => Processing(v, r)
      BY <3>1, <3>2 DEF Processing, Busy, TypeOK
    <3>5. OpenClaims'
      BY <3>1, <3>2, <3>3 DEF ExclusiveInv, OpenClaims, Locked, TypeOK
    <3>. QED  BY <3>2, <3>4, <3>5 DEF ExclusiveInv, ExclusiveClaim, ClaimedReadsCrawling
  <2>5. CASE ClaimCommit(w)
    <3> DEFINE r == job[w]
    <3>1. pc[w] = "claiming" /\ pc' = [pc EXCEPT ![w] = "claimed"] /\ job' = job
          /\ status' = [status EXCEPT ![r] = "crawling"] /\ overridden' = overridden
      BY <2>5 DEF ClaimCommit
    <3>2. r \in Subs /\ status[r] = "queued"
          /\ \A v \in Crawlers : pc[v] = "claiming" /\ job[v] = r => v = w
      BY <3>1 DEF ExclusiveInv, OpenClaims, TypeOK
    <3>3. \A v \in Crawlers : Processing(v, r) => r \in overridden
      BY <3>2 DEF ExclusiveInv, ClaimedReadsCrawling
    <3>4. \A v \in Crawlers, s \in Subs :
             Processing(v, s)' => Processing(v, s) \/ (v = w /\ s = r)
      BY <3>1 DEF Processing, TypeOK
    <3>5. ExclusiveClaim'
      BY <3>1, <3>3, <3>4 DEF ExclusiveInv, ExclusiveClaim
    <3>6. ClaimedReadsCrawling'
      BY <3>1, <3>2, <3>4 DEF ExclusiveInv, ClaimedReadsCrawling, TypeOK
    <3>7. OpenClaims'
      BY <3>1, <3>2 DEF ExclusiveInv, OpenClaims, TypeOK
    <3>. QED  BY <3>5, <3>6, <3>7 DEF ExclusiveInv
  <2>6. CASE ClaimAbort(w)
    <3>1. pc[w] = "claiming" /\ pc' = [pc EXCEPT ![w] = "idle"]
          /\ job' = [job EXCEPT ![w] = NoSub] /\ UNCHANGED <<status, overridden>>
      BY <2>6 DEF ClaimAbort, table
    <3>2. \A v \in Crawlers, s \in Subs : Processing(v, s)' => Processing(v, s)
      BY <3>1 DEF Processing, Busy, TypeOK
    <3>3. OpenClaims'
      BY <3>1 DEF ExclusiveInv, OpenClaims, TypeOK
    <3>. QED  BY <3>1, <3>2, <3>3 DEF ExclusiveInv, ExclusiveClaim, ClaimedReadsCrawling
  <2>7. CASE MarkStarted(w)
    <3>1. job[w] \in Subs
      BY <2>7 DEF MarkStarted, TypeOK
    <3>. QED  BY <2>7, <3>1, QuietPreserves DEF MarkStarted, SetStatus, Busy, TypeOK
  <2>8. CASE MarkStartedFails(w)
    BY <2>8, LeavePreserves DEF MarkStartedFails, table
  <2>9. CASE CrawlFails(w)
    <3>1. pc[w] \in Busy /\ job[w] \in Subs
      BY <2>9 DEF CrawlFails, Busy, TypeOK
    <3>. QED  BY <2>9, <3>1, LeavePreserves DEF CrawlFails, MarkFailed, SetStatus, TypeOK, table
  <2>10. CASE CrawlStored(w)
    BY <2>10, QuietPreserves DEF CrawlStored, Busy, TypeOK, table
  <2>11. CASE CrawlSucceeds(w)
    <3>1. pc[w] \in Busy /\ job[w] \in Subs
      BY <2>11 DEF CrawlSucceeds, Busy, TypeOK
    <3>. QED  BY <2>11, <3>1, LeavePreserves DEF CrawlSucceeds, SetStatus, TypeOK, table
  <2>12. ASSUME NEW s \in Subs, Discover(w, s) \/ RequeueStale(w, s) PROVE ExclusiveInv'
    BY <2>12, QuietPreserves DEF Discover, RequeueStale, Insert, Rows, TypeOK, workers
  <2>13. CASE Maintenance(w)
    <3>1. \A s \in Subs : status'[s] = status[s] \/ (status[s] = "failed" /\ status'[s] = "queued")
      BY <2>13 DEF Maintenance, RetryReady
    <3>. QED  BY <2>13, <3>1, QuietPreserves DEF Maintenance, workers
  <2>. QED  BY <1>1, <2>2, <2>3, <2>4, <2>5, <2>6, <2>7, <2>8, <2>9, <2>10, <2>11, <2>12, <2>13
            DEF CrawlerNext, CrawlStep
<1>2. ASSUME NEW c \in Clients, ClientStep(c) PROVE ExclusiveInv'
  <2>1. ASSUME NEW s \in Subs, PostCrawlCheck(c, s) PROVE ExclusiveInv'
    BY <2>1, QuietPreserves DEF PostCrawlCheck, table, workers
  <2>2. ASSUME NEW s \in Subs, NEW b \in Boosts, BoostRead(c, s, b) PROVE ExclusiveInv'
    BY <2>2, QuietPreserves DEF BoostRead, table, workers
  <2>3. ASSUME NEW s \in Subs, NEW p \in SetPriorities, ScheduledEnqueue(c, s, p) PROVE ExclusiveInv'
    BY <2>3, QuietPreserves DEF ScheduledEnqueue, Insert, Rows, TypeOK, workers
  <2>4. CASE CallWrite(c)
    BY <2>4, QuietPreserves DEF CallWrite, Insert, Rows, SetPriority, TypeOK, workers, table
  <2>. QED  BY <1>2, <2>1, <2>2, <2>3, <2>4 DEF ClientStep
<1>3. CASE PrecalcStart
  <2>1. \A s \in Resettable : ~Locked(s)
    BY DEF Resettable, Locked, ExclusiveInv, OpenClaims
  <2>2. \A s \in Subs \ Resettable : status'[s] = status[s]
    BY <1>3 DEF PrecalcStart, ResetIncompleteJobs
  <2>3. Resettable \in SUBSET Subs
    BY DEF Resettable
  <2>. QED  BY <1>3, <2>1, <2>2, <2>3, OverridePreserves DEF PrecalcStart, ResetIncompleteJobs, workers
<1>4. CASE AdminNext
  <2>1. ASSUME NEW s \in Subs, NEW st \in Statuses, SetStatus(s, st), Override({s}), UNCHANGED workers
        PROVE  ExclusiveInv'
    <3>1. \A r \in Subs \ {s} : status'[r] = status[r]
      BY <2>1 DEF SetStatus, TypeOK
    <3>. QED  BY <2>1, <3>1, OverridePreserves DEF SetStatus, workers
  <2>2. ASSUME NEW s \in Subs, NEW p \in SetPriorities, AdminSetPriority(s, p) PROVE ExclusiveInv'
    BY <2>2, QuietPreserves DEF AdminSetPriority, SetPriority, workers
  <2>3. CASE AdminToggle
    BY <2>3, QuietPreserves DEF AdminToggle, table, workers
  <2>4. "queued" \in Statuses
    BY DEF Statuses
  <2>. QED  BY <1>4, <2>1, <2>2, <2>3, <2>4 DEF AdminNext, AdminSetStatus, AdminRetry
<1>5. CASE Time
  BY <1>5, QuietPreserves DEF Time, GrowStale, GrowStarved, workers
<1>6. CASE UNCHANGED vars
  BY <1>6, QuietPreserves DEF vars
<1>. QED  BY <1>1, <1>2, <1>3, <1>4, <1>5, <1>6 DEF Next

\* A row is handed to two crawlers only after somebody overwrote its status
\* under the first (ClaimNextJob, jobqueue.go:75-137).
THEOREM ClaimsAreExclusive == Spec => []ExclusiveInv
<1>1. Init => ExclusiveInv
  BY DEF Init, ExclusiveInv, ExclusiveClaim, ClaimedReadsCrawling, OpenClaims, Processing, Busy
<1>. QED  BY <1>1, TypeCorrect, ExclusiveStep, PTL DEF Spec

-----------------------------------------------------------------------------
(* Action properties that rest on ExclusiveInv.                            *)

\* What a step may do to a row that is not locked, not overwritten under a
\* crawler and not under an admin's hand.
LEMMA StatusSteps ==
  ASSUME TypeOK, ExclusiveInv, [Next]_vars, NEW s \in Subs, s \notin overridden,
         status'[s] # status[s],
         ~ \E st \in Statuses : AdminSetStatus(s, st)
  PROVE  \/ status[s] = "absent" /\ status'[s] = "queued"
         \/ status[s] = "queued" /\ status'[s] = "crawling"
         \/ status[s] = "crawling"
         \/ s \in RetryReady /\ status'[s] = "queued"
<1>1. ASSUME NEW w \in Crawlers, CrawlerNext(w), status[s] # "crawling"
      PROVE  \/ status[s] = "absent" /\ status'[s] = "queued"
             \/ status[s] = "queued" /\ status'[s] = "crawling"
             \/ s \in RetryReady /\ status'[s] = "queued"
  <2>1. ~Processing(w, s)
    BY <1>1 DEF ExclusiveInv, ClaimedReadsCrawling
  <2>2. CASE Start(w) \/ Crash(w) \/ ClaimSelect(w) \/ ClaimAbort(w) \/ MarkStartedFails(w) \/ CrawlStored(w)
    BY <1>1, <2>2 DEF Start, Crash, ClaimSelect, ClaimAbort, MarkStartedFails, CrawlStored,
       ResetIncompleteJobs, NothingWritten, Resettable, table
  <2>3. CASE ClaimCommit(w)
    <3>1. status' = [status EXCEPT ![job[w]] = "crawling"] /\ status[job[w]] = "queued"
      BY <2>3 DEF ClaimCommit, ExclusiveInv, OpenClaims
    <3>. QED  BY <3>1 DEF TypeOK
  <2>4. CASE MarkStarted(w) \/ CrawlFails(w) \/ CrawlSucceeds(w)
    <3>1. pc[w] \in Busy /\ (status' = status \/ \E st : status' = [status EXCEPT ![job[w]] = st])
      BY <2>4 DEF MarkStarted, CrawlFails, MarkFailed, CrawlSucceeds, SetStatus, Busy, table
    <3>2. job[w] # s
      BY <2>1, <3>1 DEF Processing
    <3>. QED  BY <3>1, <3>2 DEF TypeOK
  <2>5. ASSUME NEW r \in Subs, Discover(w, r) \/ RequeueStale(w, r)
        PROVE  status[s] = "absent" /\ status'[s] = "queued"
    BY <2>5 DEF Discover, RequeueStale, Insert, Rows, TypeOK
  <2>6. CASE Maintenance(w)
    BY <2>6 DEF Maintenance
  <2>. QED  BY <1>1, <2>2, <2>3, <2>4, <2>5, <2>6 DEF CrawlerNext, CrawlStep
<1>2. ASSUME NEW c \in Clients, ClientStep(c)
      PROVE  status[s] = "absent" /\ status'[s] = "queued"
  BY <1>2 DEF ClientStep, PostCrawlCheck, BoostRead, ScheduledEnqueue, CallWrite,
              Insert, SetPriority, Rows, TypeOK, table
<1>3. CASE PrecalcStart
  BY <1>3 DEF PrecalcStart, ResetIncompleteJobs, Resettable
<1>4. CASE AdminNext
  <2>1. ASSUME NEW r \in Subs, NEW st \in Statuses, AdminSetStatus(r, st) PROVE r = s
    BY <2>1 DEF AdminSetStatus, SetStatus, TypeOK
  <2>2. ASSUME NEW r \in Subs, AdminRetry(r) PROVE FALSE
    <3>1. AdminSetStatus(r, "queued") /\ "queued" \in Statuses
      BY <2>2 DEF AdminRetry, AdminSetStatus, Statuses
    <3>. QED  BY <2>1, <3>1
  <2>3. ~AdminToggle /\ \A r \in Subs, p \in SetPriorities : ~AdminSetPriority(r, p)
    BY DEF AdminToggle, AdminSetPriority, SetPriority, table
  <2>. QED  BY <1>4, <2>1, <2>2, <2>3 DEF AdminNext
<1>5. ~Time /\ ~UNCHANGED vars
  BY DEF Time, GrowStale, GrowStarved, vars
<1>. QED  BY <1>1, <1>2, <1>3, <1>4, <1>5 DEF Next

\* No waiting row gets an outcome nobody crawled for, but by an admin's hand
\* or by a crawler whose row was overwritten under it (jobs.go:26-147).
THEOREM OutcomesAreCrawled == Spec => OutcomeNeedsCrawl
<1>1. TypeOK /\ ExclusiveInv /\ [Next]_vars =>
        [\A s \in Subs :
           status[s] = "queued" /\ status'[s] \in {"success", "failed"}
             => s \in overridden \/ \E st \in Statuses : AdminSetStatus(s, st)]_vars
  BY StatusSteps DEF RetryReady
<1>. QED  BY <1>1, TypeCorrect, ClaimsAreExclusive, PTL DEF Spec, OutcomeNeedsCrawl

\* Nothing makes a row due for a retry.
LEMMA NoRetryDue == Spec => [](retryDue = {})
<1>1. Init => retryDue = {}
  BY DEF Init
<1>2. retryDue = {} /\ [Next]_vars => (retryDue = {})'
  BY DEF Next, CrawlerNext, CrawlStep, ClientStep, AdminNext, Time, vars, table,
         Start, ResetIncompleteJobs, NothingWritten, Crash, ClaimSelect, ClaimCommit,
         ClaimAbort, MarkStarted, MarkStartedFails, CrawlFails, MarkFailed, CrawlStored,
         CrawlSucceeds, Discover, RequeueStale, Insert, SetStatus, SetPriority, Maintenance,
         PostCrawlCheck, BoostRead, ScheduledEnqueue, CallWrite, PrecalcStart,
         AdminSetStatus, AdminRetry, AdminSetPriority, AdminToggle, GrowStale, GrowStarved
<1>. QED  BY <1>1, <1>2, PTL DEF Spec

-----------------------------------------------------------------------------
(* Without admins and crawls that outlast the reset threshold nothing is   *)
(* overwritten under a crawler, and every step is one of CrawlLifecycle.   *)

\* Only rows nobody works on are old enough for a reset.
Undisturbed ==
  /\ TypeOK /\ ExclusiveInv /\ retryDue = {}
  /\ overridden = {} /\ \A s \in stale : ~InProgress(s)

\* Most steps move no crawler onto a row and age none.
LEMMA CalmPreserves ==
  ASSUME Undisturbed, overridden' \subseteq overridden, stale' \subseteq stale,
         \A w \in Crawlers, s \in Subs : Processing(w, s)' => Processing(w, s)
  PROVE  overridden' = {} /\ \A s \in stale' : ~InProgress(s)'
BY DEF Undisturbed, TypeOK, InProgress

\* The crawlers that are at work are the same after the step as before.
SameWork == \A w \in Crawlers, s \in Subs : Processing(w, s)' <=> Processing(w, s)

LEMMA ResetPreserves ==
  ASSUME Undisturbed, SameWork, ResetIncompleteJobs
  PROVE  overridden' = {} /\ \A s \in stale' : ~InProgress(s)'
<1>1. \A s \in Resettable : ~InProgress(s)
  BY DEF Undisturbed, Resettable
<1>2. overridden' \subseteq overridden
  BY <1>1 DEF ResetIncompleteJobs, Override
<1>. QED  BY <1>2, CalmPreserves DEF SameWork, ResetIncompleteJobs

\* The crawler's own steps: it leaves its row or goes on with it.
LEMMA LeaveMoves ==
  ASSUME TypeOK, NEW w \in Crawlers, NEW next \in {"down", "idle"}, Leave(w, next)
  PROVE  \A v \in Crawlers, s \in Subs : Processing(v, s)' <=> Processing(v, s) /\ v # w
BY DEF Leave, TypeOK, Processing, Busy

\* Which steps leave every crawler at its work.
LEMMA SameWorkSteps ==
  ASSUME TypeOK, [Next]_vars
  PROVE  \/ SameWork
         \/ \E w \in Crawlers : \/ ClaimCommit(w)
                                \/ \E next \in {"down", "idle"} : Leave(w, next)
<1>1. ASSUME NEW w \in Crawlers, CrawlerNext(w), ~ClaimCommit(w),
             ~ \E next \in {"down", "idle"} : Leave(w, next)
      PROVE  SameWork
  <2>1. ~Crash(w) /\ ~MarkStartedFails(w) /\ ~CrawlFails(w) /\ ~CrawlSucceeds(w)
    BY <1>1 DEF Crash, MarkStartedFails, CrawlFails, CrawlSucceeds
  <2>2. CASE Start(w)
    BY <2>2 DEF Start, SameWork, Processing, Busy, TypeOK
  <2>3. CASE ClaimSelect(w)
    BY <2>3 DEF ClaimSelect, MayPoll, SameWork, Processing, Busy, TypeOK
  <2>4. CASE ClaimAbort(w)
    BY <2>4 DEF ClaimAbort, SameWork, Processing, Busy, TypeOK
  <2>5. CASE MarkStarted(w)
    BY <2>5 DEF MarkStarted, SameWork, Processing, Busy, TypeOK
  <2>6. CASE CrawlStored(w)
    BY <2>6 DEF CrawlStored, SameWork, Processing, Busy, TypeOK
  <2>7. ASSUME UNCHANGED workers PROVE SameWork
    BY <2>7 DEF workers, SameWork, Processing
  <2>. QED  BY <1>1, <2>1, <2>2, <2>3, <2>4, <2>5, <2>6, <2>7
            DEF CrawlerNext, CrawlStep, Discover, RequeueStale, Maintenance
<1>2. ASSUME UNCHANGED workers PROVE SameWork
  BY <1>2 DEF workers, SameWork, Processing
<1>3. ASSUME NEW c \in Clients, ClientStep(c) PROVE UNCHANGED workers
  BY <1>3 DEF ClientStep, PostCrawlCheck, BoostRead, ScheduledEnqueue, CallWrite
<1>4. PrecalcStart \/ AdminNext \/ Time \/ UNCHANGED vars => UNCHANGED workers
  BY DEF PrecalcStart, AdminNext, AdminSetStatus, AdminRetry, AdminSetPriority, AdminToggle,
         Time, GrowStale, GrowStarved, vars, workers
<1>. QED  BY <1>1, <1>2, <1>3, <1>4 DEF Next

\* What the steps do to the ages and to the history.
LEMMA AgesAndHistory ==
  ASSUME ~Admins, [Next]_vars
  PROVE  /\ stale' \subseteq stale \/ \E s \in Subs : GrowStale(s)
         /\ overridden' \subseteq overridden \/ ResetIncompleteJobs
<1>1. ASSUME NEW w \in Crawlers, CrawlerNext(w)
      PROVE  stale' \subseteq stale /\ (overridden' \subseteq overridden \/ ResetIncompleteJobs)
  BY <1>1 DEF CrawlerNext, CrawlStep, table, Start, ResetIncompleteJobs, NothingWritten, Crash,
     ClaimSelect, ClaimCommit, ClaimAbort, MarkStarted, MarkStartedFails, CrawlFails, MarkFailed,
     CrawlStored, CrawlSucceeds, Discover, RequeueStale, Insert, SetStatus, Maintenance, Leave
<1>2. ASSUME NEW c \in Clients, ClientStep(c)
      PROVE  stale' \subseteq stale /\ overridden' = overridden
  BY <1>2 DEF ClientStep, table, PostCrawlCheck, BoostRead, ScheduledEnqueue, CallWrite, Insert,
     SetPriority
<1>3. CASE PrecalcStart
  BY <1>3 DEF PrecalcStart, ResetIncompleteJobs
<1>4. ~AdminNext
  BY DEF AdminNext, AdminSetStatus, AdminRetry, AdminSetPriority, AdminToggle
<1>5. CASE Time
  BY <1>5 DEF Time, GrowStale, GrowStarved
<1>6. CASE UNCHANGED vars
  BY <1>6 DEF vars
<1>. QED  BY <1>1, <1>2, <1>3, <1>4, <1>5, <1>6 DEF Next

LEMMA UndisturbedStep ==
  ASSUME ~Admins, ~SlowCrawls, Undisturbed, [Next]_vars, TypeOK', ExclusiveInv', retryDue' = {}
  PROVE  Undisturbed'
<1> SUFFICES overridden' = {} /\ \A s \in stale' : ~InProgress(s)'
  BY DEF Undisturbed
<1>1. ASSUME NEW w \in Crawlers, ClaimCommit(w)
      PROVE  overridden' = {} /\ \A s \in stale' : ~InProgress(s)'
  <2>1. overridden' = {} /\ stale' = stale \ {job[w]}
    BY <1>1 DEF ClaimCommit, Undisturbed
  <2>2. \A v \in Crawlers, s \in Subs : Processing(v, s)' => Processing(v, s) \/ s = job[w]
    BY <1>1 DEF ClaimCommit, Processing, Undisturbed, TypeOK
  <2>3. \A s \in stale' : s \in stale /\ s # job[w] /\ s \in Subs
    BY <2>1 DEF Undisturbed, TypeOK
  <2>. QED  BY <2>1, <2>2, <2>3 DEF Undisturbed, InProgress
<1>2. ASSUME NEW w \in Crawlers, NEW next \in {"down", "idle"}, Leave(w, next)
      PROVE  overridden' = {} /\ \A s \in stale' : ~InProgress(s)'
  <2>1. \A v \in Crawlers, s \in Subs : Processing(v, s)' => Processing(v, s)
    BY <1>2, LeaveMoves DEF Undisturbed
  <2>2. overridden' \subseteq overridden
    BY <1>2 DEF Leave
  <2>3. CASE stale' \subseteq stale
    BY <2>1, <2>2, <2>3, CalmPreserves
  <2>4. CASE \E s \in Subs : GrowStale(s)
    BY <2>1, <2>2, <2>4 DEF GrowStale, InProgress, Undisturbed, TypeOK
  <2>. QED  BY <2>3, <2>4, AgesAndHistory
<1>3. CASE SameWork
  <2>1. CASE ResetIncompleteJobs
    BY <1>3, <2>1, ResetPreserves
  <2>2. CASE overridden' \subseteq overridden /\ stale' \subseteq stale
    BY <1>3, <2>2, CalmPreserves DEF SameWork
  <2>3. CASE overridden' \subseteq overridden /\ \E s \in Subs : GrowStale(s)
    BY <1>3, <2>3 DEF GrowStale, SameWork, InProgress, Undisturbed, TypeOK
  <2>. QED  BY <2>1, <2>2, <2>3, AgesAndHistory
<1>. QED  BY <1>1, <1>2, <1>3, SameWorkSteps DEF Undisturbed

LEMMA StaysUndisturbed == ASSUME ~Admins, ~SlowCrawls PROVE Spec => []Undisturbed
<1>1. Init => Undisturbed
  BY DEF Init, Undisturbed, TypeOK, Calls, NoCall, PCs, Busy, Statuses, ExclusiveInv, ExclusiveClaim,
         ClaimedReadsCrawling, OpenClaims, Processing
<1>2. /\ Undisturbed /\ [Next]_vars /\ TypeOK' /\ ExclusiveInv' /\ (retryDue = {})'
      => Undisturbed'
  BY UndisturbedStep
<1>. QED  BY <1>1, <1>2, TypeCorrect, ClaimsAreExclusive, NoRetryDue, PTL DEF Spec

\* The owner of a row is the crawler at work on it.
LEMMA OwnerNow ==
  ASSUME Undisturbed
  PROVE  \A s \in Subs : /\ \A w \in Crawlers : Processing(w, s) => Owner[s] = w
                         /\ ~InProgress(s) => Owner[s] = NoSub
<1> SUFFICES ASSUME NEW s \in Subs
             PROVE  /\ \A w \in Crawlers : Processing(w, s) => Owner[s] = w
                    /\ ~InProgress(s) => Owner[s] = NoSub
  OBVIOUS
<1>1. ASSUME NEW w \in Crawlers, Processing(w, s) PROVE Owner[s] = w
  <2>1. \A v \in Crawlers : Processing(v, s) => v = w
    BY <1>1 DEF Undisturbed, ExclusiveInv, ExclusiveClaim
  <2>2. (CHOOSE v \in Crawlers : Processing(v, s)) = w
    BY <1>1, <2>1
  <2>. QED  BY <1>1, <2>2 DEF Owner, InProgress
<1>. QED  BY <1>1 DEF Owner

LEMMA OwnerNext ==
  ASSUME Undisturbed'
  PROVE  \A s \in Subs : /\ \A w \in Crawlers : Processing(w, s)' => Owner'[s] = w
                         /\ ~InProgress(s)' => Owner'[s] = NoSub
<1> SUFFICES ASSUME NEW s \in Subs
             PROVE  /\ \A w \in Crawlers : Processing(w, s)' => Owner'[s] = w
                    /\ ~InProgress(s)' => Owner'[s] = NoSub
  OBVIOUS
<1>1. ASSUME NEW w \in Crawlers, Processing(w, s)' PROVE Owner'[s] = w
  <2>1. \A v \in Crawlers : Processing(v, s)' => v = w
    BY <1>1 DEF Undisturbed, ExclusiveInv, ExclusiveClaim
  <2>2. (CHOOSE v \in Crawlers : Processing(v, s)') = w
    BY <1>1, <2>1
  <2>. QED  BY <1>1, <2>2 DEF Owner, InProgress
<1>. QED  BY <1>1 DEF Owner

LEMMA SameOwner == ASSUME Undisturbed, Undisturbed', SameWork PROVE Owner' = Owner
<1>1. \A s \in Subs : Owner'[s] = Owner[s]
  BY OwnerNow, OwnerNext DEF SameWork, InProgress
<1>. QED  BY <1>1 DEF Owner

LEMMA OwnerTotal ==
  /\ Owner = [s \in Subs |-> Owner[s]] /\ DOMAIN Owner = Subs
  /\ Owner' = [s \in Subs |-> Owner'[s]] /\ DOMAIN Owner' = Subs
BY DEF Owner

\* The crawler that leaves its row was the only one at work on it.
LEMMA OwnerLeaves ==
  ASSUME Undisturbed, Undisturbed', NEW w \in Crawlers, NEW next \in {"down", "idle"}, Leave(w, next),
         pc[w] \in Busy
  PROVE  job[w] \in Subs /\ Owner[job[w]] # NoSub /\ Owner' = [Owner EXCEPT ![job[w]] = NoSub]
<1>1. PICK r \in Subs : r = job[w] /\ Processing(w, r)
  BY DEF Undisturbed, TypeOK, Processing, Busy
<1>2. \A v \in Crawlers, s \in Subs : Processing(v, s)' <=> Processing(v, s) /\ v # w
  BY LeaveMoves DEF Undisturbed
<1>3. Owner[r] = w /\ w # NoSub
  BY <1>1, OwnerNow
<1>4. \A v \in Crawlers : Processing(v, r) => v = w
  BY <1>1 DEF Undisturbed, ExclusiveInv, ExclusiveClaim
<1>5. ~InProgress(r)'
  BY <1>2, <1>4 DEF InProgress
<1>6. \A s \in Subs \ {r} : Owner'[s] = Owner[s]
  <2> SUFFICES ASSUME NEW s \in Subs \ {r} PROVE Owner'[s] = Owner[s]
    OBVIOUS
  <2>1. \A v \in Crawlers : Processing(v, s)' <=> Processing(v, s)
    BY <1>1, <1>2 DEF Undisturbed, ExclusiveInv, ExclusiveClaim, Processing
  <2>. QED  BY <2>1, OwnerNow, OwnerNext DEF InProgress
<1>7. Owner'[r] = NoSub
  BY <1>5, OwnerNext
<1>8. Owner' = [Owner EXCEPT ![r] = NoSub]
  BY <1>6, <1>7, OwnerTotal
<1>. QED  BY <1>1, <1>3, <1>8

\* ... or it had an open claim, which is rolled back.
LEMMA ClaimLeaves ==
  ASSUME Undisturbed, Undisturbed', NEW w \in Crawlers, NEW next \in {"down", "idle"}, Leave(w, next),
         pc[w] \notin Busy
  PROVE  Owner' = Owner
BY LeaveMoves, SameOwner DEF Undisturbed, SameWork, Processing

\* A step of CrawlLifecycle, or none.
Mapped == [Lifecycle!Next]_(Lifecycle!vars)

LEMMA LeaveMapped ==
  ASSUME Undisturbed, Undisturbed', NEW w \in Crawlers, NEW next \in {"down", "idle"}, Leave(w, next),
         \/ status' = status
         \/ /\ pc[w] \in Busy
            /\ \E outcome \in {"success", "failed"} : status' = [status EXCEPT ![job[w]] = outcome]
  PROVE  Mapped
<1>1. CASE status' = status /\ pc[w] \notin Busy
  BY <1>1, ClaimLeaves DEF Mapped, Lifecycle!vars
<1>2. CASE status' = status /\ pc[w] \in Busy
  <2>1. job[w] \in Subs /\ Lifecycle!Abandon(job[w])
    BY <1>2, OwnerLeaves DEF Lifecycle!Abandon
  <2>. QED  BY <2>1 DEF Mapped, Lifecycle!Next
<1>3. ASSUME pc[w] \in Busy, NEW outcome \in {"success", "failed"},
             status' = [status EXCEPT ![job[w]] = outcome]
      PROVE  Mapped
  <2>1. status[job[w]] = "crawling"
    BY <1>3 DEF Undisturbed, TypeOK, ExclusiveInv, ClaimedReadsCrawling, Processing, Busy
  <2>2. job[w] \in Subs /\ Lifecycle!Settle(job[w], outcome)
    BY <1>3, <2>1, OwnerLeaves DEF Lifecycle!Settle
  <2>. QED  BY <2>2 DEF Mapped, Lifecycle!Next
<1>. QED  BY <1>1, <1>2, <1>3

LEMMA TakeMapped ==
  ASSUME Undisturbed, Undisturbed', NEW w \in Crawlers, ClaimCommit(w)
  PROVE  Mapped
<1> DEFINE r == job[w]
<1>1. /\ r \in Subs /\ status[r] = "queued" /\ status' = [status EXCEPT ![r] = "crawling"]
      /\ pc' = [pc EXCEPT ![w] = "claimed"] /\ job' = job /\ pc[w] = "claiming"
  BY DEF ClaimCommit, Undisturbed, TypeOK, ExclusiveInv, OpenClaims
<1>2. ~InProgress(r)
  BY <1>1 DEF Undisturbed, ExclusiveInv, ClaimedReadsCrawling, InProgress
<1>3. \A v \in Crawlers, s \in Subs : Processing(v, s)' <=> Processing(v, s) \/ (v = w /\ s = r)
  BY <1>1 DEF Processing, Busy, Undisturbed, TypeOK
<1>4. Owner[r] = NoSub /\ Owner'[r] = w
  BY <1>1, <1>2, <1>3, OwnerNow, OwnerNext
<1>5. \A s \in Subs \ {r} : Owner'[s] = Owner[s]
  <2> SUFFICES ASSUME NEW s \in Subs \ {r} PROVE Owner'[s] = Owner[s]
    OBVIOUS
  <2>1. \A v \in Crawlers : Processing(v, s)' <=> Processing(v, s)
    BY <1>3
  <2>. QED  BY <2>1, OwnerNow, OwnerNext DEF InProgress
<1>6. Owner' = [Owner EXCEPT ![r] = w]
  BY <1>1, <1>4, <1>5, OwnerTotal
<1>7. Lifecycle!Take(r, w)
  BY <1>1, <1>4, <1>6 DEF Lifecycle!Take
<1>. QED  BY <1>1, <1>7 DEF Mapped, Lifecycle!Next

LEMMA ResetMapped ==
  ASSUME Undisturbed, Undisturbed', SameWork, ResetIncompleteJobs
  PROVE  Mapped
<1>1. \A s \in Resettable : status[s] = "crawling" /\ Owner[s] = NoSub
  BY OwnerNow DEF Undisturbed, Resettable
<1>2. Lifecycle!Reclaim(Resettable) /\ Resettable \in SUBSET Subs
  BY <1>1, SameOwner DEF Lifecycle!Reclaim, ResetIncompleteJobs, Resettable
<1>. QED  BY <1>2 DEF Mapped, Lifecycle!Next

LEMMA InsertMapped ==
  ASSUME Undisturbed, Undisturbed', SameWork, NEW s \in Subs, Insert(s)
  PROVE  Mapped
<1>1. CASE s \in Rows
  BY <1>1, SameOwner DEF Insert, Mapped, Lifecycle!vars
<1>2. CASE s \notin Rows
  <2>1. Lifecycle!Submit(s)
    BY <1>2, SameOwner DEF Insert, Rows, Lifecycle!Submit
  <2>. QED  BY <2>1 DEF Mapped, Lifecycle!Next
<1>. QED  BY <1>1, <1>2

LEMMA QuietMapped == ASSUME Undisturbed, Undisturbed', SameWork, status' = status PROVE Mapped
BY SameOwner DEF Mapped, Lifecycle!vars

LEMMA CrawlerMapped ==
  ASSUME Undisturbed, Undisturbed', NEW w \in Crawlers, CrawlerNext(w)
  PROVE  Mapped
<1>1. CASE Start(w)
  <2>1. SameWork
    BY <1>1 DEF Start, SameWork, Processing, Busy, Undisturbed, TypeOK
  <2>. QED  BY <1>1, <2>1, ResetMapped, QuietMapped DEF Start, NothingWritten, table
<1>2. CASE Crash(w) \/ MarkStartedFails(w)
  BY <1>2, LeaveMapped DEF Crash, MarkStartedFails, table
<1>3. CASE ClaimSelect(w) \/ ClaimAbort(w) \/ CrawlStored(w)
  <2>1. SameWork /\ status' = status
    BY <1>3 DEF ClaimSelect, MayPoll, ClaimAbort, CrawlStored, SameWork, Processing, Busy, Undisturbed,
       TypeOK, table
  <2>. QED  BY <2>1, QuietMapped
<1>4. CASE ClaimCommit(w)
  BY <1>4, TakeMapped
<1>5. CASE MarkStarted(w)
  <2>1. SameWork
    BY <1>5 DEF MarkStarted, SameWork, Processing, Busy, Undisturbed, TypeOK
  <2>2. status[job[w]] = "crawling" /\ job[w] \in Subs
    BY <1>5 DEF MarkStarted, Undisturbed, TypeOK, ExclusiveInv, ClaimedReadsCrawling, Processing, Busy
  <2>3. status' = status
    BY <1>5, <2>2 DEF MarkStarted, SetStatus, Undisturbed, TypeOK
  <2>. QED  BY <2>1, <2>3, QuietMapped
<1>6. CASE CrawlFails(w)
  BY <1>6, LeaveMapped DEF CrawlFails, MarkFailed, SetStatus, Busy, table
<1>7. CASE CrawlSucceeds(w)
  BY <1>7, LeaveMapped DEF CrawlSucceeds, SetStatus, Busy, table
<1>8. ASSUME NEW s \in Subs, Discover(w, s) \/ RequeueStale(w, s) PROVE Mapped
  <2>1. SameWork
    BY <1>8 DEF Discover, RequeueStale, workers, SameWork, Processing
  <2>. QED  BY <1>8, <2>1, InsertMapped DEF Discover, RequeueStale
<1>9. CASE Maintenance(w)
  <2>1. SameWork
    BY <1>9 DEF Maintenance, workers, SameWork, Processing
  <2>2. RetryReady = {}
    BY DEF RetryReady, Undisturbed
  <2>3. status' = [s \in Subs |-> status[s]]
    BY <1>9, <2>2 DEF Maintenance
  <2>4. status' = status
    BY <2>3 DEF Undisturbed, TypeOK
  <2>. QED  BY <2>1, <2>4, QuietMapped
<1>. QED  BY <1>1, <1>2, <1>3, <1>4, <1>5, <1>6, <1>7, <1>8, <1>9 DEF CrawlerNext, CrawlStep

LEMMA StepMapped ==
  ASSUME ~Admins, Undisturbed, Undisturbed', [Next]_vars
  PROVE  Mapped
<1>1. ASSUME NEW c \in Clients, ClientStep(c) PROVE Mapped
  <2>1. SameWork
    BY <1>1 DEF ClientStep, PostCrawlCheck, BoostRead, ScheduledEnqueue, CallWrite, workers, SameWork,
       Processing
  <2>2. (\E s \in Subs : Insert(s)) \/ status' = status
    <3>1. CASE CallWrite(c)
      <4>1. call[c].sub \in Subs
        BY <3>1 DEF CallWrite, Undisturbed, TypeOK, Calls
      <4>. QED  BY <3>1, <4>1 DEF CallWrite, SetPriority, table
    <3>. QED  BY <1>1, <3>1 DEF ClientStep, PostCrawlCheck, BoostRead, ScheduledEnqueue, table
  <2>. QED  BY <2>1, <2>2, InsertMapped, QuietMapped
<1>2. CASE PrecalcStart
  <2>1. SameWork
    BY <1>2 DEF PrecalcStart, workers, SameWork, Processing
  <2>. QED  BY <1>2, <2>1, ResetMapped DEF PrecalcStart
<1>3. ~AdminNext
  BY DEF AdminNext, AdminSetStatus, AdminRetry, AdminSetPriority, AdminToggle
<1>4. CASE Time \/ UNCHANGED vars
  <2>1. SameWork /\ status' = status
    BY <1>4 DEF Time, GrowStale, GrowStarved, vars, workers, SameWork, Processing
  <2>. QED  BY <2>1, QuietMapped
<1>. QED  BY <1>1, <1>2, <1>3, <1>4, CrawlerMapped DEF Next

\* While admins keep out and no crawl outlasts the reset threshold, the table
\* and its crawlers implement CrawlLifecycle, for any number of rows, crawlers
\* and handlers and whatever statements fail: one crawler per request at a time,
\* and no outcome that was not crawled for (jobqueue.go:75-137, jobs.go:26-147).
THEOREM QueueImplementsLifecycle == ASSUME ~Admins, ~SlowCrawls PROVE Spec => ImplementsLifecycle
<1>1. Init => Lifecycle!Init
  <2> SUFFICES ASSUME Init PROVE Lifecycle!Init
    OBVIOUS
  <2>1. \A s \in Subs : ~InProgress(s)
    BY DEF Init, InProgress, Processing, Busy
  <2>2. Owner = [s \in Subs |-> NoSub]
    BY <2>1 DEF Owner
  <2>. QED  BY <2>2 DEF Init, Lifecycle!Init
<1>2. Undisturbed /\ Undisturbed' /\ [Next]_vars => [Lifecycle!Next]_(Lifecycle!vars)
  BY StepMapped DEF Mapped
<1>. QED  BY <1>1, <1>2, StaysUndisturbed, PTL DEF Spec, ImplementsLifecycle, Lifecycle!Spec
=============================================================================
