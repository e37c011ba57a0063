----------------------------- MODULE Scheduler -----------------------------
(***************************************************************************)
(* The scheduled crawls: the scheduler goroutine of each crawler process   *)
(* (scheduler/service.go), the admin handlers that change the table it     *)
(* reads (handlers/scheduled_jobs.go), and the cron arithmetic.            *)
(*                                                                         *)
(* Time is relative, so no bound on it is needed: a row holds the minutes  *)
(* until its next_run_at (0 when due or overdue), and the clock is kept    *)
(* modulo a cycle that all named expressions divide.                       *)
(*                                                                         *)
(* Abstractions: what a run does to the crawl queue (an insertion, unless  *)
(* the subreddit has a row, and the overwriting of its priority) is        *)
(* ScheduledEnqueue of module JobQueue, so a row here has no subreddit.    *)
(* The rows of a batch are executed in any order (the code: by priority),  *)
(* and a scheduler may look for due rows at any time (the code: at its     *)
(* start and every minute).                                                *)
(***************************************************************************)
EXTENDS Integers, FiniteSets

CONSTANTS
  Jobs,             \* rows of scheduled_jobs
  Schedulers,            \* crawler processes, one scheduler each
  Crons,            \* expressions: [named : BOOLEAN, n : period]
  Cycle,            \* the clock is kept modulo Cycle
  FaultyJobs,       \* jobs whose statements may fail
  Crashes           \* whether a process may be stopped and started again

ASSUME SchedulerAssumption ==
  /\ Cycle \in Nat \ {0}
  /\ Crons \subseteq [named : BOOLEAN, n : 1..Cycle]
  /\ \A c \in Crons : c.named => Cycle % c.n = 0
  /\ FaultyJobs \subseteq Jobs
  /\ Crashes \in BOOLEAN

VARIABLES
  clock,    \* minutes, modulo Cycle
  row,      \* scheduled_jobs: a set of at most one row per job
  proc,     \* what each scheduler is doing
  since,    \* history: minutes since the job was last run at a fixed interval,
            \* up to Cycle; Cycle also when another process had listed it too
            \* or the run did not come to reschedule it
  outdated  \* history: jobs rescheduled from an expression replaced meanwhile

schedulerVars == <<clock, row, proc, since, outdated>>

ScheduledRows == [cron : Crons, enabled : BOOLEAN, wait : 0..Cycle]

\* todo: the rows of the batch as they were listed, each with its job.
\* current: the row being executed.
Items    == [job : Jobs, cron : Crons]
NewProc  == [todo |-> {}, current |-> {}]

Optional(S) == {{}} \cup {{x} : x \in S}

SchedulerTypeOK ==
  /\ clock \in 0..Cycle - 1
  /\ row \in [Jobs -> Optional(ScheduledRows)]
  /\ proc \in [Schedulers -> [todo : SUBSET Items, current : Optional(Items)]]
  /\ since \in [Jobs -> 0..Cycle]
  /\ outdated \subseteq Jobs

-----------------------------------------------------------------------------
(* cron.go, relative to the base time: @every n, and the named expressions, *)
(* which run at the multiples of n.                                         *)

Delay(c) == IF c.named THEN c.n - (clock % c.n) ELSE c.n

Due(j) == \E r \in row[j] : r.enabled /\ r.wait = 0

SchedulerInit ==
  /\ clock = 0
  /\ row \in [Jobs -> Optional({r \in ScheduledRows : r.wait = Delay(r.cron)})]
  /\ proc = [p \in Schedulers |-> NewProc]
  /\ since = [j \in Jobs |-> Cycle]
  /\ outdated = {}

-----------------------------------------------------------------------------
(* The scheduler.                                                          *)

UnderWay(p) == proc[p].todo # {} \/ proc[p].current # {}

\* Another process than p has job j in its batch.
Contested(p, j) ==
  \E q \in Schedulers \ {p} : \E i \in proc[q].todo \cup proc[q].current : i.job = j

\* processScheduledJobs: ListDueScheduledJobs, at any time.
\* Mutant: the rows that come due with the next tick as well.
ListedEarly == {j \in Jobs : \E r \in row[j] : r.enabled /\ r.wait <= 1}
Listed      == {j \in Jobs : Due(j)}

List(p) ==
  /\ ~UnderWay(p)
  /\ proc' = [proc EXCEPT ![p].todo =
       UNION {{[job |-> j, cron |-> r.cron] : r \in row[j]} : j \in Listed}]
  /\ since' = [j \in Jobs |-> IF j \in Listed /\ Contested(p, j) THEN Cycle ELSE since[j]]
  /\ UNCHANGED <<clock, row, outdated>>

\* executeScheduledJob up to EnqueueCrawlJob and UpdateCrawlJobPriority.
Enqueue(p, i) ==
  /\ i \in proc[p].todo /\ proc[p].current = {}
  /\ proc' = [proc EXCEPT ![p].todo = @ \ {i}, ![p].current = {i}]
  /\ since' = [since EXCEPT ![i.job] = IF i.cron.named \/ Contested(p, i.job) THEN Cycle ELSE 0]
  /\ UNCHANGED <<clock, row, outdated>>

\* The INSERT fails: the row is left as it is, and due.
\* Mutant: the error ends the batch.
RemainingNone(p, i) == {}
Remaining(p, i)     == proc[p].todo \ {i}

EnqueueFails(p, i) ==
  /\ i \in proc[p].todo /\ proc[p].current = {}
  /\ i.job \in FaultyJobs
  /\ proc' = [proc EXCEPT ![p].todo = Remaining(p, i)]
  /\ UNCHANGED <<clock, row, since, outdated>>

\* UpdateScheduledJobLastRun, with the expression as it was listed.
\* Mutant: a row is inserted, the old one stays.
RowsAdded(rows, c)   == rows \cup {[r EXCEPT !.wait = Delay(c)] : r \in rows}
RowsUpdated(rows, c) == {[r EXCEPT !.wait = Delay(c)] : r \in rows}

Reschedule(p) ==
  /\ \E i \in proc[p].current :
       /\ row' = [row EXCEPT ![i.job] = RowsUpdated(@, i.cron)]
       /\ outdated' = IF \E r \in row[i.job] : r.cron # i.cron THEN outdated \cup {i.job}
                                                               ELSE outdated \ {i.job}
  /\ proc' = [proc EXCEPT ![p].current = {}]
  /\ UNCHANGED <<clock, since>>

\* The run of j is over before it has rescheduled the row: it is still due.
CutShort(p) == [j \in Jobs |-> IF \E i \in proc[p].current : i.job = j THEN Cycle ELSE since[j]]

RescheduleFails(p) ==
  /\ \E i \in proc[p].current : i.job \in FaultyJobs
  /\ proc' = [proc EXCEPT ![p].current = {}]
  /\ since' = CutShort(p)
  /\ UNCHANGED <<clock, row, outdated>>

\* The process is stopped and started again.
Restart(p) ==
  /\ Crashes
  /\ proc' = [proc EXCEPT ![p] = NewProc]
  /\ since' = CutShort(p)
  /\ UNCHANGED <<clock, row, outdated>>

-----------------------------------------------------------------------------
(* The admin handlers.                                                     *)

Create(j, c, en) ==
  /\ row[j] = {}
  /\ row' = [row EXCEPT ![j] = {[cron |-> c, enabled |-> en, wait |-> Delay(c)]}]
  /\ since' = [since EXCEPT ![j] = Cycle]
  /\ outdated' = outdated \ {j}
  /\ UNCHANGED <<clock, proc>>

Update(j, c, en) ==
  /\ row[j] # {}
  /\ row' = [row EXCEPT ![j] = {[r EXCEPT !.cron = c, !.enabled = en, !.wait = Delay(c)] : r \in @}]
  /\ since' = [since EXCEPT ![j] = Cycle]
  /\ outdated' = outdated \ {j}
  /\ UNCHANGED <<clock, proc>>

Toggle(j) ==
  /\ row[j] # {}
  /\ row' = [row EXCEPT ![j] = {[r EXCEPT !.enabled = ~@] : r \in @}]
  /\ UNCHANGED <<clock, proc, since, outdated>>

Delete(j) ==
  /\ row[j] # {}
  /\ row' = [row EXCEPT ![j] = {}]
  /\ UNCHANGED <<clock, proc, since, outdated>>

-----------------------------------------------------------------------------
(* A minute passes.                                                        *)

SchedulerTick ==
  /\ clock' = (clock + 1) % Cycle
  /\ row' = [j \in Jobs |-> {[r EXCEPT !.wait = IF @ = 0 THEN 0 ELSE @ - 1] : r \in row[j]}]
  /\ since' = [j \in Jobs |-> IF since[j] = Cycle THEN Cycle ELSE since[j] + 1]
  /\ UNCHANGED <<proc, outdated>>

RunnerNext(p) ==
  \/ List(p)
  \/ \E i \in proc[p].todo : Enqueue(p, i) \/ EnqueueFails(p, i)
  \/ Reschedule(p) \/ RescheduleFails(p)

ScheduleAdmin ==
  \E j \in Jobs :
    \/ \E c \in Crons, en \in BOOLEAN : Create(j, c, en) \/ Update(j, c, en)
    \/ Toggle(j) \/ Delete(j)

SchedulerNext ==
  \/ \E p \in Schedulers : RunnerNext(p) \/ Restart(p)
  \/ ScheduleAdmin
  \/ SchedulerTick

SchedulerSpec == SchedulerInit /\ [][SchedulerNext]_schedulerVars

\* The goroutine runs and the ticker ticks; processes are not stopped and
\* started again for ever (a restart that loses nothing more than the last
\* failing statement of a batch would is the same step as that).
Stopped(p) == Restart(p) /\ ~RunnerNext(p)

SchedulerFairness ==
  /\ WF_schedulerVars(SchedulerTick)
  /\ \A p \in Schedulers : WF_schedulerVars(RunnerNext(p)) /\ <>[][~Stopped(p)]_schedulerVars
SchedulerFairSpec == SchedulerSpec /\ SchedulerFairness

-----------------------------------------------------------------------------
(* Properties.                                                             *)

\* No row is further from its next run than the period of its expression,
\* unless it was rescheduled from an expression that somebody had replaced
\* after the row was listed.
NextWithinPeriod ==
  \A j \in Jobs \ outdated : \A r \in row[j] : r.wait <= r.cron.n

\* A job with a fixed interval that nobody edits is not run again before the
\* interval has passed, however late the batch was that ran it, unless two
\* processes had listed it at once or the run was cut short.
SpacedRuns ==
  [][\A p \in Schedulers : \A i \in proc[p].todo :
       ~i.cron.named /\ i.job \notin outdated /\ Enqueue(p, i)
         => since[i.job] >= i.cron.n]_schedulerVars

\* docs/JOB_SYSTEM.md:79 "Run at fixed intervals": runs come neither early nor
\* late.
RunsAtTheirDistance == []NextWithinPeriod /\ SpacedRuns

\* A job that is due is run, or edited so that it is not due, and a job whose
\* statements fail does not keep the others from running.
DueJobsRun == \A j \in Jobs \ FaultyJobs : []<>~Due(j)
=============================================================================
