-------------------------- MODULE Scheduler_proofs --------------------------
(***************************************************************************)
(* Scheduled crawls, for any rows, processes, expressions and order of     *)
(* steps: no run comes late by more than the period of its expression and  *)
(* none comes early.                                                       *)
(***************************************************************************)
EXTENDS Scheduler, TLAPS

USE SchedulerAssumption

LEMMA CronType ==
  ASSUME NEW c \in Crons
  PROVE  c.named \in BOOLEAN /\ c.n \in 1 .. Cycle /\ c.n \in Nat \ {0} /\ c.n <= Cycle
<1>1. c \in [named : BOOLEAN, n : 1 .. Cycle]
  OBVIOUS
<1>2. c.named \in BOOLEAN /\ c.n \in 1 .. Cycle
  BY <1>1
<1> QED BY <1>2

\* A run is put off by no more than the period, and by the period exactly
\* when the expression is a fixed interval.
LEMMA DelayBounds ==
  ASSUME clock \in 0 .. Cycle - 1, NEW c \in Crons
  PROVE  /\ Delay(c) \in 0 .. Cycle /\ Delay(c) <= c.n
         /\ ~c.named => Delay(c) = c.n
<1>1. c.n \in Nat \ {0} /\ c.n <= Cycle /\ clock \in Nat /\ Cycle \in Nat
  BY CronType
<1>2. clock % c.n \in 0 .. c.n - 1
  BY <1>1
<1>3. CASE c.named
  BY <1>1, <1>2, <1>3 DEF Delay
<1>4. CASE ~c.named
  BY <1>1, <1>4 DEF Delay
<1> QED BY <1>3, <1>4

-----------------------------------------------------------------------------
(* The type invariant.                                                     *)

LEMMA RowFields ==
  ASSUME SchedulerTypeOK, NEW j \in Jobs, NEW r \in row[j]
  PROVE  /\ r.cron \in Crons /\ r.enabled \in BOOLEAN /\ r.wait \in 0 .. Cycle
         /\ r \in ScheduledRows /\ row[j] = {r}
<1>1. row[j] \in Optional(ScheduledRows)
  BY DEF SchedulerTypeOK
<1>2. r \in ScheduledRows /\ row[j] = {r}
  BY <1>1 DEF Optional
<1> QED BY <1>2 DEF ScheduledRows

LEMMA BatchFields ==
  ASSUME SchedulerTypeOK, NEW p \in Schedulers
  PROVE  /\ \A i \in proc[p].todo \cup proc[p].current : i \in Items /\ i.job \in Jobs /\ i.cron \in Crons
         /\ \A i, k \in proc[p].current : i = k
         /\ proc[p].todo \in SUBSET Items /\ proc[p].current \in Optional(Items)
<1>1. proc[p] \in [todo : SUBSET Items, current : Optional(Items)]
  BY DEF SchedulerTypeOK
<1>2. proc[p].todo \in SUBSET Items /\ proc[p].current \in Optional(Items)
  BY <1>1
<1>3. \A i \in proc[p].todo \cup proc[p].current : i \in Items
  BY <1>2 DEF Optional
<1>4. \A i \in Items : i.job \in Jobs /\ i.cron \in Crons
  BY DEF Items
<1>5. \A i, k \in proc[p].current : i = k
  BY <1>2 DEF Optional
<1> QED BY <1>2, <1>3, <1>4, <1>5

\* A row whose wait is set stays one row of the same expression.
LEMMA WithWait ==
  ASSUME NEW rows \in Optional(ScheduledRows), NEW c, Delay(c) \in 0 .. Cycle
  PROVE  /\ RowsUpdated(rows, c) \in Optional(ScheduledRows)
         /\ \A s \in RowsUpdated(rows, c) :
              s.wait = Delay(c) /\ \E r \in rows : s.cron = r.cron
<1>w. PICK w \in 0 .. Cycle : w = Delay(c)
  OBVIOUS
<1>u. RowsUpdated(rows, c) = {[r EXCEPT !.wait = w] : r \in rows}
  BY <1>w DEF RowsUpdated
<1>1. ASSUME NEW r \in ScheduledRows
      PROVE  /\ [r EXCEPT !.wait = w] \in ScheduledRows
             /\ [r EXCEPT !.wait = w].wait = w /\ [r EXCEPT !.wait = w].cron = r.cron
  BY DEF ScheduledRows
<1>2. CASE rows = {}
  BY <1>2 DEF Optional, RowsUpdated
<1>3. ASSUME NEW r \in ScheduledRows, rows = {r}
      PROVE  {[x EXCEPT !.wait = w] : x \in rows} \in Optional(ScheduledRows)
  <2>1. {[x EXCEPT !.wait = w] : x \in rows} = {[r EXCEPT !.wait = w]}
    BY <1>3
  <2> QED BY <1>1, <2>1 DEF Optional
<1>4. \A r \in rows : r \in ScheduledRows
  BY DEF Optional
<1>5. RowsUpdated(rows, c) \in Optional(ScheduledRows)
  BY <1>u, <1>2, <1>3 DEF Optional
<1>6. ASSUME NEW s \in RowsUpdated(rows, c)
      PROVE  s.wait = Delay(c) /\ \E r \in rows : s.cron = r.cron
  <2>1. PICK r \in rows : s = [r EXCEPT !.wait = w]
    BY <1>u
  <2> QED BY <1>w, <1>1, <1>4, <2>1
<1> QED BY <1>5, <1>6

\* What a minute leaves of a row.
Later(w) == IF w = 0 THEN 0 ELSE w - 1

LEMMA TickedRows ==
  ASSUME SchedulerTypeOK, SchedulerTick, NEW j \in Jobs
  PROVE  /\ row'[j] \in Optional(ScheduledRows)
         /\ \A s \in row'[j] : \E r \in row[j] : s.cron = r.cron /\ s.wait = Later(r.wait)
<1>1. row'[j] = {[r EXCEPT !.wait = IF @ = 0 THEN 0 ELSE @ - 1] : r \in row[j]}
  BY DEF SchedulerTick
<1>2. CASE row[j] = {}
  BY <1>1, <1>2 DEF Optional
<1>3. ASSUME NEW r \in row[j] PROVE /\ row'[j] \in Optional(ScheduledRows)
                                   /\ \A s \in row'[j] : s.cron = r.cron /\ s.wait = Later(r.wait)
  <2>1. row[j] = {r} /\ r \in ScheduledRows /\ r.wait \in 0 .. Cycle
    BY RowFields
  <2>2. PICK s : s = [r EXCEPT !.wait = Later(r.wait)]
    OBVIOUS
  <2>3. Later(r.wait) \in 0 .. Cycle
    BY <2>1 DEF Later
  <2>4. s \in ScheduledRows /\ s.cron = r.cron /\ s.wait = Later(r.wait)
    BY <2>1, <2>2, <2>3 DEF ScheduledRows
  <2>5. row'[j] = {s}
    BY <1>1, <2>1, <2>2 DEF Later
  <2> QED BY <2>4, <2>5 DEF Optional
<1> QED BY <1>2, <1>3

\* What an admin makes of a row.
LEMMA UpdatedRows ==
  ASSUME SchedulerTypeOK, NEW j \in Jobs, NEW c \in Crons, NEW en \in BOOLEAN,
         Create(j, c, en) \/ Update(j, c, en)
  PROVE  \E s \in ScheduledRows : row' = [row EXCEPT ![j] = {s}] /\ s.cron = c /\ s.wait = Delay(c)
<1>1. PICK s : s = [cron |-> c, enabled |-> en, wait |-> Delay(c)]
  OBVIOUS
<1>2. Delay(c) \in 0 .. Cycle
  BY DelayBounds DEF SchedulerTypeOK
<1>3. s \in ScheduledRows /\ s.cron = c /\ s.wait = Delay(c)
  BY <1>1, <1>2 DEF ScheduledRows
<1>4. CASE Create(j, c, en)
  BY <1>1, <1>3, <1>4 DEF Create
<1>5. CASE Update(j, c, en)
  <2>1. row[j] # {}
    BY <1>5 DEF Update
  <2>2. PICK r \in row[j] : row[j] = {r} /\ r \in ScheduledRows
    BY <2>1, RowFields
  <2>3. [r EXCEPT !.cron = c, !.enabled = en, !.wait = Delay(c)] = s
    <3>1. PICK w : w = Delay(c)
      OBVIOUS
    <3>2. PICK e : e = en
      OBVIOUS
    <3>3. PICK r1 : r1 = [r EXCEPT !.cron = c]
      OBVIOUS
    <3>4. PICK r2 : r2 = [r1 EXCEPT !.enabled = e]
      OBVIOUS
    <3>5. PICK r3 : r3 = [r2 EXCEPT !.wait = w]
      OBVIOUS
    <3>6. r \in [cron : Crons, enabled : BOOLEAN, wait : 0 .. Cycle]
      BY <2>2 DEF ScheduledRows
    <3>7. r3 = [cron |-> c, enabled |-> e, wait |-> w]
      BY <3>3, <3>4, <3>5, <3>6
    <3>8. [r EXCEPT !.cron = c, !.enabled = en, !.wait = Delay(c)] = r3
      BY <3>1, <3>2, <3>3, <3>4, <3>5, Zenon
    <3>9. s = [cron |-> c, enabled |-> e, wait |-> w]
      BY <1>1, <3>1, <3>2, Zenon
    <3> QED BY <3>7, <3>8, <3>9
  <2>4. {[x EXCEPT !.cron = c, !.enabled = en, !.wait = Delay(c)] : x \in row[j]} = {s}
    BY <2>2, <2>3
  <2>5. row' = [row EXCEPT ![j] = {[x EXCEPT !.cron = c, !.enabled = en, !.wait = Delay(c)] : x \in row[j]}]
    BY <1>5 DEF Update
  <2> QED BY <1>3, <2>4, <2>5
<1> QED BY <1>4, <1>5

LEMMA ToggledRow ==
  ASSUME SchedulerTypeOK, NEW j \in Jobs, Toggle(j)
  PROVE  \E r \in row[j] : \E s \in ScheduledRows :
           row' = [row EXCEPT ![j] = {s}] /\ s.cron = r.cron /\ s.wait = r.wait
<1>1. PICK r \in row[j] : row[j] = {r} /\ r \in ScheduledRows
  BY RowFields DEF Toggle
<1>2. PICK b \in BOOLEAN : b = ~r.enabled
  <2>1. (~r.enabled) \in BOOLEAN
    OBVIOUS
  <2> QED BY <2>1
<1>3. PICK s : s = [r EXCEPT !.enabled = b]
  OBVIOUS
<1>4. s \in ScheduledRows /\ s.cron = r.cron /\ s.wait = r.wait
  BY <1>1, <1>3 DEF ScheduledRows
<1>5. [r EXCEPT !.enabled = ~@] = s
  BY <1>2, <1>3, Zenon
<1>6. {[x EXCEPT !.enabled = ~@] : x \in row[j]} = {s}
  <2> DEFINE Toggled(x) == [x EXCEPT !.enabled = ~@]
  <2>1. Toggled(r) = s
    BY <1>5
  <2> HIDE DEF Toggled
  <2>2. {Toggled(x) : x \in row[j]} = {s}
    BY <1>1, <2>1
  <2> QED BY <2>2 DEF Toggled
<1>7. row' = [row EXCEPT ![j] = {[x EXCEPT !.enabled = ~@] : x \in row[j]}]
  BY Zenon DEF Toggle
<1>8. row' = [row EXCEPT ![j] = {s}]
  BY <1>6, <1>7, Zenon
<1> QED BY <1>1, <1>4, <1>8

-----------------------------------------------------------------------------
LEMMA ListTypes ==
  ASSUME SchedulerTypeOK, NEW p \in Schedulers, List(p)
  PROVE  /\ \A i : i \in proc'[p].todo <=>
                     \E j \in Listed : \E r \in row[j] : i = [job |-> j, cron |-> r.cron]
         /\ proc'[p].todo \in SUBSET Items /\ proc'[p].current = proc[p].current
         /\ \A q \in Schedulers \ {p} : proc'[q] = proc[q]
         /\ proc' \in [Schedulers -> [todo : SUBSET Items, current : Optional(Items)]]
<1>1. PICK T : T = UNION {{[job |-> j, cron |-> r.cron] : r \in row[j]} : j \in Listed}
  OBVIOUS
<1>2. \A i : i \in T <=> \E j \in Listed : \E r \in row[j] : i = [job |-> j, cron |-> r.cron]
  BY <1>1
<1>3. T \in SUBSET Items
  <2>1. \A j \in Listed : j \in Jobs
    BY DEF Listed
  <2>2. \A j \in Jobs : \A r \in row[j] : r.cron \in Crons
    BY RowFields
  <2> QED BY <1>2, <2>1, <2>2 DEF Items
<1>4. proc' = [proc EXCEPT ![p].todo = T]
  BY <1>1 DEF List
<1>5. proc \in [Schedulers -> [todo : SUBSET Items, current : Optional(Items)]]
  BY DEF SchedulerTypeOK
<1>6. proc'[p].todo = T /\ proc'[p].current = proc[p].current
  BY <1>4, <1>5
<1> QED BY <1>2, <1>3, <1>4, <1>5, <1>6

LEMMA SinceType ==
  ASSUME SchedulerTypeOK, NEW p \in Schedulers
  PROVE  CutShort(p) \in [Jobs -> 0 .. Cycle]
BY DEF CutShort, SchedulerTypeOK

LEMMA StepTypes == SchedulerTypeOK /\ [SchedulerNext]_schedulerVars => SchedulerTypeOK'
<1> SUFFICES ASSUME SchedulerTypeOK, [SchedulerNext]_schedulerVars PROVE SchedulerTypeOK'
  OBVIOUS
<1>0. /\ clock \in 0 .. Cycle - 1 /\ row \in [Jobs -> Optional(ScheduledRows)]
      /\ proc \in [Schedulers -> [todo : SUBSET Items, current : Optional(Items)]]
      /\ since \in [Jobs -> 0 .. Cycle] /\ outdated \subseteq Jobs
      /\ Cycle \in 0 .. Cycle /\ 0 \in 0 .. Cycle /\ {} \in Optional(Items) /\ {} \in Optional(ScheduledRows)
  BY DEF SchedulerTypeOK, Optional
<1>1. ASSUME NEW p \in Schedulers, List(p) PROVE SchedulerTypeOK'
  <2>1. proc' \in [Schedulers -> [todo : SUBSET Items, current : Optional(Items)]]
    BY <1>1, ListTypes
  <2>2. since' \in [Jobs -> 0 .. Cycle]
    BY <1>0, <1>1 DEF List
  <2> QED BY <1>0, <1>1, <2>1, <2>2 DEF List, SchedulerTypeOK
<1>2. ASSUME NEW p \in Schedulers, NEW i \in proc[p].todo, Enqueue(p, i) PROVE SchedulerTypeOK'
  <2>1. i \in Items /\ i.job \in Jobs /\ proc[p].todo \ {i} \in SUBSET Items /\ {i} \in Optional(Items)
    BY BatchFields DEF Optional
  <2>2. proc' \in [Schedulers -> [todo : SUBSET Items, current : Optional(Items)]]
    <3>1. PICK o : o = [proc[p] EXCEPT !.todo = @ \ {i}, !.current = {i}]
      OBVIOUS
    <3>2. o \in [todo : SUBSET Items, current : Optional(Items)]
      BY <1>0, <2>1, <3>1
    <3>3. proc' = [proc EXCEPT ![p] = o]
      BY <1>2, <3>1 DEF Enqueue, Remaining
    <3> QED BY <1>0, <3>2, <3>3
  <2>3. since' \in [Jobs -> 0 .. Cycle]
    BY <1>0, <1>2, <2>1 DEF Enqueue
  <2> QED BY <1>0, <1>2, <2>2, <2>3 DEF Enqueue, SchedulerTypeOK
<1>3. ASSUME NEW p \in Schedulers, NEW i \in proc[p].todo, EnqueueFails(p, i) PROVE SchedulerTypeOK'
  <2>1. Remaining(p, i) \in SUBSET Items
    BY BatchFields DEF Remaining
  <2>2. proc' \in [Schedulers -> [todo : SUBSET Items, current : Optional(Items)]]
    BY <1>0, <1>3, <2>1 DEF EnqueueFails
  <2> QED BY <1>0, <1>3, <2>2 DEF EnqueueFails, SchedulerTypeOK
<1>4. ASSUME NEW p \in Schedulers, Reschedule(p) PROVE SchedulerTypeOK'
  <2>1. PICK i \in proc[p].current :
          /\ row' = [row EXCEPT ![i.job] = RowsUpdated(@, i.cron)]
          /\ outdated' = IF \E r \in row[i.job] : r.cron # i.cron THEN outdated \cup {i.job}
                                                                  ELSE outdated \ {i.job}
    BY <1>4 DEF Reschedule
  <2>2. i.job \in Jobs /\ i.cron \in Crons /\ Delay(i.cron) \in 0 .. Cycle
    BY <1>0, BatchFields, DelayBounds
  <2>3. RowsUpdated(row[i.job], i.cron) \in Optional(ScheduledRows)
    <3>1. row[i.job] \in Optional(ScheduledRows)
      BY <1>0, <2>2
    <3> QED BY <2>2, <3>1, WithWait
  <2>4. row' \in [Jobs -> Optional(ScheduledRows)]
    BY <1>0, <2>1, <2>2, <2>3
  <2>5. proc' \in [Schedulers -> [todo : SUBSET Items, current : Optional(Items)]]
    <3>1. PICK o : o = [proc[p] EXCEPT !.current = {}]
      OBVIOUS
    <3>2. o \in [todo : SUBSET Items, current : Optional(Items)]
      BY <1>0, <3>1 DEF Optional
    <3>3. proc' = [proc EXCEPT ![p] = o]
      BY <1>4, <3>1 DEF Reschedule
    <3> QED BY <1>0, <3>2, <3>3
  <2>6. outdated' \subseteq Jobs
    BY <1>0, <2>1, <2>2
  <2> QED BY <1>0, <1>4, <2>4, <2>5, <2>6 DEF Reschedule, SchedulerTypeOK
<1>5. ASSUME NEW p \in Schedulers, RescheduleFails(p) PROVE SchedulerTypeOK'
  <2>1. proc' \in [Schedulers -> [todo : SUBSET Items, current : Optional(Items)]]
    BY <1>0, <1>5 DEF RescheduleFails
  <2> QED BY <1>0, <1>5, <2>1, SinceType DEF RescheduleFails, SchedulerTypeOK
<1>6. ASSUME NEW p \in Schedulers, Restart(p) PROVE SchedulerTypeOK'
  <2>1. proc' \in [Schedulers -> [todo : SUBSET Items, current : Optional(Items)]]
    BY <1>0, <1>6 DEF Restart, NewProc
  <2> QED BY <1>0, <1>6, <2>1, SinceType DEF Restart, SchedulerTypeOK
<1>7. ASSUME NEW j \in Jobs, NEW c \in Crons, NEW en \in BOOLEAN, Create(j, c, en) \/ Update(j, c, en)
      PROVE  SchedulerTypeOK'
  <2>1. PICK s \in ScheduledRows : row' = [row EXCEPT ![j] = {s}]
    BY <1>7, UpdatedRows
  <2>2. {s} \in Optional(ScheduledRows)
    BY DEF Optional
  <2>3. row' \in [Jobs -> Optional(ScheduledRows)]
    BY <1>0, <2>1, <2>2
  <2>4. since' = [since EXCEPT ![j] = Cycle] /\ outdated' = outdated \ {j} /\ clock' = clock /\ proc' = proc
    BY <1>7 DEF Create, Update
  <2> QED BY <1>0, <2>3, <2>4 DEF SchedulerTypeOK
<1>8. ASSUME NEW j \in Jobs, Toggle(j) PROVE SchedulerTypeOK'
  <2>1. PICK s \in ScheduledRows : row' = [row EXCEPT ![j] = {s}]
    BY <1>8, ToggledRow
  <2>2. {s} \in Optional(ScheduledRows)
    BY DEF Optional
  <2>3. row' \in [Jobs -> Optional(ScheduledRows)]
    BY <1>0, <2>1, <2>2
  <2> QED BY <1>0, <1>8, <2>3 DEF Toggle, SchedulerTypeOK
<1>9. ASSUME NEW j \in Jobs, Delete(j) PROVE SchedulerTypeOK'
  BY <1>0, <1>9 DEF Delete, SchedulerTypeOK
<1>10. CASE SchedulerTick
  <2>1. \A j \in Jobs : row'[j] \in Optional(ScheduledRows)
    BY <1>10, TickedRows
  <2>2. row' = [j \in Jobs |-> row'[j]]
    BY <1>10 DEF SchedulerTick
  <2>3. row' \in [Jobs -> Optional(ScheduledRows)]
    BY <2>1, <2>2
  <2>4. clock' \in 0 .. Cycle - 1
    BY <1>0, <1>10 DEF SchedulerTick
  <2>5. since' \in [Jobs -> 0 .. Cycle]
    <3>1. \A x \in 0 .. Cycle : x # Cycle => x + 1 \in 0 .. Cycle
      OBVIOUS
    <3>2. since' = [j \in Jobs |-> IF since[j] = Cycle THEN Cycle ELSE since[j] + 1]
      BY <1>10 DEF SchedulerTick
    <3> QED BY <1>0, <3>1, <3>2
  <2> QED BY <1>0, <1>10, <2>3, <2>4, <2>5 DEF SchedulerTick, SchedulerTypeOK
<1>11. CASE UNCHANGED schedulerVars
  BY <1>11 DEF schedulerVars, SchedulerTypeOK
<1> QED BY <1>1, <1>2, <1>3, <1>4, <1>5, <1>6, <1>7, <1>8, <1>9, <1>10, <1>11
        DEF SchedulerNext, RunnerNext, ScheduleAdmin

LEMMA InitTypes == SchedulerInit => SchedulerTypeOK
<1> SUFFICES ASSUME SchedulerInit PROVE SchedulerTypeOK
  OBVIOUS
<1>1. row \in [Jobs -> Optional(ScheduledRows)]
  <2>1. Optional({r \in ScheduledRows : r.wait = Delay(r.cron)}) \subseteq Optional(ScheduledRows)
    BY DEF Optional
  <2> QED BY <2>1 DEF SchedulerInit
<1>2. proc \in [Schedulers -> [todo : SUBSET Items, current : Optional(Items)]]
  BY DEF SchedulerInit, NewProc, Optional
<1>3. clock = 0 /\ since = [j \in Jobs |-> Cycle] /\ outdated = {}
  BY DEF SchedulerInit
<1> QED BY <1>1, <1>2, <1>3 DEF SchedulerTypeOK

\* Of any rows, processes and expressions the table has at most one row per
\* job, and no wait is longer than the longest period.
THEOREM SchedulerTypeCorrect == SchedulerSpec => []SchedulerTypeOK
BY InitTypes, StepTypes, PTL DEF SchedulerSpec

-----------------------------------------------------------------------------
(* The distance of runs.                                                   *)

InBatch(p, j) == \E i \in proc[p].todo \cup proc[p].current : i.job = j

Running(j) == \E p \in Schedulers : \E k \in proc[p].current : k.job = j

\* Two processes have listed it: the history has given the job up.
SharedSpaced ==
  \A p, q \in Schedulers : \A j \in Jobs :
    p # q /\ InBatch(p, j) /\ InBatch(q, j) => since[j] = Cycle

OncePerBatch ==
  \A p \in Schedulers : \A i \in proc[p].todo :
    /\ \A k \in proc[p].todo : i.job = k.job => i = k
    /\ \A k \in proc[p].current : i.job # k.job

\* What is listed may run now, what is not listed when its wait is over.
TodoSpaced ==
  \A p \in Schedulers : \A i \in proc[p].todo :
    ~i.cron.named /\ i.job \notin outdated => since[i.job] >= i.cron.n

RowsSpaced ==
  \A j \in Jobs \ outdated : \A r \in row[j] :
    ~r.cron.named /\ ~Running(j) => r.wait + since[j] >= r.cron.n

SpacedInv ==
  SchedulerTypeOK /\ SharedSpaced /\ OncePerBatch /\ TodoSpaced /\ RowsSpaced /\ NextWithinPeriod

Spaced == SharedSpaced /\ OncePerBatch /\ TodoSpaced /\ RowsSpaced

LEMMA SinceFacts ==
  ASSUME SchedulerTypeOK
  PROVE  /\ \A j \in Jobs : since[j] \in Nat /\ since[j] <= Cycle
         /\ \A c \in Crons : Cycle >= c.n /\ c.n \in Nat /\ Cycle \in Nat
         /\ \A j \in Jobs : \A r \in row[j] : r.wait \in Nat /\ r.cron \in Crons
<1>1. \A j \in Jobs : since[j] \in 0 .. Cycle
  BY DEF SchedulerTypeOK
<1>2. \A c \in Crons : Cycle >= c.n /\ c.n \in Nat /\ Cycle \in Nat
  BY CronType
<1>3. \A j \in Jobs : \A r \in row[j] : r.wait \in 0 .. Cycle /\ r.cron \in Crons
  BY RowFields
<1> QED BY <1>1, <1>2, <1>3

LEMMA ListSpaced ==
  ASSUME SpacedInv, NEW p \in Schedulers, List(p)
  PROVE  Spaced' /\ NextWithinPeriod'
<1>0. SchedulerTypeOK
  BY DEF SpacedInv
<1>1. /\ proc[p].todo = {} /\ proc[p].current = {} /\ row' = row /\ outdated' = outdated
      /\ since' = [j \in Jobs |-> IF j \in Listed /\ Contested(p, j) THEN Cycle ELSE since[j]]
  BY DEF List, UnderWay
<1>2. /\ \A i : i \in proc'[p].todo <=>
                  \E j \in Listed : \E r \in row[j] : i = [job |-> j, cron |-> r.cron]
      /\ proc'[p].current = {}
      /\ \A q \in Schedulers \ {p} : proc'[q] = proc[q]
  BY <1>0, <1>1, ListTypes
<1>3. \A i \in proc'[p].todo : i.job \in Jobs /\ i.job \in Listed /\ \E r \in row[i.job] : i = [job |-> i.job, cron |-> r.cron]
  BY <1>2 DEF Listed
<1>4. \A j \in Listed : \A r \in row[j] : r.wait = 0
  BY <1>0, RowFields DEF Listed, Due
<1>5. \A j : Contested(p, j) <=> \E q \in Schedulers \ {p} : InBatch(q, j)
  BY DEF Contested, InBatch
<1>6. SharedSpaced'
  <2> SUFFICES ASSUME NEW a \in Schedulers, NEW b \in Schedulers, NEW j \in Jobs,
                      a # b, InBatch(a, j)', InBatch(b, j)'
               PROVE  since'[j] = Cycle
    BY DEF SharedSpaced
  <2>1. ASSUME InBatch(p, j)', NEW q \in Schedulers \ {p}, InBatch(q, j)' PROVE since'[j] = Cycle
    <3>1. InBatch(q, j)
      BY <1>2, <2>1 DEF InBatch
    <3>2. j \in Listed
      BY <1>2, <1>3, <2>1 DEF InBatch
    <3> QED BY <1>1, <1>5, <3>1, <3>2
  <2>2. CASE a # p /\ b # p
    <3>1. InBatch(a, j) /\ InBatch(b, j)
      BY <1>2, <2>2 DEF InBatch
    <3>2. since[j] = Cycle
      BY <3>1 DEF SpacedInv, SharedSpaced
    <3> QED BY <1>1, <3>2
  <2> QED BY <2>1, <2>2
<1>7. OncePerBatch'
  <2> SUFFICES ASSUME NEW q \in Schedulers, NEW i \in proc'[q].todo
               PROVE  /\ \A k \in proc'[q].todo : i.job = k.job => i = k
                      /\ \A k \in proc'[q].current : i.job # k.job
    BY DEF OncePerBatch
  <2>1. CASE q = p
    <3>1. ASSUME NEW k \in proc'[p].todo, i.job = k.job PROVE i = k
      <4>1. PICK r \in row[i.job] : i = [job |-> i.job, cron |-> r.cron]
        BY <1>3, <2>1
      <4>2. PICK s \in row[i.job] : k = [job |-> i.job, cron |-> s.cron]
        BY <1>3, <3>1
      <4>3. r = s
        BY <1>0, <1>3, <2>1, RowFields
      <4> QED BY <4>1, <4>2, <4>3
    <3> QED BY <1>2, <2>1, <3>1
  <2>2. CASE q # p
    BY <1>2, <2>2 DEF SpacedInv, OncePerBatch
  <2> QED BY <2>1, <2>2
<1>8. TodoSpaced'
  <2> SUFFICES ASSUME NEW q \in Schedulers, NEW i \in proc'[q].todo, ~i.cron.named, i.job \notin outdated
               PROVE  since'[i.job] >= i.cron.n
    BY <1>1 DEF TodoSpaced
  <2>1. CASE q = p
    <3>1. PICK r \in row[i.job] : i = [job |-> i.job, cron |-> r.cron]
      BY <1>3, <2>1
    <3>2. PICK j \in Jobs : j = i.job /\ j \in Listed
      BY <1>3, <2>1
    <3>3. i.cron = r.cron /\ r.wait = 0 /\ r.cron \in Crons
      BY <1>0, <1>4, <3>1, <3>2, SinceFacts
    <3>4. CASE Contested(p, j)
      <4>1. since'[j] = Cycle
        BY <1>1, <3>2, <3>4
      <4> QED BY <1>0, <3>2, <3>3, <4>1, SinceFacts
    <3>5. CASE ~Contested(p, j)
      <4>1. ~Running(j)
        BY <1>1, <1>5, <3>5 DEF Running, InBatch
      <4>2. r.wait + since[j] >= r.cron.n
        BY <2>1, <3>1, <3>2, <3>3, <4>1 DEF SpacedInv, RowsSpaced
      <4>3. since'[j] = since[j] /\ since[j] \in Nat
        BY <1>0, <1>1, <3>5, SinceFacts
      <4> QED BY <3>2, <3>3, <4>2, <4>3
    <3> QED BY <3>4, <3>5
  <2>2. CASE q # p
    <3>1. i \in proc[q].todo
      BY <1>2, <2>2
    <3>2. i.job \in Jobs /\ i.cron \in Crons /\ since[i.job] >= i.cron.n
      BY <1>0, <3>1, BatchFields DEF SpacedInv, TodoSpaced
    <3>3. since'[i.job] = Cycle \/ since'[i.job] = since[i.job]
      BY <1>1, <3>2
    <3> QED BY <1>0, <3>2, <3>3, SinceFacts
  <2> QED BY <2>1, <2>2
<1>9. RowsSpaced'
  <2> SUFFICES ASSUME NEW j \in Jobs \ outdated, NEW r \in row[j], ~r.cron.named, ~Running(j)'
               PROVE  r.wait + since'[j] >= r.cron.n
    BY <1>1 DEF RowsSpaced
  <2>1. ~Running(j)
    BY <1>1, <1>2 DEF Running
  <2>2. r.wait + since[j] >= r.cron.n
    BY <2>1 DEF SpacedInv, RowsSpaced
  <2>3. since'[j] = Cycle \/ since'[j] = since[j]
    BY <1>1
  <2> QED BY <1>0, <2>2, <2>3, SinceFacts
<1>10. NextWithinPeriod'
  BY <1>1 DEF SpacedInv, NextWithinPeriod
<1> QED BY <1>6, <1>7, <1>8, <1>9, <1>10 DEF Spaced

LEMMA EnqueueSpaced ==
  ASSUME SpacedInv, NEW p \in Schedulers, NEW i \in proc[p].todo, Enqueue(p, i)
  PROVE  Spaced' /\ NextWithinPeriod'
<1>0. SchedulerTypeOK /\ proc \in [Schedulers -> [todo : SUBSET Items, current : Optional(Items)]]
  BY DEF SpacedInv, SchedulerTypeOK
<1>1. /\ row' = row /\ outdated' = outdated /\ proc[p].current = {}
      /\ proc' = [proc EXCEPT ![p].todo = @ \ {i}, ![p].current = {i}]
      /\ since' = [since EXCEPT ![i.job] = IF i.cron.named \/ Contested(p, i.job) THEN Cycle ELSE 0]
  BY DEF Enqueue
<1>2. /\ proc'[p].todo = proc[p].todo \ {i} /\ proc'[p].current = {i}
      /\ \A q \in Schedulers \ {p} : proc'[q] = proc[q]
  BY <1>0, <1>1
<1>3. i.job \in Jobs /\ i.cron \in Crons
  BY <1>0, BatchFields
<1>4. /\ since'[i.job] = IF i.cron.named \/ Contested(p, i.job) THEN Cycle ELSE 0
      /\ \A j \in Jobs \ {i.job} : since'[j] = since[j]
  BY <1>0, <1>1, <1>3 DEF SchedulerTypeOK
<1>5. \A j : Contested(p, j) <=> \E q \in Schedulers \ {p} : InBatch(q, j)
  BY DEF Contested, InBatch
<1>6. \A q \in Schedulers : \A j : InBatch(q, j)' <=> InBatch(q, j)
  <2>1. \A q \in Schedulers \ {p} : \A j : InBatch(q, j)' <=> InBatch(q, j)
    BY <1>2 DEF InBatch
  <2>2. proc'[p].todo \cup proc'[p].current = proc[p].todo \cup proc[p].current
    BY <1>1, <1>2
  <2> QED BY <2>1, <2>2 DEF InBatch
<1>7. SharedSpaced'
  <2> SUFFICES ASSUME NEW a \in Schedulers, NEW b \in Schedulers, NEW j \in Jobs,
                      a # b, InBatch(a, j), InBatch(b, j)
               PROVE  since'[j] = Cycle
    BY <1>6 DEF SharedSpaced
  <2>1. CASE j = i.job
    BY <1>4, <1>5, <2>1
  <2>2. CASE j # i.job
    BY <1>4, <2>2 DEF SpacedInv, SharedSpaced
  <2> QED BY <2>1, <2>2
<1>8. OncePerBatch'
  <2> SUFFICES ASSUME NEW q \in Schedulers, NEW x \in proc'[q].todo
               PROVE  /\ \A k \in proc'[q].todo : x.job = k.job => x = k
                      /\ \A k \in proc'[q].current : x.job # k.job
    BY DEF OncePerBatch
  <2>1. CASE q = p
    BY <1>2, <2>1 DEF SpacedInv, OncePerBatch
  <2>2. CASE q # p
    BY <1>2, <2>2 DEF SpacedInv, OncePerBatch
  <2> QED BY <2>1, <2>2
\* Whoever else has listed the job lets the history give it up.
<1>9. TodoSpaced'
  <2> SUFFICES ASSUME NEW q \in Schedulers, NEW x \in proc'[q].todo, ~x.cron.named, x.job \notin outdated
               PROVE  since'[x.job] >= x.cron.n
    BY <1>1 DEF TodoSpaced
  <2>1. x \in proc[q].todo /\ x.job \in Jobs /\ x.cron \in Crons /\ since[x.job] >= x.cron.n
    <3>1. x \in proc[q].todo
      BY <1>2
    <3> QED BY <1>0, <3>1, BatchFields DEF SpacedInv, TodoSpaced
  <2>2. CASE x.job # i.job
    BY <1>4, <2>1, <2>2
  <2>3. CASE x.job = i.job
    <3>1. q # p
      BY <1>2, <2>1, <2>3 DEF SpacedInv, OncePerBatch
    <3>2. Contested(p, i.job)
      BY <1>5, <2>1, <2>3, <3>1 DEF InBatch
    <3>3. since'[x.job] = Cycle
      BY <1>4, <2>3, <3>2
    <3> QED BY <1>0, <2>1, <3>3, SinceFacts
  <2> QED BY <2>2, <2>3
<1>10. RowsSpaced'
  <2> SUFFICES ASSUME NEW j \in Jobs \ outdated, NEW r \in row[j], ~r.cron.named, ~Running(j)'
               PROVE  r.wait + since'[j] >= r.cron.n
    BY <1>1 DEF RowsSpaced
  <2>1. j # i.job
    BY <1>2 DEF Running
  <2>2. ~Running(j)
    <3>1. \A q \in Schedulers : proc[q].current \subseteq proc'[q].current
      BY <1>1, <1>2
    <3> QED BY <3>1 DEF Running
  <2>3. r.wait + since[j] >= r.cron.n
    BY <2>2 DEF SpacedInv, RowsSpaced
  <2> QED BY <1>4, <2>1, <2>3
<1>11. NextWithinPeriod'
  BY <1>1 DEF SpacedInv, NextWithinPeriod
<1> QED BY <1>7, <1>8, <1>9, <1>10, <1>11 DEF Spaced

Batches == [Schedulers -> [todo : SUBSET Items, current : Optional(Items)]]

\* Batches get shorter, and the history gives up what was cut short.
LEMMA FewerSpaced ==
  ASSUME SpacedInv, row' = row, outdated' = outdated,
         \A q \in Schedulers : proc'[q].todo \subseteq proc[q].todo /\ proc'[q].current \subseteq proc[q].current,
         \A j \in Jobs : since'[j] = Cycle \/ since'[j] = since[j],
         \A j \in Jobs : Running(j) /\ ~Running(j)' => since'[j] = Cycle
  PROVE  Spaced' /\ NextWithinPeriod'
<1>0. SchedulerTypeOK
  BY DEF SpacedInv
<1>1. \A q \in Schedulers : \A j : InBatch(q, j)' => InBatch(q, j)
  BY DEF InBatch
<1>2. SharedSpaced'
  BY <1>1 DEF SharedSpaced, SpacedInv
<1>3. OncePerBatch'
  BY DEF OncePerBatch, SpacedInv
<1>4. TodoSpaced'
  <2> SUFFICES ASSUME NEW q \in Schedulers, NEW x \in proc'[q].todo, ~x.cron.named, x.job \notin outdated
               PROVE  since'[x.job] >= x.cron.n
    BY DEF TodoSpaced
  <2>1. x \in proc[q].todo
    OBVIOUS
  <2>2. x.job \in Jobs /\ x.cron \in Crons /\ since[x.job] >= x.cron.n
    BY <1>0, <2>1, BatchFields DEF SpacedInv, TodoSpaced
  <2>3. since'[x.job] = Cycle \/ since'[x.job] = since[x.job]
    BY <2>2
  <2> QED BY <1>0, <2>2, <2>3, SinceFacts
<1>5. RowsSpaced'
  <2> SUFFICES ASSUME NEW j \in Jobs \ outdated, NEW r \in row[j], ~r.cron.named, ~Running(j)'
               PROVE  r.wait + since'[j] >= r.cron.n
    BY DEF RowsSpaced
  <2>0. r.wait \in Nat /\ r.cron.n \in Nat /\ Cycle >= r.cron.n /\ Cycle \in Nat
    BY <1>0, SinceFacts
  <2>1. CASE since'[j] = Cycle
    BY <2>0, <2>1
  <2>2. CASE since'[j] # Cycle
    <3>1. ~Running(j) /\ since'[j] = since[j]
      BY <2>2
    <3> QED BY <3>1 DEF SpacedInv, RowsSpaced
  <2> QED BY <2>1, <2>2
<1>6. NextWithinPeriod'
  BY DEF SpacedInv, NextWithinPeriod
<1> QED BY <1>2, <1>3, <1>4, <1>5, <1>6 DEF Spaced

LEMMA EnqueueFailsSpaced ==
  ASSUME SpacedInv, NEW p \in Schedulers, NEW i \in proc[p].todo, EnqueueFails(p, i)
  PROVE  Spaced' /\ NextWithinPeriod'
<1>0. proc \in Batches
  BY DEF SpacedInv, SchedulerTypeOK, Batches
<1>1. /\ row' = row /\ outdated' = outdated /\ since' = since
      /\ proc' = [proc EXCEPT ![p].todo = Remaining(p, i)]
  BY DEF EnqueueFails
<1>2. \A q \in Schedulers : proc'[q].todo \subseteq proc[q].todo /\ proc'[q].current = proc[q].current
  BY <1>0, <1>1 DEF Remaining, Batches
<1>3. \A j : Running(j)' <=> Running(j)
  BY <1>2 DEF Running
<1> QED BY <1>1, <1>2, <1>3, FewerSpaced

\* A run that ends before it has rescheduled its row.
LEMMA CutShortSpaced ==
  ASSUME SpacedInv, NEW p \in Schedulers, RescheduleFails(p) \/ Restart(p)
  PROVE  Spaced' /\ NextWithinPeriod'
<1>0. proc \in Batches
  BY DEF SpacedInv, SchedulerTypeOK, Batches
<1>1. /\ row' = row /\ outdated' = outdated /\ since' = CutShort(p)
  BY DEF RescheduleFails, Restart
<1>2. \A q \in Schedulers : /\ proc'[q].todo \subseteq proc[q].todo
                            /\ proc'[q].current \subseteq proc[q].current
                            /\ q # p => proc'[q] = proc[q]
  <2>1. CASE RescheduleFails(p)
    BY <1>0, <2>1 DEF RescheduleFails, Batches
  <2>2. CASE Restart(p)
    BY <1>0, <2>2 DEF Restart, NewProc, Batches
  <2> QED BY <2>1, <2>2
<1>3. \A j \in Jobs : since'[j] = IF \E i \in proc[p].current : i.job = j THEN Cycle ELSE since[j]
  BY <1>1 DEF CutShort
<1>4. \A j \in Jobs : Running(j) /\ ~Running(j)' => since'[j] = Cycle
  BY <1>2, <1>3 DEF Running
<1> QED BY <1>1, <1>2, <1>3, <1>4, FewerSpaced

\* The row is put off by its interval; what the process has listed is of
\* other jobs, and other processes that have listed this one may run it.
LEMMA RescheduleSpaced ==
  ASSUME SpacedInv, NEW p \in Schedulers, Reschedule(p)
  PROVE  Spaced' /\ NextWithinPeriod'
<1>0. SchedulerTypeOK /\ proc \in Batches /\ row \in [Jobs -> Optional(ScheduledRows)]
  BY DEF SpacedInv, SchedulerTypeOK, Batches
<1>1. PICK i \in proc[p].current :
        /\ row' = [row EXCEPT ![i.job] = RowsUpdated(@, i.cron)]
        /\ outdated' = IF \E r \in row[i.job] : r.cron # i.cron THEN outdated \cup {i.job}
                                                                ELSE outdated \ {i.job}
  BY DEF Reschedule
<1>2. i.job \in Jobs /\ i.cron \in Crons /\ \A k \in proc[p].current : k = i
  BY <1>0, BatchFields
<1>3. proc' = [proc EXCEPT ![p].current = {}] /\ since' = since
  BY DEF Reschedule
<1>4. \A q \in Schedulers : /\ proc'[q].todo = proc[q].todo /\ proc'[q].current \subseteq proc[q].current
                            /\ q # p => proc'[q] = proc[q]
  BY <1>0, <1>3 DEF Batches
<1>5. /\ \A j \in Jobs \ {i.job} : row'[j] = row[j]
      /\ \A s \in row'[i.job] : s.wait = Delay(i.cron) /\ \E r \in row[i.job] : s.cron = r.cron
  <2>1. row'[i.job] = RowsUpdated(row[i.job], i.cron) /\ \A j \in Jobs \ {i.job} : row'[j] = row[j]
    BY <1>0, <1>1, <1>2
  <2>2. row[i.job] \in Optional(ScheduledRows) /\ Delay(i.cron) \in 0 .. Cycle
    BY <1>0, <1>2, DelayBounds DEF SchedulerTypeOK
  <2>3. \A s \in RowsUpdated(row[i.job], i.cron) : s.wait = Delay(i.cron) /\ \E r \in row[i.job] : s.cron = r.cron
    BY <2>2, WithWait
  <2> QED BY <2>1, <2>3
<1>6. ASSUME i.job \notin outdated', NEW s \in row'[i.job] PROVE s.cron = i.cron /\ s.wait = Delay(i.cron)
  <2>1. \A r \in row[i.job] : r.cron = i.cron
    BY <1>1, <1>6
  <2> QED BY <1>5, <2>1
<1>7. \A j \in Jobs \ {i.job} : j \in outdated' <=> j \in outdated
  BY <1>1
<1>8. SharedSpaced'
  <2>1. \A q \in Schedulers : \A j : InBatch(q, j)' => InBatch(q, j)
    BY <1>4 DEF InBatch
  <2> QED BY <1>3, <2>1 DEF SharedSpaced, SpacedInv
<1>9. OncePerBatch'
  BY <1>4 DEF OncePerBatch, SpacedInv
<1>10. TodoSpaced'
  <2> SUFFICES ASSUME NEW q \in Schedulers, NEW x \in proc'[q].todo, ~x.cron.named, x.job \notin outdated'
               PROVE  since[x.job] >= x.cron.n
    BY <1>3 DEF TodoSpaced
  <2>1. x \in proc[q].todo
    BY <1>4
  <2>2. x.job \in Jobs /\ x.cron \in Crons
    BY <1>0, <2>1, BatchFields
  <2>3. CASE x.job # i.job
    BY <1>7, <2>1, <2>2, <2>3 DEF SpacedInv, TodoSpaced
  <2>4. CASE x.job = i.job
    <3>1. q # p
      BY <2>1, <2>4 DEF SpacedInv, OncePerBatch
    <3>2. InBatch(q, x.job) /\ InBatch(p, x.job)
      BY <2>1, <2>4 DEF InBatch
    <3>3. since[x.job] = Cycle
      BY <2>2, <3>1, <3>2 DEF SpacedInv, SharedSpaced
    <3> QED BY <1>0, <2>2, <3>3, SinceFacts
  <2> QED BY <2>3, <2>4
<1>11. RowsSpaced'
  <2> SUFFICES ASSUME NEW j \in Jobs, j \notin outdated', NEW s \in row'[j], ~s.cron.named, ~Running(j)'
               PROVE  s.wait + since[j] >= s.cron.n
    BY <1>3 DEF RowsSpaced
  <2>1. CASE j # i.job
    <3>1. ~Running(j)
      BY <1>2, <1>4, <2>1 DEF Running
    <3> QED BY <1>5, <1>7, <2>1, <3>1 DEF SpacedInv, RowsSpaced
  <2>2. CASE j = i.job
    <3>1. s.wait = i.cron.n /\ s.cron = i.cron
      BY <1>0, <1>2, <1>6, <2>2, DelayBounds DEF SchedulerTypeOK
    <3> QED BY <1>0, <1>2, <3>1, SinceFacts
  <2> QED BY <2>1, <2>2
<1>12. NextWithinPeriod'
  <2> SUFFICES ASSUME NEW j \in Jobs, j \notin outdated', NEW s \in row'[j] PROVE s.wait <= s.cron.n
    BY DEF NextWithinPeriod
  <2>1. CASE j # i.job
    BY <1>5, <1>7, <2>1 DEF SpacedInv, NextWithinPeriod
  <2>2. CASE j = i.job
    BY <1>0, <1>2, <1>6, <2>2, DelayBounds DEF SchedulerTypeOK
  <2> QED BY <2>1, <2>2
<1> QED BY <1>8, <1>9, <1>10, <1>11, <1>12 DEF Spaced

\* An admin edits or removes a row: an edit starts its history over.
LEMMA AdminSpaced ==
  ASSUME SpacedInv, ScheduleAdmin
  PROVE  Spaced' /\ NextWithinPeriod'
<1>0. SchedulerTypeOK /\ row \in [Jobs -> Optional(ScheduledRows)] /\ since \in [Jobs -> 0 .. Cycle]
  BY DEF SpacedInv, SchedulerTypeOK
<1>1. proc' = proc
  BY DEF ScheduleAdmin, Create, Update, Toggle, Delete
<1>2. PICK j \in Jobs : \/ \E c \in Crons, en \in BOOLEAN : Create(j, c, en) \/ Update(j, c, en)
                        \/ Toggle(j) \/ Delete(j)
  BY DEF ScheduleAdmin
<1> DEFINE Edited ==
        /\ \A k \in Jobs \ {j} : row'[k] = row[k] /\ since'[k] = since[k] /\ (k \in outdated' <=> k \in outdated)
        /\ since'[j] = Cycle \/ (since'[j] = since[j] /\ outdated' = outdated)
        /\ \A s \in row'[j] :
             \/ since'[j] = Cycle /\ s.wait \in Nat /\ s.wait <= s.cron.n /\ s.cron \in Crons
             \/ since' = since /\ outdated' = outdated /\ \E r \in row[j] : s.cron = r.cron /\ s.wait = r.wait
<1>3. Edited
  <2>1. ASSUME NEW c \in Crons, NEW en \in BOOLEAN, Create(j, c, en) \/ Update(j, c, en)
        PROVE  Edited
    <3>1. PICK s \in ScheduledRows : row' = [row EXCEPT ![j] = {s}] /\ s.cron = c /\ s.wait = Delay(c)
      BY <1>0, <2>1, UpdatedRows
    <3>2. row'[j] = {s} /\ \A k \in Jobs \ {j} : row'[k] = row[k]
      BY <1>0, <3>1
    <3>3. since' = [since EXCEPT ![j] = Cycle] /\ outdated' = outdated \ {j}
      BY <2>1 DEF Create, Update
    <3>4. Delay(c) <= c.n /\ Delay(c) \in 0 .. Cycle
      BY <1>0, DelayBounds DEF SchedulerTypeOK
    <3> QED BY <1>0, <3>1, <3>2, <3>3, <3>4
  <2>2. CASE Toggle(j)
    <3>1. PICK r \in row[j] : \E s \in ScheduledRows :
            row' = [row EXCEPT ![j] = {s}] /\ s.cron = r.cron /\ s.wait = r.wait
      BY <1>0, <2>2, ToggledRow
    <3>2. PICK s \in ScheduledRows : row' = [row EXCEPT ![j] = {s}] /\ s.cron = r.cron /\ s.wait = r.wait
      BY <3>1
    <3>3. row'[j] = {s} /\ \A k \in Jobs \ {j} : row'[k] = row[k]
      BY <1>0, <3>2
    <3>4. since' = since /\ outdated' = outdated
      BY <2>2 DEF Toggle
    <3> QED BY <3>2, <3>3, <3>4
  <2>3. CASE Delete(j)
    BY <1>0, <2>3 DEF Delete
  <2> QED BY <1>2, <2>1, <2>2, <2>3
<1>4. \A q \in Schedulers : \A k : InBatch(q, k)' <=> InBatch(q, k)
  BY <1>1 DEF InBatch
<1>5. \A k : Running(k)' <=> Running(k)
  BY <1>1 DEF Running
<1>6. SharedSpaced'
  BY <1>3, <1>4 DEF SharedSpaced, SpacedInv
<1>7. OncePerBatch'
  BY <1>1 DEF OncePerBatch, SpacedInv
<1>8. TodoSpaced'
  <2> SUFFICES ASSUME NEW q \in Schedulers, NEW x \in proc[q].todo, ~x.cron.named, x.job \notin outdated'
               PROVE  since'[x.job] >= x.cron.n
    BY <1>1 DEF TodoSpaced
  <2>1. x.job \in Jobs /\ x.cron \in Crons
    BY <1>0, BatchFields
  <2>2. CASE since'[x.job] = Cycle
    BY <1>0, <2>1, <2>2, SinceFacts
  <2>3. CASE since'[x.job] # Cycle
    <3>1. x.job \notin outdated /\ since'[x.job] = since[x.job]
      BY <1>3, <2>1, <2>3
    <3> QED BY <3>1 DEF SpacedInv, TodoSpaced
  <2> QED BY <2>2, <2>3
<1>9. RowsSpaced'
  <2> SUFFICES ASSUME NEW k \in Jobs, k \notin outdated', NEW s \in row'[k], ~s.cron.named, ~Running(k)
               PROVE  s.wait + since'[k] >= s.cron.n
    BY <1>5 DEF RowsSpaced
  <2>1. CASE k # j
    BY <1>3, <2>1 DEF SpacedInv, RowsSpaced
  <2>2. CASE k = j /\ since'[j] = Cycle /\ s.wait \in Nat /\ s.cron \in Crons
    BY <1>0, <2>2, SinceFacts
  <2>3. CASE k = j /\ since' = since /\ outdated' = outdated /\ \E r \in row[j] : s.cron = r.cron /\ s.wait = r.wait
    BY <2>3 DEF SpacedInv, RowsSpaced
  <2> QED BY <1>3, <2>1, <2>2, <2>3
<1>10. NextWithinPeriod'
  <2> SUFFICES ASSUME NEW k \in Jobs, k \notin outdated', NEW s \in row'[k] PROVE s.wait <= s.cron.n
    BY DEF NextWithinPeriod
  <2>1. CASE k # j
    BY <1>3, <2>1 DEF SpacedInv, NextWithinPeriod
  <2>2. CASE k = j
    BY <1>3, <2>2 DEF SpacedInv, NextWithinPeriod
  <2> QED BY <2>1, <2>2
<1> QED BY <1>6, <1>7, <1>8, <1>9, <1>10 DEF Spaced

\* A minute brings the run nearer and lets the history grow.
LEMMA TickSpaced ==
  ASSUME SpacedInv, SchedulerTick
  PROVE  Spaced' /\ NextWithinPeriod'
<1>0. SchedulerTypeOK
  BY DEF SpacedInv
<1>1. proc' = proc /\ outdated' = outdated
  BY DEF SchedulerTick
<1>2. \A j \in Jobs : /\ since'[j] = IF since[j] = Cycle THEN Cycle ELSE since[j] + 1
                      /\ since[j] \in Nat /\ since[j] <= Cycle
  BY <1>0, SinceFacts DEF SchedulerTick
<1>3. \A j \in Jobs : \A s \in row'[j] : \E r \in row[j] : s.cron = r.cron /\ s.wait = Later(r.wait)
  BY <1>0, TickedRows
<1>4. \A q \in Schedulers : \A k : InBatch(q, k)' <=> InBatch(q, k)
  BY <1>1 DEF InBatch
<1>5. \A k : Running(k)' <=> Running(k)
  BY <1>1 DEF Running
<1>6. SharedSpaced'
  BY <1>2, <1>4 DEF SharedSpaced, SpacedInv
<1>7. OncePerBatch'
  BY <1>1 DEF OncePerBatch, SpacedInv
<1>8. TodoSpaced'
  <2> SUFFICES ASSUME NEW q \in Schedulers, NEW x \in proc[q].todo, ~x.cron.named, x.job \notin outdated
               PROVE  since'[x.job] >= x.cron.n
    BY <1>1 DEF TodoSpaced
  <2>1. x.job \in Jobs /\ x.cron \in Crons
    BY <1>0, BatchFields
  <2>2. since[x.job] >= x.cron.n
    BY DEF SpacedInv, TodoSpaced
  <2>3. x.cron.n \in Nat /\ Cycle \in Nat
    BY <1>0, <2>1, SinceFacts
  <2>4. since'[x.job] = Cycle \/ since'[x.job] = since[x.job] + 1
    BY <1>2, <2>1
  <2>5. since[x.job] \in Nat /\ since[x.job] <= Cycle
    BY <1>2, <2>1
  <2> QED BY <2>2, <2>3, <2>4, <2>5
<1>9. RowsSpaced'
  <2> SUFFICES ASSUME NEW j \in Jobs, j \notin outdated, NEW s \in row'[j], ~s.cron.named, ~Running(j)
               PROVE  s.wait + since'[j] >= s.cron.n
    BY <1>1, <1>5 DEF RowsSpaced
  <2>1. PICK r \in row[j] : s.cron = r.cron /\ s.wait = Later(r.wait)
    BY <1>3
  <2>2. r.wait + since[j] >= r.cron.n
    BY <2>1 DEF SpacedInv, RowsSpaced
  <2>3. r.wait \in Nat /\ r.cron.n \in Nat /\ Cycle >= r.cron.n /\ Cycle \in Nat
    BY <1>0, SinceFacts
  <2>4. since[j] \in Nat /\ (since'[j] = Cycle \/ since'[j] = since[j] + 1)
    BY <1>2
  <2> QED BY <2>1, <2>2, <2>3, <2>4 DEF Later
<1>10. NextWithinPeriod'
  <2> SUFFICES ASSUME NEW j \in Jobs, j \notin outdated, NEW s \in row'[j] PROVE s.wait <= s.cron.n
    BY <1>1 DEF NextWithinPeriod
  <2>1. PICK r \in row[j] : s.cron = r.cron /\ s.wait = Later(r.wait)
    BY <1>3
  <2>2. r.wait <= r.cron.n /\ r.wait \in Nat /\ r.cron.n \in Nat
    BY <1>0, SinceFacts DEF SpacedInv, NextWithinPeriod
  <2> QED BY <2>1, <2>2 DEF Later
<1> QED BY <1>6, <1>7, <1>8, <1>9, <1>10 DEF Spaced

LEMMA StepSpaced == SpacedInv /\ [SchedulerNext]_schedulerVars => SpacedInv'
<1> SUFFICES ASSUME SpacedInv, [SchedulerNext]_schedulerVars PROVE SpacedInv'
  OBVIOUS
<1>1. SchedulerTypeOK'
  BY StepTypes DEF SpacedInv
<1>2. SUFFICES Spaced' /\ NextWithinPeriod'
  BY <1>1 DEF SpacedInv, Spaced
<1>3. CASE UNCHANGED schedulerVars
  BY <1>3 DEF schedulerVars, SpacedInv, Spaced, SharedSpaced, OncePerBatch, TodoSpaced, RowsSpaced,
     NextWithinPeriod, InBatch, Running
<1> QED BY <1>3, ListSpaced, EnqueueSpaced, EnqueueFailsSpaced, RescheduleSpaced, CutShortSpaced,
           AdminSpaced, TickSpaced DEF SchedulerNext, RunnerNext

LEMMA InitSpaced == SchedulerInit => SpacedInv
<1> SUFFICES ASSUME SchedulerInit PROVE SpacedInv
  OBVIOUS
<1>1. SchedulerTypeOK
  BY InitTypes
<1>2. \A p \in Schedulers : proc[p].todo = {} /\ proc[p].current = {}
  BY DEF SchedulerInit, NewProc
<1>3. \A j \in Jobs : since[j] = Cycle
  BY DEF SchedulerInit
<1>4. SharedSpaced /\ OncePerBatch /\ TodoSpaced
  BY <1>2 DEF SharedSpaced, OncePerBatch, TodoSpaced, InBatch
<1>5. RowsSpaced
  BY <1>1, <1>3, SinceFacts DEF RowsSpaced
<1>6. NextWithinPeriod
  <2> SUFFICES ASSUME NEW j \in Jobs, NEW r \in row[j] PROVE r.wait <= r.cron.n
    BY DEF NextWithinPeriod
  <2>1. r.wait = Delay(r.cron)
    BY DEF SchedulerInit, Optional
  <2> QED BY <1>1, <2>1, RowFields, DelayBounds DEF SchedulerTypeOK
<1> QED BY <1>1, <1>4, <1>5, <1>6 DEF SpacedInv

\* Of any rows, processes and expressions: a row is never put off by more than
\* its period, unless it was rescheduled from an expression that had been
\* replaced, and a job with a fixed interval that one process at a time has
\* listed is not run again before the interval has passed.
THEOREM SchedulerKeepsDistance == SchedulerSpec => RunsAtTheirDistance
<1>1. SpacedInv => NextWithinPeriod
  BY DEF SpacedInv
<1>2. SpacedInv /\ [SchedulerNext]_schedulerVars
        => [\A p \in Schedulers : \A i \in proc[p].todo :
              ~i.cron.named /\ i.job \notin outdated /\ Enqueue(p, i)
                => since[i.job] >= i.cron.n]_schedulerVars
  BY DEF SpacedInv, TodoSpaced
<1> QED BY InitSpaced, StepSpaced, <1>1, <1>2, PTL DEF SchedulerSpec, RunsAtTheirDistance, SpacedRuns
=============================================================================
