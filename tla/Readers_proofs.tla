--------------------------- MODULE Readers_proofs ---------------------------
(***************************************************************************)
(* The parts of the API that read the graph, one after the other: for any  *)
(* graph, processes, consumers and retention, the log of versions is       *)
(* complete, whoever follows it has the graph, and both implement          *)
(* GraphHistory; for any tables, requests and clients, an answer fits its  *)
(* request and is recent; for any rates, callers and addresses, the limits *)
(* hold.  What the run checks of the composition follows at the end.       *)
(***************************************************************************)
EXTENDS ReadersMC, FiniteSetTheorems, SequenceTheorems, TLAPS

(* The versions of the graph and those who follow them.                    *)

RunType == [pc : PCs, old : Snapshots, id : Ids \cup {0}, todo : SUBSET Entries, good : BOOLEAN]

\* What TypeOK says of the producers of versions.
LogTypeOK ==
  /\ graph \in Graphs /\ published \in [Ids -> Graphs]
  /\ next \in 1 .. MaxVersion + 1 /\ versions \subseteq 1 .. next - 1
  /\ diffs \in [Ids -> SUBSET Entries]
  /\ run \in [Procs -> RunType]

\* A run has the version it created and no other run has, while it is here.
Recording == {"created", "tagged", "diffing", "cleanup"}
OwnIds ==
  /\ \A p \in Procs : /\ run[p].id # 0 <=> run[p].pc \in Recording
                      /\ run[p].id < next
  /\ \A p, q \in Procs : run[p].id = run[q].id /\ run[p].id # 0 => p = q

\* Diffs are those of versions that were created.
NoneAhead == \A v \in Ids : v >= next => diffs[v] = {}

Alone(p) == \A q \in Procs \ {p} : At(q, "idle")

\* The first snapshot of a run is the graph of the version before its own.
Follows(p, v) == run[p].old # {} /\ (v = 1 \/ run[p].old = {published[v - 1]})

\* A good run that has no version yet is alone, and follows unless the next
\* version is spoilt.
GoodRunsFollow ==
  \A p \in Procs : At(p, "changing") /\ run[p].good =>
    Alone(p) /\ run[p].old # {} /\ (next \in spoilt \/ Follows(p, next))

\* What the diffs of a version are to be.
Complete(v, D) == v = 1 \/ v \notin versions \/ D = Diff(published[v - 1], published[v])

\* The run of an unspoilt version is alone with the graph it published.
UnspoiltRuns ==
  \A p \in Procs : run[p].id # 0 /\ run[p].id \notin spoilt =>
    /\ Alone(p) /\ graph = published[run[p].id]
    /\ run[p].pc \in {"created", "tagged"} => Follows(p, run[p].id) /\ diffs[run[p].id] = {}
    /\ At(p, "diffing") => Complete(run[p].id, diffs[run[p].id] \cup run[p].todo)

\* Between runs the graph is that of the newest version, or spoils the next.
GraphIsPublished ==
  next = 1 \/ next \in spoilt \/ graph = published[next - 1] \/ \E p \in Procs : At(p, "changing")

\* A run that has come to its cleanup has stored all diffs.
DiffsComplete ==
  \A v \in versions \ spoilt :
    (\A p \in Procs : run[p].id = v => At(p, "cleanup")) => Complete(v, diffs[v])

LogIInv ==
  /\ LogTypeOK /\ NewestKept /\ OwnIds /\ NoneAhead
  /\ GoodRunsFollow /\ UnspoiltRuns /\ GraphIsPublished /\ DiffsComplete

LEMMA Numbers == MaxVersion \in Nat /\ Retention \in Nat \ {0} /\ 0 \in Values /\ Empty \in Graphs
BY GraphVersionsAssumption DEF Empty, Graphs

LEMMA NextType == ASSUME LogTypeOK PROVE next \in Nat \ {0}
BY Numbers DEF LogTypeOK

LEMMA NoRunType ==
  /\ NoRun \in RunType /\ NoRun.pc = "idle" /\ NoRun.id = 0 /\ NoRun.old = {}
BY DEF NoRun, RunType, PCs, Snapshots

LEMMA InitLogIInv == Init => LogIInv
<1> SUFFICES ASSUME Init PROVE LogIInv
  OBVIOUS
<1>1. LogTypeOK
  BY Numbers, NoRunType DEF Init, LogTypeOK, Ids
<1>2. \A p \in Procs : run[p] = NoRun
  BY DEF Init
<1>3. OwnIds /\ NoneAhead /\ NewestKept
  BY <1>2, NoRunType, Numbers DEF Init, OwnIds, NoneAhead, NewestKept, Recording, Ids
<1>4. GoodRunsFollow /\ UnspoiltRuns /\ GraphIsPublished /\ DiffsComplete
  BY <1>2, NoRunType DEF Init, GoodRunsFollow, UnspoiltRuns, GraphIsPublished, DiffsComplete, At
<1> QED BY <1>1, <1>3, <1>4 DEF LogIInv

\* Retention deletes none of the newest.
LEMMA NewestAreKept ==
  ASSUME LogTypeOK, NewestKept, NEW v \in Ids, v \in next - Retention .. next - 1
  PROVE  v \in Kept
<1> DEFINE Later == {w \in versions : w > v}
<1>1. v \in versions /\ v \in Nat /\ next \in Nat
  BY Numbers DEF NewestKept, LogTypeOK, Ids
<1>2. Later \subseteq v + 1 .. next - 1
  <2> SUFFICES ASSUME NEW w \in versions, w > v PROVE w \in v + 1 .. next - 1
    OBVIOUS
  <2>1. w \in 1 .. next - 1
    BY DEF LogTypeOK
  <2> QED BY <1>1, <2>1
<1>3. /\ IsFiniteSet(v + 1 .. next - 1)
      /\ Cardinality(v + 1 .. next - 1) = IF v + 1 > next - 1 THEN 0 ELSE next - 1 - (v + 1) + 1
  <2>1. v + 1 \in Int /\ next - 1 \in Int
    BY <1>1
  <2> QED BY <2>1, FS_Interval
<1>4. Cardinality(Later) \in Nat /\ Cardinality(Later) <= Cardinality(v + 1 .. next - 1)
  BY <1>2, <1>3, FS_Subset, FS_CardinalityType
<1>5. Cardinality(Later) < Retention
  BY <1>1, <1>3, <1>4, Numbers
<1> QED BY <1>1, <1>5 DEF Kept

LEMMA SpoiltKeeps ==
  ASSUME LogTypeOK
  PROVE  /\ SpoiltRuns \in [Procs -> RunType]
         /\ \A p \in Procs : /\ SpoiltRuns[p].pc = run[p].pc /\ SpoiltRuns[p].id = run[p].id
                             /\ SpoiltRuns[p].old = run[p].old
                             /\ SpoiltRuns[p].pc # "idle" => SpoiltRuns[p].good = FALSE
BY DEF LogTypeOK, RunType, SpoiltRuns, At

\* The types of what a run is doing, for the steps that replace it.
LEMMA RunTyped == ASSUME LogTypeOK, NEW p \in Procs PROVE run[p] \in RunType
BY DEF LogTypeOK

LEMMA BeginLogIInv == ASSUME LogIInv, NEW p \in Procs, Begin(p) PROVE LogIInv'
<1>1. PICK snap \in {{graph}, {}} :
        run' = [SpoiltRuns EXCEPT ![p] = [NoRun EXCEPT !.pc = "changing", !.old = snap,
                                                       !.good = AllIdle /\ snap # {}]]
  BY DEF Begin
<1>2. PICK good \in BOOLEAN :
        /\ good => AllIdle /\ snap # {}
        /\ run' = [SpoiltRuns EXCEPT ![p] = [NoRun EXCEPT !.pc = "changing", !.old = snap, !.good = good]]
  BY <1>1, Zenon
<1>3. /\ spoilt' = SpoiltIds /\ At(p, "idle")
      /\ UNCHANGED <<graph, versions, next, diffs, published>>
  BY DEF Begin, log
<1>4. /\ run' \in [Procs -> RunType]
      /\ run'[p].pc = "changing" /\ run'[p].id = 0 /\ run'[p].old = snap /\ run'[p].good = good
      /\ \A q \in Procs \ {p} : /\ run'[q].pc = run[q].pc /\ run'[q].id = run[q].id
                                /\ run'[q].pc # "idle" => run'[q].good = FALSE
  <2>1. snap \in Snapshots
    BY DEF LogIInv, LogTypeOK, Snapshots
  <2> DEFINE r == [NoRun EXCEPT !.pc = "changing", !.old = snap, !.good = good]
  <2>2. r \in RunType /\ r.pc = "changing" /\ r.id = 0 /\ r.old = snap /\ r.good = good
    BY <2>1, NoRunType DEF RunType, PCs
  <2> HIDE DEF r
  <2>3. run' = [SpoiltRuns EXCEPT ![p] = r]
    BY <1>2 DEF r
  <2> QED BY <2>2, <2>3, SpoiltKeeps DEF LogIInv
<1>5. run[p].id = 0
  BY <1>3 DEF LogIInv, OwnIds, At, Recording
<1>6. /\ \A q \in Procs : run'[q].id = run[q].id
      /\ \A q \in Procs : run[q].id # 0 => run[q].id \in spoilt'
      /\ spoilt \subseteq spoilt'
  BY <1>3, <1>4, <1>5 DEF SpoiltIds
<1>7. LogTypeOK' /\ NewestKept' /\ NoneAhead'
  BY <1>3, <1>4 DEF LogIInv, LogTypeOK, NewestKept, NoneAhead
<1>8. OwnIds'
  BY <1>3, <1>4, <1>6 DEF LogIInv, OwnIds, Recording
<1>9. GoodRunsFollow'
  <2>1. ASSUME good = TRUE
        PROVE  Alone(p)' /\ run'[p].old # {} /\ (next' \in spoilt' \/ Follows(p, next)')
    <3>1. snap = {graph} /\ (\A q \in Procs : run[q].pc = "idle")
      BY <1>2, <2>1 DEF AllIdle
    <3>2. next = 1 \/ next \in spoilt \/ graph = published[next - 1]
      BY <3>1 DEF LogIInv, GraphIsPublished, At
    <3> QED BY <1>3, <1>4, <1>6, <3>1, <3>2 DEF Alone, At, Follows
  <2> QED BY <1>4, <2>1 DEF GoodRunsFollow, At
<1>10. UnspoiltRuns' /\ GraphIsPublished'
  BY <1>4, <1>6 DEF UnspoiltRuns, GraphIsPublished, At
<1>11. DiffsComplete'
  <2> SUFFICES ASSUME NEW v \in versions, v \notin spoilt'
               PROVE  Complete(v, diffs[v])'
    BY <1>3 DEF DiffsComplete
  <2>1. v \notin spoilt /\ v # 0 /\ \A q \in Procs : run[q].id # v
    BY <1>6 DEF LogIInv, LogTypeOK
  <2> QED BY <1>3, <2>1 DEF LogIInv, DiffsComplete, Complete
<1> QED BY <1>7, <1>8, <1>9, <1>10, <1>11 DEF LogIInv

LEMMA PurgeLogIInv == ASSUME LogIInv, Purge PROVE LogIInv'
<1>1. /\ graph' \in Graphs /\ spoilt' = SpoiltIds \cup {next} /\ run' = SpoiltRuns
      /\ UNCHANGED <<versions, next, diffs, published>>
  BY Numbers DEF LogIInv, LogTypeOK, Purge, Graphs, log
<1>2. /\ run' \in [Procs -> RunType]
      /\ \A q \in Procs : /\ run'[q].pc = run[q].pc /\ run'[q].id = run[q].id
                          /\ run'[q].pc # "idle" => run'[q].good = FALSE
  BY <1>1, SpoiltKeeps DEF LogIInv
<1>3. /\ \A q \in Procs : run[q].id # 0 => run[q].id \in spoilt'
      /\ spoilt \subseteq spoilt' /\ next \in spoilt'
  BY <1>1 DEF SpoiltIds
<1>4. LogTypeOK' /\ NewestKept' /\ NoneAhead'
  BY <1>1, <1>2 DEF LogIInv, LogTypeOK, NewestKept, NoneAhead
<1>5. OwnIds' /\ GoodRunsFollow' /\ UnspoiltRuns' /\ GraphIsPublished'
  BY <1>1, <1>2, <1>3 DEF LogIInv, OwnIds, GoodRunsFollow, UnspoiltRuns, GraphIsPublished, At
<1>6. DiffsComplete'
  <2> SUFFICES ASSUME NEW v \in versions, v \notin spoilt'
               PROVE  Complete(v, diffs[v])'
    BY <1>1 DEF DiffsComplete
  <2>1. v \notin spoilt /\ v # 0 /\ \A q \in Procs : run[q].id # v
    BY <1>3 DEF LogIInv, LogTypeOK
  <2> QED BY <1>1, <2>1 DEF LogIInv, DiffsComplete, Complete
<1> QED BY <1>4, <1>5, <1>6 DEF LogIInv

LEMMA ChangeLogIInv == ASSUME LogIInv, NEW p \in Procs, Change(p) \/ ClearAll(p) PROVE LogIInv'
<1>1. /\ graph' \in Graphs /\ At(p, "changing")
      /\ UNCHANGED <<versions, next, diffs, published, run, spoilt>>
  BY Numbers DEF LogIInv, LogTypeOK, Change, ClearAll, Graphs, log
<1>2. \A q \in Procs : ~(run[q].id # 0 /\ run[q].id \notin spoilt)
  BY <1>1 DEF LogIInv, UnspoiltRuns, OwnIds, Recording, Alone, At
<1>3. LogTypeOK' /\ NewestKept' /\ NoneAhead' /\ OwnIds' /\ DiffsComplete'
  BY <1>1 DEF LogIInv, LogTypeOK, NewestKept, NoneAhead, OwnIds, DiffsComplete, Complete, At
<1>4. GoodRunsFollow' /\ UnspoiltRuns' /\ GraphIsPublished'
  BY <1>1, <1>2 DEF LogIInv, GoodRunsFollow, Alone, Follows, UnspoiltRuns, GraphIsPublished, At
<1> QED BY <1>3, <1>4 DEF LogIInv

\* Beside a run under way no other is good, nor its version unspoilt.
LEMMA OthersAreSpoilt ==
  ASSUME LogIInv, NEW p \in Procs, ~At(p, "idle"), NEW q \in Procs \ {p}
  PROVE  /\ ~(At(q, "changing") /\ run[q].good)
         /\ run[q].id = 0 \/ run[q].id \in spoilt
BY DEF LogIInv, GoodRunsFollow, UnspoiltRuns, Alone

LEMMA CreateVersionLogIInv == ASSUME LogIInv, NEW p \in Procs, CreateVersion(p) PROVE LogIInv'
<1>1. /\ At(p, "changing") /\ next \in Ids /\ next' = next + 1 /\ versions' = versions \cup {next}
      /\ published' = [published EXCEPT ![next] = graph]
      /\ UNCHANGED <<graph, diffs>>
      /\ spoilt' = IF run[p].good THEN spoilt ELSE spoilt \cup {next}
  BY Numbers DEF LogIInv, LogTypeOK, CreateVersion, Ids
<1>2. /\ run' \in [Procs -> RunType]
      /\ run'[p].pc = "created" /\ run'[p].id = next /\ run'[p].old = run[p].old
      /\ \A q \in Procs \ {p} : run'[q] = run[q]
  <2>1. run' = [run EXCEPT ![p].pc = "created", ![p].id = next]
    BY DEF CreateVersion
  <2>2. run \in [Procs -> RunType] /\ next \in Ids \cup {0} /\ "created" \in PCs
    BY <1>1 DEF LogIInv, LogTypeOK, PCs
  <2> HIDE DEF LogIInv, PCs
  <2> QED BY <2>1, <2>2 DEF RunType
<1>3. published'[next] = graph /\ \A v \in Ids \ {next} : published'[v] = published[v]
  BY <1>1 DEF LogIInv, LogTypeOK
<1>4. next \in Nat \ {0} /\ versions \subseteq Ids /\ \A v \in versions : v \in Nat /\ v < next
  BY <1>1, Numbers DEF LogIInv, LogTypeOK, Ids
<1>5. LogTypeOK'
  BY <1>1, <1>2, <1>4, Numbers DEF LogIInv, LogTypeOK, Ids
<1>6. NewestKept' /\ NoneAhead'
  BY <1>1, <1>4, Numbers DEF LogIInv, NewestKept, NoneAhead, Ids
<1>7. OwnIds'
  <2>1. \A q \in Procs : run[q].id \in Nat /\ run[q].id < next
    BY Numbers DEF LogIInv, OwnIds, LogTypeOK, RunType, Ids
  <2> QED BY <1>1, <1>2, <1>4, <2>1 DEF LogIInv, OwnIds, Recording
<1>8. \A q \in Procs \ {p} :
        ~(At(q, "changing") /\ run[q].good) /\ (run[q].id = 0 \/ run[q].id \in spoilt)
  BY <1>1, OthersAreSpoilt DEF At
<1>9. GoodRunsFollow' /\ GraphIsPublished'
  BY <1>1, <1>2, <1>3, <1>4, <1>8 DEF GoodRunsFollow, GraphIsPublished, At
<1>10. UnspoiltRuns'
  <2> SUFFICES ASSUME next \notin spoilt'
               PROVE  /\ Alone(p)' /\ run'[p].old # {} /\ diffs[next] = {}
                      /\ next = 1 \/ run'[p].old = {published'[next - 1]}
    BY <1>1, <1>2, <1>3, <1>8 DEF UnspoiltRuns, At, Follows
  <2>1. Alone(p) /\ Follows(p, next)
    BY <1>1 DEF LogIInv, GoodRunsFollow, At
  <2>2. diffs[next] = {}
    BY <1>1, <1>4 DEF LogIInv, NoneAhead
  <2>3. next = 1 \/ (next - 1 \in Ids /\ next - 1 # next)
    BY <1>1, <1>4, Numbers DEF Ids
  <2>4. run'[p].old # {} /\ (next = 1 \/ run'[p].old = {published'[next - 1]})
    BY <1>2, <1>3, <2>1, <2>3 DEF Follows
  <2> QED BY <1>2, <2>1, <2>2, <2>4 DEF Alone, At
<1>11. DiffsComplete'
  <2> SUFFICES ASSUME NEW v \in versions' \ spoilt',
                      \A q \in Procs : run'[q].id = v => At(q, "cleanup")'
               PROVE  Complete(v, diffs[v])'
    BY DEF DiffsComplete
  <2>1. v # next /\ v \in versions \ spoilt
    BY <1>1, <1>2 DEF At
  <2>2. \A q \in Procs : run[q].id = v => At(q, "cleanup")
    <3>1. run[p].id = 0 /\ v # 0
      BY <1>1, <1>4, <2>1, Numbers DEF LogIInv, OwnIds, Recording, At, Ids
    <3> QED BY <1>2, <3>1 DEF At
  <2>3. v = 1 \/ diffs[v] = Diff(published[v - 1], published[v])
    BY <2>1, <2>2 DEF LogIInv, DiffsComplete, Complete
  <2>4. v \in Ids /\ (v = 1 \/ (v - 1 \in Ids /\ v - 1 # next))
    BY <1>4, <2>1, Numbers DEF Ids
  <2> QED BY <1>1, <1>3, <2>1, <2>3, <2>4 DEF Complete
<1> QED BY <1>5, <1>6, <1>7, <1>9, <1>10, <1>11 DEF LogIInv

LEMMA TagStateLogIInv == ASSUME LogIInv, NEW p \in Procs, TagState(p) PROVE LogIInv'
<1>1. At(p, "created") /\ UNCHANGED <<graph, versions, next, diffs, published, spoilt>>
  BY DEF TagState
<1>2. /\ run' \in [Procs -> RunType]
      /\ run'[p].pc = IF run[p].old = {} THEN "cleanup" ELSE "tagged"
      /\ run'[p].id = run[p].id /\ run'[p].old = run[p].old
      /\ \A q \in Procs \ {p} : run'[q] = run[q]
  BY DEF LogIInv, LogTypeOK, TagState, RunType, PCs
<1>3. \A q \in Procs \ {p} :
        ~(At(q, "changing") /\ run[q].good) /\ (run[q].id = 0 \/ run[q].id \in spoilt)
  BY <1>1, OthersAreSpoilt DEF At
<1>4. run[p].id \notin spoilt => /\ run[p].old # {} /\ Alone(p) /\ graph = published[run[p].id]
                               /\ Follows(p, run[p].id) /\ diffs[run[p].id] = {}
  BY <1>1 DEF LogIInv, UnspoiltRuns, OwnIds, Recording, At, Follows
<1>5. LogTypeOK' /\ NewestKept' /\ NoneAhead'
  BY <1>1, <1>2 DEF LogIInv, LogTypeOK, NewestKept, NoneAhead
<1>6. OwnIds'
  BY <1>1, <1>2 DEF LogIInv, OwnIds, Recording, At
<1>7. GoodRunsFollow' /\ GraphIsPublished'
  BY <1>1, <1>2, <1>3 DEF LogIInv, GoodRunsFollow, GraphIsPublished, At
<1>8. UnspoiltRuns'
  BY <1>1, <1>2, <1>3, <1>4 DEF UnspoiltRuns, Alone, Follows, At
<1>9. DiffsComplete'
  BY <1>1, <1>2, <1>4 DEF LogIInv, DiffsComplete, Complete, At
<1> QED BY <1>5, <1>6, <1>7, <1>8, <1>9 DEF LogIInv

\* What OthersAreSpoilt leaves to show of a step that changes only the run p,
\* the diffs and the spoilt versions.
LEMMA OneRunLogIInv ==
  ASSUME LogIInv, NEW p \in Procs, ~At(p, "idle"), ~At(p, "changing"),
         UNCHANGED <<graph, versions, next, published>>, spoilt \subseteq spoilt',
         run' \in [Procs -> RunType], run'[p].id = run[p].id, run'[p].pc \in Recording,
         \A q \in Procs \ {p} : run'[q] = run[q],
         diffs' \in [Ids -> SUBSET Entries],
         \A v \in Ids : v # run[p].id => diffs'[v] = diffs[v],
         run[p].id \notin spoilt' =>
           /\ run'[p].pc \in {"diffing", "cleanup"}
           /\ Complete(run[p].id, diffs'[run[p].id] \cup IF run'[p].pc = "diffing" THEN run'[p].todo ELSE {})
  PROVE  LogIInv'
<1>1. run[p].pc \in Recording /\ run[p].id # 0 /\ run[p].id < next /\ run[p].id \in Ids
  BY RunTyped DEF LogIInv, LogTypeOK, RunType, PCs, OwnIds, Recording, At
<1>2. \A q \in Procs \ {p} :
        ~(At(q, "changing") /\ run[q].good) /\ (run[q].id = 0 \/ run[q].id \in spoilt)
  BY OthersAreSpoilt
<1>3. next \in Nat /\ versions \subseteq Ids
  BY Numbers DEF LogIInv, LogTypeOK, Ids
<1>4. LogTypeOK' /\ NewestKept'
  BY DEF LogIInv, LogTypeOK, NewestKept
<1>5. OwnIds'
  BY <1>1 DEF LogIInv, OwnIds
<1>6. NoneAhead'
  BY <1>1, <1>3, Numbers DEF LogIInv, NoneAhead, Ids
<1>7. GoodRunsFollow' /\ GraphIsPublished'
  BY <1>2 DEF LogIInv, GoodRunsFollow, GraphIsPublished, At, Recording
<1>8. UnspoiltRuns'
  <2> SUFFICES ASSUME run[p].id \notin spoilt'
               PROVE  /\ Alone(p)' /\ graph' = published'[run[p].id]
                      /\ At(p, "diffing")' => Complete(run[p].id, diffs'[run[p].id] \cup run'[p].todo)
    BY <1>2 DEF UnspoiltRuns, At, Complete
  <2>1. Alone(p) /\ graph = published[run[p].id]
    BY <1>1 DEF LogIInv, UnspoiltRuns
  <2> QED BY <2>1 DEF Alone, At
<1>9. DiffsComplete'
  <2> SUFFICES ASSUME NEW v \in versions, v \notin spoilt',
                      \A q \in Procs : run'[q].id = v => At(q, "cleanup")'
               PROVE  Complete(v, diffs'[v])
    BY DEF DiffsComplete, Complete
  <2>1. CASE v = run[p].id
    BY <2>1 DEF At
  <2>2. CASE v # run[p].id
    BY <1>3, <2>2 DEF LogIInv, DiffsComplete, At
  <2> QED BY <2>1, <2>2
<1> QED BY <1>4, <1>5, <1>6, <1>7, <1>8, <1>9 DEF LogIInv

LEMMA CaptureNewLogIInv == ASSUME LogIInv, NEW p \in Procs, CaptureNew(p) PROVE LogIInv'
<1>1. At(p, "tagged") /\ UNCHANGED <<graph, versions, next, diffs, published>>
  BY DEF CaptureNew, log
<1>2. PICK old \in run[p].old :
        \/ /\ run' = [run EXCEPT ![p].pc = "diffing", ![p].old = {}, ![p].todo = Diff(old, graph)]
           /\ UNCHANGED spoilt
        \/ /\ run' = [run EXCEPT ![p].pc = "cleanup", ![p].old = {}]
           /\ spoilt' = spoilt \cup {run[p].id}
  BY DEF CaptureNew
<1>3. Diff(old, graph) \in SUBSET Entries /\ {} \in Snapshots
  BY DEF Diff, Entries, Snapshots, LogIInv, LogTypeOK, Graphs
<1>4. run \in [Procs -> RunType] /\ {"diffing", "cleanup"} \subseteq PCs /\ diffs \in [Ids -> SUBSET Entries]
  BY DEF LogIInv, LogTypeOK, PCs
<1>5. run[p].id \notin spoilt =>
        /\ diffs[run[p].id] = {} /\ graph = published[run[p].id] /\ Follows(p, run[p].id)
  BY <1>1 DEF LogIInv, UnspoiltRuns, OwnIds, Recording, At
<1>6. CASE /\ run' = [run EXCEPT ![p].pc = "diffing", ![p].old = {}, ![p].todo = Diff(old, graph)]
           /\ UNCHANGED spoilt
  <2>1. /\ run' \in [Procs -> RunType] /\ run'[p].id = run[p].id /\ run'[p].pc = "diffing"
        /\ run'[p].todo = Diff(old, graph) /\ \A q \in Procs \ {p} : run'[q] = run[q]
    BY <1>3, <1>4, <1>6 DEF RunType
  <2>2. run[p].id \notin spoilt => Complete(run[p].id, diffs[run[p].id] \cup run'[p].todo)
    BY <1>2, <1>5, <2>1 DEF Complete, Follows
  <2> QED BY <1>1, <1>4, <1>6, <2>1, <2>2, OneRunLogIInv DEF At, Recording
<1>7. CASE /\ run' = [run EXCEPT ![p].pc = "cleanup", ![p].old = {}]
           /\ spoilt' = spoilt \cup {run[p].id}
  <2>1. /\ run' \in [Procs -> RunType] /\ run'[p].id = run[p].id /\ run'[p].pc = "cleanup"
        /\ \A q \in Procs \ {p} : run'[q] = run[q]
    BY <1>3, <1>4, <1>7 DEF RunType
  <2> QED BY <1>1, <1>4, <1>7, <2>1, OneRunLogIInv DEF At, Recording
<1> QED BY <1>2, <1>6, <1>7

LEMMA StoreDiffLogIInv == ASSUME LogIInv, NEW p \in Procs, StoreDiff(p) PROVE LogIInv'
<1>1. At(p, "diffing") /\ UNCHANGED <<graph, versions, next, published, spoilt>>
  BY DEF StoreDiff
<1>2. PICK x \in run[p].todo :
        /\ diffs' = [diffs EXCEPT ![run[p].id] = @ \cup {x}]
        /\ run' = [run EXCEPT ![p].todo = @ \ {x}]
  BY DEF StoreDiff
<1>3. /\ run \in [Procs -> RunType] /\ diffs \in [Ids -> SUBSET Entries]
      /\ run[p].todo \subseteq Entries /\ run[p].id \in Ids
  BY <1>1, RunTyped DEF LogIInv, LogTypeOK, RunType, OwnIds, Recording, At
<1>4. /\ run' \in [Procs -> RunType] /\ run'[p].id = run[p].id /\ run'[p].pc = "diffing"
      /\ run'[p].todo = run[p].todo \ {x} /\ \A q \in Procs \ {p} : run'[q] = run[q]
  BY <1>1, <1>2, <1>3 DEF RunType, At
<1>5. /\ diffs' \in [Ids -> SUBSET Entries] /\ diffs'[run[p].id] = diffs[run[p].id] \cup {x}
      /\ \A v \in Ids : v # run[p].id => diffs'[v] = diffs[v]
  BY <1>2, <1>3
<1>6. diffs'[run[p].id] \cup run'[p].todo = diffs[run[p].id] \cup run[p].todo
  BY <1>4, <1>5
<1>7. run[p].id \notin spoilt => Complete(run[p].id, diffs[run[p].id] \cup run[p].todo)
  <2>1. run[p].id # 0
    BY <1>1 DEF LogIInv, OwnIds, Recording, At
  <2> QED BY <1>1, <2>1 DEF LogIInv, UnspoiltRuns
<1>8. run[p].id \notin spoilt' => Complete(run[p].id, diffs'[run[p].id] \cup run'[p].todo)
  BY <1>1, <1>6, <1>7 DEF Complete
<1> QED BY <1>1, <1>4, <1>5, <1>8, OneRunLogIInv DEF At, Recording

LEMMA DiffsStoredLogIInv == ASSUME LogIInv, NEW p \in Procs, DiffsStored(p) PROVE LogIInv'
<1>1. At(p, "diffing") /\ UNCHANGED <<graph, versions, next, diffs, published>>
      /\ spoilt' = IF run[p].todo = {} THEN spoilt ELSE spoilt \cup {run[p].id}
  BY DEF DiffsStored, log
<1>2. /\ run' \in [Procs -> RunType] /\ run'[p].id = run[p].id /\ run'[p].pc = "cleanup"
      /\ \A q \in Procs \ {p} : run'[q] = run[q]
  <2>1. run' = [run EXCEPT ![p].pc = "cleanup", ![p].todo = {}]
    BY DEF DiffsStored
  <2>2. run \in [Procs -> RunType] /\ "cleanup" \in PCs
    BY DEF LogIInv, LogTypeOK, PCs
  <2> HIDE DEF LogIInv, PCs
  <2> QED BY <2>1, <2>2 DEF RunType
<1>3. diffs \in [Ids -> SUBSET Entries] /\ run[p].id # 0
  BY <1>1 DEF LogIInv, LogTypeOK, OwnIds, Recording, At
<1>4. run[p].id \notin spoilt' => run[p].todo = {} /\ Complete(run[p].id, diffs[run[p].id] \cup {})
  BY <1>1, <1>3 DEF LogIInv, UnspoiltRuns
<1> QED BY <1>1, <1>2, <1>3, <1>4, OneRunLogIInv DEF At, Recording

LEMMA CleanupLogIInv == ASSUME LogIInv, NEW p \in Procs, Cleanup(p) PROVE LogIInv'
<1>1. /\ At(p, "cleanup") /\ UNCHANGED <<graph, next, published, spoilt>>
      /\ run' = [run EXCEPT ![p] = NoRun]
      /\ \/ versions' = Kept /\ diffs' = [v \in Ids |-> IF v \in Kept THEN diffs[v] ELSE {}]
         \/ UNCHANGED <<versions, diffs>>
  BY DEF Cleanup
<1>2. /\ run' \in [Procs -> RunType] /\ run'[p].id = 0 /\ run'[p].pc = "idle"
      /\ \A q \in Procs \ {p} : run'[q] = run[q]
  BY <1>1, NoRunType DEF LogIInv, LogTypeOK
<1>3. \A q \in Procs \ {p} :
        ~(At(q, "changing") /\ run[q].good) /\ (run[q].id = 0 \/ run[q].id \in spoilt)
  BY <1>1, OthersAreSpoilt DEF At
<1>4. /\ versions' \subseteq versions /\ versions \subseteq Ids
      /\ \A v \in Ids : diffs'[v] \in {diffs[v], {}} /\ (v \in versions' => diffs'[v] = diffs[v])
      /\ diffs' \in [Ids -> SUBSET Entries]
  <2>1. versions \subseteq Ids /\ Kept \subseteq versions
    BY Numbers DEF LogIInv, LogTypeOK, Kept, Ids
  <2>2. diffs \in [Ids -> SUBSET Entries]
    BY DEF LogIInv, LogTypeOK
  <2>3. CASE versions' = Kept /\ diffs' = [v \in Ids |-> IF v \in Kept THEN diffs[v] ELSE {}]
    BY <2>1, <2>2, <2>3
  <2>4. CASE UNCHANGED <<versions, diffs>>
    BY <2>1, <2>2, <2>4
  <2> QED BY <1>1, <2>3, <2>4
<1>5. LogTypeOK' /\ NoneAhead'
  BY <1>1, <1>2, <1>4 DEF LogIInv, LogTypeOK, NoneAhead
<1>6. NewestKept'
  BY <1>1, NewestAreKept DEF LogIInv, NewestKept
<1>7. OwnIds'
  BY <1>1, <1>2, NextType DEF LogIInv, OwnIds, Recording
<1>8. GoodRunsFollow' /\ UnspoiltRuns' /\ GraphIsPublished'
  BY <1>1, <1>2, <1>3 DEF LogIInv, GoodRunsFollow, UnspoiltRuns, GraphIsPublished, At
<1>9. DiffsComplete'
  BY <1>1, <1>2, <1>4 DEF LogIInv, DiffsComplete, Complete, At
<1> QED BY <1>5, <1>6, <1>7, <1>8, <1>9 DEF LogIInv

\* A run that ends without its cleanup spoils its version, or the next.
LEMMA EndLogIInv == ASSUME LogIInv, NEW p \in Procs, FailRun(p) \/ Crash(p) PROVE LogIInv'
<1>1. /\ ~At(p, "idle") /\ UNCHANGED <<graph, versions, next, diffs, published>>
      /\ run' = [run EXCEPT ![p] = NoRun] /\ spoilt \subseteq spoilt'
      /\ IF run[p].id = 0 THEN next \in spoilt' ELSE run[p].id \in spoilt'
  BY DEF LogIInv, OwnIds, Recording, FailRun, Crash, log, At
<1>2. /\ run' \in [Procs -> RunType] /\ run'[p].id = 0 /\ run'[p].pc = "idle"
      /\ \A q \in Procs \ {p} : run'[q] = run[q]
  BY <1>1, NoRunType DEF LogIInv, LogTypeOK
<1>3. \A q \in Procs \ {p} :
        ~(At(q, "changing") /\ run[q].good) /\ (run[q].id = 0 \/ run[q].id \in spoilt)
  BY <1>1, OthersAreSpoilt
<1>4. LogTypeOK' /\ NewestKept' /\ NoneAhead'
  BY <1>1, <1>2 DEF LogIInv, LogTypeOK, NewestKept, NoneAhead
<1>5. OwnIds'
  BY <1>1, <1>2, NextType DEF LogIInv, OwnIds, Recording
<1>6. GoodRunsFollow' /\ UnspoiltRuns'
  BY <1>1, <1>2, <1>3 DEF GoodRunsFollow, UnspoiltRuns, At
<1>7. GraphIsPublished'
  BY <1>1, <1>2 DEF LogIInv, OwnIds, Recording, GraphIsPublished, At
<1>8. DiffsComplete'
  BY <1>1, <1>2 DEF LogIInv, DiffsComplete, Complete, At
<1> QED BY <1>4, <1>5, <1>6, <1>7, <1>8 DEF LogIInv

\* Consumers only read.
LEMMA ReadersLogIInv == ASSUME LogIInv, UNCHANGED <<graph, log, run, spoilt>> PROVE LogIInv'
<1>1. UNCHANGED <<graph, versions, next, diffs, published, run, spoilt>>
  BY DEF log
<1>2. LogTypeOK' /\ NewestKept' /\ NoneAhead' /\ OwnIds'
  BY <1>1 DEF LogIInv, LogTypeOK, NewestKept, NoneAhead, OwnIds
<1>3. GoodRunsFollow' /\ UnspoiltRuns' /\ GraphIsPublished' /\ DiffsComplete'
  BY <1>1 DEF LogIInv, GoodRunsFollow, Alone, Follows, UnspoiltRuns, GraphIsPublished, DiffsComplete,
              Complete, At
<1> QED BY <1>2, <1>3 DEF LogIInv

LEMMA StepLogIInv == ASSUME LogIInv, [Next]_vars PROVE LogIInv'
<1>1. CASE UNCHANGED vars
  BY <1>1, ReadersLogIInv DEF vars, log
<1>2. CASE Purge
  BY <1>2, PurgeLogIInv
<1>3. ASSUME NEW p \in Procs, RunNext(p) PROVE LogIInv'
  BY <1>3, BeginLogIInv, ChangeLogIInv, CreateVersionLogIInv, TagStateLogIInv, CaptureNewLogIInv, StoreDiffLogIInv,
     DiffsStoredLogIInv, CleanupLogIInv, EndLogIInv DEF RunNext
<1>4. ASSUME NEW c \in Clients, ClientNext(c) PROVE LogIInv'
  <2>1. UNCHANGED <<graph, log, run, spoilt>>
    BY <1>4 DEF ClientNext, Subscribe, ReadCurrent, CheckSince, FetchDiffs
  <2> QED BY <2>1, ReadersLogIInv
<1> QED BY <1>1, <1>2, <1>3, <1>4 DEF Next

\* Applying the whole difference of two graphs to the one gives the other.
LEMMA DiffIsApplied ==
  ASSUME NEW v \in Ids, NEW old \in Graphs, NEW new \in Graphs, diffs[v] = Diff(old, new),
         NEW e \in Entities
  PROVE  Patched(old[e], {v}, e) = new[e]
<1> DEFINE touching == {w \in {v} : \E x \in Values : <<e, x>> \in diffs[w]}
<1>1. new[e] \in Values
  BY DEF Graphs
<1>2. \A x : <<e, x>> \in diffs[v] <=> x = new[e] /\ new[e] # old[e]
  BY DEF Diff
<1>3. CASE new[e] = old[e]
  <2>1. touching = {}
    BY <1>2, <1>3
  <2> QED BY <1>3, <2>1 DEF Patched
<1>4. CASE new[e] # old[e]
  <2>1. touching = {v}
    BY <1>1, <1>2, <1>4
  <2>2. v \in Nat
    BY Numbers DEF Ids
  <2>3. Max({v}) = v
    BY <2>2 DEF Max
  <2>4. (CHOOSE x \in Values : <<e, x>> \in diffs[v]) = new[e]
    BY <1>1, <1>2, <1>4
  <2>5. Patched(old[e], {v}, e) = CHOOSE x \in Values : <<e, x>> \in diffs[Max(touching)]
    BY <2>1 DEF Patched
  <2> QED BY <2>1, <2>3, <2>4, <2>5
<1> QED BY <1>3, <1>4

LEMMA LogIInvIsComplete == ASSUME LogIInv PROVE RetainedLogComplete
<1>1. published \in [Ids -> Graphs] /\ versions \subseteq Ids
  BY Numbers DEF LogIInv, LogTypeOK, Ids
<1> SUFFICES ASSUME NEW v \in versions \ spoilt, v - 1 \in versions, \A p \in Procs : run[p].id # v
             PROVE  published[v] = [e \in Entities |-> Patched(published[v - 1][e], {v}, e)]
  BY DEF LogIInv, RetainedLogComplete, DiffLogComplete
<1>2. v \in Ids /\ v - 1 \in Ids /\ v # 1
  BY <1>1, Numbers DEF Ids
<1>3. diffs[v] = Diff(published[v - 1], published[v])
  BY <1>2 DEF LogIInv, DiffsComplete, Complete
<1>4. published[v] \in Graphs /\ published[v - 1] \in Graphs
  BY <1>1, <1>2
<1>5. \A e \in Entities : Patched(published[v - 1][e], {v}, e) = published[v][e]
  BY <1>2, <1>3, <1>4, DiffIsApplied
<1> QED BY <1>4, <1>5 DEF Graphs

\* The newest versions, as many as GRAPH_VERSION_RETENTION, are never pruned,
\* and the diffs stored by a run that nothing disturbed turn the graph of the
\* version before into its own (RetainedLogComplete), whatever other
\* processes, failing statements, crashes and purges do before and after it.
THEOREM RetainedLogIsComplete == Spec => []RetainedLogComplete
<1>1. Init => LogIInv
  BY InitLogIInv
<1>2. LogIInv /\ [Next]_vars => LogIInv'
  BY StepLogIInv
<1>3. LogIInv => RetainedLogComplete
  BY LogIInvIsComplete
<1> QED BY <1>1, <1>2, <1>3, PTL DEF Spec

ClientType ==
  [pc : {"idle", "check", "fetch"}, ver : Ids \cup {0}, cur : Ids \cup {0}, view : Graphs,
   sure : BOOLEAN]

\* What TypeOK says of the rest.
ReaderTypes ==
  /\ tagged \in versions \cup {0} /\ faults \in 0 .. MaxFaults
  /\ spoilt \subseteq 1 .. MaxVersion + 1
  /\ client \in [Clients -> ClientType]

\* A request asks for what comes after its version, and a consumer that could
\* be sure has the graph of some version from there on.
ClientsFollow ==
  \A c \in Clients :
    /\ client[c].ver < next /\ client[c].cur < next
    /\ client[c].pc # "idle" => client[c].ver # 0 /\ client[c].ver < client[c].cur
    /\ client[c].ver # 0 /\ client[c].sure =>
         \E v \in client[c].ver .. next - 1 : client[c].view = published[v]

VersionsIInv == LogIInv /\ ReaderTypes /\ ClientsFollow

\* A set of numbers that is not empty has a least one.
LEMMA LeastExists ==
  ASSUME NEW T \in SUBSET Nat, T # {}
  PROVE  \E x \in T : \A y \in T : x <= y
<1> DEFINE R == OpToRel(<, Nat)
<1>1. IsWellFoundedOn(R, Nat)
  BY NatLessThanWellFounded
<1> HIDE DEF R
<1>2. PICK x \in T : \A y \in T : ~ (<<y, x>> \in R)
  BY <1>1, WFMin
<1>3. \A y \in T : ~ (y < x)
  BY <1>2 DEF R, OpToRel
<1>4. QED
  BY <1>2, <1>3

\* And a greatest one, if it is bounded.
LEMMA GreatestExists ==
  ASSUME NEW n \in Nat, NEW S \in SUBSET (0 .. n), S # {}
  PROVE  Max(S) \in S /\ \A y \in S : y <= Max(S)
<1> DEFINE T == {n - s : s \in S}
<1>0. \A s \in S : s \in Nat /\ s <= n
  OBVIOUS
<1>1. T \in SUBSET Nat /\ T # {}
  <2>1. \A s \in S : n - s \in Nat
    BY <1>0
  <2>2. QED
    BY <2>1
<1>2. PICK t \in T : \A u \in T : t <= u
  BY <1>1, LeastExists
<1>3. PICK x \in S : t = n - x
  BY <1>2
<1>4. \A y \in S : x >= y
  BY <1>0, <1>2, <1>3
<1>5. \E m \in S : \A y \in S : m >= y
  BY <1>3, <1>4
<1>6. Max(S) \in S /\ \A y \in S : Max(S) >= y
  BY <1>5 DEF Max
<1>7. QED
  BY <1>6

\* What no step from a to n changes is the same from a on as it is in n.
LEMMA Unchanged ==
  ASSUME NEW a \in Nat, NEW n \in Nat, NEW f,
         \A w \in a + 1 .. n : f[w] = f[w - 1]
  PROVE  \A k \in a .. n : f[k] = f[n]
<1> DEFINE T == {j \in Nat : n - j >= a /\ f[n - j] # f[n]}
<1>1. CASE T = {}
  <2> SUFFICES ASSUME NEW k \in a .. n PROVE f[k] = f[n]
    OBVIOUS
  <2>1. n - k \in Nat /\ n - (n - k) = k /\ k >= a
    OBVIOUS
  <2>2. n - k \notin T
    BY <1>1
  <2>3. QED
    BY <2>1, <2>2
<1>2. CASE T # {}
  <2>1. PICK x \in T : \A y \in T : x <= y
    BY <1>2, LeastExists
  <2>2. x \in Nat /\ n - x >= a /\ f[n - x] # f[n]
    BY <2>1
  <2>3. x # 0
    <3>1. n - 0 = n
      OBVIOUS
    <3>2. QED
      BY <2>2, <3>1
  <2>4. x - 1 \in Nat /\ n - (x - 1) \in a + 1 .. n /\ n - (x - 1) - 1 = n - x /\ ~(x <= x - 1)
    BY <2>2, <2>3
  <2>5. f[n - (x - 1)] = f[n]
    BY <2>1, <2>4
  <2>6. f[n - (x - 1)] = f[n - x]
    BY <2>4
  <2>7. QED
    BY <2>2, <2>5, <2>6
<1>3. QED
  BY <1>1, <1>2

\* The diffs of all versions after one turn the graph of any of them into that
\* of the newest.
LEMMA DiffsAreApplied ==
  ASSUME NEW a \in Ids, NEW n \in Ids, published \in [Ids -> Graphs],
         \A w \in a + 1 .. n : diffs[w] = Diff(published[w - 1], published[w]),
         NEW m \in a .. n, NEW e \in Entities
  PROVE  Patched(published[m][e], a + 1 .. n, e) = published[n][e]
<1> DEFINE touching == {w \in a + 1 .. n : \E x \in Values : <<e, x>> \in diffs[w]}
           f == [w \in Ids |-> published[w][e]]
<1>1. a \in Nat /\ n \in Nat /\ a .. n \subseteq Ids /\ a >= 1
  BY Numbers DEF Ids
<1>2. \A w \in Ids : f[w] = published[w][e] /\ published[w][e] \in Values
  BY DEF Graphs
<1>3. ASSUME NEW w \in a + 1 .. n
      PROVE  /\ w \in Ids /\ w - 1 \in Ids
             /\ \A x : <<e, x>> \in diffs[w] <=> x = f[w] /\ f[w] # f[w - 1]
  <2>1. w \in Ids /\ w - 1 \in Ids
    BY <1>1, Numbers DEF Ids
  <2>2. diffs[w] = Diff(published[w - 1], published[w])
    OBVIOUS
  <2>3. \A x : <<e, x>> \in diffs[w] <=> x = published[w][e] /\ published[w][e] # published[w - 1][e]
    BY <2>2 DEF Diff
  <2>4. QED
    BY <1>2, <2>1, <2>3
<1> HIDE DEF f
<1>4. \A w \in a + 1 .. n : w \in touching <=> f[w] # f[w - 1]
  BY <1>2, <1>3
<1>5. CASE touching = {}
  <2>1. \A w \in a + 1 .. n : f[w] = f[w - 1]
    BY <1>4, <1>5
  <2>2. f[m] = f[n]
    BY <1>1, <2>1, Unchanged
  <2>3. Patched(published[m][e], a + 1 .. n, e) = published[m][e]
    BY <1>5 DEF Patched
  <2>4. QED
    BY <1>1, <1>2, <2>2, <2>3
<1>6. CASE touching # {}
  <2> DEFINE last == Max(touching)
  <2>1. last \in touching /\ \A w \in touching : w <= last
    <3>1. touching \in SUBSET (0 .. n)
      BY <1>1
    <3> HIDE DEF touching
    <3>2. QED
      BY <1>1, <1>6, <3>1, GreatestExists
  <2>2. Patched(published[m][e], a + 1 .. n, e) = CHOOSE x \in Values : <<e, x>> \in diffs[last]
    BY <1>6 DEF Patched
  <2> HIDE DEF last
  <2>3. last \in a + 1 .. n /\ last \in Nat /\ last \in Ids
    BY <1>1, <2>1
  <2>4. \A w \in last + 1 .. n : f[w] = f[w - 1]
    <3> SUFFICES ASSUME NEW w \in last + 1 .. n PROVE f[w] = f[w - 1]
      OBVIOUS
    <3>1. w \in a + 1 .. n /\ ~(w <= last)
      BY <1>1, <2>3
    <3>2. QED
      BY <1>4, <2>1, <3>1
  <2>5. f[last] = f[n]
    <3>1. last \in last .. n
      BY <1>1, <2>3
    <3>2. QED
      BY <1>1, <2>3, <2>4, <3>1, Unchanged
  <2>6. \A x : <<e, x>> \in diffs[last] <=> x = f[last]
    BY <1>3, <1>4, <2>1, <2>3
  <2>7. f[last] \in Values
    BY <1>2, <2>3
  <2>8. (CHOOSE x \in Values : <<e, x>> \in diffs[last]) = f[last]
    BY <2>6, <2>7
  <2>9. n \in Ids
    OBVIOUS
  <2>10. QED
    BY <1>2, <2>2, <2>5, <2>8, <2>9
<1>7. QED
  BY <1>5, <1>6

\* The newest version is there: the id before the one the sequence gives next.
LEMMA NewestIsNext ==
  ASSUME LogIInv, next # 1
  PROVE  next - 1 \in Ids /\ next - 1 \in versions /\ Newest = next - 1
<1>1. next - 1 \in Ids /\ versions \subseteq 1 .. next - 1 /\ next \in Nat
  BY Numbers DEF LogIInv, LogTypeOK, Ids
<1>2. next - 1 \in versions
  <2>1. next - 1 \in next - Retention .. next - 1
    BY <1>1, Numbers
  <2>2. QED
    BY <1>1, <2>1 DEF LogIInv, NewestKept
<1>3. Max(versions) \in versions /\ \A y \in versions : y <= Max(versions)
  <2>1. next - 1 \in Nat /\ versions \in SUBSET (0 .. next - 1) /\ versions # {}
    BY <1>1, <1>2, Numbers
  <2>2. QED
    BY <2>1, GreatestExists
<1>4. Max(versions) = next - 1
  <2>1. Max(versions) \in 1 .. next - 1 /\ next - 1 <= Max(versions)
    BY <1>1, <1>2, <1>3
  <2>2. QED
    BY <1>1, <2>1
<1>5. QED
  BY <1>1, <1>2, <1>4 DEF Newest

LEMMA ClientTyped ==
  ASSUME ReaderTypes, NEW c \in Clients
  PROVE  /\ client[c] \in ClientType
         /\ client[c].ver \in Nat /\ client[c].cur \in Nat
BY Numbers DEF ReaderTypes, ClientType, Ids

LEMMA StillThere ==
  ASSUME NEW a \in Nat, a # 0, NEW n \in Nat, NEW m \in Nat, m >= n, NEW v \in a .. n - 1
  PROVE  v \in 1 .. n - 1 /\ v \in a .. m - 1
OBVIOUS

\* What a step that leaves the consumers alone has to show.
LEMMA ClientsKeep ==
  ASSUME VersionsIInv, [Next]_vars, UNCHANGED client PROVE ClientsFollow'
<1>1. /\ next \in Nat /\ next' \in Nat /\ next' >= next
      /\ \A v \in 1 .. next - 1 : published'[v] = published[v]
  <2>1. CASE \E p \in Procs : CreateVersion(p)
    <3>1. next \in Ids /\ next' = next + 1 /\ published' = [published EXCEPT ![next] = graph]
      BY <2>1, Numbers DEF VersionsIInv, LogIInv, LogTypeOK, CreateVersion, Ids
    <3>2. QED
      BY <3>1, Numbers DEF VersionsIInv, LogIInv, LogTypeOK, Ids
  <2>2. CASE UNCHANGED <<next, published>>
    BY <2>2, Numbers DEF VersionsIInv, LogIInv, LogTypeOK
  <2>3. QED
    BY <2>1, <2>2 DEF Next, RunNext, ClientNext, Begin, Change, ClearAll, TagState, CaptureNew,
      StoreDiff, DiffsStored, Cleanup, FailRun, Crash, Purge, Subscribe, ReadCurrent, CheckSince,
      FetchDiffs, log, vars
<1> SUFFICES ASSUME NEW c \in Clients
             PROVE  /\ client[c].ver < next' /\ client[c].cur < next'
                    /\ client[c].pc # "idle" => client[c].ver # 0 /\ client[c].ver < client[c].cur
                    /\ client[c].ver # 0 /\ client[c].sure =>
                         \E v \in client[c].ver .. next' - 1 : client[c].view = published'[v]
  BY DEF ClientsFollow
<1>2. client[c].ver \in Nat /\ client[c].cur \in Nat
  BY ClientTyped DEF VersionsIInv
<1>3. ASSUME client[c].ver # 0, client[c].sure
      PROVE  \E v \in client[c].ver .. next' - 1 : client[c].view = published'[v]
  <2>1. PICK v \in client[c].ver .. next - 1 : client[c].view = published[v]
    BY <1>3, Zenon DEF VersionsIInv, ClientsFollow
  <2>2. v \in 1 .. next - 1 /\ v \in client[c].ver .. next' - 1
    <3>1. client[c].ver \in Nat /\ client[c].ver # 0
      BY <1>2, <1>3
    <3>2. next \in Nat /\ next' \in Nat /\ next' >= next
      BY <1>1
    <3>3. QED
      BY <3>1, <3>2, StillThere
  <2>3. QED
    BY <1>1, <2>1, <2>2
<1>4. client[c].ver < next /\ client[c].cur < next
      /\ (client[c].pc # "idle" => client[c].ver # 0 /\ client[c].ver < client[c].cur)
  BY DEF VersionsIInv, ClientsFollow
<1>5. client[c].ver < next' /\ client[c].cur < next'
  BY <1>1, <1>2, <1>4
<1>6. QED
  BY <1>3, <1>4, <1>5

\* What a step has to show that replaces one consumer.
LEMMA OneClient ==
  ASSUME VersionsIInv, NEW c \in Clients, NEW r \in ClientType,
         UNCHANGED <<graph, log, run, spoilt, faults>>, client' = [client EXCEPT ![c] = r],
         r.ver < next, r.cur < next,
         r.pc # "idle" => r.ver # 0 /\ r.ver < r.cur,
         r.ver # 0 /\ r.sure => \E v \in r.ver .. next - 1 : r.view = published[v]
  PROVE  ReaderTypes' /\ ClientsFollow'
<1>1. /\ client' \in [Clients -> ClientType]
      /\ client'[c] = r /\ \A d \in Clients \ {c} : client'[d] = client[d]
  BY DEF VersionsIInv, ReaderTypes
<1>2. UNCHANGED <<versions, next, tagged, published, spoilt, faults>>
  BY DEF log
<1>3. ReaderTypes'
  BY <1>1, <1>2 DEF VersionsIInv, ReaderTypes
<1>4. ClientsFollow'
  <2> SUFFICES ASSUME NEW d \in Clients
               PROVE  /\ client'[d].ver < next /\ client'[d].cur < next
                      /\ client'[d].pc # "idle" =>
                           client'[d].ver # 0 /\ client'[d].ver < client'[d].cur
                      /\ client'[d].ver # 0 /\ client'[d].sure =>
                           \E v \in client'[d].ver .. next - 1 : client'[d].view = published[v]
    BY <1>2 DEF ClientsFollow
  <2>1. CASE d = c
    BY <1>1, <2>1, Zenon
  <2>2. CASE d # c
    BY <1>1, <2>2, Zenon DEF VersionsIInv, ClientsFollow
  <2>3. QED
    BY <2>1, <2>2
<1>5. QED
  BY <1>3, <1>4

LEMMA SubscribeStep ==
  ASSUME VersionsIInv, NEW c \in Clients, Subscribe(c) PROVE ReaderTypes' /\ ClientsFollow'
<1> DEFINE r == [pc |-> "idle", ver |-> Newest, cur |-> 0, view |-> published[Newest], sure |-> TRUE]
<1>1. /\ Newest # 0 /\ client' = [client EXCEPT ![c] = r]
      /\ UNCHANGED <<graph, log, run, spoilt, faults>>
  BY DEF Subscribe
<1>2. next # 1
  BY <1>1 DEF VersionsIInv, LogIInv, LogTypeOK, Newest
<1>3. Newest = next - 1 /\ next - 1 \in Ids
  BY <1>2, NewestIsNext DEF VersionsIInv
<1>4. published[Newest] \in Graphs
  BY <1>3 DEF VersionsIInv, LogIInv, LogTypeOK
<1>5. next \in Nat /\ next > 1
  BY <1>3, Numbers DEF VersionsIInv, LogIInv, LogTypeOK, Ids
<1>6. r \in ClientType /\ r.ver = next - 1 /\ r.cur = 0 /\ r.pc = "idle" /\ r.view = published[next - 1]
  BY <1>3, <1>4 DEF ClientType
<1> HIDE DEF r
<1>7. /\ r.ver < next /\ r.cur < next
      /\ \E v \in r.ver .. next - 1 : r.view = published[v]
  BY <1>5, <1>6
<1>8. QED
  BY <1>1, <1>6, <1>7, OneClient

LEMMA ReadCurrentStep ==
  ASSUME VersionsIInv, NEW c \in Clients, ReadCurrent(c) PROVE ReaderTypes' /\ ClientsFollow'
<1> DEFINE r == [client[c] EXCEPT !.pc = "check", !.cur = Newest]
<1>1. /\ client[c].pc = "idle" /\ client[c].ver # 0 /\ client[c].ver < Newest
      /\ client' = [client EXCEPT ![c].pc = "check", ![c].cur = Newest]
      /\ UNCHANGED <<graph, log, run, spoilt, faults>>
  BY DEF ReadCurrent
<1>2. client[c] \in ClientType /\ client[c].ver \in Nat
  BY ClientTyped DEF VersionsIInv
<1>3. next # 1
  BY <1>1, <1>2 DEF VersionsIInv, LogIInv, LogTypeOK, Newest
<1>4. Newest = next - 1 /\ next - 1 \in Ids
  BY <1>3, NewestIsNext DEF VersionsIInv
<1>5. next \in Nat
  BY Numbers DEF VersionsIInv, LogIInv, LogTypeOK
<1>6. client' = [client EXCEPT ![c] = r]
  BY <1>1
<1>7. /\ r \in ClientType /\ r.ver = client[c].ver /\ r.cur = next - 1 /\ r.pc = "check"
      /\ r.view = client[c].view /\ r.sure = client[c].sure
  <2>1. PICK s \in ClientType : s = client[c]
    BY <1>2
  <2>2. [s EXCEPT !.pc = "check", !.cur = next - 1] \in ClientType
    BY <1>4 DEF ClientType
  <2>3. QED
    BY <1>4, <2>1, <2>2 DEF ClientType
<1> HIDE DEF r
<1>8. r.ver < next /\ r.cur < next /\ r.ver # 0 /\ r.ver < r.cur
  BY <1>1, <1>2, <1>4, <1>5, <1>7
<1>9. r.ver # 0 /\ r.sure => \E v \in r.ver .. next - 1 : r.view = published[v]
  BY <1>7, Zenon DEF VersionsIInv, ClientsFollow
<1>10. QED
  BY <1>1, <1>6, <1>7, <1>8, <1>9, OneClient

LEMMA CheckSinceStep ==
  ASSUME VersionsIInv, NEW c \in Clients, CheckSince(c) PROVE ReaderTypes' /\ ClientsFollow'
<1> DEFINE r == [client[c] EXCEPT !.pc = "fetch"]
<1>1. client[c].pc = "check" /\ UNCHANGED <<graph, log, run, spoilt, faults>>
  BY DEF CheckSince
<1>2. client[c] \in ClientType
  BY ClientTyped DEF VersionsIInv
<1>3. CASE client[c].ver \in versions
  <2>1. client' = [client EXCEPT ![c] = r]
    BY <1>3 DEF CheckSince
  <2>2. /\ r \in ClientType /\ r.ver = client[c].ver /\ r.cur = client[c].cur
        /\ r.view = client[c].view /\ r.sure = client[c].sure
    <3>1. PICK s \in ClientType : s = client[c]
      BY <1>2
    <3>2. [s EXCEPT !.pc = "fetch"] \in ClientType
      BY DEF ClientType
    <3>3. QED
      BY <3>1, <3>2 DEF ClientType
  <2> HIDE DEF r
  <2>3. /\ r.ver < next /\ r.cur < next /\ r.ver # 0 /\ r.ver < r.cur
        /\ r.ver # 0 /\ r.sure => \E v \in r.ver .. next - 1 : r.view = published[v]
    BY <1>1, <2>2, Zenon DEF VersionsIInv, ClientsFollow
  <2>4. QED
    BY <1>1, <2>1, <2>2, <2>3, OneClient
<1>4. CASE client[c].ver \notin versions
  <2>1. client' = [client EXCEPT ![c] = NoClient]
    BY <1>4 DEF CheckSince
  <2>2. /\ NoClient \in ClientType /\ NoClient.ver = 0 /\ NoClient.cur = 0 /\ NoClient.pc = "idle"
    BY Numbers DEF ClientType, NoClient
  <2>3. 0 < next
    BY Numbers DEF VersionsIInv, LogIInv, LogTypeOK
  <2>4. QED
    BY <1>1, <2>1, <2>2, <2>3, OneClient
<1>5. QED
  BY <1>3, <1>4

\* A response whose versions are all there, stored and unspoilt brings what is
\* newest: it turns the graph of any version from the asked one on into that.
LEMMA FullResponse ==
  ASSUME VersionsIInv, NEW c \in Clients, client[c].pc = "fetch", client[c].sure,
         client[c].ver + 1 .. Newest \subseteq versions \ (spoilt \cup Storing)
  PROVE  [e \in Entities |-> Patched(client[c].view[e], Returned(c), e)] = published[Newest]
<1> DEFINE a == client[c].ver
           view == [e \in Entities |-> Patched(client[c].view[e], Returned(c), e)]
           N == next - 1
<1>1. client[c] \in ClientType /\ a \in Nat /\ client[c].cur \in Nat
  BY ClientTyped DEF VersionsIInv
<1>2. a # 0 /\ a < client[c].cur /\ client[c].cur < next
  BY DEF VersionsIInv, ClientsFollow
<1>3. next \in Nat /\ N \in Ids /\ a \in Ids /\ Newest = N /\ N \in versions
  <2>1. next \in Nat /\ next # 1 /\ a \in Ids
    BY <1>1, <1>2, Numbers DEF VersionsIInv, LogIInv, LogTypeOK, ClientType
  <2>2. QED
    BY <2>1, NewestIsNext DEF VersionsIInv
<1>4. versions \subseteq 1 .. N /\ published \in [Ids -> Graphs] /\ diffs \in [Ids -> SUBSET Entries]
  BY DEF VersionsIInv, LogIInv, LogTypeOK
<1>5. client[c].sure /\ a + 1 .. N \subseteq versions \ (spoilt \cup Storing)
  BY <1>3
<1>6. PICK m \in a .. N : client[c].view = published[m]
  BY <1>2, <1>5, Zenon DEF VersionsIInv, ClientsFollow
<1>7. Returned(c) = a + 1 .. N
  <2>1. a + 1 .. N \subseteq versions
    BY <1>3, <1>5
  <2> HIDE DEF a, N
  <2>2. Returned(c) = {v \in versions : v > a}
    BY DEF Returned, a
  <2>3. N \in Nat
    BY <1>3, Numbers DEF Ids
  <2>4. \A v \in versions : v \in Nat /\ v <= N
    BY <1>4, <2>3
  <2>5. QED
    BY <1>1, <2>1, <2>2, <2>3, <2>4
<1>8. ASSUME NEW w \in a + 1 .. N PROVE diffs[w] = Diff(published[w - 1], published[w])
  <2>1. w \in versions /\ w \notin spoilt /\ w \notin Storing /\ w # 1
    BY <1>1, <1>2, <1>3, <1>5
  <2>2. \A p \in Procs : run[p].id = w => At(p, "cleanup")
    <3> SUFFICES ASSUME NEW p \in Procs, run[p].id = w PROVE At(p, "cleanup")
      OBVIOUS
    <3>1. run[p].pc \notin {"created", "tagged", "diffing"}
      BY <2>1 DEF Storing
    <3>2. run[p].id # 0
      BY <1>1
    <3>3. QED
      BY <3>1, <3>2 DEF VersionsIInv, LogIInv, OwnIds, Recording, At
  <2>3. QED
    BY <2>1, <2>2 DEF VersionsIInv, LogIInv, DiffsComplete, Complete
<1>9. \A e \in Entities : Patched(published[m][e], a + 1 .. N, e) = published[N][e]
  BY <1>3, <1>4, <1>8, DiffsAreApplied
<1>10. published[N] \in Graphs
  BY <1>3, <1>4
<1>11. view = [e \in Entities |-> published[N][e]]
  BY <1>6, <1>7, <1>9
<1>12. QED
  BY <1>3, <1>10, <1>11 DEF Graphs

LEMMA FetchDiffsStep ==
  ASSUME VersionsIInv, NEW c \in Clients, FetchDiffs(c) PROVE ReaderTypes' /\ ClientsFollow'
<1> DEFINE a == client[c].ver
           good == client[c].sure /\ a + 1 .. Newest \subseteq versions \ (spoilt \cup Storing)
           view == [e \in Entities |-> Patched(client[c].view[e], Returned(c), e)]
           N == next - 1
<1>1. /\ client[c].pc = "fetch" /\ UNCHANGED <<graph, log, run, spoilt, faults>>
      /\ client' = [client EXCEPT ![c] =
           [pc |-> "idle", ver |-> client[c].cur, cur |-> 0, sure |-> good, view |-> view]]
  BY DEF FetchDiffs
<1>2. client[c] \in ClientType /\ a \in Nat /\ client[c].cur \in Nat
  BY ClientTyped DEF VersionsIInv
<1>3. a # 0 /\ a < client[c].cur /\ client[c].cur < next
  BY <1>1 DEF VersionsIInv, ClientsFollow
<1>4. next \in Nat /\ N \in Ids /\ a \in Ids /\ Newest = N /\ N \in versions
  <2>1. next \in Nat /\ next # 1 /\ a \in Ids
    BY <1>2, <1>3, Numbers DEF VersionsIInv, LogIInv, LogTypeOK, ClientType
  <2>2. QED
    BY <2>1, NewestIsNext DEF VersionsIInv
<1>5. versions \subseteq 1 .. N /\ published \in [Ids -> Graphs] /\ diffs \in [Ids -> SUBSET Entries]
  BY DEF VersionsIInv, LogIInv, LogTypeOK
<1>6. view \in Graphs
  <2>1. Returned(c) \in SUBSET (0 .. N) /\ Returned(c) \subseteq Ids
    <3>1. Returned(c) \subseteq 1 .. N
      BY <1>5 DEF Returned
    <3>2. N \in Nat /\ N <= MaxVersion
      BY <1>4, Numbers DEF Ids
    <3> HIDE DEF N
    <3>3. QED
      BY <3>1, <3>2, Numbers DEF Ids
  <2>2. ASSUME NEW e \in Entities, NEW base \in Values PROVE Patched(base, Returned(c), e) \in Values
    <3> DEFINE touching == {v \in Returned(c) : \E x \in Values : <<e, x>> \in diffs[v]}
    <3>1. CASE touching = {}
      BY <3>1 DEF Patched
    <3>2. CASE touching # {}
      <4>1. touching \in SUBSET (0 .. N) /\ N \in Nat
        BY <1>4, <2>1, Numbers DEF Ids
      <4>2. Max(touching) \in touching
        <5> HIDE DEF touching
        <5>1. QED
          BY <3>2, <4>1, GreatestExists
      <4>3. Patched(base, Returned(c), e) = CHOOSE x \in Values : <<e, x>> \in diffs[Max(touching)]
        BY <3>2 DEF Patched
      <4>4. QED
        BY <4>2, <4>3
    <3>3. QED
      BY <3>1, <3>2
  <2>3. \A e \in Entities : client[c].view[e] \in Values
    BY <1>2 DEF ClientType, Graphs
  <2>4. QED
    BY <2>2, <2>3 DEF Graphs
<1>7. ASSUME good PROVE view = published[N]
  BY <1>1, <1>4, <1>7, FullResponse
<1> HIDE DEF view
<1>8. PICK sure \in BOOLEAN : sure = good
  BY <1>2, Zenon DEF ClientType
<1> HIDE DEF good
<1> DEFINE r == [pc |-> "idle", ver |-> client[c].cur, cur |-> 0, sure |-> sure, view |-> view]
<1>9. client' = [client EXCEPT ![c] = r]
  BY <1>1, <1>8, Zenon
<1>10. /\ r \in ClientType /\ r.ver = client[c].cur /\ r.cur = 0 /\ r.pc = "idle" /\ r.view = view
       /\ r.sure = sure
  BY <1>2, <1>6 DEF ClientType
<1> HIDE DEF r
<1>11. r.ver < next /\ r.cur < next
  <2>1. 0 < next
    BY <1>2, <1>3, <1>4
  <2>2. QED
    BY <1>3, <1>10, <2>1
<1>12. ASSUME r.sure PROVE \E v \in r.ver .. next - 1 : r.view = published[v]
  <2>1. good
    <3>1. r.sure = good
      BY <1>8, <1>10, Zenon
    <3>2. QED
      BY <1>12, <3>1, Zenon
  <2>2. N \in r.ver .. next - 1
    BY <1>2, <1>3, <1>4, <1>10
  <2>3. QED
    BY <1>7, <1>10, <2>1, <2>2
<1>13. QED
  BY <1>1, <1>9, <1>10, <1>11, <1>12, OneClient

\* The types of the rest.
LEMMA ReaderTypesKeep ==
  ASSUME VersionsIInv, [Next]_vars, UNCHANGED client PROVE ReaderTypes'
<1>1. /\ versions \subseteq Ids /\ next \in 1 .. MaxVersion + 1 /\ MaxFaults \in Nat
      /\ \A p \in Procs : run[p].id \in Ids \cup {0}
  BY RunTyped, Numbers, GraphVersionsAssumption DEF VersionsIInv, LogIInv, LogTypeOK, RunType, Ids
<1>2. Ids \subseteq 1 .. MaxVersion + 1 /\ SpoiltIds \subseteq spoilt \cup Ids
  BY <1>1, Numbers DEF Ids, SpoiltIds
<1>3. tagged' \in versions' \cup {0}
  BY DEF VersionsIInv, ReaderTypes, Next, RunNext, ClientNext, Begin, Change, ClearAll, TagState,
    CaptureNew, StoreDiff, DiffsStored, Cleanup, CreateVersion, FailRun, Crash, Purge, Subscribe,
    ReadCurrent, CheckSince, FetchDiffs, log, vars, Referable
<1>4. faults' \in 0 .. MaxFaults
  <2>1. faults \in 0 .. MaxFaults
    BY DEF VersionsIInv, ReaderTypes
  <2>2. UNCHANGED faults \/ Fault
    BY DEF Next, RunNext, ClientNext, Begin, Change, ClearAll, TagState, CaptureNew, StoreDiff,
      DiffsStored, Cleanup, CreateVersion, FailRun, Crash, Purge, Subscribe, ReadCurrent, CheckSince,
      FetchDiffs, vars, NoFault
  <2>3. QED
    BY <1>1, <2>1, <2>2 DEF Fault
<1>5. spoilt' \subseteq 1 .. MaxVersion + 1
  <2>1. spoilt \subseteq 1 .. MaxVersion + 1
    BY DEF VersionsIInv, ReaderTypes
  <2>2. \A p \in Procs : run[p].id = 0 \/ run[p].id \in 1 .. MaxVersion + 1
    BY <1>1, <1>2
  <2>3. SpoiltIds \subseteq 1 .. MaxVersion + 1
    BY <1>2, <2>1
  <2>4. \A p \in Procs : run[p].id = 0 => ~At(p, "tagged") /\ ~At(p, "diffing")
    BY DEF VersionsIInv, LogIInv, OwnIds, Recording, At
  <2>5. ASSUME NEW p \in Procs, RunNext(p) PROVE spoilt' \subseteq 1 .. MaxVersion + 1
    BY <1>1, <2>1, <2>2, <2>3, <2>4, <2>5 DEF RunNext, Begin, Change, ClearAll, TagState, CaptureNew,
      StoreDiff, DiffsStored, Cleanup, CreateVersion, FailRun, Crash
  <2>6. CASE Purge
    BY <1>1, <2>3, <2>6 DEF Purge
  <2>7. CASE UNCHANGED spoilt
    BY <2>1, <2>7
  <2>8. QED
    BY <2>5, <2>6, <2>7 DEF Next, ClientNext, Subscribe, ReadCurrent, CheckSince, FetchDiffs, vars
<1>6. QED
  BY <1>3, <1>4, <1>5 DEF VersionsIInv, ReaderTypes

LEMMA InitVersions == Init => VersionsIInv
<1> SUFFICES ASSUME Init PROVE VersionsIInv
  OBVIOUS
<1>1. LogIInv
  BY InitLogIInv
<1>2. NoClient \in ClientType /\ NoClient.ver = 0 /\ NoClient.cur = 0 /\ NoClient.pc = "idle"
  BY Numbers DEF NoClient, ClientType
<1>3. ReaderTypes
  BY <1>2, Numbers, GraphVersionsAssumption DEF Init, ReaderTypes
<1>4. ClientsFollow
  <2>1. \A c \in Clients : client[c] = NoClient
    BY DEF Init
  <2>2. 0 < next
    BY DEF Init
  <2>3. QED
    BY <1>2, <2>1, <2>2 DEF ClientsFollow
<1>5. QED
  BY <1>1, <1>3, <1>4 DEF VersionsIInv

LEMMA StepVersions == VersionsIInv /\ [Next]_vars => VersionsIInv'
<1> SUFFICES ASSUME VersionsIInv, [Next]_vars PROVE VersionsIInv'
  OBVIOUS
<1>1. LogIInv'
  BY StepLogIInv DEF VersionsIInv
<1>2. CASE UNCHANGED client
  BY <1>1, <1>2, ClientsKeep, ReaderTypesKeep DEF VersionsIInv
<1>3. CASE \E c \in Clients : ClientNext(c)
  BY <1>1, <1>3, SubscribeStep, ReadCurrentStep, CheckSinceStep, FetchDiffsStep
  DEF VersionsIInv, ClientNext
<1>4. QED
  BY <1>2, <1>3 DEF Next, RunNext, Begin, Change, ClearAll, TagState, CaptureNew, StoreDiff,
    DiffsStored, Cleanup, CreateVersion, FailRun, Crash, Purge, vars

LEMMA VersionsTyped == VersionsIInv => TypeOK
BY Numbers DEF VersionsIInv, LogIInv, LogTypeOK, ReaderTypes, ClientType, RunType, TypeOK, Ids

\* A consumer that follows complete diffs of undisturbed versions has the graph
\* of its version or a later one (FollowersAgree), whatever runs overlap its
\* requests, and however many versions one response brings.
THEOREM FollowersAgreeAlways == Spec => []FollowersAgree
<1>1. VersionsIInv => FollowersAgree
  BY Zenon DEF VersionsIInv, ClientsFollow, FollowersAgree
<1>2. QED
  BY InitVersions, StepVersions, <1>1, PTL DEF Spec

-----------------------------------------------------------------------------
(* Every step is one of GraphHistory.                                      *)

Archive   == [v \in 1 .. next - 1 |-> published[v]]
HeldByAll == [c \in Clients |-> Held(c)]

\* A step of GraphHistory, or none.
HistoryStep == [History!Next]_(History!vars)

\* What a consumer holds that is in state r.
HeldIn(r) == IF r.ver # 0 /\ r.sure THEN {[told |-> r.ver, graph |-> r.view]} ELSE {}

LEMMA SameClients == ASSUME UNCHANGED <<next, published, client>> PROVE HistoryStep
BY DEF HistoryStep, History!vars, Held

LEMMA ArchiveNow == ASSUME LogTypeOK PROVE Archive \in Seq(Graphs) /\ Len(Archive) = next - 1
<1>1. next - 1 \in Nat /\ 1 .. next - 1 \subseteq Ids
  BY Numbers DEF LogTypeOK, Ids
<1>2. Archive \in [1 .. next - 1 -> Graphs] /\ DOMAIN Archive = 1 .. next - 1
  BY <1>1 DEF Archive, LogTypeOK
<1> HIDE DEF Archive
<1>3. QED
  BY <1>1, <1>2

\* A version is published after all others.
LEMMA CreateVersionMapped ==
  ASSUME VersionsIInv, NEW p \in Procs, CreateVersion(p) PROVE HistoryStep
<1>1. /\ next \in Ids /\ next' = next + 1 /\ graph \in Graphs /\ client' = client
      /\ published' = [published EXCEPT ![next] = graph] /\ published \in [Ids -> Graphs]
  BY Numbers DEF VersionsIInv, LogIInv, LogTypeOK, CreateVersion, Ids
<1>2. next \in Nat /\ next >= 1 /\ 1 .. next \subseteq Ids
  BY <1>1, Numbers DEF Ids
<1>3. Archive \in Seq(Graphs) /\ Len(Archive) = next - 1
  BY ArchiveNow DEF VersionsIInv, LogIInv
<1>4. [v \in 1 .. next' - 1 |-> published'[v]] = Append(Archive, graph)
  <2> DEFINE P == [v \in 1 .. next |-> published'[v]]
  <2>1. \A v \in 1 .. next - 1 : Archive[v] = published[v]
    BY DEF Archive
  <2>2. /\ Append(Archive, graph) \in Seq(Graphs) /\ Len(Append(Archive, graph)) = next
        /\ \A v \in 1 .. next - 1 : Append(Archive, graph)[v] = Archive[v]
        /\ Append(Archive, graph)[next] = graph
    <3> HIDE DEF Archive
    <3>1. next - 1 + 1 = next
      BY <1>2
    <3>2. QED
      BY <1>1, <1>3, <3>1, AppendProperties
  <2>3. \A v \in 1 .. next : P[v] = Append(Archive, graph)[v]
    BY <1>1, <1>2, <2>1, <2>2
  <2>4. Append(Archive, graph) \in [1 .. next -> Graphs]
    <3> DEFINE longer == Append(Archive, graph)
    <3> HIDE DEF longer
    <3>1. longer \in Seq(Graphs) /\ Len(longer) = next
      BY <2>2 DEF longer
    <3>2. longer \in [1 .. next -> Graphs]
      BY <3>1
    <3>3. QED
      BY <3>2 DEF longer
  <2>5. P = Append(Archive, graph)
    BY <2>3, <2>4
  <2>6. next' - 1 = next
    BY <1>1, <1>2
  <2>7. QED
    BY <2>5, <2>6
<1>5. UNCHANGED HeldByAll
  BY <1>1 DEF HeldByAll, Held
<1>6. History!Publish
  BY <1>1, <1>4, <1>5 DEF History!Publish, Archive, HeldByAll
<1>7. QED
  BY <1>6 DEF HistoryStep, History!Next

\* A step that replaces one consumer replaces what it holds.
LEMMA OneHolds ==
  ASSUME VersionsIInv, NEW c \in Clients, NEW r, client' = [client EXCEPT ![c] = r]
  PROVE  HeldByAll' = [HeldByAll EXCEPT ![c] = HeldIn(r)]
<1>1. client'[c] = r /\ \A d \in Clients \ {c} : client'[d] = client[d]
  BY DEF VersionsIInv, ReaderTypes
<1>2. HeldIn(client'[c]) = HeldIn(r) /\ \A d \in Clients \ {c} : HeldIn(client'[d]) = HeldIn(client[d])
  BY <1>1
<1>3. \A d \in Clients : HeldByAll[d] = HeldIn(client[d])
  BY DEF HeldByAll, Held, HeldIn
<1>4. HeldByAll' = [d \in Clients |-> HeldIn(client'[d])]
  BY DEF HeldByAll, Held, HeldIn
<1>5. DOMAIN HeldByAll = Clients
  BY DEF HeldByAll
<1> HIDE DEF HeldByAll
<1>6. QED
  BY <1>2, <1>3, <1>4, <1>5

\* ... and is one of GraphHistory if it keeps that, loses it or has the newest.
LEMMA OneMapped ==
  ASSUME VersionsIInv, NEW c \in Clients, NEW r, client' = [client EXCEPT ![c] = r],
         UNCHANGED log,
         \/ HeldIn(r) = HeldIn(client[c])
         \/ HeldIn(r) = {}
         \/ /\ next # 1
            /\ HeldIn(client[c]) = {}
            /\ HeldIn(r) = {[told |-> next - 1, graph |-> published[next - 1]]}
         \/ /\ HeldIn(client[c]) # {} /\ client[c].ver < r.ver
            /\ r.ver \in 1 .. next - 1
            /\ HeldIn(r) = {[told |-> r.ver, graph |-> published[next - 1]]}
  PROVE  HistoryStep
<1>1. HeldByAll' = [HeldByAll EXCEPT ![c] = HeldIn(r)] /\ HeldByAll[c] = HeldIn(client[c])
  BY OneHolds DEF HeldByAll, Held, HeldIn
<1>2. UNCHANGED <<next, published>> /\ UNCHANGED Archive
  BY DEF log, Archive
<1>3. Len(Archive) = next - 1 /\ next - 1 \in Nat
  BY ArchiveNow, Numbers DEF VersionsIInv, LogIInv, LogTypeOK
<1>4. next # 1 => next - 1 \in 1 .. next - 1 /\ Archive[next - 1] = published[next - 1]
  <2>1. next # 1 => next - 1 \in 1 .. next - 1
    <3>1. next \in Nat \ {0}
      BY NextType DEF VersionsIInv, LogIInv
    <3>2. QED
      BY <3>1
  <2>2. QED
    BY <2>1 DEF Archive
<1>5. CASE HeldIn(r) = HeldIn(client[c])
  <2>1. UNCHANGED HeldByAll
    BY <1>1, <1>5 DEF HeldByAll
  <2>2. QED
    BY <1>2, <2>1 DEF HistoryStep, History!vars, Archive, HeldByAll
<1>6. CASE HeldIn(r) = {}
  <2>1. History!Lose(c)
    BY <1>1, <1>2, <1>6 DEF History!Lose, Archive, HeldByAll
  <2>2. QED
    BY <2>1 DEF HistoryStep, History!Next
<1>7. CASE /\ next # 1
           /\ HeldIn(client[c]) = {}
           /\ HeldIn(r) = {[told |-> next - 1, graph |-> published[next - 1]]}
  <2>1. HeldByAll[c] = {} /\ Len(Archive) # 0 /\ Archive[Len(Archive)] = published[next - 1]
    <3> HIDE DEF Archive, HeldByAll
    <3>1. QED
      BY <1>1, <1>3, <1>4, <1>7
  <2>2. HeldByAll' = [HeldByAll EXCEPT ![c] = {[told |-> Len(Archive), graph |-> Archive[Len(Archive)]]}]
    BY <1>1, <1>3, <1>7, <2>1, Zenon
  <2>3. History!Join(c)
    BY <1>2, <2>1, <2>2 DEF History!Join, History!Newest, Archive, HeldByAll
  <2>4. QED
    BY <2>3 DEF HistoryStep, History!Next
<1>8. CASE /\ HeldIn(client[c]) # {} /\ client[c].ver < r.ver
           /\ r.ver \in 1 .. next - 1
           /\ HeldIn(r) = {[told |-> r.ver, graph |-> published[next - 1]]}
  <2>1. HeldByAll[c] = {[told |-> client[c].ver, graph |-> client[c].view]}
    BY <1>1, <1>8 DEF HeldIn
  <2>2. PICK h \in HeldByAll[c] : h.told = client[c].ver
    BY <2>1
  <2>3. next # 1
    BY <1>3, <1>8
  <2>4. /\ h.told < r.ver /\ r.ver \in 1 .. Len(Archive) /\ UNCHANGED Archive
        /\ HeldByAll' = [HeldByAll EXCEPT ![c] = {[told |-> r.ver, graph |-> Archive[Len(Archive)]]}]
    BY <1>1, <1>2, <1>3, <1>4, <1>8, <2>2, <2>3
  <2>5. History!CatchUp(c)
    BY <2>2, <2>4 DEF History!CatchUp, History!Newest, Archive, HeldByAll
  <2>6. QED
    BY <2>5 DEF HistoryStep, History!Next
<1>9. QED
  BY <1>5, <1>6, <1>7, <1>8

LEMMA SubscribeMapped ==
  ASSUME VersionsIInv, NEW c \in Clients, Subscribe(c) PROVE HistoryStep
<1> DEFINE r == [pc |-> "idle", ver |-> Newest, cur |-> 0, view |-> published[Newest], sure |-> TRUE]
<1>1. Newest # 0 /\ client[c].ver = 0 /\ client' = [client EXCEPT ![c] = r] /\ UNCHANGED log
  BY DEF Subscribe
<1>2. next # 1
  BY <1>1 DEF VersionsIInv, LogIInv, LogTypeOK, Newest
<1>3. Newest = next - 1
  BY <1>2, NewestIsNext DEF VersionsIInv
<1>4. HeldIn(client[c]) = {} /\ HeldIn(r) = {[told |-> next - 1, graph |-> published[next - 1]]}
  BY <1>1, <1>3 DEF HeldIn
<1> HIDE DEF r
<1>5. QED
  BY <1>1, <1>2, <1>4, OneMapped

LEMMA ReadCurrentMapped ==
  ASSUME VersionsIInv, NEW c \in Clients, ReadCurrent(c) PROVE HistoryStep
<1> DEFINE r == [client[c] EXCEPT !.pc = "check", !.cur = Newest]
<1>1. client' = [client EXCEPT ![c] = r] /\ UNCHANGED log
  BY DEF ReadCurrent
<1>2. client[c] \in ClientType
  BY ClientTyped DEF VersionsIInv
<1>3. HeldIn(r) = HeldIn(client[c])
  BY <1>2 DEF HeldIn, ClientType
<1> HIDE DEF r
<1>4. QED
  BY <1>1, <1>3, OneMapped

LEMMA CheckSinceMapped ==
  ASSUME VersionsIInv, NEW c \in Clients, CheckSince(c) PROVE HistoryStep
<1> DEFINE r == [client[c] EXCEPT !.pc = "fetch"]
<1>1. UNCHANGED log /\ client[c] \in ClientType
  BY ClientTyped DEF VersionsIInv, CheckSince
<1>2. CASE client[c].ver \in versions
  <2>1. client' = [client EXCEPT ![c] = r]
    BY <1>2 DEF CheckSince
  <2>2. HeldIn(r) = HeldIn(client[c])
    BY <1>1 DEF HeldIn, ClientType
  <2> HIDE DEF r
  <2>3. QED
    BY <1>1, <2>1, <2>2, OneMapped
<1>3. CASE client[c].ver \notin versions
  <2>1. client' = [client EXCEPT ![c] = NoClient]
    BY <1>3 DEF CheckSince
  <2>2. HeldIn(NoClient) = {}
    BY DEF HeldIn, NoClient
  <2>3. QED
    BY <1>1, <2>1, <2>2, OneMapped
<1>4. QED
  BY <1>2, <1>3

\* A response leaves its consumer with the newest graph, or unsure.
LEMMA FetchDiffsMapped ==
  ASSUME VersionsIInv, NEW c \in Clients, FetchDiffs(c) PROVE HistoryStep
<1> DEFINE view == [e \in Entities |-> Patched(client[c].view[e], Returned(c), e)]
           good == client[c].sure /\ client[c].ver + 1 .. Newest \subseteq versions \ (spoilt \cup Storing)
           r == [pc |-> "idle", ver |-> client[c].cur, cur |-> 0, sure |-> good, view |-> view]
<1>1. client[c].pc = "fetch" /\ UNCHANGED log /\ client' = [client EXCEPT ![c] = r]
  BY DEF FetchDiffs
<1>2. client[c].ver \in Nat /\ client[c].cur \in Nat /\ next \in Nat
  BY ClientTyped, Numbers DEF VersionsIInv, LogIInv, LogTypeOK
<1>3. client[c].ver # 0 /\ client[c].ver < client[c].cur /\ client[c].cur < next
  BY <1>1 DEF VersionsIInv, ClientsFollow
<1>4. CASE ~good
  <2>1. HeldIn(r) = {}
    BY <1>4 DEF HeldIn
  <2> HIDE DEF r
  <2>2. QED
    BY <1>1, <2>1, OneMapped
<1>5. CASE good
  <2>1. next # 1
    BY <1>2, <1>3
  <2>2. view = published[next - 1]
    <3>1. view = published[Newest]
      BY <1>1, <1>5, FullResponse
    <3>2. QED
      BY <2>1, <3>1, NewestIsNext DEF VersionsIInv
  <2>3. r.ver = client[c].cur /\ r.sure = good /\ r.view = view
    OBVIOUS
  <2> HIDE DEF r, view
  <2>4. r.ver # 0 /\ r.ver \in 1 .. next - 1 /\ client[c].ver < r.ver
    BY <1>2, <1>3, <2>3
  <2>5. HeldIn(r) = {[told |-> r.ver, graph |-> published[next - 1]]}
    BY <1>5, <2>2, <2>3, <2>4 DEF HeldIn
  <2>6. HeldIn(client[c]) # {}
    BY <1>3, <1>5 DEF HeldIn
  <2>7. QED
    BY <1>1, <2>4, <2>5, <2>6, OneMapped
<1>6. QED
  BY <1>4, <1>5

LEMMA StepHistory == ASSUME VersionsIInv, [Next]_vars PROVE HistoryStep
<1>1. CASE \E p \in Procs : CreateVersion(p)
  BY <1>1, CreateVersionMapped
<1>2. CASE \E c \in Clients : ClientNext(c)
  BY <1>2, SubscribeMapped, ReadCurrentMapped, CheckSinceMapped, FetchDiffsMapped DEF ClientNext
<1>3. CASE UNCHANGED <<next, published, client>>
  BY <1>3, SameClients
<1>4. QED
  BY <1>1, <1>2, <1>3 DEF Next, RunNext, Begin, Change, ClearAll, TagState, CaptureNew, StoreDiff,
    DiffsStored, Cleanup, FailRun, Crash, Purge, log, vars

\* Whatever runs store, overlap, fail and prune between its reads, a consumer
\* that could be sure has from each response the newest graph there is: runs,
\* diffs and retention implement GraphHistory.
THEOREM VersionsImplementHistory == Spec => ImplementsHistory
<1>1. Init => History!Init
  <2> SUFFICES ASSUME Init PROVE History!Init
    OBVIOUS
  <2>1. \A c \in Clients : Held(c) = {}
    BY DEF Init, Held, NoClient
  <2>2. [v \in 1 .. next - 1 |-> published[v]] = <<>>
    BY DEF Init
  <2>3. QED
    BY <2>1, <2>2 DEF History!Init
<1>2. VersionsIInv /\ [Next]_vars => [History!Next]_(History!vars)
  BY StepHistory DEF HistoryStep
<1>3. QED
  BY InitVersions, StepVersions, <1>1, <1>2, PTL DEF Spec, ImplementsHistory, History!Spec

-----------------------------------------------------------------------------
(* The answers and their cache.                                            *)

FiniteBodies == {b \in Bodies : IsFiniteSet(b.nodes) /\ IsFiniteSet(b.links)}

Statements == {"precalc", "legacy", "supernodes", "communityLinks", "boxNodes", "boxLinks",
               "bundles", "community", "subgraph", "node", "neighbors", "search"}

UnderWayType ==
  [pc : {"ready", "query"}, req : asked, stmt : Statements, rows : FiniteBodies,
   part : FiniteBodies, left : 0 .. QueryTimeout, age : 0 .. QueryTimeout]

FillType ==
  [pc : {"fill"}, key : {Key(q) : q \in asked}, body : FiniteBodies, age : 0 .. QueryTimeout]

\* The statements of each kind of request.
OfKind(q, stmt) ==
  CASE q.kind = "graph"       -> stmt \in {"precalc", "legacy"}
    [] q.kind = "export"      -> stmt = "precalc"
    [] q.kind = "overview"    -> stmt \in {"supernodes", "communityLinks"}
    [] q.kind = "communities" -> stmt \in {"supernodes", "communityLinks"}
    [] q.kind = "region"      -> stmt \in {"boxNodes", "boxLinks"}
    [] q.kind = "bundles"     -> stmt = "bundles"
    [] q.kind = "community"   -> stmt \in {"community", "subgraph"}
    [] q.kind = "search"      -> stmt = "search"
    [] q.kind = "details"     -> stmt \in {"node", "neighbors"}

\* What a statement selected for a request keeps to.
RowsFit(q, stmt, rows) ==
  CASE stmt = "precalc"        -> /\ \A n \in rows.nodes : Allowed(q, n)
                                  /\ q.kind = "export" => Fits(q, rows)
    [] stmt = "communityLinks" -> Cardinality(rows.links) <= q.maxLinks
    [] stmt = "boxNodes"       -> /\ rows.nodes \subseteq q.box
                                  /\ Cardinality(rows.nodes) <= AtLeast1(q.maxNodes)
    [] stmt = "boxLinks"       -> /\ rows.links \subseteq q.box \X q.box
                                  /\ Cardinality(rows.links) <= AtLeast1(q.maxLinks)
    [] stmt = "bundles"        -> Fits(q, rows)
    [] stmt = "subgraph"       -> \A n \in rows.nodes : Community[n] = q.id
    [] stmt = "node"           -> rows = None \/ rows = [None EXCEPT !.nodes = {q.id}]
    [] stmt = "neighbors"      -> Cardinality(rows.nodes) <= q.maxNodes
    [] stmt = "search"         -> Fits(q, rows)
    [] OTHER                   -> TRUE

\* And what the one before it did.
PartFits(q, stmt, part) ==
  CASE stmt = "communityLinks" -> Cardinality(part.nodes) <= q.maxNodes
    [] stmt = "boxLinks"       -> /\ part.nodes \subseteq q.box
                                  /\ Cardinality(part.nodes) <= AtLeast1(q.maxNodes)
    [] stmt = "neighbors"      -> part.nodes = {q.id}
    [] OTHER                   -> TRUE

Suited(x) ==
  /\ OfKind(x.req, x.stmt) /\ PartFits(x.req, x.stmt, x.part)
  /\ x.pc = "query" => RowsFit(x.req, x.stmt, x.rows)
  /\ Deadlined(x.req) => x.age + x.left <= QueryTimeout

\* An entry fits every request with its key.
FitsKey(key, b) == \A q : Key(q) = key => Fits(q, b)

\* What a requester may be doing, what the cache may hold, and what may have
\* been answered.
Fine(x) ==
  \/ x = Rest
  \/ x \in FillType /\ FitsKey(x.key, x.body)
  \/ x \in UnderWayType /\ Suited(x)

EntryType == [body : FiniteBodies, age : Nat, left : -1 .. TTL]

GoodEntry(key, x) ==
  /\ x \in EntryType /\ FitsKey(key, x.body)
  /\ x.left >= 0 => x.age + x.left <= TTL + QueryTimeout

GoodAnswer(a) ==
  a = Nobody \/ /\ a.to \in asked /\ a.body \in FiniteBodies \cup {Error}
                /\ a.body # Error => /\ Fits(a.to, a.body)
                                     /\ Deadlined(a.to) => a.age <= TTL + QueryTimeout

TablesTyped ==
  asked \in Asked /\ tables \in [Tables -> Contents] /\ rewrites \in 0 .. MaxRewrites

AskingFine ==
  /\ asking = [r \in Requesters |-> asking[r]]
  /\ \A r \in Requesters : Fine(asking[r])

CacheFine == \A key \in DOMAIN cache : GoodEntry(key, cache[key])

AnswersIInv == TablesTyped /\ AskingFine /\ CacheFine /\ GoodAnswer(answer)

LEMMA Times == TTL \in Nat /\ QueryTimeout \in Nat /\ MaxRewrites \in Nat /\ DefaultCap \in Nat \ {0}
BY ApiAssumption

LEMMA RequestsTyped == ASSUME TablesTyped, NEW q \in asked PROVE IsRequest(q)
BY ApiAssumption DEF TablesTyped

LEMMA Caps == ASSUME NEW c \in Int PROVE Cap(c) \in Nat /\ AtLeast1(c) \in Nat
BY Times DEF Cap, AtLeast1

LEMMA NoneFits ==
  /\ None \in FiniteBodies /\ None.nodes = {} /\ None.links = {}
  /\ Cardinality({}) = 0 /\ IsFiniteSet({})
BY FS_EmptySet DEF None, FiniteBodies, Bodies

LEMMA BodyIs ==
  ASSUME NEW b \in FiniteBodies
  PROVE  /\ IsFiniteSet(b.nodes) /\ IsFiniteSet(b.links) /\ b \in Bodies
         /\ Cardinality(b.nodes) \in Nat /\ Cardinality(b.links) \in Nat
BY FS_CardinalityType DEF FiniteBodies

\* A selection under a LIMIT.
LEMMA Taken ==
  ASSUME NEW S, IsFiniteSet(S), NEW k \in Int,
         NEW T \in kSubset(IF k < Cardinality(S) THEN k ELSE Cardinality(S), S)
  PROVE  T \subseteq S /\ IsFiniteSet(T) /\ Cardinality(T) <= k
<1>1. T \in SUBSET S /\ Cardinality(T) = IF k < Cardinality(S) THEN k ELSE Cardinality(S)
  BY DEF kSubset
<1>2. Cardinality(S) \in Nat
  BY FS_CardinalityType
<1>3. IsFiniteSet(T)
  BY <1>1, FS_Subset
<1>4. QED
  BY <1>1, <1>2, <1>3

\* Bodies cut down are bodies.
LEMMA SmallerBody ==
  ASSUME NEW b \in FiniteBodies, NEW S \in SUBSET b.nodes, NEW L \in SUBSET b.links
  PROVE  [nodes |-> S, links |-> L] \in FiniteBodies
<1>1. IsFiniteSet(S) /\ IsFiniteSet(L)
  BY BodyIs, FS_Subset
<1>2. [nodes |-> S, links |-> L] \in Bodies
  BY BodyIs DEF Bodies
<1>3. QED
  BY <1>1, <1>2 DEF FiniteBodies

LEMMA TableIs ==
  ASSUME TablesTyped, NEW t \in Tables
  PROVE  /\ tables[t] \in FiniteBodies
         /\ tables[t] = [nodes |-> tables[t].nodes, links |-> tables[t].links]
<1> DEFINE g == tables[t]
<1>1. g \in Contents
  BY DEF TablesTyped
<1> HIDE DEF g
<1>2. /\ g = [nodes |-> g.nodes, links |-> g.links]
      /\ IsFiniteSet(g.nodes) /\ g.links \subseteq g.nodes \X g.nodes
  BY <1>1, ApiAssumption
<1>3. IsFiniteSet(g.links)
  BY <1>2, FS_Product, FS_Subset
<1>4. /\ g.nodes \in SUBSET UNION {h.nodes : h \in Contents}
      /\ g.links \in SUBSET UNION {h.links : h \in Contents}
  BY <1>1
<1>5. g \in Bodies
  BY <1>2, <1>4 DEF Bodies
<1>6. QED
  BY <1>2, <1>3, <1>5 DEF FiniteBodies, g

\* Fits looks at little more than the key of a request holds: with the same
\* key, only a filter of the type all keeps to less than no filter would.
LEMMA KeyFits ==
  ASSUME NEW q, NEW b, Fits(q, b)
  PROVE  FitsKey(Key(q), b)
<1> SUFFICES ASSUME NEW p, Key(p) = Key(q) PROVE Fits(p, b)
  BY DEF FitsKey
<1> DEFINE k(x) == [kind |-> "graph", types |-> TypeKey(x), maxNodes |-> x.maxNodes,
                    maxLinks |-> x.maxLinks]
<1>1. \A x : k(x).kind = "graph" /\ k(x).types = TypeKey(x) /\ k(x).maxNodes = x.maxNodes
             /\ k(x).maxLinks = x.maxLinks
  OBVIOUS
<1>2. \A x : Key(x) = IF x.kind = "graph" THEN k(x) ELSE x
  BY DEF Key
<1> HIDE DEF k
<1>3. CASE p.kind = "graph" /\ q.kind = "graph"
  <2>1. TypeKey(p) = TypeKey(q) /\ p.maxNodes = q.maxNodes /\ p.maxLinks = q.maxLinks
    <3>1. k(p) = k(q)
      BY <1>2, <1>3
    <3>2. QED
      BY <1>1, <3>1
  <2>2. /\ \A n \in b.nodes : Allowed(q, n) \/ NamesAll(q)
        /\ b.links \subseteq b.nodes \X b.nodes
        /\ Cardinality(b.nodes) <= Cap(q.maxNodes)
        /\ Cardinality(b.links) <= Cap(q.maxLinks)
    BY <1>3 DEF Fits
  <2>3. p.allowAll \/ NamesAll(p) \/ (~q.allowAll /\ ~NamesAll(q) /\ p.types = q.types)
    BY <2>1 DEF TypeKey, NamesAll
  <2>4. \A n \in b.nodes : Allowed(p, n) \/ NamesAll(p)
    BY <2>2, <2>3 DEF Allowed
  <2>5. QED
    BY <1>3, <2>1, <2>2, <2>4 DEF Fits
<1>4. CASE p.kind # "graph" /\ q.kind # "graph"
  BY <1>2, <1>4
<1>5. QED
  BY <1>1, <1>2, <1>3, <1>4

-----------------------------------------------------------------------------
\* What the statements select.

\* CappedRows, of the nodes N.
LEMMA CappedRowsFit ==
  ASSUME TablesTyped, NEW N \in SUBSET tables["precalc"].nodes, NEW k \in Int, NEW m \in Int,
         NEW rows \in CappedRows(N, k, m)
  PROVE  /\ rows \in FiniteBodies /\ rows.nodes \subseteq N
         /\ Cardinality(rows.nodes) <= k /\ Cardinality(rows.links) <= m
<1> DEFINE g == tables["precalc"]
<1>1. g \in FiniteBodies
  BY TableIs DEF Tables
<1>2. PICK S \in Limited(N, k, Heavier) :
        rows \in {[nodes |-> S, links |-> L] : L \in Limited(Among(g.links, S), m, Unordered)}
  BY DEF CappedRows
<1>3. PICK L \in Limited(Among(g.links, S), m, Unordered) : rows = [nodes |-> S, links |-> L]
  BY <1>2
<1>4. /\ S \in kSubset(IF k < Cardinality(N) THEN k ELSE Cardinality(N), N)
      /\ L \in kSubset(IF m < Cardinality(Among(g.links, S)) THEN m
                       ELSE Cardinality(Among(g.links, S)), Among(g.links, S))
  BY <1>2, <1>3 DEF Limited
<1>5. IsFiniteSet(N) /\ IsFiniteSet(Among(g.links, S)) /\ Among(g.links, S) \subseteq g.links
  <2>1. N \in SUBSET g.nodes /\ Among(g.links, S) \in SUBSET g.links
    BY DEF Among
  <2>2. IsFiniteSet(g.nodes) /\ IsFiniteSet(g.links)
    BY <1>1, BodyIs
  <2>3. QED
    BY <2>1, <2>2, FS_Subset
<1>6. S \subseteq N /\ Cardinality(S) <= k
  BY <1>4, <1>5, Taken
<1>7. L \subseteq Among(g.links, S) /\ Cardinality(L) <= m
  BY <1>4, <1>5, Taken
<1>8. rows \in FiniteBodies
  BY <1>1, <1>3, <1>5, <1>6, <1>7, SmallerBody
<1>9. QED
  BY <1>3, <1>6, <1>7, <1>8

LEMMA CappedFilteredFit ==
  ASSUME TablesTyped, NEW q, NEW k \in Int, NEW m \in Int, NEW rows \in CappedFiltered(q, k, m)
  PROVE  /\ rows \in FiniteBodies /\ \A n \in rows.nodes : Allowed(q, n)
         /\ Cardinality(rows.nodes) <= k /\ Cardinality(rows.links) <= m
<1> DEFINE N == {n \in tables["precalc"].nodes : Allowed(q, n)}
<1>1. rows \in CappedRows(N, k, m) /\ N \in SUBSET tables["precalc"].nodes
  BY DEF CappedFiltered
<1>2. \A n \in N : Allowed(q, n)
  OBVIOUS
<1> HIDE DEF N
<1>3. QED
  BY <1>1, <1>2, CappedRowsFit

\* What is selected of a finite set of nodes, or of links, in the tables.
LEMMA NodesOnly ==
  ASSUME TablesTyped, NEW t \in Tables, NEW S \in SUBSET tables[t].nodes
  PROVE  /\ [nodes |-> S, links |-> {}] \in FiniteBodies
         /\ IsFiniteSet(S) /\ Cardinality(S) \in Nat
<1>1. tables[t] \in FiniteBodies
  BY TableIs
<1>2. [nodes |-> S, links |-> {}] \in FiniteBodies
  BY <1>1, SmallerBody
<1>3. QED
  BY <1>1, <1>2, BodyIs, FS_Subset, FS_CardinalityType

LEMMA LinksOnly ==
  ASSUME TablesTyped, NEW t \in Tables, NEW L \in SUBSET tables[t].links
  PROVE  /\ [nodes |-> {}, links |-> L] \in FiniteBodies
         /\ IsFiniteSet(L) /\ Cardinality(L) \in Nat
<1>1. tables[t] \in FiniteBodies
  BY TableIs
<1>2. [nodes |-> {}, links |-> L] \in FiniteBodies
  BY <1>1, SmallerBody
<1>3. QED
  BY <1>1, <1>2, BodyIs, FS_Subset, FS_CardinalityType

LEMMA PrecalcRows ==
  ASSUME TablesTyped, NEW q \in asked, q.kind \in {"graph", "export"}, NEW rows \in RowsOf("precalc", q)
  PROVE  rows \in FiniteBodies /\ RowsFit(q, "precalc", rows)
<1>1. IsRequest(q)
  BY RequestsTyped
<1>2. CASE q.kind = "export"
  <2>1. rows \in CappedFiltered(q, q.maxNodes, q.maxLinks)
    BY <1>2 DEF RowsOf
  <2>2. q.maxNodes \in Int /\ q.maxLinks \in Int
    BY <1>1, <1>2 DEF IsRequest
  <2>3. /\ rows \in FiniteBodies /\ \A n \in rows.nodes : Allowed(q, n)
        /\ Cardinality(rows.nodes) <= q.maxNodes /\ Cardinality(rows.links) <= q.maxLinks
    BY <2>1, <2>2, CappedFilteredFit
  <2>4. Fits(q, rows)
    BY <1>2, <2>3 DEF Fits
  <2>5. QED
    BY <2>3, <2>4 DEF RowsFit
<1>3. CASE q.kind = "graph"
  <2>1. rows \in CappedFiltered(q, Cap(q.maxNodes), Cap(q.maxLinks))
    BY <1>3 DEF RowsOf, FetchPrecalcCapped
  <2>2. Cap(q.maxNodes) \in Int /\ Cap(q.maxLinks) \in Int
    BY <1>1, <1>3, Caps DEF IsRequest
  <2>3. rows \in FiniteBodies /\ \A n \in rows.nodes : Allowed(q, n)
    BY <2>1, <2>2, CappedFilteredFit
  <2>4. QED
    BY <1>3, <2>3 DEF RowsFit
<1>4. QED
  BY <1>2, <1>3

LEMMA CommunityRows ==
  ASSUME TablesTyped, NEW q \in asked, q.kind \in {"overview", "communities"},
         NEW stmt \in {"supernodes", "communityLinks"}, NEW rows \in RowsOf(stmt, q)
  PROVE  rows \in FiniteBodies /\ RowsFit(q, stmt, rows)
<1>1. CASE stmt = "supernodes"
  <2>1. rows = [nodes |-> tables["communities"].nodes, links |-> {}]
    BY <1>1 DEF RowsOf, OfNodes, CommunitySupernodes
  <2>2. rows \in FiniteBodies
    BY <2>1, NodesOnly DEF Tables
  <2>3. QED
    BY <1>1, <2>2 DEF RowsFit
<1>2. CASE stmt = "communityLinks"
  <2> DEFINE D == tables["communities"].links
  <2>1. PICK L \in CommunityLinks(q) : rows = [nodes |-> {}, links |-> L]
    BY <1>2 DEF RowsOf, OfLinks
  <2>2. L \in kSubset(IF q.maxLinks < Cardinality(D) THEN q.maxLinks ELSE Cardinality(D), D)
    BY <2>1 DEF CommunityLinks, Limited
  <2>3. q.maxLinks \in Int
    BY RequestsTyped DEF IsRequest
  <2>4. IsFiniteSet(D)
    BY LinksOnly DEF Tables
  <2>5. L \subseteq D /\ Cardinality(L) <= q.maxLinks
    BY <2>2, <2>3, <2>4, Taken
  <2>6. rows \in FiniteBodies
    BY <2>1, <2>5, LinksOnly DEF Tables
  <2>7. rows.links = L
    BY <2>1
  <2>8. QED
    BY <1>2, <2>5, <2>6, <2>7 DEF RowsFit
<1>3. QED
  BY <1>1, <1>2

LEMMA RegionRows ==
  ASSUME TablesTyped, NEW q \in asked, q.kind = "region",
         NEW stmt \in {"boxNodes", "boxLinks"}, NEW rows \in RowsOf(stmt, q)
  PROVE  rows \in FiniteBodies /\ RowsFit(q, stmt, rows)
<1>1. /\ AtLeast1(q.maxNodes) \in Int /\ AtLeast1(q.maxLinks) \in Int
  BY RequestsTyped, Caps DEF IsRequest
<1>2. CASE stmt = "boxNodes"
  <2> DEFINE N == {n \in tables["precalc"].nodes : n \in q.box}
             k == AtLeast1(q.maxNodes)
  <2>1. PICK S \in NodesInBoundingBox(q) : rows = [nodes |-> S, links |-> {}]
    BY <1>2 DEF RowsOf, OfNodes
  <2>2. S \in kSubset(IF k < Cardinality(N) THEN k ELSE Cardinality(N), N)
    BY <2>1 DEF NodesInBoundingBox, Limited
  <2>3. N \in SUBSET tables["precalc"].nodes
    OBVIOUS
  <2>4. IsFiniteSet(N)
    BY <2>3, NodesOnly DEF Tables
  <2>5. S \subseteq N /\ Cardinality(S) <= k
    BY <1>1, <2>2, <2>4, Taken
  <2>6. rows \in FiniteBodies
    BY <2>1, <2>3, <2>5, NodesOnly DEF Tables
  <2>7. rows.nodes = S
    BY <2>1
  <2>8. QED
    BY <1>2, <2>5, <2>6, <2>7 DEF RowsFit
<1>3. CASE stmt = "boxLinks"
  <2> DEFINE D == Among(tables["precalc"].links, q.box)
             k == AtLeast1(q.maxLinks)
  <2>1. PICK L \in LinksInBoundingBox(q) : rows = [nodes |-> {}, links |-> L]
    BY <1>3 DEF RowsOf, OfLinks
  <2>2. L \in kSubset(IF k < Cardinality(D) THEN k ELSE Cardinality(D), D)
    BY <2>1 DEF LinksInBoundingBox, Limited
  <2>3. D \in SUBSET tables["precalc"].links
    BY DEF Among
  <2>4. IsFiniteSet(D)
    BY <2>3, LinksOnly DEF Tables
  <2>5. L \subseteq D /\ Cardinality(L) <= k
    BY <1>1, <2>2, <2>4, Taken
  <2>6. rows \in FiniteBodies
    BY <2>1, <2>3, <2>5, LinksOnly DEF Tables
  <2>7. D \subseteq q.box \X q.box
    <3>1. tables["precalc"].links \subseteq tables["precalc"].nodes \X tables["precalc"].nodes
      BY ApiAssumption DEF TablesTyped, Tables
    <3>2. QED
      BY <3>1 DEF Among
  <2>8. rows.links = L
    BY <2>1
  <2>9. QED
    BY <1>3, <2>5, <2>6, <2>7, <2>8 DEF RowsFit
<1>4. QED
  BY <1>2, <1>3

LEMMA BundleRows ==
  ASSUME TablesTyped, NEW q \in asked, q.kind = "bundles", NEW rows \in RowsOf("bundles", q)
  PROVE  rows \in FiniteBodies /\ RowsFit(q, "bundles", rows)
<1>1. rows = [nodes |-> {}, links |-> EdgeBundles(q)]
  BY DEF RowsOf, OfLinks
<1>2. /\ EdgeBundles(q) \in SUBSET tables["bundles"].links
      /\ \A l \in EdgeBundles(q) : Strength[l] >= q.minWeight
  BY DEF EdgeBundles
<1>3. rows \in FiniteBodies
  BY <1>1, <1>2, LinksOnly DEF Tables
<1>4. rows.links = EdgeBundles(q)
  BY <1>1
<1>5. Fits(q, rows)
  BY <1>2, <1>4 DEF Fits
<1>6. QED
  BY <1>3, <1>5 DEF RowsFit

LEMMA SubgraphRows ==
  ASSUME TablesTyped, NEW q \in asked, q.kind = "community",
         NEW stmt \in {"community", "subgraph"}, NEW rows \in RowsOf(stmt, q)
  PROVE  rows \in FiniteBodies /\ RowsFit(q, stmt, rows)
<1>1. CASE stmt = "community"
  <2> DEFINE S == tables["communities"].nodes \cap {q.id}
  <2>1. rows = [nodes |-> S, links |-> {}] /\ S \in SUBSET tables["communities"].nodes
    BY <1>1 DEF RowsOf, OfNodes, CommunitySupernodes
  <2> HIDE DEF S
  <2>2. rows \in FiniteBodies
    BY <2>1, NodesOnly DEF Tables
  <2>3. QED
    BY <1>1, <2>2 DEF RowsFit
<1>2. CASE stmt = "subgraph"
  <2> DEFINE S == {n \in tables["precalc"].nodes : Community[n] = q.id}
             L == Among(tables["precalc"].links, S)
             k == q.maxNodes + q.maxLinks
             j == IF k > Cardinality(L) THEN k - Cardinality(L) ELSE 0
  <2>1. PICK T \in Limited(S, j, Unordered), M \in Limited(L, k, Unordered) :
          rows = [nodes |-> T, links |-> M]
    BY <1>2 DEF RowsOf, CommunitySubgraph
  <2>2. /\ T \in kSubset(IF j < Cardinality(S) THEN j ELSE Cardinality(S), S)
        /\ M \in kSubset(IF k < Cardinality(L) THEN k ELSE Cardinality(L), L)
    BY <2>1 DEF Limited
  <2>3. S \in SUBSET tables["precalc"].nodes /\ L \in SUBSET tables["precalc"].links
    BY DEF Among
  <2>4. T \in SUBSET S /\ M \in SUBSET L
    BY <2>2 DEF kSubset
  <2>5. tables["precalc"] \in FiniteBodies
    BY TableIs DEF Tables
  <2>6. \A n \in S : Community[n] = q.id
    OBVIOUS
  <2> HIDE DEF S, L
  <2>7. rows \in FiniteBodies
    BY <2>1, <2>3, <2>4, <2>5, SmallerBody
  <2>8. rows.nodes = T
    BY <2>1
  <2>9. QED
    BY <1>2, <2>4, <2>6, <2>7, <2>8 DEF RowsFit
<1>3. QED
  BY <1>1, <1>2

LEMMA DetailsRows ==
  ASSUME TablesTyped, NEW q \in asked, q.kind = "details",
         NEW stmt \in {"node", "neighbors"}, NEW rows \in RowsOf(stmt, q)
  PROVE  rows \in FiniteBodies /\ RowsFit(q, stmt, rows)
<1>1. CASE stmt = "node"
  <2> DEFINE S == tables["precalc"].nodes \cap {q.id}
  <2>1. rows = [nodes |-> S, links |-> {}] /\ S \in SUBSET tables["precalc"].nodes
    BY <1>1 DEF RowsOf, OfNodes
  <2>2. S = {} \/ S = {q.id}
    OBVIOUS
  <2> HIDE DEF S
  <2>3. rows \in FiniteBodies
    BY <2>1, NodesOnly DEF Tables
  <2>4. rows = None \/ rows = [None EXCEPT !.nodes = {q.id}]
    BY <2>1, <2>2 DEF None
  <2>5. QED
    BY <1>1, <2>3, <2>4 DEF RowsFit
<1>2. CASE stmt = "neighbors"
  <2> DEFINE g == tables["precalc"]
             D == {l \in g.links : q.id \in {l[1], l[2]}}
             N == {n \in g.nodes \ {q.id} : Degree(D, n) > 0}
             k == q.maxNodes
  <2>1. PICK S \in NodeNeighbors(q) : rows = [nodes |-> S, links |-> {}]
    BY <1>2 DEF RowsOf, OfNodes
  <2>2. S \in kSubset(IF k < Cardinality(N) THEN k ELSE Cardinality(N), N)
    BY <2>1 DEF NodeNeighbors, Limited
  <2>3. N \in SUBSET g.nodes
    OBVIOUS
  <2>4. IsFiniteSet(N)
    BY <2>3, NodesOnly DEF Tables
  <2>5. k \in Int
    BY RequestsTyped DEF IsRequest
  <2>6. S \subseteq N /\ Cardinality(S) <= k
    BY <2>2, <2>4, <2>5, Taken
  <2>7. rows \in FiniteBodies
    BY <2>1, <2>3, <2>6, NodesOnly DEF Tables
  <2>8. rows.nodes = S
    BY <2>1
  <2>9. QED
    BY <1>2, <2>6, <2>7, <2>8 DEF RowsFit
<1>3. QED
  BY <1>1, <1>2

LEMMA SearchRows ==
  ASSUME TablesTyped, NEW q \in asked, q.kind = "search", NEW rows \in RowsOf("search", q)
  PROVE  rows \in FiniteBodies /\ RowsFit(q, "search", rows)
<1> DEFINE N == tables["precalc"].nodes \cap q.matching
           k == q.maxNodes
<1>1. PICK S \in SearchGraphNodes(q) : rows = [nodes |-> S, links |-> {}]
  BY DEF RowsOf, OfNodes
<1>2. S \in kSubset(IF k < Cardinality(N) THEN k ELSE Cardinality(N), N)
  BY <1>1 DEF SearchGraphNodes, Limited
<1>3. N \in SUBSET tables["precalc"].nodes
  OBVIOUS
<1>4. IsFiniteSet(N)
  BY <1>3, NodesOnly DEF Tables
<1>5. k \in Int
  BY RequestsTyped DEF IsRequest
<1>6. S \subseteq N /\ Cardinality(S) <= k
  BY <1>2, <1>4, <1>5, Taken
<1>7. rows \in FiniteBodies
  BY <1>1, <1>3, <1>6, NodesOnly DEF Tables
<1>8. rows.nodes = S
  BY <1>1
<1>9. Fits(q, rows)
  BY <1>6, <1>8 DEF Fits
<1>10. QED
  BY <1>7, <1>9 DEF RowsFit

LEMMA RowsAreFit ==
  ASSUME TablesTyped, NEW q \in asked, NEW stmt \in Statements, OfKind(q, stmt),
         NEW rows \in RowsOf(stmt, q)
  PROVE  rows \in FiniteBodies /\ RowsFit(q, stmt, rows)
<1>1. IsRequest(q)
  BY RequestsTyped
<1>2. CASE q.kind = "graph" /\ stmt = "legacy"
  <2>1. rows = tables["legacy"]
    BY <1>2 DEF RowsOf, LegacyGraph
  <2>2. rows \in FiniteBodies
    BY <2>1, TableIs DEF Tables
  <2>3. QED
    BY <1>2, <2>2 DEF RowsFit
<1>3. CASE q.kind \in {"graph", "export"} /\ stmt = "precalc"
  BY <1>3, PrecalcRows
<1>4. CASE q.kind \in {"overview", "communities"}
  <2>1. stmt \in {"supernodes", "communityLinks"}
    BY <1>4 DEF OfKind
  <2>2. QED
    BY <1>4, <2>1, CommunityRows
<1>5. CASE q.kind = "region"
  <2>1. stmt \in {"boxNodes", "boxLinks"}
    BY <1>5 DEF OfKind
  <2>2. QED
    BY <1>5, <2>1, RegionRows
<1>6. CASE q.kind = "bundles"
  <2>1. stmt = "bundles"
    BY <1>6 DEF OfKind
  <2>2. QED
    BY <1>6, <2>1, BundleRows
<1>7. CASE q.kind = "community"
  <2>1. stmt \in {"community", "subgraph"}
    BY <1>7 DEF OfKind
  <2>2. QED
    BY <1>7, <2>1, SubgraphRows
<1>8. CASE q.kind = "details"
  <2>1. stmt \in {"node", "neighbors"}
    BY <1>8 DEF OfKind
  <2>2. QED
    BY <1>8, <2>1, DetailsRows
<1>9. CASE q.kind = "search"
  <2>1. stmt = "search"
    BY <1>9 DEF OfKind
  <2>2. QED
    BY <1>9, <2>1, SearchRows
<1>10. q.kind \in {"graph", "export"} => \/ stmt = "precalc"
                                         \/ q.kind = "graph" /\ stmt = "legacy"
  BY DEF OfKind
<1>11. QED
  BY <1>1, <1>2, <1>3, <1>4, <1>5, <1>6, <1>7, <1>8, <1>9, <1>10 DEF IsRequest

-----------------------------------------------------------------------------
\* The steps.

LEMMA UnderWayIs ==
  ASSUME AskingFine, NEW r \in Requesters, UnderWay(r)
  PROVE  asking[r] \in UnderWayType /\ Suited(asking[r])
<1>1. Fine(asking[r])
  BY DEF AskingFine
<1>2. asking[r] # Rest
  BY DEF UnderWay, Rest
<1>3. asking[r] \notin FillType
  BY DEF UnderWay, FillType
<1>4. QED
  BY <1>1, <1>2, <1>3 DEF Fine

\* What the step of one requester leaves behind.
Progress(r) ==
  /\ \E x : Fine(x) /\ asking' = [asking EXCEPT ![r] = x]
  /\ GoodAnswer(answer')

LEMMA ProgressFine ==
  ASSUME AnswersIInv, NEW r \in Requesters, Progress(r), UNCHANGED <<asked, tables, rewrites, cache>>
  PROVE  AnswersIInv'
<1>1. PICK x : Fine(x) /\ asking' = [asking EXCEPT ![r] = x]
  BY DEF Progress
<1>2. DOMAIN asking = Requesters
  BY DEF AnswersIInv, AskingFine
<1>3. /\ asking' = [s \in Requesters |-> asking'[s]]
      /\ \A s \in Requesters : asking'[s] = IF s = r THEN x ELSE asking[s]
  BY <1>1, <1>2
<1>4. \A y : Fine(y)' <=> Fine(y)
  BY DEF Fine, FillType, UnderWayType
<1>5. AskingFine'
  <2>1. \A s \in Requesters : Fine(asking'[s])
    BY <1>1, <1>3 DEF AnswersIInv, AskingFine
  <2>2. \A s \in Requesters : Fine(asking[s])'
    BY <2>1 DEF Fine, FillType, UnderWayType
  <2>3. QED
    BY <1>3, <2>2 DEF AskingFine
<1>6. TablesTyped' /\ CacheFine'
  BY DEF AnswersIInv, TablesTyped, CacheFine
<1>7. GoodAnswer(answer)'
  BY DEF Progress, GoodAnswer
<1>8. QED
  BY <1>5, <1>6, <1>7 DEF AnswersIInv

LEMMA RestIsFine == Fine(Rest)
BY DEF Fine

LEMMA InTime ==
  ASSUME NEW x \in UnderWayType, Suited(x)
  PROVE  /\ x.age \in 0 .. QueryTimeout /\ x.req \in asked
         /\ Deadlined(x.req) => x.age <= TTL + QueryTimeout
BY Times DEF UnderWayType, Suited

LEMMA AnswerProgress ==
  ASSUME AskingFine, NEW r \in Requesters, UnderWay(r), NEW body \in FiniteBodies \cup {Error},
         body # Error => Fits(asking[r].req, body), Answer(r, body)
  PROVE  Progress(r)
<1>1. /\ answer' = [to |-> asking[r].req, body |-> body, age |-> asking[r].age]
      /\ asking' = [asking EXCEPT ![r] = Rest]
  BY DEF Answer, Answered
<1>2. /\ asking[r].age \in 0 .. QueryTimeout /\ asking[r].req \in asked
      /\ Deadlined(asking[r].req) => asking[r].age <= TTL + QueryTimeout
  BY UnderWayIs, InTime
<1>3. answer'.to = asking[r].req /\ answer'.body = body /\ answer'.age = asking[r].age
  BY <1>1
<1>4. GoodAnswer(answer')
  BY <1>2, <1>3 DEF GoodAnswer
<1>5. QED
  BY <1>1, <1>4, RestIsFine DEF Progress

LEMMA FillProgress ==
  ASSUME NEW r \in Requesters, NEW q \in asked, NEW body \in FiniteBodies, Fits(q, body),
         NEW age \in 0 .. QueryTimeout, AnswerAndFill(r, q, body, age)
  PROVE  Progress(r)
<1> DEFINE x == [pc |-> "fill", key |-> Key(q), body |-> body, age |-> age]
<1>1. answer' = [to |-> q, body |-> body, age |-> age] /\ asking' = [asking EXCEPT ![r] = x]
  BY DEF AnswerAndFill, Answered
<1>2. age <= TTL + QueryTimeout
  BY Times
<1>3. GoodAnswer(answer')
  <2>1. answer'.to = q /\ answer'.body = body /\ answer'.age = age
    BY <1>1
  <2>2. QED
    BY <1>2, <2>1 DEF GoodAnswer
<1>4. x \in FillType /\ x.key = Key(q) /\ x.body = body
  BY DEF FillType
<1> HIDE DEF x
<1>5. Fine(x)
  BY <1>4, KeyFits DEF Fine
<1>6. QED
  BY <1>1, <1>3, <1>5 DEF Progress

LEMMA RespondProgress ==
  ASSUME AskingFine, NEW r \in Requesters, UnderWay(r), NEW body \in FiniteBodies,
         Fits(asking[r].req, body), Respond(r, body)
  PROVE  Progress(r)
<1>1. AnswerAndFill(r, asking[r].req, body, asking[r].age)
  BY DEF Respond
<1>2. asking[r].age \in 0 .. QueryTimeout /\ asking[r].req \in asked
  BY UnderWayIs, InTime
<1>3. PICK q \in asked, age \in 0 .. QueryTimeout : q = asking[r].req /\ age = asking[r].age
  BY <1>2
<1>4. AnswerAndFill(r, q, body, age) /\ Fits(q, body)
  BY <1>1, <1>3
<1>5. QED
  BY <1>4, FillProgress

LEMMA WriteProgress ==
  ASSUME AskingFine, NEW r \in Requesters, UnderWay(r), NEW body \in FiniteBodies,
         Fits(asking[r].req, body), WriteGraphResponse(r, body)
  PROVE  Progress(r)
BY AnswerProgress, RespondProgress DEF WriteGraphResponse

LEMMA GotoProgress ==
  ASSUME AskingFine, NEW r \in Requesters, UnderWay(r), NEW stmt \in Statements,
         NEW part \in FiniteBodies, OfKind(asking[r].req, stmt),
         PartFits(asking[r].req, stmt, part), Goto(r, stmt, part)
  PROVE  Progress(r)
<1>1. /\ asking' = [asking EXCEPT ![r].pc = "ready", ![r].stmt = stmt, ![r].part = part,
                      ![r].rows = None]
      /\ answer' = Nobody
  BY DEF Goto
<1>2. asking[r] \in UnderWayType /\ Suited(asking[r])
  BY UnderWayIs
<1>3. PICK a \in UnderWayType : a = asking[r]
  BY <1>2
<1> DEFINE x == [a EXCEPT !.pc = "ready", !.stmt = stmt, !.part = part, !.rows = None]
<1>4. asking' = [asking EXCEPT ![r] = x]
  <2>1. DOMAIN asking = Requesters
    BY DEF AskingFine
  <2>2. QED
    BY <1>1, <1>3, <2>1
<1>5. /\ x \in UnderWayType /\ x.req = a.req /\ x.stmt = stmt /\ x.part = part /\ x.pc = "ready"
      /\ x.age = a.age /\ x.left = a.left
  BY NoneFits DEF UnderWayType
<1> HIDE DEF x
<1>6. Suited(x)
  BY <1>2, <1>3, <1>5 DEF Suited
<1>7. GoodAnswer(answer')
  BY <1>1 DEF GoodAnswer
<1>8. QED
  BY <1>4, <1>5, <1>6, <1>7 DEF Progress, Fine

\* What capGraph leaves.
LEMMA CapGraphFits ==
  ASSUME TablesTyped, NEW q \in asked, q.kind = "graph", NEW b \in FiniteBodies,
         NEW S \in SUBSET b.nodes, \A n \in S : Allowed(q, n),
         b.links \subseteq UNION {g.links : g \in Contents},
         NEW body \in CapGraph(S, b.links, q)
  PROVE  body \in FiniteBodies /\ Fits(q, body)
<1> DEFINE k == Cap(q.maxNodes)
           m == Cap(q.maxLinks)
<1>1. k \in Int /\ m \in Int
  BY RequestsTyped, Caps DEF IsRequest
<1>2. PICK T \in kSubset(IF k < Cardinality(S) THEN k ELSE Cardinality(S), S) :
      \E M \in kSubset(IF m < Cardinality(Among(b.links, T)) THEN m
                       ELSE Cardinality(Among(b.links, T)), Among(b.links, T)) :
        body = [nodes |-> T, links |-> M]
  BY DEF CapGraph, Limited
<1>3. PICK M \in kSubset(IF m < Cardinality(Among(b.links, T)) THEN m
                         ELSE Cardinality(Among(b.links, T)), Among(b.links, T)) :
        body = [nodes |-> T, links |-> M]
  BY <1>2
<1>4. Among(b.links, T) \in SUBSET b.links
  BY DEF Among
<1>5. IsFiniteSet(S) /\ IsFiniteSet(Among(b.links, T))
  BY <1>4, BodyIs, FS_Subset
<1> HIDE DEF k, m
<1>6. T \subseteq S /\ Cardinality(T) <= k
  BY <1>1, <1>2, <1>5, Taken
<1>7. M \subseteq Among(b.links, T) /\ Cardinality(M) <= m
  BY <1>1, <1>3, <1>5, Taken
<1>8. body \in FiniteBodies
  BY <1>3, <1>4, <1>6, <1>7, SmallerBody
<1>9. M \subseteq T \X T
  <2>1. \A l \in b.links : \E g \in Contents : l \in g.nodes \X g.nodes
    BY ApiAssumption
  <2>2. \A l \in M : l[1] \in T /\ l[2] \in T /\ l \in b.links
    BY <1>7 DEF Among
  <2>3. ASSUME NEW l \in M PROVE l \in T \X T
    <3>1. PICK g \in Contents : l \in g.nodes \X g.nodes
      BY <2>1, <2>2
    <3>2. l = <<l[1], l[2]>>
      BY <3>1
    <3>3. QED
      BY <2>2, <3>2
  <2>4. QED
    BY <2>3
<1>10. body.nodes = T /\ body.links = M
  BY <1>3
<1>11. Fits(q, body)
  BY <1>6, <1>7, <1>9, <1>10 DEF Fits, k, m
<1>12. QED
  BY <1>8, <1>11

LEMMA EmptyFits ==
  ASSUME TablesTyped, NEW q \in asked, q.kind \in {"graph", "export"}
  PROVE  Fits(q, None)
<1>1. CASE q.kind = "graph"
  <2>1. Cap(q.maxNodes) \in Nat /\ Cap(q.maxLinks) \in Nat
    BY <1>1, RequestsTyped, Caps DEF IsRequest
  <2>2. QED
    BY <1>1, <2>1, NoneFits DEF Fits
<1>2. CASE q.kind = "export"
  <2>1. q.maxNodes \in Nat /\ q.maxLinks \in Nat
    BY <1>2, RequestsTyped DEF IsRequest
  <2>2. QED
    BY <1>2, <2>1, NoneFits DEF Fits
<1>3. QED
  BY <1>1, <1>2

\* The fields of a request under way.
LEMMA Fields ==
  ASSUME AskingFine, NEW r \in Requesters, UnderWay(r)
  PROVE  /\ asking[r].req \in asked /\ asking[r].stmt \in Statements
         /\ asking[r].rows \in FiniteBodies /\ asking[r].part \in FiniteBodies
         /\ OfKind(asking[r].req, asking[r].stmt)
         /\ PartFits(asking[r].req, asking[r].stmt, asking[r].part)
         /\ asking[r].pc = "query" => RowsFit(asking[r].req, asking[r].stmt, asking[r].rows)
BY UnderWayIs DEF UnderWayType, Suited

LEMMA NextSourceProgress ==
  ASSUME TablesTyped, AskingFine, NEW r \in Requesters, UnderWay(r),
         asking[r].req.kind = "graph", NextSource(r)
  PROVE  Progress(r)
<1>1. CASE Goto(r, "legacy", None)
  <2>1. OfKind(asking[r].req, "legacy") /\ PartFits(asking[r].req, "legacy", None)
    BY DEF OfKind, PartFits
  <2>2. QED
    BY <1>1, <2>1, NoneFits, GotoProgress DEF Statements
<1>2. CASE WriteGraphResponse(r, None)
  BY <1>2, NoneFits, EmptyFits, Fields, WriteProgress
<1>3. QED
  BY <1>1, <1>2 DEF NextSource

\* The rows of a statement as its handler has them.
LEMMA Rows ==
  ASSUME AskingFine, NEW r \in Requesters, asking[r].pc = "query"
  PROVE  /\ UnderWay(r)
         /\ asking[r].req \in asked /\ asking[r].stmt \in Statements
         /\ asking[r].rows \in FiniteBodies /\ asking[r].part \in FiniteBodies
         /\ OfKind(asking[r].req, asking[r].stmt)
         /\ RowsFit(asking[r].req, asking[r].stmt, asking[r].rows)
         /\ PartFits(asking[r].req, asking[r].stmt, asking[r].part)
BY Fields DEF UnderWay

LEMMA GraphProgress ==
  ASSUME TablesTyped, AskingFine, NEW r \in Requesters, asking[r].pc = "query",
         GetGraphData(r) \/ HandleLegacyGraph(r)
  PROVE  Progress(r)
<1>1. PICK q \in asked, b \in FiniteBodies : q = asking[r].req /\ b = asking[r].rows
  BY Rows
<1>2. b.links \subseteq UNION {g.links : g \in Contents}
  BY DEF FiniteBodies, Bodies
<1>3. CASE GetGraphData(r)
  <2>1. asking[r].stmt = "precalc" /\ q.kind = "graph"
    BY <1>1, <1>3 DEF GetGraphData
  <2>2. \A n \in b.nodes : Allowed(q, n)
    <3>1. RowsFit(q, "precalc", b)
      BY <1>1, <2>1, Rows
    <3>2. QED
      BY <3>1 DEF RowsFit
  <2>3. CASE NextSource(r)
    BY <1>1, <2>1, <2>3, Rows, NextSourceProgress
  <2>4. CASE \E body \in CapGraph(b.nodes, b.links, q) : WriteGraphResponse(r, body)
    <3>1. PICK body \in CapGraph(b.nodes, b.links, q) : WriteGraphResponse(r, body)
      BY <2>4
    <3>2. body \in FiniteBodies /\ Fits(q, body)
      BY <1>2, <2>1, <2>2, CapGraphFits
    <3>3. QED
      BY <1>1, <3>1, <3>2, Rows, WriteProgress
  <2>5. QED
    BY <1>1, <1>3, <2>3, <2>4 DEF GetGraphData
<1>4. CASE HandleLegacyGraph(r)
  <2> DEFINE S == {n \in b.nodes : Allowed(q, n)}
  <2>1. asking[r].stmt = "legacy"
    BY <1>4 DEF HandleLegacyGraph
  <2>2. q.kind = "graph"
    <3>1. OfKind(q, "legacy") /\ IsRequest(q)
      BY <1>1, <2>1, Rows, RequestsTyped
    <3>2. QED
      BY <3>1 DEF OfKind, IsRequest
  <2>3. PICK body \in CapGraph(S, b.links, q) : WriteGraphResponse(r, body)
    BY <1>1, <1>4 DEF HandleLegacyGraph
  <2>4. S \in SUBSET b.nodes /\ \A n \in S : Allowed(q, n)
    OBVIOUS
  <2> HIDE DEF S
  <2>5. body \in FiniteBodies /\ Fits(q, body)
    BY <1>2, <2>2, <2>3, <2>4, CapGraphFits
  <2>6. QED
    BY <1>1, <2>3, <2>5, Rows, WriteProgress
<1>5. QED
  BY <1>3, <1>4

LEMMA ExportProgress ==
  ASSUME TablesTyped, AskingFine, NEW r \in Requesters, asking[r].pc = "query", ExportGraph(r)
  PROVE  Progress(r)
<1>1. /\ asking[r].stmt = "precalc" /\ asking[r].req.kind = "export"
      /\ Answer(r, asking[r].rows)
  BY DEF ExportGraph
<1>2. RowsFit(asking[r].req, "precalc", asking[r].rows) /\ asking[r].rows \in FiniteBodies
  BY <1>1, Rows
<1>3. Fits(asking[r].req, asking[r].rows)
  BY <1>1, <1>2 DEF RowsFit
<1>4. QED
  BY <1>1, <1>2, <1>3, Rows, AnswerProgress

\* The nodes of one statement with the links of the next.
LEMMA Joined ==
  ASSUME NEW b \in FiniteBodies, NEW c \in FiniteBodies
  PROVE  /\ [b EXCEPT !.links = c.links] \in FiniteBodies
         /\ [b EXCEPT !.links = c.links].nodes = b.nodes
         /\ [b EXCEPT !.links = c.links].links = c.links
BY DEF FiniteBodies, Bodies

LEMMA LevelProgress ==
  ASSUME TablesTyped, AskingFine, NEW r \in Requesters, asking[r].pc = "query",
         asking[r].req.kind \in {"overview", "communities"}, CommunityLevel(r)
  PROVE  Progress(r)
<1>1. PICK q \in asked, b \in FiniteBodies, p \in FiniteBodies :
        q = asking[r].req /\ b = asking[r].rows /\ p = asking[r].part
  BY Rows
<1>2. q.maxNodes \in Int /\ q.maxLinks \in Int
  BY <1>1, RequestsTyped DEF IsRequest
<1>3. CASE asking[r].stmt = "supernodes"
  <2>1. PICK S \in Limited(b.nodes, q.maxNodes, Larger) :
          Goto(r, "communityLinks", [None EXCEPT !.nodes = S])
    BY <1>1, <1>3 DEF CommunityLevel
  <2>2. S \in kSubset(IF q.maxNodes < Cardinality(b.nodes) THEN q.maxNodes
                      ELSE Cardinality(b.nodes), b.nodes)
    BY <2>1 DEF Limited
  <2>3. S \subseteq b.nodes /\ Cardinality(S) <= q.maxNodes
    BY <1>2, <2>2, BodyIs, Taken
  <2>4. [None EXCEPT !.nodes = S] = [nodes |-> S, links |-> {}]
    BY DEF None
  <2>5. PICK part \in FiniteBodies : part = [nodes |-> S, links |-> {}]
    BY <2>3, SmallerBody
  <2>6. part.nodes = S
    BY <2>5
  <2>7. PartFits(q, "communityLinks", part) /\ OfKind(q, "communityLinks")
    BY <1>1, <2>3, <2>6 DEF PartFits, OfKind
  <2>8. Goto(r, "communityLinks", part)
    BY <2>1, <2>4, <2>5
  <2>9. QED
    BY <1>1, <2>7, <2>8, Rows, GotoProgress DEF Statements
<1>4. CASE asking[r].stmt = "communityLinks"
  <2>1. Respond(r, [p EXCEPT !.links = b.links])
    BY <1>1, <1>4 DEF CommunityLevel
  <2>2. PICK body \in FiniteBodies :
          body = [p EXCEPT !.links = b.links] /\ body.nodes = p.nodes /\ body.links = b.links
    BY Joined
  <2>3. RowsFit(q, "communityLinks", b) /\ PartFits(q, "communityLinks", p)
    BY <1>1, <1>4, Rows
  <2>4. Fits(q, body)
    BY <1>1, <2>2, <2>3 DEF RowsFit, PartFits, Fits
  <2>5. QED
    BY <1>1, <2>1, <2>2, <2>4, Rows, RespondProgress
<1>5. QED
  BY <1>3, <1>4 DEF CommunityLevel

LEMMA RegionProgress ==
  ASSUME TablesTyped, AskingFine, NEW r \in Requesters, asking[r].pc = "query", GetGraphRegion(r)
  PROVE  Progress(r)
<1>1. PICK q \in asked, b \in FiniteBodies, p \in FiniteBodies :
        q = asking[r].req /\ b = asking[r].rows /\ p = asking[r].part
  BY Rows
<1>2. q.kind = "region"
  <2>1. OfKind(q, asking[r].stmt) /\ asking[r].stmt \in {"boxNodes", "boxLinks"} /\ IsRequest(q)
    BY <1>1, Rows, RequestsTyped DEF GetGraphRegion
  <2>2. QED
    BY <2>1 DEF OfKind, IsRequest
<1>3. CASE asking[r].stmt = "boxNodes"
  <2>1. Goto(r, "boxLinks", b)
    BY <1>1, <1>3 DEF GetGraphRegion
  <2>2. RowsFit(q, "boxNodes", b)
    BY <1>1, <1>3, Rows
  <2>3. PartFits(q, "boxLinks", b) /\ OfKind(q, "boxLinks")
    BY <1>2, <2>2 DEF RowsFit, PartFits, OfKind
  <2>4. QED
    BY <1>1, <2>1, <2>3, Rows, GotoProgress DEF Statements
<1>4. CASE asking[r].stmt = "boxLinks"
  <2>1. Respond(r, [p EXCEPT !.links = b.links])
    BY <1>1, <1>4 DEF GetGraphRegion
  <2>2. PICK body \in FiniteBodies :
          body = [p EXCEPT !.links = b.links] /\ body.nodes = p.nodes /\ body.links = b.links
    BY Joined
  <2>3. RowsFit(q, "boxLinks", b) /\ PartFits(q, "boxLinks", p)
    BY <1>1, <1>4, Rows
  <2>4. Fits(q, body)
    BY <1>2, <2>2, <2>3 DEF RowsFit, PartFits, Fits
  <2>5. QED
    BY <1>1, <2>1, <2>2, <2>4, Rows, RespondProgress
<1>5. QED
  BY <1>3, <1>4 DEF GetGraphRegion

LEMMA BundlesProgress ==
  ASSUME TablesTyped, AskingFine, NEW r \in Requesters, asking[r].pc = "query", GetEdgeBundles(r)
  PROVE  Progress(r)
<1>1. asking[r].stmt = "bundles" /\ Respond(r, asking[r].rows)
  BY DEF GetEdgeBundles
<1>2. RowsFit(asking[r].req, "bundles", asking[r].rows) /\ asking[r].rows \in FiniteBodies
  BY <1>1, Rows
<1>3. Fits(asking[r].req, asking[r].rows)
  BY <1>2 DEF RowsFit
<1>4. QED
  BY <1>1, <1>2, <1>3, Rows, RespondProgress

LEMMA SearchProgress ==
  ASSUME TablesTyped, AskingFine, NEW r \in Requesters, asking[r].pc = "query", SearchNode(r)
  PROVE  Progress(r)
<1>1. asking[r].stmt = "search" /\ Answer(r, asking[r].rows)
  BY DEF SearchNode
<1>2. RowsFit(asking[r].req, "search", asking[r].rows) /\ asking[r].rows \in FiniteBodies
  BY <1>1, Rows
<1>3. Fits(asking[r].req, asking[r].rows)
  BY <1>2 DEF RowsFit
<1>4. QED
  BY <1>1, <1>2, <1>3, Rows, AnswerProgress

LEMMA CommunityProgress ==
  ASSUME TablesTyped, AskingFine, NEW r \in Requesters, asking[r].pc = "query", GetCommunityByID(r)
  PROVE  Progress(r)
<1>1. PICK q \in asked, b \in FiniteBodies : q = asking[r].req /\ b = asking[r].rows
  BY Rows
<1>2. q.kind = "community"
  <2>1. OfKind(q, asking[r].stmt) /\ asking[r].stmt \in {"community", "subgraph"} /\ IsRequest(q)
    BY <1>1, Rows, RequestsTyped DEF GetCommunityByID
  <2>2. QED
    BY <2>1 DEF OfKind, IsRequest
<1>3. CASE asking[r].stmt = "community"
  <2>1. Answer(r, Error) \/ Goto(r, "subgraph", None)
    BY <1>3 DEF GetCommunityByID
  <2>2. OfKind(q, "subgraph") /\ PartFits(q, "subgraph", None)
    BY <1>2 DEF OfKind, PartFits
  <2>3. QED
    BY <1>1, <2>1, <2>2, Rows, NoneFits, AnswerProgress, GotoProgress DEF Statements
<1>4. CASE asking[r].stmt = "subgraph"
  <2>1. PICK S \in Limited(b.nodes, q.maxNodes, Unordered) : Respond(r, [b EXCEPT !.nodes = S])
    BY <1>1, <1>4 DEF GetCommunityByID
  <2>2. S \in SUBSET b.nodes
    BY <2>1 DEF Limited, kSubset
  <2>3. [b EXCEPT !.nodes = S] = [nodes |-> S, links |-> b.links]
    BY BodyIs DEF Bodies
  <2>4. PICK body \in FiniteBodies : body = [nodes |-> S, links |-> b.links]
    BY <2>2, SmallerBody
  <2>5. RowsFit(q, "subgraph", b)
    BY <1>1, <1>4, Rows
  <2>6. body.nodes = S
    BY <2>4
  <2>7. Fits(q, body)
    BY <1>2, <2>2, <2>5, <2>6 DEF RowsFit, Fits
  <2>8. Respond(r, body)
    BY <2>1, <2>3, <2>4
  <2>9. QED
    BY <1>1, <2>7, <2>8, Rows, RespondProgress
<1>5. QED
  BY <1>3, <1>4 DEF GetCommunityByID

\* A node alone is an answer, when its neighbors cannot be had.
LEMMA NodeAloneFits ==
  ASSUME TablesTyped, NEW q \in asked, q.kind = "details", NEW p \in FiniteBodies, p.nodes = {q.id}
  PROVE  Fits(q, p)
<1>1. q.maxNodes \in Nat
  BY RequestsTyped DEF IsRequest
<1>2. Cardinality({q.id}) = 1
  BY FS_Singleton
<1>3. QED
  BY <1>1, <1>2 DEF Fits

LEMMA NodeProgress ==
  ASSUME TablesTyped, AskingFine, NEW r \in Requesters, asking[r].pc = "query", GetNodeDetails(r)
  PROVE  Progress(r)
<1>1. PICK q \in asked, b \in FiniteBodies, p \in FiniteBodies :
        q = asking[r].req /\ b = asking[r].rows /\ p = asking[r].part
  BY Rows
<1>2. q.kind = "details"
  <2>1. OfKind(q, asking[r].stmt) /\ asking[r].stmt \in {"node", "neighbors"} /\ IsRequest(q)
    BY <1>1, Rows, RequestsTyped DEF GetNodeDetails
  <2>2. QED
    BY <2>1 DEF OfKind, IsRequest
<1>3. CASE asking[r].stmt = "node"
  <2>1. RowsFit(q, "node", b)
    BY <1>1, <1>3, Rows
  <2>2. b = None \/ b = [None EXCEPT !.nodes = {q.id}]
    BY <2>1 DEF RowsFit
  <2>3. CASE b = None
    <3>1. Answer(r, Error)
      BY <1>1, <1>3, <2>3 DEF GetNodeDetails
    <3>2. QED
      BY <3>1, Rows, AnswerProgress
  <2>4. CASE b # None
    <3>1. Goto(r, "neighbors", b)
      BY <1>1, <1>3, <2>4 DEF GetNodeDetails
    <3>2. b.nodes = {q.id}
      BY <2>2, <2>4 DEF None
    <3>3. OfKind(q, "neighbors") /\ PartFits(q, "neighbors", b)
      BY <1>2, <3>2 DEF OfKind, PartFits
    <3>4. QED
      BY <1>1, <3>1, <3>3, Rows, GotoProgress DEF Statements
  <2>5. QED
    BY <2>3, <2>4
<1>4. CASE asking[r].stmt = "neighbors"
  <2>1. Answer(r, [p EXCEPT !.nodes = p.nodes \cup b.nodes])
    BY <1>1, <1>4 DEF GetNodeDetails
  <2>2. p.nodes = {q.id} /\ Cardinality(b.nodes) <= q.maxNodes
    <3>1. RowsFit(q, "neighbors", b) /\ PartFits(q, "neighbors", p)
      BY <1>1, <1>4, Rows
    <3>2. QED
      BY <3>1 DEF RowsFit, PartFits
  <2> DEFINE N == p.nodes \cup b.nodes
  <2>3. N = b.nodes \cup {q.id}
    BY <2>2
  <2>4. IsFiniteSet(N) /\ Cardinality(N) <= q.maxNodes + 1 /\ q.id \in N
    <3>1. IsFiniteSet(b.nodes) /\ Cardinality(b.nodes) \in Nat /\ q.maxNodes \in Nat
      BY <1>2, BodyIs, RequestsTyped DEF IsRequest
    <3>2. /\ IsFiniteSet(b.nodes \cup {q.id})
          /\ Cardinality(b.nodes \cup {q.id}) = IF q.id \in b.nodes THEN Cardinality(b.nodes)
                                                ELSE Cardinality(b.nodes) + 1
      BY <3>1, FS_AddElement
    <3>3. QED
      BY <2>2, <2>3, <3>1, <3>2
  <2>5. N \in SUBSET UNION {g.nodes : g \in Contents}
    BY BodyIs DEF Bodies
  <2> HIDE DEF N
  <2>6. [p EXCEPT !.nodes = N] = [nodes |-> N, links |-> p.links]
    BY BodyIs DEF Bodies
  <2>7. PICK body \in FiniteBodies : body = [nodes |-> N, links |-> p.links]
    <3>1. [nodes |-> N, links |-> p.links] \in FiniteBodies
      BY <2>4, <2>5, BodyIs DEF FiniteBodies, Bodies
    <3>2. QED
      BY <3>1
  <2>8. body.nodes = N
    BY <2>7
  <2>9. Fits(q, body)
    BY <1>2, <2>4, <2>8 DEF Fits
  <2>10. Answer(r, body)
    BY <2>1, <2>6, <2>7 DEF N
  <2>11. QED
    BY <1>1, <2>9, <2>10, Rows, AnswerProgress
<1>5. QED
  BY <1>3, <1>4 DEF GetNodeDetails

LEMMA BrokenProgress ==
  ASSUME TablesTyped, AskingFine, NEW r \in Requesters, asking[r].pc = "query", Broken(r)
  PROVE  Progress(r)
<1>1. PICK q \in asked, p \in FiniteBodies : q = asking[r].req /\ p = asking[r].part
  BY Rows
<1>2. CASE q.kind = "graph" /\ asking[r].stmt = "precalc"
  <2>1. NextSource(r)
    BY <1>1, <1>2 DEF Broken
  <2>2. QED
    BY <1>1, <1>2, <2>1, Rows, NextSourceProgress
<1>3. CASE asking[r].stmt = "neighbors"
  <2>1. Answer(r, p)
    BY <1>1, <1>3 DEF Broken
  <2>2. OfKind(q, "neighbors") /\ IsRequest(q) /\ PartFits(q, "neighbors", p)
    BY <1>1, <1>3, Rows, RequestsTyped
  <2>3. q.kind = "details" /\ p.nodes = {q.id}
    BY <2>2 DEF OfKind, IsRequest, PartFits
  <2>4. Fits(q, p)
    BY <2>3, NodeAloneFits
  <2>5. QED
    BY <1>1, <2>1, <2>4, Rows, AnswerProgress
<1>4. CASE ~(q.kind = "graph" /\ asking[r].stmt = "precalc") /\ asking[r].stmt # "neighbors"
  <2>1. Answer(r, Error)
    BY <1>1, <1>4 DEF Broken
  <2>2. QED
    BY <2>1, Rows, AnswerProgress
<1>5. QED
  BY <1>2, <1>3, <1>4

LEMMA ArriveProgress ==
  ASSUME TablesTyped, AskingFine, NEW r \in Requesters, Arrive(r)
  PROVE  Progress(r)
<1>1. asking[r].pc = "query"
  BY DEF Arrive
<1>2. \/ GetGraphData(r) \/ HandleLegacyGraph(r) \/ ExportGraph(r)
      \/ GetGraphOverview(r) \/ GetCommunities(r) \/ GetGraphRegion(r)
      \/ GetEdgeBundles(r) \/ GetCommunityByID(r)
      \/ GetNodeDetails(r) \/ SearchNode(r) \/ Broken(r)
  BY DEF Arrive
<1>3. CASE GetGraphOverview(r) \/ GetCommunities(r)
  BY <1>1, <1>3, LevelProgress DEF GetGraphOverview, GetCommunities
<1>4. QED
  BY <1>1, <1>2, <1>3, GraphProgress, ExportProgress, RegionProgress, BundlesProgress,
     CommunityProgress, NodeProgress, SearchProgress, BrokenProgress

LEMMA IssueProgress ==
  ASSUME TablesTyped, AskingFine, NEW r \in Requesters, Issue(r)
  PROVE  Progress(r)
<1>1. PICK rows \in RowsOf(asking[r].stmt, asking[r].req) :
        asking' = [asking EXCEPT ![r].pc = "query", ![r].rows = rows,
                     ![r].age = IF asking[r].stmt \in SecondHalf THEN @ ELSE 0]
  BY DEF Issue
<1>2. UnderWay(r)
  BY DEF Issue, UnderWay
<1>3. asking[r] \in UnderWayType /\ Suited(asking[r])
  BY <1>2, UnderWayIs
<1>4. PICK a \in UnderWayType : a = asking[r]
  BY <1>3
<1> DEFINE age == IF a.stmt \in SecondHalf THEN a.age ELSE 0
           x == [a EXCEPT !.pc = "query", !.rows = rows, !.age = age]
<1>5. asking' = [asking EXCEPT ![r] = x]
  <2>1. DOMAIN asking = Requesters
    BY DEF AskingFine
  <2>2. QED
    BY <1>1, <1>4, <2>1
<1>6. rows \in FiniteBodies /\ RowsFit(a.req, a.stmt, rows)
  BY <1>1, <1>2, <1>4, Fields, RowsAreFit
<1>7. age \in 0 .. a.age /\ age \in 0 .. QueryTimeout
  BY Times DEF UnderWayType
<1> HIDE DEF age
<1>8. /\ x \in UnderWayType /\ x.req = a.req /\ x.stmt = a.stmt /\ x.part = a.part /\ x.pc = "query"
      /\ x.rows = rows /\ x.age = age /\ x.left = a.left
  BY <1>6, <1>7 DEF UnderWayType
<1> HIDE DEF x
<1>9. Deadlined(a.req) => age + a.left <= QueryTimeout
  <2>1. Deadlined(a.req) => a.age + a.left <= QueryTimeout
    BY <1>3, <1>4 DEF Suited
  <2>2. a.age \in Nat /\ a.left \in Nat /\ age <= a.age /\ age \in Nat
    BY <1>7, Times DEF UnderWayType
  <2>3. QED
    BY <2>1, <2>2, Times
<1>10. Suited(x)
  BY <1>3, <1>4, <1>6, <1>8, <1>9 DEF Suited
<1>11. GoodAnswer(answer')
  BY DEF Issue, GoodAnswer
<1>12. QED
  BY <1>5, <1>8, <1>10, <1>11 DEF Progress, Fine

\* What the cache keeps of a fine one is fine.
LEMMA KeptEntries ==
  ASSUME CacheFine, DOMAIN cache' \subseteq DOMAIN cache, UNCHANGED asked,
         \A k \in DOMAIN cache' : cache'[k] = cache[k]
  PROVE  CacheFine'
BY DEF CacheFine, GoodEntry, EntryType

LEMMA SetStep == ASSUME AnswersIInv, NEW r \in Requesters, Set(r) PROVE AnswersIInv'
<1> DEFINE a == asking[r]
           item == [body |-> a.body, age |-> a.age, left |-> TTL]
<1>1. /\ a.pc = "fill" /\ cache' = With(a.key, item) /\ asking' = [asking EXCEPT ![r] = Rest]
      /\ answer' = Nobody /\ UNCHANGED <<asked, tables, rewrites>>
  BY DEF Set
<1>2. a \in FillType /\ FitsKey(a.key, a.body)
  <2>1. Fine(a)
    BY DEF AnswersIInv, AskingFine
  <2>2. a # Rest /\ a \notin UnderWayType
    BY <1>1 DEF Rest, UnderWayType
  <2>3. QED
    BY <2>1, <2>2 DEF Fine
<1>3. a.body \in FiniteBodies /\ a.age \in 0 .. QueryTimeout
  BY <1>2 DEF FillType
<1>4. GoodEntry(a.key, item)
  <2>1. item \in EntryType /\ item.body = a.body /\ item.left = TTL /\ item.age = a.age
    BY <1>3, Times DEF EntryType
  <2>2. item.age + item.left <= TTL + QueryTimeout
    BY <1>3, <2>1, Times
  <2>3. QED
    BY <1>2, <2>1, <2>2 DEF GoodEntry
<1> HIDE DEF item
<1>5. /\ DOMAIN cache' = DOMAIN cache \cup {a.key}
      /\ \A k \in DOMAIN cache' : cache'[k] = IF k = a.key THEN item ELSE cache[k]
  BY <1>1 DEF With
<1>6. \A k \in DOMAIN cache' : GoodEntry(k, cache'[k])
  BY <1>4, <1>5 DEF AnswersIInv, CacheFine
<1>7. CacheFine'
  BY <1>6 DEF CacheFine, GoodEntry, EntryType
<1>8. AskingFine'
  <2>1. DOMAIN asking = Requesters
    BY DEF AnswersIInv, AskingFine
  <2>2. /\ asking' = [s \in Requesters |-> asking'[s]]
        /\ \A s \in Requesters : asking'[s] = IF s = r THEN Rest ELSE asking[s]
    BY <1>1, <2>1
  <2>3. \A s \in Requesters : Fine(asking'[s])
    BY <2>2, RestIsFine DEF AnswersIInv, AskingFine
  <2>4. \A s \in Requesters : Fine(asking[s])'
    BY <1>1, <2>3 DEF Fine, FillType, UnderWayType
  <2>5. QED
    BY <2>2, <2>4 DEF AskingFine
<1>9. TablesTyped' /\ GoodAnswer(answer)'
  BY <1>1 DEF AnswersIInv, TablesTyped, GoodAnswer
<1>10. QED
  BY <1>7, <1>8, <1>9 DEF AnswersIInv

\* Steps that leave the requesters alone, and what they have been told.
LEMMA AskingKeeps ==
  ASSUME AskingFine, UNCHANGED <<asked, asking>> PROVE AskingFine'
BY DEF AskingFine, Fine, FillType, UnderWayType

LEMMA EvictStep == ASSUME AnswersIInv, Evict \/ InvalidateCache PROVE AnswersIInv'
<1>1. answer' = Nobody /\ UNCHANGED <<asked, tables, rewrites, asking>>
  BY DEF Evict, InvalidateCache
<1>2. CacheFine'
  <2>1. DOMAIN cache' \subseteq DOMAIN cache /\ \A k \in DOMAIN cache' : cache'[k] = cache[k]
    <3>1. CASE Evict
      BY <3>1 DEF Evict, Without
    <3>2. CASE InvalidateCache
      <4>1. DOMAIN cache' = {}
        BY <3>2 DEF InvalidateCache
      <4>2. QED
        BY <4>1
    <3>3. QED
      BY <3>1, <3>2
  <2>2. QED
    BY <1>1, <2>1, KeptEntries DEF AnswersIInv
<1>3. TablesTyped' /\ GoodAnswer(answer)' /\ AskingFine'
  BY <1>1, AskingKeeps DEF AnswersIInv, TablesTyped, GoodAnswer
<1>4. QED
  BY <1>2, <1>3 DEF AnswersIInv

LEMMA RewriteStep == ASSUME AnswersIInv, Rewrite PROVE AnswersIInv'
<1>1. answer' = Nobody /\ UNCHANGED <<asked, asking, cache>>
  BY DEF Rewrite
<1>2. TablesTyped'
  <2>1. rewrites' \in 0 .. MaxRewrites
    BY Times DEF AnswersIInv, TablesTyped, Rewrite
  <2>2. tables' \in [Tables -> Contents]
    BY DEF AnswersIInv, TablesTyped, Rewrite
  <2>3. QED
    BY <1>1, <2>1, <2>2 DEF AnswersIInv, TablesTyped
<1>3. CacheFine' /\ GoodAnswer(answer)' /\ AskingFine'
  BY <1>1, AskingKeeps, KeptEntries DEF AnswersIInv, GoodAnswer
<1>4. QED
  BY <1>2, <1>3 DEF AnswersIInv

\* A request that is answered from the cache, or goes to the tables.
LEMMA AskStep ==
  ASSUME AnswersIInv, NEW r \in Requesters, NEW q \in asked, Ask(r, q) PROVE AnswersIInv'
<1>1. UNCHANGED <<asked, tables, rewrites>> /\ IsRequest(q)
  BY RequestsTyped DEF Ask, AnswersIInv
<1>2. CASE WriteCachedEmpty(r, q)
  <2>1. q.kind \in {"graph", "export"} /\ UNCHANGED cache
    BY <1>2 DEF WriteCachedEmpty, NamesNoType
  <2>2. Fits(q, None) /\ 0 \in 0 .. QueryTimeout
    BY <2>1, EmptyFits, Times DEF AnswersIInv
  <2>3. CASE Answered(q, None, 0) /\ UNCHANGED asking
    <3>1. answer' = [to |-> q, body |-> None, age |-> 0]
      BY <2>3 DEF Answered
    <3>2. answer'.to = q /\ answer'.body = None /\ answer'.age = 0
      BY <3>1
    <3>3. 0 <= TTL + QueryTimeout
      BY Times
    <3>4. GoodAnswer(answer')
      BY <2>2, <3>2, <3>3, NoneFits DEF GoodAnswer
    <3>5. GoodAnswer(answer)'
      BY <1>1, <3>4 DEF GoodAnswer
    <3>6. AskingFine' /\ CacheFine' /\ TablesTyped'
      BY <1>1, <2>1, <2>3, AskingKeeps, KeptEntries DEF AnswersIInv, TablesTyped
    <3>7. QED
      BY <3>5, <3>6 DEF AnswersIInv
  <2>4. CASE AnswerAndFill(r, q, None, 0)
    <3>1. Progress(r)
      BY <2>2, <2>4, NoneFits, FillProgress
    <3>2. QED
      BY <1>1, <2>1, <3>1, ProgressFine
  <2>5. QED
    BY <1>2, <2>3, <2>4 DEF WriteCachedEmpty
<1>3. CASE /\ ~Uncached(q) /\ Fresh(Key(q))
           /\ Answered(q, cache[Key(q)].body, cache[Key(q)].age)
           /\ UNCHANGED <<asking, cache>>
  <2> DEFINE e == cache[Key(q)]
  <2>1. Key(q) \in DOMAIN cache /\ e.left >= 0
    BY <1>3 DEF Fresh
  <2>2. GoodEntry(Key(q), e)
    BY <2>1 DEF AnswersIInv, CacheFine
  <2>3. /\ e.body \in FiniteBodies /\ Fits(q, e.body) /\ e.age + e.left <= TTL + QueryTimeout
        /\ e.age \in Nat /\ e.left \in Int
    BY <2>1, <2>2, Times DEF GoodEntry, EntryType, FitsKey
  <2>4. answer' = [to |-> q, body |-> e.body, age |-> e.age]
    BY <1>3 DEF Answered
  <2>5. answer'.to = q /\ answer'.body = e.body /\ answer'.age = e.age
    BY <2>4
  <2> HIDE DEF e
  <2>6. e.age <= TTL + QueryTimeout
    BY <2>1, <2>3, Times
  <2>7. GoodAnswer(answer')
    BY <2>3, <2>5, <2>6 DEF GoodAnswer
  <2>8. GoodAnswer(answer)'
    BY <1>1, <2>7 DEF GoodAnswer
  <2>9. AskingFine' /\ CacheFine' /\ TablesTyped'
    BY <1>1, <1>3, AskingKeeps, KeptEntries DEF AnswersIInv, TablesTyped
  <2>10. QED
    BY <2>8, <2>9 DEF AnswersIInv
<1>4. CASE /\ asking' = [asking EXCEPT ![r] =
                 [pc |-> "ready", req |-> q, stmt |-> FirstOf(q.kind), rows |-> None,
                  part |-> None, left |-> QueryTimeout, age |-> 0]]
           /\ answer' = Nobody
           /\ IF Uncached(q) THEN UNCHANGED cache ELSE Get(Key(q))
  <2> DEFINE stmt == FirstOf(q.kind)
             x == [pc |-> "ready", req |-> q, stmt |-> stmt, rows |-> None,
                   part |-> None, left |-> QueryTimeout, age |-> 0]
  <2>1. stmt \in Statements /\ OfKind(q, stmt) /\ PartFits(q, stmt, None)
    BY <1>1 DEF IsRequest, FirstOf, Statements, OfKind, PartFits
  <2> HIDE DEF stmt
  <2>2. /\ x \in UnderWayType /\ x.pc = "ready" /\ x.req = q /\ x.stmt = stmt /\ x.part = None
        /\ x.left = QueryTimeout /\ x.age = 0
    BY <2>1, NoneFits, Times DEF UnderWayType
  <2>3. asking' = [asking EXCEPT ![r] = x]
    BY <1>4 DEF stmt
  <2> HIDE DEF x
  <2>4. Suited(x)
    BY <2>1, <2>2, Times DEF Suited
  <2>5. Fine(x)
    BY <2>2, <2>4 DEF Fine
  <2>6. DOMAIN asking = Requesters
    BY DEF AnswersIInv, AskingFine
  <2>7. /\ asking' = [s \in Requesters |-> asking'[s]]
        /\ \A s \in Requesters : asking'[s] = IF s = r THEN x ELSE asking[s]
    BY <2>3, <2>6
  <2>8. \A s \in Requesters : Fine(asking'[s])
    BY <2>5, <2>7 DEF AnswersIInv, AskingFine
  <2>9. \A s \in Requesters : Fine(asking[s])'
    BY <1>1, <2>8 DEF Fine, FillType, UnderWayType
  <2>10. AskingFine'
    BY <2>7, <2>9 DEF AskingFine
  <2>11. CacheFine'
    <3>1. DOMAIN cache' \subseteq DOMAIN cache /\ \A k \in DOMAIN cache' : cache'[k] = cache[k]
      BY <1>4 DEF Get, Without
    <3>2. QED
      BY <1>1, <3>1, KeptEntries DEF AnswersIInv
  <2>12. TablesTyped' /\ GoodAnswer(answer)'
    BY <1>1, <1>4 DEF AnswersIInv, TablesTyped, GoodAnswer
  <2>13. QED
    BY <2>10, <2>11, <2>12 DEF AnswersIInv
<1>5. QED
  BY <1>2, <1>3, <1>4 DEF Ask

LEMMA ServeStep ==
  ASSUME AnswersIInv, NEW r \in Requesters, Serve(r) PROVE AnswersIInv'
<1>1. CASE Issue(r)
  BY <1>1, IssueProgress, ProgressFine DEF AnswersIInv, Issue
<1>2. CASE Arrive(r)
  BY <1>2, ArriveProgress, ProgressFine DEF AnswersIInv, Arrive
<1>3. CASE QueryFails(r)
  BY <1>3, BrokenProgress, ProgressFine DEF AnswersIInv, QueryFails
<1>4. CASE Abandon(r)
  BY <1>4, AnswerProgress, ProgressFine DEF AnswersIInv, Abandon
<1>5. QED
  BY <1>1, <1>2, <1>3, <1>4, AskStep, SetStep DEF Serve

LEMMA ApiTickStep == ASSUME AnswersIInv, ApiTick PROVE AnswersIInv'
<1>1. /\ answer' = Nobody /\ UNCHANGED <<asked, tables, rewrites>>
      /\ asking' = [r \in Requesters |->
           IF UnderWay(r) /\ Deadlined(asking[r].req)
           THEN [asking[r] EXCEPT !.left = @ - 1, !.age = @ + 1] ELSE asking[r]]
      /\ cache' = [k \in DOMAIN cache |->
           IF cache[k].left < 0 THEN cache[k] ELSE [cache[k] EXCEPT !.age = @ + 1, !.left = @ - 1]]
  BY DEF ApiTick
<1>2. ASSUME NEW r \in Requesters PROVE Fine(asking'[r])
  <2>1. CASE ~(UnderWay(r) /\ Deadlined(asking[r].req))
    <3>1. asking'[r] = asking[r]
      BY <1>1, <2>1
    <3>2. QED
      BY <3>1 DEF AnswersIInv, AskingFine
  <2>2. CASE UnderWay(r) /\ Deadlined(asking[r].req)
    <3>1. asking[r] \in UnderWayType /\ Suited(asking[r]) /\ asking[r].left > 0
      BY <2>2, UnderWayIs DEF AnswersIInv, ApiTick
    <3>2. PICK a \in UnderWayType : a = asking[r]
      BY <3>1
    <3> DEFINE x == [a EXCEPT !.left = a.left - 1, !.age = a.age + 1]
    <3>3. asking'[r] = x
      BY <1>1, <2>2, <3>2
    <3>4. a.left \in 0 .. QueryTimeout /\ a.age \in 0 .. QueryTimeout
      BY DEF UnderWayType
    <3>5. a.age + a.left <= QueryTimeout /\ a.left > 0
      BY <2>2, <3>1, <3>2 DEF Suited
    <3>6. PICK left \in 0 .. QueryTimeout, age \in 0 .. QueryTimeout :
            left = a.left - 1 /\ age = a.age + 1 /\ age + left <= QueryTimeout
      <4>1. a.left - 1 \in 0 .. QueryTimeout /\ a.age + 1 \in 0 .. QueryTimeout
        BY <3>4, <3>5, Times
      <4>2. (a.age + 1) + (a.left - 1) <= QueryTimeout
        BY <3>4, <3>5, Times
      <4>3. QED
        BY <4>1, <4>2
    <3>7. x = [a EXCEPT !.left = left, !.age = age]
      BY <3>6
    <3>8. /\ x \in UnderWayType /\ x.pc = a.pc /\ x.req = a.req /\ x.stmt = a.stmt /\ x.rows = a.rows
          /\ x.part = a.part /\ x.left = left /\ x.age = age
      BY <3>7 DEF UnderWayType
    <3> HIDE DEF x
    <3>9. Suited(x)
      BY <3>1, <3>2, <3>6, <3>8 DEF Suited
    <3>10. QED
      BY <3>3, <3>8, <3>9 DEF Fine
  <2>3. QED
    BY <2>1, <2>2
<1>3. AskingFine'
  <2>1. \A r \in Requesters : Fine(asking[r])'
    BY <1>1, <1>2 DEF Fine, FillType, UnderWayType
  <2>2. asking' = [r \in Requesters |-> asking'[r]]
    BY <1>1
  <2>3. QED
    BY <2>1, <2>2 DEF AskingFine
<1>4. ASSUME NEW k \in DOMAIN cache PROVE GoodEntry(k, cache'[k])
  <2>1. GoodEntry(k, cache[k])
    BY DEF AnswersIInv, CacheFine
  <2>2. PICK e \in EntryType : e = cache[k]
    BY <2>1 DEF GoodEntry
  <2>3. e.left \in -1 .. TTL /\ e.age \in Nat
    BY DEF EntryType
  <2>4. CASE e.left < 0
    <3>1. cache'[k] = cache[k]
      BY <1>1, <2>2, <2>4
    <3>2. QED
      BY <2>1, <3>1
  <2>5. CASE ~(e.left < 0)
    <3> DEFINE x == [e EXCEPT !.age = e.age + 1, !.left = e.left - 1]
    <3>1. cache'[k] = x
      BY <1>1, <2>2, <2>5
    <3>2. PICK left \in -1 .. TTL, age \in Nat : left = e.left - 1 /\ age = e.age + 1
      BY <2>3, <2>5, Times
    <3>3. x = [e EXCEPT !.age = age, !.left = left]
      BY <3>2
    <3>4. x \in EntryType /\ x.body = e.body /\ x.age = age /\ x.left = left
      BY <3>3 DEF EntryType
    <3> HIDE DEF x
    <3>5. e.age + e.left <= TTL + QueryTimeout /\ FitsKey(k, e.body)
      BY <2>1, <2>2, <2>3, <2>5 DEF GoodEntry
    <3>6. age + left <= TTL + QueryTimeout
      BY <2>3, <3>2, <3>5, Times
    <3>7. QED
      BY <3>1, <3>4, <3>5, <3>6 DEF GoodEntry
  <2>6. QED
    BY <2>4, <2>5
<1>5. CacheFine'
  <2>1. DOMAIN cache' = DOMAIN cache
    BY <1>1
  <2>2. QED
    BY <1>4, <2>1 DEF CacheFine, GoodEntry, EntryType
<1>6. TablesTyped' /\ GoodAnswer(answer)'
  BY <1>1 DEF AnswersIInv, TablesTyped, GoodAnswer
<1>7. QED
  BY <1>3, <1>5, <1>6 DEF AnswersIInv

LEMMA InitAnswers == ApiInit => AnswersIInv
<1> SUFFICES ASSUME ApiInit PROVE AnswersIInv
  OBVIOUS
<1>1. TablesTyped
  BY Times DEF ApiInit, TablesTyped
<1>2. AskingFine
  BY RestIsFine DEF ApiInit, AskingFine
<1>3. CacheFine
  BY DEF ApiInit, CacheFine
<1>4. GoodAnswer(answer)
  BY DEF ApiInit, GoodAnswer
<1>5. QED
  BY <1>1, <1>2, <1>3, <1>4 DEF AnswersIInv

LEMMA StepAnswers == AnswersIInv /\ [ApiNext]_apiVars => AnswersIInv'
<1>1. ASSUME AnswersIInv, UNCHANGED apiVars PROVE AnswersIInv'
  <2>1. UNCHANGED <<asked, tables, rewrites, asking, cache, answer>>
    BY <1>1 DEF apiVars
  <2>2. QED
    BY <1>1, <2>1, AskingKeeps, KeptEntries DEF AnswersIInv, TablesTyped, GoodAnswer
<1>2. QED
  BY <1>1, ServeStep, EvictStep, RewriteStep, ApiTickStep DEF ApiNext

LEMMA AnswersTyped == AnswersIInv => ApiTypeOK
<1> SUFFICES ASSUME AnswersIInv PROVE ApiTypeOK
  OBVIOUS
<1>1. ASSUME NEW r \in Requesters
      PROVE  \/ asking[r] = Rest
             \/ asking[r].pc = "fill" /\ asking[r].body \in Bodies
             \/ /\ asking[r].pc \in {"ready", "query"} /\ asking[r].req \in asked
                /\ asking[r].left \in 0 .. QueryTimeout /\ asking[r].age \in 0 .. QueryTimeout
                /\ asking[r].rows \in Bodies /\ asking[r].part \in Bodies
  <2>1. Fine(asking[r])
    BY DEF AnswersIInv, AskingFine
  <2>2. QED
    BY <2>1 DEF Fine, FillType, UnderWayType, FiniteBodies
<1>2. ASSUME NEW k \in DOMAIN cache PROVE cache[k].body \in Bodies /\ cache[k].left \in -1 .. TTL
  BY DEF AnswersIInv, CacheFine, GoodEntry, EntryType, FiniteBodies
<1>3. answer = Nobody \/ (answer.to \in asked /\ answer.body \in Bodies \cup {Error})
  BY DEF AnswersIInv, GoodAnswer, FiniteBodies
<1>4. QED
  BY <1>1, <1>2, <1>3 DEF AnswersIInv, TablesTyped, ApiTypeOK

-----------------------------------------------------------------------------
(* The rate limits.                                                        *)

USE LimiterAssumption

RequestType ==
  [pc : {"lookup", "touch", "create", "allow"}, ip : Addresses, limiter : Limiters \cup {Absent}]

\* Requests that hold the limiter of their address after its removal.
Holding(c) == calling[c] # Waiting /\ calling[c].limiter # Absent
Late(ip) == {c \in Callers : Holding(c) /\ calling[c].ip = ip /\ calling[c].limiter # perIP[ip]}

\* What the limiter of an address would admit at once.
Left(ip) == IF perIP[ip] = Absent THEN Burst ELSE tokens[perIP[ip]]

LimiterTypes ==
  /\ LimiterTypeOK
  /\ calling \in [Callers -> RequestType \cup {Waiting}]
  /\ owed \in [Addresses -> Int]
  /\ \A c \in Callers : calling[c] # Waiting =>
       (calling[c].pc \in {"touch", "allow"} <=> calling[c].limiter # Absent)

\* No two addresses share a limiter, whether it is in the map or held.
OwnLimiters ==
  /\ \A i, j \in Addresses : perIP[i] # Absent /\ perIP[i] = perIP[j] => i = j
  /\ \A c \in Callers, i \in Addresses :
       Holding(c) /\ calling[c].limiter = perIP[i] => calling[c].ip = i

\* What a request is about to take from was touched in this unit of time, and
\* so was the limiter that has replaced one still held.
Touched ==
  /\ \A c \in Callers : calling[c] # Waiting /\ calling[c].pc = "allow" =>
       idle[calling[c].limiter] = 0
  /\ \A i \in Addresses : Late(i) # {} /\ perIP[i] # Absent => idle[perIP[i]] = 0

\* Beyond what its limiter takes, an address has been given one token for each
\* request that still may hold a removed one at most, and an idle limiter
\* means that these have been made up for.
Backed ==
  \A i \in Addresses :
    /\ owed[i] >= Left(i) - Cardinality(Callers) + Cardinality(Late(i))
    /\ perIP[i] # Absent =>
         owed[i] >= Lesser(Burst, Rate * idle[perIP[i]] - Cardinality(Callers))

LimiterIInv == LimiterTypes /\ OwnLimiters /\ Touched /\ Backed

LEMMA Counts ==
  /\ Rate \in Nat /\ Burst \in Nat \ {0} /\ Stale \in Nat /\ GlobalRate \in Nat /\ GlobalBurst \in Nat
  /\ Cardinality(Callers) \in Nat /\ Cardinality(Addresses) \in Nat
  /\ 0 \notin Limiters /\ Limiters \subseteq Nat
BY FS_CardinalityType DEF Limiters

\* What a limiter gets in so many units of time.
LEMMA Refill ==
  /\ \A k \in Nat : Rate * k \in Nat /\ Rate * (k + 1) = Rate * k + Rate
  /\ Burst + Cardinality(Callers) <= Rate * (Stale + 1)
<1>1. \A k \in Nat : Rate * k \in Nat /\ Rate * (k + 1) = Rate * k + Rate
  BY Counts
<1>2. Burst + Cardinality(Callers) <= Rate * Stale /\ Rate * (Stale + 1) = Rate * Stale + Rate
      /\ Rate * Stale \in Nat
  BY <1>1, Counts
<1>3. QED
  BY <1>1, <1>2, Counts

\* What a limiter of the map may hold.
LEMMA Holds ==
  ASSUME NEW t, NEW m, NEW i \in Addresses,
         t \in [Limiters -> 0 .. Burst], m \in [Addresses -> Limiters \cup {Absent}]
  PROVE  (IF m[i] = Absent THEN Burst ELSE t[m[i]]) \in 0 .. Burst
<1>1. CASE m[i] = Absent
  BY <1>1, Counts
<1>2. CASE m[i] # Absent
  BY <1>2
<1>3. QED
  BY <1>1, <1>2

LEMMA Between == ASSUME NEW n \in 0 .. Burst PROVE n \in Nat /\ n \in Int /\ n <= Burst
BY Counts

LEMMA LateFinite ==
  ASSUME NEW i \in Addresses
  PROVE  /\ IsFiniteSet(Late(i)) /\ Cardinality(Late(i)) \in Nat
         /\ Cardinality(Late(i)) <= Cardinality(Callers)
BY FS_Subset, FS_CardinalityType DEF Late

LEMMA InitLimiter == LimiterInit => LimiterIInv
<1> SUFFICES ASSUME LimiterInit PROVE LimiterIInv
  OBVIOUS
<1>1. \A c \in Callers : calling[c] = Waiting
  BY DEF LimiterInit
<1>2. \A i \in Addresses : Late(i) = {}
  BY <1>1 DEF Late, Holding
<1>3. LimiterTypes
  BY Counts, <1>1 DEF LimiterInit, LimiterTypes, LimiterTypeOK, Absent
<1>4. OwnLimiters /\ Touched
  BY <1>1, <1>2 DEF LimiterInit, OwnLimiters, Touched, Holding
<1>5. Backed
  <2>1. \A i \in Addresses : Cardinality(Late(i)) = 0 /\ perIP[i] = Absent /\ owed[i] = Burst
    BY <1>2, FS_EmptySet DEF LimiterInit
  <2>2. QED
    BY <2>1, Counts DEF Backed, Left
<1>6. QED
  BY <1>3, <1>4, <1>5 DEF LimiterIInv

\* There is a limiter for a request whose address has none.
LEMMA UnusedExists ==
  ASSUME LimiterTypes, NEW c \in Callers, calling[c] # Waiting, calling[c].limiter = Absent,
         NEW i \in Addresses, perIP[i] = Absent
  PROVE  \E n \in Limiters : Unused(n)
<1> DEFINE A == Addresses \ {i}
           C == Callers \ {c}
           held == [d \in C |-> IF calling[d] = Waiting THEN Absent ELSE calling[d].limiter]
           mapped == [j \in A |-> perIP[j]]
           TA == {perIP[j] : j \in A}
           TC == {held[d] : d \in C}
<1>1. /\ IsFiniteSet(A) /\ Cardinality(A) = Cardinality(Addresses) - 1
      /\ IsFiniteSet(C) /\ Cardinality(C) = Cardinality(Callers) - 1
  BY FS_RemoveElement
<1>2. IsFiniteSet(TA) /\ Cardinality(TA) <= Cardinality(A)
  <2>1. mapped \in Surjection(A, TA)
    BY DEF Surjection
  <2>2. QED
    BY <1>1, <2>1, FS_Surjection
<1>3. IsFiniteSet(TC) /\ Cardinality(TC) <= Cardinality(C)
  <2> HIDE DEF held
  <2>0. DOMAIN held = C /\ held = [d \in C |-> held[d]]
    BY DEF held
  <2>1. held \in Surjection(C, TC)
    BY <2>0 DEF Surjection
  <2>2. QED
    BY <1>1, <2>1, FS_Surjection
<1> SUFFICES ASSUME \A n \in Limiters : ~Unused(n) PROVE FALSE
  OBVIOUS
<1>4. Limiters \subseteq TA \cup TC
  <2> SUFFICES ASSUME NEW n \in Limiters, n \notin TA, n \notin TC PROVE FALSE
    OBVIOUS
  <2>1. n # Absent
    BY Counts DEF Absent
  <2>2. \A j \in Addresses : perIP[j] # n
    BY <2>1
  <2>3. \A d \in Callers : calling[d] # Waiting => calling[d].limiter # n
    BY <2>1
  <2>4. QED
    BY <2>2, <2>3 DEF Unused
<1> HIDE DEF TA, TC, A, C
<1>5. /\ IsFiniteSet(TA \cup TC) /\ Cardinality(TA \cap TC) \in Nat
      /\ Cardinality(TA \cup TC) = Cardinality(TA) + Cardinality(TC) - Cardinality(TA \cap TC)
  BY <1>2, <1>3, FS_Union, FS_Intersection, FS_CardinalityType
<1>6. Cardinality(Limiters) <= Cardinality(TA \cup TC)
  BY <1>4, <1>5, FS_Subset
<1>7. Cardinality(Limiters) = Cardinality(Addresses) + Cardinality(Callers)
  <2>1. /\ 1 \in Int /\ Cardinality(Addresses) + Cardinality(Callers) \in Nat
    BY Counts
  <2>2. QED
    BY <2>1, FS_Interval, Counts DEF Limiters
<1>8. Cardinality(TA) \in Nat /\ Cardinality(TC) \in Nat
  BY <1>2, <1>3, FS_CardinalityType
<1>9. QED
  BY <1>1, <1>2, <1>3, <1>5, <1>6, <1>7, <1>8, Counts

\* What the types say of one request.
LEMMA RequestTyped ==
  ASSUME LimiterTypes, NEW c \in Callers, calling[c] # Waiting
  PROVE  /\ calling[c] \in RequestType /\ calling[c].pc # "idle"
         /\ calling[c].ip \in Addresses /\ calling[c].limiter \in Limiters \cup {Absent}
         /\ calling[c].pc \in {"touch", "allow"} <=> calling[c].limiter # Absent
BY DEF LimiterTypes, RequestType

LEMMA AtWork ==
  ASSUME NEW c \in Callers, calling[c].pc \in {"lookup", "touch", "create", "allow"}
  PROVE  calling[c] # Waiting
BY DEF Waiting

LEMMA LimitStep ==
  ASSUME LimiterIInv, NEW c \in Callers, NEW ip \in Addresses, Limit(c, ip)
  PROVE  LimiterIInv'
<1> DEFINE x == [pc |-> "lookup", ip |-> ip, limiter |-> Absent]
<1>1. calling[c] = Waiting /\ UNCHANGED <<tokens, perIP, idle, owed>>
  BY DEF Limit
<1>2. CASE global > 0
  <2>1. global' = global - 1 /\ calling' = [calling EXCEPT ![c] = x]
    BY <1>2 DEF Limit
  <2>2. x \in RequestType /\ x # Waiting /\ x.limiter = Absent /\ x.pc = "lookup" /\ x.ip = ip
    BY DEF RequestType, Waiting
  <2> HIDE DEF x
  <2>3. calling \in [Callers -> RequestType \cup {Waiting}]
    BY DEF LimiterIInv, LimiterTypes
  <2>4. calling' \in [Callers -> RequestType \cup {Waiting}]
    BY <2>1, <2>2, <2>3
  <2>5. /\ calling'[c] = x
        /\ \A d \in Callers \ {c} : calling'[d] = calling[d]
    BY <2>1, <2>3
  <2>6. LimiterTypes'
    <3>1. LimiterTypeOK'
      BY <1>1, <1>2, <2>1, <2>2, <2>5, Counts DEF LimiterIInv, LimiterTypes, LimiterTypeOK
    <3>2. QED
      BY <1>1, <2>2, <2>4, <2>5, <3>1 DEF LimiterIInv, LimiterTypes
  <2>7. \A i \in Addresses : Late(i)' = Late(i)
    BY <1>1, <2>2, <2>5 DEF Late, Holding
  <2>8. OwnLimiters' /\ Touched'
    BY <1>1, <2>2, <2>5, <2>7 DEF LimiterIInv, OwnLimiters, Touched, Holding
  <2>9. Backed'
    BY <1>1, <2>7 DEF LimiterIInv, Backed, Left
  <2>10. QED
    BY <2>6, <2>8, <2>9 DEF LimiterIInv
<1>3. CASE ~(global > 0)
  <2>1. UNCHANGED limiterVars
    BY <1>1, <1>3 DEF Limit, limiterVars
  <2>2. QED
    BY <2>1 DEF limiterVars, LimiterIInv, LimiterTypes, LimiterTypeOK, OwnLimiters, Touched, Backed,
       Left, Late, Holding
<1>4. QED
  BY <1>2, <1>3

LEMMA LookupStep == ASSUME LimiterIInv, NEW c \in Callers, Lookup(c) PROVE LimiterIInv'
<1> DEFINE found == perIP[calling[c].ip]
           pc == IF found = Absent THEN "create" ELSE "touch"
           x == [calling[c] EXCEPT !.pc = pc, !.limiter = found]
<1>1. /\ calling[c].pc = "lookup" /\ calling' = [calling EXCEPT ![c] = x]
      /\ UNCHANGED <<global, tokens, perIP, idle, owed>>
  BY DEF Lookup, Goes
<1>2. /\ calling[c] \in RequestType /\ calling[c] # Waiting /\ calling[c].limiter = Absent
      /\ calling \in [Callers -> RequestType \cup {Waiting}] /\ found \in Limiters \cup {Absent}
  BY <1>1, AtWork, RequestTyped DEF LimiterIInv, LimiterTypes, LimiterTypeOK
<1>3. /\ x \in RequestType /\ x # Waiting /\ x.limiter = found /\ x.ip = calling[c].ip
      /\ x.pc = pc
  <2>1. PICK r \in RequestType : r = calling[c]
    BY <1>2
  <2>2. pc \in {"create", "touch"}
    OBVIOUS
  <2> HIDE DEF found, pc
  <2>3. [r EXCEPT !.pc = pc, !.limiter = found] \in RequestType
    BY <1>2, <2>2 DEF RequestType
  <2>4. QED
    BY <1>2, <2>1, <2>2, <2>3 DEF RequestType, Waiting
<1> HIDE DEF x
<1>4. /\ calling' \in [Callers -> RequestType \cup {Waiting}]
      /\ calling'[c] = x /\ \A d \in Callers \ {c} : calling'[d] = calling[d]
  BY <1>1, <1>2, <1>3
<1>5. LimiterTypes'
  <2>1. LimiterTypeOK'
    BY <1>1, <1>2, <1>3, <1>4 DEF LimiterIInv, LimiterTypes, LimiterTypeOK
  <2>2. QED
    BY <1>1, <1>3, <1>4, <2>1 DEF LimiterIInv, LimiterTypes
<1>6. \A i \in Addresses : Late(i)' = Late(i)
  BY <1>1, <1>2, <1>3, <1>4 DEF Late, Holding
<1>7. OwnLimiters'
  <2>1. calling[c].ip \in Addresses
    BY <1>2 DEF RequestType
  <2>2. QED
    BY <1>1, <1>3, <1>4, <2>1 DEF LimiterIInv, OwnLimiters, Holding
<1>8. Touched'
  BY <1>1, <1>3, <1>4, <1>6 DEF LimiterIInv, Touched
<1>9. Backed'
  BY <1>1, <1>6 DEF LimiterIInv, Backed, Left
<1>10. QED
  BY <1>5, <1>7, <1>8, <1>9 DEF LimiterIInv

\* A limiter that is touched now, and held or in the map.
LEMMA TouchedNow ==
  ASSUME LimiterIInv, NEW l \in Limiters, UNCHANGED <<tokens, perIP, owed>>,
         idle' = [idle EXCEPT ![l] = 0],
         \A i \in Addresses : Late(i)' = Late(i)
  PROVE  Backed'
<1>1. idle \in [Limiters -> 0 .. Stale + 1] /\ perIP \in [Addresses -> Limiters \cup {Absent}]
      /\ owed \in [Addresses -> Int]
  BY DEF LimiterIInv, LimiterTypes, LimiterTypeOK
<1> SUFFICES ASSUME NEW i \in Addresses, perIP[i] # Absent
             PROVE  owed[i] >= Lesser(Burst, Rate * idle'[perIP[i]] - Cardinality(Callers))
  BY DEF LimiterIInv, Backed, Left
<1>2. CASE perIP[i] # l
  BY <1>1, <1>2 DEF LimiterIInv, Backed
<1>3. CASE perIP[i] = l
  <2>1. idle'[perIP[i]] = 0 /\ Rate * 0 = 0
    BY <1>1, <1>3, Counts
  <2>2. owed[i] >= tokens[l] - Cardinality(Callers) + Cardinality(Late(i))
    BY <1>3 DEF LimiterIInv, Backed, Left
  <2>3. tokens[l] \in Nat /\ Cardinality(Late(i)) \in Nat
    BY LateFinite, Counts DEF LimiterIInv, LimiterTypes, LimiterTypeOK
  <2>4. owed[i] >= 0 - Cardinality(Callers)
    BY <1>1, <2>2, <2>3, Counts
  <2>5. QED
    BY <1>1, <2>1, <2>4, Counts DEF Lesser
<1>4. QED
  BY <1>2, <1>3

LEMMA TouchStep == ASSUME LimiterIInv, NEW c \in Callers, Touch(c) PROVE LimiterIInv'
<1> DEFINE l == calling[c].limiter
           x == [calling[c] EXCEPT !.pc = "allow", !.limiter = l]
<1>1. /\ calling[c].pc = "touch" /\ calling' = [calling EXCEPT ![c] = x]
      /\ idle' = [idle EXCEPT ![l] = 0]
      /\ UNCHANGED <<global, tokens, perIP, owed>>
  BY DEF Touch, Goes
<1>2. /\ calling[c] \in RequestType /\ calling[c] # Waiting /\ l \in Limiters
      /\ calling \in [Callers -> RequestType \cup {Waiting}] /\ idle \in [Limiters -> 0 .. Stale + 1]
  BY <1>1, AtWork, RequestTyped DEF LimiterIInv, LimiterTypes, LimiterTypeOK
<1>3. /\ x \in RequestType /\ x # Waiting /\ x.limiter = l /\ x.ip = calling[c].ip
      /\ x.pc = "allow"
  <2>1. PICK r \in RequestType : r = calling[c]
    BY <1>2
  <2> HIDE DEF l
  <2>2. [r EXCEPT !.pc = "allow", !.limiter = l] \in RequestType
    BY <1>2 DEF RequestType
  <2>3. QED
    BY <1>2, <2>1, <2>2 DEF RequestType, Waiting
<1> HIDE DEF x
<1>4. /\ calling' \in [Callers -> RequestType \cup {Waiting}]
      /\ calling'[c] = x /\ \A d \in Callers \ {c} : calling'[d] = calling[d]
  BY <1>1, <1>2, <1>3
<1>5. LimiterTypes'
  <2>1. LimiterTypeOK'
    BY <1>1, <1>2, <1>3, <1>4, Counts DEF LimiterIInv, LimiterTypes, LimiterTypeOK
  <2>2. 0 \notin Limiters
    BY Counts
  <2>3. QED
    BY <1>1, <1>2, <1>3, <1>4, <2>1, <2>2 DEF LimiterIInv, LimiterTypes, Absent
<1>6. \A i \in Addresses : Late(i)' = Late(i)
  BY <1>1, <1>2, <1>3, <1>4 DEF Late, Holding
<1>7. OwnLimiters'
  BY <1>1, <1>2, <1>3, <1>4 DEF LimiterIInv, OwnLimiters, Holding
<1>8. Touched'
  <2>1. \A i \in Addresses : perIP[i] \in Limiters \cup {Absent}
    BY DEF LimiterIInv, LimiterTypes, LimiterTypeOK
  <2>2. \A d \in Callers : calling[d] # Waiting /\ calling[d].pc = "allow" => calling[d].limiter \in Limiters
    BY RequestTyped DEF LimiterIInv
  <2>3. QED
    BY <1>1, <1>2, <1>3, <1>4, <1>6, <2>1, <2>2 DEF LimiterIInv, Touched
<1>9. Backed'
  BY <1>1, <1>2, <1>6, TouchedNow
<1>10. QED
  BY <1>5, <1>7, <1>8, <1>9 DEF LimiterIInv

LEMMA CreateStep == ASSUME LimiterIInv, NEW c \in Callers, Create(c) PROVE LimiterIInv'
<1> DEFINE ip == calling[c].ip
           l == IF perIP[ip] # Absent THEN perIP[ip] ELSE CHOOSE n \in Limiters : Unused(n)
           x == [calling[c] EXCEPT !.pc = "allow", !.limiter = l]
<1>1. /\ calling[c].pc = "create" /\ calling' = [calling EXCEPT ![c] = x]
      /\ idle' = [idle EXCEPT ![l] = 0] /\ perIP' = [perIP EXCEPT ![ip] = l]
      /\ tokens' = IF perIP[ip] # Absent THEN tokens ELSE [tokens EXCEPT ![l] = Burst]
      /\ UNCHANGED <<global, owed>>
  BY DEF Create, Goes
<1>2. /\ calling[c] \in RequestType /\ calling[c] # Waiting /\ calling[c].limiter = Absent
      /\ ip \in Addresses
      /\ calling \in [Callers -> RequestType \cup {Waiting}] /\ idle \in [Limiters -> 0 .. Stale + 1]
      /\ perIP \in [Addresses -> Limiters \cup {Absent}] /\ tokens \in [Limiters -> 0 .. Burst]
  BY <1>1, AtWork, RequestTyped DEF LimiterIInv, LimiterTypes, LimiterTypeOK
<1>3. /\ l \in Limiters
      /\ perIP[ip] = Absent => Unused(l)
  <2>1. CASE perIP[ip] = Absent
    <3>1. \E n \in Limiters : Unused(n)
      BY <1>2, <2>1, UnusedExists DEF LimiterIInv
    <3>2. l = CHOOSE n \in Limiters : Unused(n)
      BY <2>1
    <3> HIDE DEF l
    <3>3. QED
      BY <3>1, <3>2
  <2>2. CASE perIP[ip] # Absent
    BY <1>2, <2>2
  <2>3. QED
    BY <2>1, <2>2
<1>4. perIP[ip] # Absent => l = perIP[ip]
  OBVIOUS
<1> HIDE DEF l
<1>5. /\ x \in RequestType /\ x # Waiting /\ x.limiter = l /\ x.ip = ip /\ x.pc = "allow"
  <2>1. PICK r \in RequestType : r = calling[c]
    BY <1>2
  <2>2. [r EXCEPT !.pc = "allow", !.limiter = l] \in RequestType
    BY <1>3 DEF RequestType
  <2>3. QED
    BY <1>2, <2>1, <2>2 DEF RequestType, Waiting
<1> HIDE DEF x
<1>6. /\ calling' \in [Callers -> RequestType \cup {Waiting}]
      /\ calling'[c] = x /\ \A d \in Callers \ {c} : calling'[d] = calling[d]
  BY <1>1, <1>2, <1>5
<1>7. perIP'[ip] = l /\ \A j \in Addresses \ {ip} : perIP'[j] = perIP[j] /\ perIP[j] # l
  <2>1. \A j \in Addresses \ {ip} : perIP[j] # l
    BY <1>2, <1>3, <1>4 DEF LimiterIInv, OwnLimiters, Unused
  <2>2. QED
    BY <1>1, <1>2, <2>1
<1>8. l # Absent
  BY <1>3, Counts DEF Absent
<1>9. LimiterTypes'
  <2>1. perIP' \in [Addresses -> Limiters \cup {Absent}] /\ idle' \in [Limiters -> 0 .. Stale + 1]
        /\ tokens' \in [Limiters -> 0 .. Burst]
    BY <1>1, <1>2, <1>3, Counts
  <2>2. LimiterTypeOK'
    BY <1>1, <1>3, <1>5, <1>6, <2>1 DEF LimiterIInv, LimiterTypes, LimiterTypeOK
  <2>3. QED
    BY <1>1, <1>5, <1>6, <1>8, <2>2 DEF LimiterIInv, LimiterTypes
<1>10. \A d \in Callers : calling[d] # Waiting /\ calling[d].limiter = l /\ perIP[ip] = Absent => FALSE
  BY <1>3 DEF Unused
<1>11. \A i \in Addresses : Late(i)' = Late(i)
  <2>1. \A i \in Addresses : c \notin Late(i) /\ c \notin Late(i)'
    BY <1>2, <1>5, <1>6, <1>7 DEF Late, Holding
  <2>2. ASSUME NEW i \in Addresses, NEW d \in Callers \ {c}
        PROVE  d \in Late(i) <=> d \in Late(i)'
    BY <1>4, <1>6, <1>7, <1>10 DEF Late, Holding
  <2>3. QED
    BY <2>1, <2>2 DEF Late
<1>12. OwnLimiters'
  <2>1. \A i, j \in Addresses : perIP'[i] # Absent /\ perIP'[i] = perIP'[j] => i = j
    BY <1>7 DEF LimiterIInv, OwnLimiters
  <2>2. ASSUME NEW d \in Callers, NEW i \in Addresses, Holding(d)', calling'[d].limiter = perIP'[i]
        PROVE  calling'[d].ip = i
    <3>1. CASE d = c
      BY <1>5, <1>6, <1>7, <2>2, <3>1
    <3>2. CASE d # c
      BY <1>4, <1>6, <1>7, <1>10, <2>2, <3>2 DEF LimiterIInv, OwnLimiters, Holding
    <3>3. QED
      BY <3>1, <3>2
  <2>3. QED
    BY <2>1, <2>2 DEF OwnLimiters
<1>13. Touched'
  <2>1. \A k \in Limiters : idle'[k] = IF k = l THEN 0 ELSE idle[k]
    BY <1>1, <1>2
  <2>2. ASSUME NEW d \in Callers, calling'[d] # Waiting, calling'[d].pc = "allow"
        PROVE  idle'[calling'[d].limiter] = 0
    <3>1. CASE d = c
      BY <1>3, <1>5, <1>6, <2>1, <3>1
    <3>2. CASE d # c
      <4>1. calling[d].limiter \in Limiters
        BY <1>6, <2>2, <3>2, RequestTyped DEF LimiterIInv
      <4>2. QED
        BY <1>6, <2>1, <2>2, <3>2, <4>1 DEF LimiterIInv, Touched
    <3>3. QED
      BY <3>1, <3>2
  <2>3. ASSUME NEW i \in Addresses, Late(i)' # {}, perIP'[i] # Absent PROVE idle'[perIP'[i]] = 0
    <3>1. CASE i = ip
      BY <1>3, <1>7, <2>1, <3>1
    <3>2. CASE i # ip
      <4>1. perIP[i] \in Limiters
        BY <1>2, <1>7, <2>3, <3>2
      <4>2. QED
        BY <1>7, <1>11, <2>1, <2>3, <3>2, <4>1 DEF LimiterIInv, Touched
    <3>3. QED
      BY <3>1, <3>2
  <2>4. QED
    BY <2>2, <2>3 DEF Touched
<1>14. Backed'
  <2>1. owed \in [Addresses -> Int] /\ \A k \in Limiters : tokens[k] \in Int
    BY <1>2, Counts DEF LimiterIInv, LimiterTypes
  <2>2. ASSUME NEW i \in Addresses
        PROVE  Left(i)' = Left(i)
    <3>1. CASE i # ip
      BY <1>1, <1>2, <1>7, <3>1 DEF Left
    <3>2. CASE i = ip
      BY <1>1, <1>2, <1>3, <1>4, <1>7, <1>8, <3>2 DEF Left
    <3>3. QED
      BY <3>1, <3>2
  <2>3. ASSUME NEW i \in Addresses, perIP'[i] # Absent
        PROVE  owed[i] >= Lesser(Burst, Rate * idle'[perIP'[i]] - Cardinality(Callers))
    <3>1. CASE i # ip
      <4>1. perIP[i] \in Limiters /\ perIP'[i] = perIP[i] /\ idle'[perIP[i]] = idle[perIP[i]]
        BY <1>1, <1>2, <1>7, <2>3, <3>1
      <4>2. QED
        BY <2>3, <4>1 DEF LimiterIInv, Backed
    <3>2. CASE i = ip
      <4>1. idle'[perIP'[i]] = 0 /\ Rate * 0 = 0
        BY <1>1, <1>2, <1>3, <1>7, <3>2, Counts
      <4>2. owed[i] >= Left(i) - Cardinality(Callers) + Cardinality(Late(i))
        BY DEF LimiterIInv, Backed
      <4>3. Left(i) \in Nat /\ Cardinality(Late(i)) \in Nat
        <5>1. Cardinality(Late(i)) \in Nat
          BY LateFinite
        <5>2. Left(i) \in 0 .. Burst
          BY <1>2, Holds DEF Left
        <5>3. QED
          BY <5>1, <5>2, Between
      <4>4. owed[i] >= 0 - Cardinality(Callers)
        BY <2>1, <4>2, <4>3, Counts
      <4>5. QED
        BY <2>1, <4>1, <4>4, Counts DEF Lesser
    <3>3. QED
      BY <3>1, <3>2
  <2>4. QED
    BY <1>1, <1>11, <2>2, <2>3 DEF LimiterIInv, Backed
<1>15. QED
  BY <1>9, <1>12, <1>13, <1>14 DEF LimiterIInv

LEMMA AllowStep == ASSUME LimiterIInv, NEW c \in Callers, Allow(c) PROVE LimiterIInv'
<1> DEFINE l == calling[c].limiter
           ip == calling[c].ip
           taken == IF tokens[l] > 0 THEN 1 ELSE 0
<1>1. /\ calling[c].pc = "allow" /\ calling' = [calling EXCEPT ![c] = Waiting]
      /\ UNCHANGED <<global, perIP, idle>>
  BY DEF Allow, Ends
<1>2. /\ calling[c] \in RequestType /\ calling[c] # Waiting /\ l \in Limiters /\ ip \in Addresses
      /\ calling \in [Callers -> RequestType \cup {Waiting}] /\ idle \in [Limiters -> 0 .. Stale + 1]
      /\ perIP \in [Addresses -> Limiters \cup {Absent}] /\ tokens \in [Limiters -> 0 .. Burst]
      /\ owed \in [Addresses -> Int]
  BY <1>1, AtWork, RequestTyped DEF LimiterIInv, LimiterTypes, LimiterTypeOK
<1>3. /\ tokens' \in [Limiters -> 0 .. Burst] /\ owed' \in [Addresses -> Int]
      /\ tokens'[l] = tokens[l] - taken /\ \A k \in Limiters \ {l} : tokens'[k] = tokens[k]
      /\ owed'[ip] = owed[ip] - taken /\ \A i \in Addresses \ {ip} : owed'[i] = owed[i]
  <2>1. CASE tokens[l] > 0
    <3>1. tokens' = [tokens EXCEPT ![l] = @ - 1] /\ owed' = [owed EXCEPT ![ip] = @ - 1]
      BY <2>1 DEF Allow
    <3> HIDE DEF l, ip
    <3>2. QED
      BY <1>2, <2>1, <3>1, Counts
  <2>2. CASE ~(tokens[l] > 0)
    <3>1. UNCHANGED <<tokens, owed>>
      BY <2>2 DEF Allow
    <3> HIDE DEF l, ip
    <3>2. QED
      BY <1>2, <2>2, <3>1, Counts
  <2>3. QED
    BY <2>1, <2>2
<1>4. taken \in {0, 1}
  OBVIOUS
<1> HIDE DEF taken
<1>5. /\ calling' \in [Callers -> RequestType \cup {Waiting}]
      /\ calling'[c] = Waiting /\ \A d \in Callers \ {c} : calling'[d] = calling[d]
  BY <1>1, <1>2
<1>6. l # Absent /\ Holding(c)
  BY <1>2, Counts DEF Absent, Holding
<1>7. \A i \in Addresses : Late(i)' = Late(i) \ {c}
  BY <1>1, <1>5 DEF Late, Holding
<1>8. LimiterTypes'
  <2>1. \A i \in Addresses : owed'[i] <= Burst
    BY <1>2, <1>3, <1>4, Counts DEF LimiterIInv, LimiterTypes, LimiterTypeOK
  <2>2. LimiterTypeOK'
    BY <1>1, <1>3, <1>5, <2>1 DEF LimiterIInv, LimiterTypes, LimiterTypeOK
  <2>3. QED
    BY <1>3, <1>5, <2>2 DEF LimiterIInv, LimiterTypes
<1>9. OwnLimiters' /\ Touched'
  BY <1>1, <1>5, <1>7 DEF LimiterIInv, OwnLimiters, Touched, Holding
<1>10. Backed'
  <2>1. ASSUME NEW i \in Addresses
        PROVE  owed'[i] >= Left(i)' - Cardinality(Callers) + Cardinality(Late(i)')
    <3>1. /\ Cardinality(Late(i)) \in Nat
          /\ Cardinality(Late(i)') = IF c \in Late(i) THEN Cardinality(Late(i)) - 1 ELSE Cardinality(Late(i))
      BY <1>7, LateFinite, FS_RemoveElement
    <3>2. owed[i] >= Left(i) - Cardinality(Callers) + Cardinality(Late(i))
      BY DEF LimiterIInv, Backed
    <3>3. Left(i) \in Int /\ Left(i)' \in Int /\ owed[i] \in Int /\ owed'[i] \in Int
      <4>1. Left(i) \in 0 .. Burst
        BY <1>2, Holds DEF Left
      <4>2. Left(i)' \in 0 .. Burst
        BY <1>1, <1>2, <1>3, Holds DEF Left
      <4>3. QED
        BY <1>2, <1>3, <4>1, <4>2, Between
    <3>4. CASE i # ip
      <4>1. c \notin Late(i) /\ perIP[i] # l
        BY <1>6, <3>4 DEF Late, LimiterIInv, OwnLimiters
      <4>2. Left(i)' = Left(i) /\ owed'[i] = owed[i]
        BY <1>1, <1>2, <1>3, <3>4, <4>1 DEF Left
      <4>3. QED
        BY <3>1, <3>2, <4>1, <4>2
    <3>5. CASE i = ip /\ perIP[i] = l
      <4>1. c \notin Late(i)
        BY <3>5 DEF Late
      <4>2. Left(i)' = Left(i) - taken /\ owed'[i] = owed[i] - taken
        BY <1>1, <1>2, <1>3, <1>6, <3>5 DEF Left
      <4>3. QED
        BY <1>4, <3>1, <3>2, <3>3, <4>1, <4>2, Counts
    <3>6. CASE i = ip /\ perIP[i] # l
      <4>1. c \in Late(i)
        BY <1>6, <3>6 DEF Late
      <4>2. Left(i)' = Left(i) /\ owed'[i] = owed[i] - taken
        BY <1>1, <1>2, <1>3, <3>6 DEF Left
      <4>3. QED
        BY <1>4, <3>1, <3>2, <3>3, <4>1, <4>2, Counts
    <3>7. QED
      BY <3>4, <3>5, <3>6
  <2>2. ASSUME NEW i \in Addresses, perIP[i] # Absent
        PROVE  owed'[i] >= Lesser(Burst, Rate * idle[perIP[i]] - Cardinality(Callers))
    <3>1. CASE i # ip
      BY <1>3, <2>2, <3>1 DEF LimiterIInv, Backed
    <3>2. CASE i = ip
      <4>1. idle[perIP[i]] = 0
        <5>1. CASE perIP[i] = l
          BY <1>1, <1>2, <5>1 DEF LimiterIInv, Touched
        <5>2. CASE perIP[i] # l
          <6>1. c \in Late(i)
            BY <1>6, <3>2, <5>2 DEF Late
          <6>2. QED
            BY <2>2, <6>1 DEF LimiterIInv, Touched
        <5>3. QED
          BY <5>1, <5>2
      <4>2. Rate * 0 = 0
        BY Counts
      <4>3. Left(i)' \in 0 .. Burst
        BY <1>1, <1>2, <1>3, Holds DEF Left
      <4>4. Cardinality(Late(i)') \in Nat
        BY <1>7, LateFinite, FS_RemoveElement, FS_CardinalityType
      <4>5. owed'[i] >= 0 - Cardinality(Callers)
        BY <1>3, <2>1, <4>3, <4>4, Counts
      <4>6. QED
        BY <1>3, <4>1, <4>2, <4>5, Counts DEF Lesser
    <3>3. QED
      BY <3>1, <3>2
  <2>3. QED
    BY <1>1, <2>1, <2>2 DEF Backed
<1>11. QED
  BY <1>8, <1>9, <1>10 DEF LimiterIInv

LEMMA CleanUpStep == ASSUME LimiterIInv, CleanUp PROVE LimiterIInv'
<1> DEFINE stale(i) == perIP[i] # Absent /\ idle[perIP[i]] > Stale
<1>1. /\ \A i \in Addresses : perIP'[i] = IF stale(i) THEN Absent ELSE perIP[i]
      /\ DOMAIN perIP' = Addresses /\ perIP' = [i \in Addresses |-> perIP'[i]]
      /\ UNCHANGED <<global, tokens, idle, calling, owed>>
  BY DEF CleanUp
<1>2. /\ idle \in [Limiters -> 0 .. Stale + 1]
      /\ perIP \in [Addresses -> Limiters \cup {Absent}] /\ owed \in [Addresses -> Int]
      /\ tokens \in [Limiters -> 0 .. Burst]
  BY DEF LimiterIInv, LimiterTypes, LimiterTypeOK
<1>3. perIP' \in [Addresses -> Limiters \cup {Absent}]
  BY <1>1, <1>2
<1>4. LimiterTypes'
  BY <1>1, <1>3 DEF LimiterIInv, LimiterTypes, LimiterTypeOK
<1>5. \A i \in Addresses : ~stale(i) => Late(i)' = Late(i)
  BY <1>1 DEF Late, Holding
<1>6. OwnLimiters'
  <2>1. \A i \in Addresses : perIP'[i] \in {Absent, perIP[i]}
    BY <1>1
  <2>2. \A d \in Callers : Holding(d)' = Holding(d) /\ (Holding(d) => calling[d].limiter # Absent)
    BY <1>1 DEF Holding
  <2>3. QED
    BY <1>1, <2>1, <2>2 DEF LimiterIInv, OwnLimiters
<1>7. Touched'
  BY <1>1, <1>5 DEF LimiterIInv, Touched
<1>8. Backed'
  <2>1. ASSUME NEW i \in Addresses, stale(i)
        PROVE  /\ owed[i] >= Left(i)' - Cardinality(Callers) + Cardinality(Late(i)')
               /\ perIP'[i] = Absent
    <3>1. idle[perIP[i]] = Stale + 1
      <4>1. perIP[i] \in Limiters /\ idle[perIP[i]] > Stale
        BY <1>2, <2>1
      <4>2. idle[perIP[i]] \in 0 .. Stale + 1
        BY <1>2, <4>1
      <4>3. QED
        BY <4>1, <4>2, Counts
    <3>2. owed[i] >= Lesser(Burst, Rate * (Stale + 1) - Cardinality(Callers))
      BY <2>1, <3>1 DEF LimiterIInv, Backed
    <3>3. Rate * (Stale + 1) \in Nat
      BY Counts, Refill
    <3>4. owed[i] >= Burst
      BY <1>2, <3>2, <3>3, Refill, Counts DEF Lesser
    <3>5. Left(i)' = Burst /\ perIP'[i] = Absent
      BY <1>1, <2>1 DEF Left
    <3>6. Cardinality(Late(i)') \in Nat /\ Cardinality(Late(i)') <= Cardinality(Callers)
      <4>1. Late(i)' \in SUBSET Callers
        BY DEF Late
      <4>2. QED
        BY <4>1, FS_Subset, FS_CardinalityType
    <3>7. QED
      BY <1>2, <3>4, <3>5, <3>6, Counts
  <2>2. ASSUME NEW i \in Addresses, ~stale(i)
        PROVE  Left(i)' = Left(i) /\ Late(i)' = Late(i) /\ perIP'[i] = perIP[i]
    BY <1>1, <1>5, <2>2 DEF Left
  <2>3. QED
    BY <1>1, <2>1, <2>2 DEF LimiterIInv, Backed
<1>9. QED
  BY <1>4, <1>6, <1>7, <1>8 DEF LimiterIInv

LEMMA LimiterTickStep == ASSUME LimiterIInv, LimiterTick PROVE LimiterIInv'
<1>1. /\ \A c \in Callers : calling[c] = Waiting
      /\ global' = Lesser(GlobalBurst, global + GlobalRate)
      /\ tokens' = [l \in Limiters |-> Lesser(Burst, tokens[l] + Rate)]
      /\ idle' = [l \in Limiters |-> Lesser(Stale + 1, idle[l] + 1)]
      /\ owed' = [i \in Addresses |-> Lesser(Burst, owed[i] + Rate)]
      /\ UNCHANGED <<perIP, calling>>
  BY DEF LimiterTick
<1>2. /\ idle \in [Limiters -> 0 .. Stale + 1]
      /\ perIP \in [Addresses -> Limiters \cup {Absent}] /\ owed \in [Addresses -> Int]
      /\ tokens \in [Limiters -> 0 .. Burst] /\ global \in 0 .. GlobalBurst
  BY DEF LimiterIInv, LimiterTypes, LimiterTypeOK
<1>3. LimiterTypes'
  <2>1. global' \in 0 .. GlobalBurst
    BY <1>1, <1>2, Counts DEF Lesser
  <2>2. tokens' \in [Limiters -> 0 .. Burst] /\ idle' \in [Limiters -> 0 .. Stale + 1]
    BY <1>1, <1>2, Counts DEF Lesser
  <2>3. owed' \in [Addresses -> Int] /\ \A i \in Addresses : owed'[i] <= Burst
    BY <1>1, <1>2, Counts DEF Lesser
  <2>4. QED
    BY <1>1, <2>1, <2>2, <2>3 DEF LimiterIInv, LimiterTypes, LimiterTypeOK
<1>4. \A i \in Addresses : Late(i) = {} /\ Late(i)' = {}
  BY <1>1 DEF Late, Holding
<1>5. OwnLimiters' /\ Touched'
  BY <1>1, <1>4 DEF LimiterIInv, OwnLimiters, Touched, Holding
<1>6. Backed'
  <2> SUFFICES ASSUME NEW i \in Addresses
               PROVE  /\ owed'[i] >= Left(i)' - Cardinality(Callers) + Cardinality(Late(i)')
                      /\ perIP[i] # Absent =>
                           owed'[i] >= Lesser(Burst, Rate * idle'[perIP[i]] - Cardinality(Callers))
    BY <1>1 DEF Backed
  <2>1. Cardinality(Late(i)) = 0 /\ Cardinality(Late(i)') = 0
    BY <1>4, FS_EmptySet
  <2>2. owed'[i] = Lesser(Burst, owed[i] + Rate) /\ owed[i] \in Int
    BY <1>1, <1>2
  <2>3. owed[i] >= Left(i) - Cardinality(Callers)
    <3>1. owed[i] >= Left(i) - Cardinality(Callers) + Cardinality(Late(i))
      BY DEF LimiterIInv, Backed
    <3>2. Left(i) \in Int
      <4>1. Left(i) \in 0 .. Burst
        BY <1>2, Holds DEF Left
      <4>2. QED
        BY <4>1, Between
    <3>3. QED
      BY <2>1, <3>1, <3>2, Counts
  <2>4. CASE perIP[i] = Absent
    <3>1. Left(i) = Burst /\ Left(i)' = Burst
      BY <1>1, <2>4 DEF Left
    <3>2. QED
      BY <2>1, <2>2, <2>3, <2>4, <3>1, Counts DEF Lesser
  <2>5. CASE perIP[i] # Absent
    <3> DEFINE l == perIP[i]
    <3>1. l \in Limiters /\ tokens[l] \in Nat /\ idle[l] \in 0 .. Stale + 1
      <4>1. l \in Limiters
        BY <1>2, <2>5
      <4> HIDE DEF l
      <4>2. tokens[l] \in 0 .. Burst /\ idle[l] \in 0 .. Stale + 1
        BY <1>2, <4>1
      <4>3. QED
        BY <4>1, <4>2, Between
    <3>2. /\ Left(i) = tokens[l] /\ Left(i)' = Lesser(Burst, tokens[l] + Rate)
          /\ idle'[l] = Lesser(Stale + 1, idle[l] + 1)
      BY <1>1, <2>5, <3>1 DEF Left
    <3>3. owed'[i] >= Left(i)' - Cardinality(Callers) + Cardinality(Late(i)')
      BY <2>1, <2>2, <2>3, <3>1, <3>2, Counts DEF Lesser
    <3>4. owed[i] >= Lesser(Burst, Rate * idle[l] - Cardinality(Callers))
      BY <2>5 DEF LimiterIInv, Backed
    <3>5. owed'[i] >= Lesser(Burst, Rate * idle'[l] - Cardinality(Callers))
      <4>1. CASE idle[l] <= Stale
        <5>1. idle'[l] = idle[l] + 1 /\ idle[l] \in Nat
          BY <3>1, <3>2, <4>1, Counts DEF Lesser
        <5>2. PICK m \in Nat : m = Rate * idle[l] /\ Rate * idle'[l] = m + Rate
          BY <5>1, Refill
        <5>3. QED
          BY <2>2, <3>4, <5>2, Counts DEF Lesser
      <4>2. CASE idle[l] = Stale + 1
        <5>1. idle'[l] = idle[l]
          BY <3>1, <3>2, <4>2, Counts DEF Lesser
        <5>0. idle[l] \in Nat
          BY <4>2, Counts
        <5>2. PICK m \in Nat : m = Rate * idle[l]
          BY <5>0, Refill
        <5>3. QED
          BY <2>2, <3>4, <5>1, <5>2, Counts DEF Lesser
      <4>3. QED
        BY <3>1, <4>1, <4>2, Counts
    <3>6. QED
      BY <3>3, <3>5
  <2>6. QED
    BY <2>4, <2>5
<1>7. QED
  BY <1>3, <1>5, <1>6 DEF LimiterIInv

LEMMA StepLimiter == LimiterIInv /\ [LimiterNext]_limiterVars => LimiterIInv'
<1>1. ASSUME LimiterIInv, UNCHANGED limiterVars PROVE LimiterIInv'
  BY <1>1 DEF limiterVars, LimiterIInv, LimiterTypes, LimiterTypeOK, OwnLimiters, Touched, Backed,
     Left, Late, Holding
<1>2. QED
  BY <1>1, LimitStep, LookupStep, TouchStep, CreateStep, AllowStep, CleanUpStep, LimiterTickStep
  DEF LimiterNext

\* An address is admitted as one bucket that is never removed would admit it, but
\* for one request of each caller (WithinTheRate), for any rates and any
\* interleaving of lookups, creations, removals and requests that still hold a
\* removed limiter.
THEOREM LimiterWithinTheRate == LimiterSpec => []WithinTheRate
<1>1. ASSUME LimiterIInv, NEW i \in Addresses PROVE owed[i] >= -Cardinality(Callers)
  <2>1. owed[i] >= Left(i) - Cardinality(Callers) + Cardinality(Late(i))
    BY <1>1 DEF LimiterIInv, Backed
  <2>2. Left(i) \in 0 .. Burst /\ owed[i] \in Int
    BY <1>1, Holds DEF LimiterIInv, LimiterTypes, LimiterTypeOK, Left
  <2>3. Cardinality(Late(i)) \in Nat
    BY LateFinite
  <2>4. QED
    BY <2>1, <2>2, <2>3, Between, Counts
<1>2. LimiterIInv => WithinTheRate
  BY <1>1 DEF WithinTheRate
<1>3. QED
  BY InitLimiter, StepLimiter, <1>2, PTL DEF LimiterSpec

-----------------------------------------------------------------------------
(* The composition.                                                        *)

LEMMA ReadersInitAll == ReadersInit => AnswersIInv /\ VersionsIInv /\ LimiterIInv
BY InitAnswers, InitVersions, InitLimiter DEF ReadersInit

\* A step is one of the active part, and the others stutter.
LEMMA ReadersStepEach ==
  [ReadersNext]_<<active, apiVars, vars, limiterVars>> =>
    [ApiNext]_apiVars /\ [Next]_vars /\ [LimiterNext]_limiterVars
BY DEF ReadersNext

\* The variables of all three keep their types (ReadersTypeOK).
THEOREM ReadersTypeCorrect == ReadersSpec => []ReadersTypeOK
<1>1. ReadersInit => AnswersIInv /\ VersionsIInv /\ LimiterIInv
  BY ReadersInitAll
<1>2. /\ AnswersIInv /\ VersionsIInv /\ LimiterIInv
      /\ [ReadersNext]_<<active, apiVars, vars, limiterVars>>
      => AnswersIInv' /\ VersionsIInv' /\ LimiterIInv'
  BY ReadersStepEach, StepAnswers, StepVersions, StepLimiter
<1>3. AnswersIInv /\ VersionsIInv /\ LimiterIInv => ReadersTypeOK
  BY AnswersTyped, VersionsTyped DEF ReadersTypeOK, LimiterIInv, LimiterTypes
<1>4. QED
  BY <1>1, <1>2, <1>3, PTL DEF ReadersSpec

\* Through the cache or not, an answer keeps to the types, caps, box, weight and
\* community its own request asked for, and is no older than an entry of the
\* cache lives and a request may take (AnswersHold).  Which requests share an
\* entry is decided by Key as cacheKey makes it: with the filter of the single
\* type all, whose entry is that of no filter, only the types are given up.
THEOREM AnswersAlwaysHold == ReadersSpec => []AnswersHold
<1>1. AnswersIInv => AnswersHold
  BY DEF AnswersIInv, GoodAnswer, AnswersHold, AnswersAreRecent, AnswersFit, Served
<1>2. ReadersInit => AnswersIInv
  BY ReadersInitAll
<1>3. AnswersIInv /\ [ReadersNext]_<<active, apiVars, vars, limiterVars>> => AnswersIInv'
  BY ReadersStepEach, StepAnswers
<1>4. QED
  BY <1>1, <1>2, <1>3, PTL DEF ReadersSpec

\* Everything the run checks holds of the composition: an answer, a diff and a
\* request never disturb what the other two promise.
THEOREM ReadersKeepAll ==
  ReadersSpec => /\ [](AnswersHold /\ RetainedLogComplete /\ FollowersAgree /\ WithinTheRate)
                 /\ ImplementsHistory
<1>1. ReadersSpec => Spec /\ LimiterSpec
  <2>1. ReadersInit => Init /\ LimiterInit
    BY DEF ReadersInit
  <2>2. QED
    BY <2>1, ReadersStepEach, PTL DEF ReadersSpec, Spec, LimiterSpec
<1>2. QED
  BY <1>1, RetainedLogIsComplete, FollowersAgreeAlways, VersionsImplementHistory, LimiterWithinTheRate,
     AnswersAlwaysHold, PTL
=============================================================================
