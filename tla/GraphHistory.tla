---------------------------- MODULE GraphHistory ----------------------------
(***************************************************************************)
(* What GET /api/graph/diff promises its consumers, with no runs, diffs,   *)
(* retention or failures: graphs are published one after the other, and    *)
(* whoever asks has the newest one from then on, though it may be told the *)
(* number of an earlier one.  A consumer may always lose what it has.      *)
(***************************************************************************)
EXTENDS Naturals, Sequences

CONSTANTS Graphs, Clients

VARIABLES
  history,   \* the graphs published so far
  held       \* of each consumer: what it has been told and its graph, or none

vars == <<history, held>>

Init ==
  /\ history = <<>>
  /\ held = [c \in Clients |-> {}]

Publish ==
  /\ \E g \in Graphs : history' = Append(history, g)
  /\ UNCHANGED held

Newest == Len(history)

\* Consumer c begins with the newest graph.
Join(c) ==
  /\ held[c] = {} /\ Newest # 0
  /\ held' = [held EXCEPT ![c] = {[told |-> Newest, graph |-> history[Newest]]}]
  /\ UNCHANGED history

\* Consumer c asks for what is newer than what it was told.
CatchUp(c) ==
  /\ \E h \in held[c], n \in 1..Newest :
       /\ h.told < n
       /\ held' = [held EXCEPT ![c] = {[told |-> n, graph |-> history[Newest]]}]
  /\ UNCHANGED history

Lose(c) ==
  /\ held' = [held EXCEPT ![c] = {}]
  /\ UNCHANGED history

Next ==
  \/ Publish
  \/ \E c \in Clients : Join(c) \/ CatchUp(c) \/ Lose(c)

Spec == Init /\ [][Next]_vars
=============================================================================
