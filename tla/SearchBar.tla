----------------------------- MODULE SearchBar -----------------------------
(***************************************************************************)
(* The search field of components/SearchBar.tsx: a debounced request for   *)
(* each pause in typing, aborted by the next one, and a list that opens    *)
(* with the answer.                                                        *)
(*                                                                         *)
(* Abstractions: a text is a value of Texts, "" and those of Blank among   *)
(* them.  The two awaits of a request (answer and body) are one; nothing   *)
(* happens between them.  The position in the list and the end of the      *)
(* component are left out.                                                 *)
(***************************************************************************)
EXTENDS Integers, FiniteSets

CONSTANTS
  Texts,      \* what may stand in the field
  Blank,      \* the texts of spaces, "" among them
  Found,      \* the texts for which the server knows a node
  Requests    \* requests whose promise is not settled, a bound of the model

ASSUME SearchAssumption ==
  /\ "" \in Blank /\ Blank \subseteq Texts /\ Found \subseteq Texts
  /\ "off" \notin Texts

VARIABLES
  bar,        \* query, results, isOpen, isLoading
  timer,      \* debounceTimer: the text it was set with, or "off"
  asked,      \* the requests: for which text, whether pending, whether aborted
  current,    \* abortControllerRef: {} or the request it is for
  dismissed   \* history: the list was closed for good since the last keystroke

searchVars == <<bar, timer, asked, current, dismissed>>

\* results is the text whose nodes are listed, "" for an empty list.
NoRequest == [pending |-> FALSE, text |-> "", aborted |-> FALSE]
Pending   == {r \in Requests : asked[r].pending}

SearchTypeOK ==
  /\ bar \in [query : Texts, results : Found \cup {""}, isOpen : BOOLEAN, isLoading : BOOLEAN]
  /\ timer \in Texts \cup {"off"}
  /\ asked \in [Requests -> [pending : BOOLEAN, text : Texts, aborted : BOOLEAN]]
  /\ \A r \in Requests : asked[r].pending \/ asked[r] = NoRequest
  /\ current \in {{}} \cup {{r} : r \in Requests}
  /\ dismissed \in BOOLEAN

SearchInit ==
  /\ bar = [query |-> "", results |-> "", isOpen |-> FALSE, isLoading |-> FALSE]
  /\ timer = "off"
  /\ asked = [r \in Requests |-> NoRequest]
  /\ current = {}
  /\ dismissed = FALSE

-----------------------------------------------------------------------------
\* abort() of a request that is settled does nothing.
\* Mutant: the previous request is left alone.
PreviousKept    == asked
PreviousAborted ==
  [r \in Requests |-> [asked[r] EXCEPT !.aborted = @ \/ (r \in current /\ asked[r].pending)]]

\* handleInputChange.
EnterText(text) ==
  /\ text # bar.query
  /\ bar' = [bar EXCEPT !.query = text]
  /\ timer' = text
  /\ dismissed' = FALSE
  /\ UNCHANGED <<asked, current>>

\* The timer after 150 ms: performSearch, up to the request.
SearchNothing ==
  /\ timer \in Blank
  /\ timer' = "off"
  /\ bar' = [bar EXCEPT !.results = "", !.isOpen = FALSE]
  /\ UNCHANGED <<asked, current, dismissed>>

Search ==
  /\ timer \notin Blank \cup {"off"}
  /\ \E r \in Requests \ Pending :
       /\ asked' = [PreviousAborted EXCEPT ![r] = [pending |-> TRUE, text |-> timer, aborted |-> FALSE]]
       /\ current' = {r}
  /\ bar' = [bar EXCEPT !.isLoading = TRUE, !.results = ""]
  /\ timer' = "off"
  /\ UNCHANGED dismissed

\* The end of performSearch; its finally clears the flag in every case.
Settled(r, results, isOpen) ==
  /\ asked' = [asked EXCEPT ![r] = NoRequest]
  /\ bar' = [bar EXCEPT !.results = results, !.isOpen = isOpen, !.isLoading = FALSE]
  /\ UNCHANGED <<timer, current, dismissed>>

Listed(r) ==
  /\ r \in Pending /\ ~asked[r].aborted
  /\ Settled(r, IF asked[r].text \in Found THEN asked[r].text ELSE "", TRUE)

\* The network, the status or the body is bad.
Failed(r) ==
  /\ r \in Pending /\ ~asked[r].aborted
  /\ Settled(r, "", FALSE)

\* An AbortError.
Rejected(r) ==
  /\ r \in Pending /\ asked[r].aborted
  /\ Settled(r, bar.results, bar.isOpen)

-----------------------------------------------------------------------------
\* What selectNode, Escape and the clear button have in common.
Dismissed ==
  /\ bar' = [bar EXCEPT !.query = "", !.results = "", !.isOpen = FALSE]
  /\ asked' = PreviousAborted /\ current' = {} /\ dismissed' = TRUE
  /\ timer' = "off"

\* A click on a node of the list, or Enter.
SelectNode  == bar.isOpen /\ bar.results # "" /\ Dismissed
Escape      == bar.isOpen /\ Dismissed
ClearSearch == ~bar.isLoading /\ bar.query # "" /\ Dismissed

\* handleClickOutside, when the list or the notice is drawn.
Drawn == bar.isOpen /\ (bar.results # "" \/ (bar.query # "" /\ ~bar.isLoading))
ClickOutside ==
  /\ Drawn
  /\ bar' = [bar EXCEPT !.isOpen = FALSE]
  /\ UNCHANGED <<timer, asked, current, dismissed>>

SearchNext ==
  \/ \E text \in Texts : EnterText(text)
  \/ SearchNothing \/ Search
  \/ \E r \in Requests : Listed(r) \/ Failed(r) \/ Rejected(r)
  \/ SelectNode \/ Escape \/ ClearSearch \/ ClickOutside

SearchSpec == SearchInit /\ [][SearchNext]_searchVars

-----------------------------------------------------------------------------
(* Properties.                                                             *)

Quiet == timer = "off" /\ Pending = {}

\* When nothing is under way, the nodes listed are those of the text in the
\* field, whatever was typed, aborted and answered before.  Only a field that
\* was emptied by hand may show an answer: that of the request it did not
\* abort.
ListFitsQuery == Quiet => bar.results \in {"", bar.query} \/ bar.query \in Blank

\* The spinner does not outlive the requests.
SpinnerEnds == Pending = {} => ~bar.isLoading

\* Once a node was selected, or the search dismissed, no timer and no answer
\* opens the list again before the next keystroke.
StaysDismissed == dismissed => ~bar.isOpen

\* What the field shows is what its user last asked for.
ListIsWanted == ListFitsQuery /\ SpinnerEnds /\ StaysDismissed
=============================================================================
