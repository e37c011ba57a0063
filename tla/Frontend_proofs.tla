-------------------------- MODULE Frontend_proofs --------------------------
(***************************************************************************)
(* What FrontendMC's run checks of the browser's components and of a walk  *)
(* through the pages of the graph, for every value of their constants.     *)
(* Each component has an inductive invariant, and as they share no state   *)
(* these are one invariant of FrontendSpec (FrontendInv).                  *)
(*                                                                         *)
(*   StreamInv   of the loads that aborts keep apart one goes on and the   *)
(*               rest are doomed; somebody will clear each flag of the     *)
(*               page; what a load has in hand has both ends of its links  *)
(*   SearchInv   a live request is the one an abort would reach, and what  *)
(*               will not be replaced fits                                 *)
(*   LodTypeOK   the tier is the target unless a transition is under way   *)
(*   LayoutInv   the links end where the nodes stand; a worker that runs   *)
(*               has a graph                                               *)
(*   PagesInv    what was given is behind the cursor, the rest ahead of it *)
(***************************************************************************)
EXTENDS FrontendMC, FiniteSetTheorems, FunctionTheorems, TLAPS

(* The search bar. *)

\* The requests whose answer would still be listed.
Live == {r \in Requests : asked[r].pending /\ ~asked[r].aborted}

\* The timer was set by the last keystroke.
TimerIsLast == timer # "off" => timer = bar.query

\* A live request is the one an abort would reach.
LiveIsCurrent == \A r \in Live : current = {r}

Fits(text) == text \in {"", bar.query} \/ bar.query \in Blank

\* No timer will replace what is listed, so it fits, as what may be listed does.
ListFits == timer = "off" => Fits(bar.results) /\ \A r \in Live : Fits(asked[r].text)

\* Nothing is left that could open a list that was dismissed.
NothingOpens == dismissed => timer = "off" /\ Live = {} /\ ~bar.isOpen

SearchInv == SearchTypeOK /\ TimerIsLast /\ LiveIsCurrent /\ ListFits /\ SpinnerEnds /\ NothingOpens

LEMMA InitSearchInv == SearchInit => SearchInv
<1> SUFFICES ASSUME SearchInit PROVE SearchInv
  OBVIOUS
<1>1. bar.query = "" /\ bar.results = "" /\ ~bar.isOpen /\ ~bar.isLoading /\ "" \in Blank
  BY SearchAssumption DEF SearchInit
<1>2. Live = {}
  BY DEF SearchInit, Live, NoRequest
<1>3. SearchTypeOK
  BY SearchAssumption DEF SearchInit, SearchTypeOK, NoRequest
<1> QED
  BY <1>1, <1>2, <1>3 DEF SearchInit, SearchInv, TimerIsLast, LiveIsCurrent, ListFits, Fits, SpinnerEnds,
     NothingOpens

\* What an abort of the current request leaves: no live one.
LEMMA AbortEndsLive ==
  ASSUME SearchTypeOK, LiveIsCurrent
  PROVE  /\ PreviousAborted \in [Requests -> [pending : BOOLEAN, text : Texts, aborted : BOOLEAN]]
         /\ \A r \in Requests :
              /\ PreviousAborted[r].pending = asked[r].pending
              /\ PreviousAborted[r].pending => PreviousAborted[r].aborted
              /\ asked[r] = NoRequest => PreviousAborted[r] = NoRequest
<1>1. asked \in [Requests -> [pending : BOOLEAN, text : Texts, aborted : BOOLEAN]]
  BY DEF SearchTypeOK
<1>2. ASSUME NEW r \in Requests
      PROVE  /\ PreviousAborted[r] \in [pending : BOOLEAN, text : Texts, aborted : BOOLEAN]
             /\ PreviousAborted[r].pending = asked[r].pending
             /\ PreviousAborted[r].aborted = (asked[r].aborted \/ (r \in current /\ asked[r].pending))
             /\ asked[r] = NoRequest => PreviousAborted[r] = NoRequest
  <2> DEFINE AbortedIf(q, b) == [q EXCEPT !.aborted = b]
             hit == asked[r].aborted \/ (r \in current /\ asked[r].pending)
  <2>1. PreviousAborted[r] = AbortedIf(asked[r], hit)
    BY Zenon DEF PreviousAborted
  <2> DEFINE Request == [pending : BOOLEAN, text : Texts, aborted : BOOLEAN]
  <2>2. asked[r] \in Request /\ asked[r].aborted \in BOOLEAN /\ asked[r].pending \in BOOLEAN
    BY <1>1
  <2>3. NoRequest.aborted = FALSE /\ NoRequest.pending = FALSE
    <3>1. NoRequest.aborted = FALSE
      BY DEF NoRequest
    <3>2. NoRequest.pending = FALSE
      BY DEF NoRequest
    <3> QED BY <3>1, <3>2
  <2>4. hit \in BOOLEAN /\ (asked[r] = NoRequest => hit = FALSE)
    BY <2>2, <2>3, Zenon
  <2>5. ASSUME NEW q \in Request, NEW b \in BOOLEAN
        PROVE  AbortedIf(q, b) \in Request /\ AbortedIf(q, b).pending = q.pending
    OBVIOUS
  <2>6. ASSUME NEW q \in Request, NEW b \in BOOLEAN
        PROVE  AbortedIf(q, b).aborted = b /\ (q.aborted = b => AbortedIf(q, b) = q)
    OBVIOUS
  <2> HIDE DEF Aborted, hit, Request
  <2>7. /\ AbortedIf(asked[r], hit) \in Request
        /\ AbortedIf(asked[r], hit).pending = asked[r].pending
        /\ AbortedIf(asked[r], hit).aborted = hit
        /\ asked[r] = NoRequest => AbortedIf(asked[r], hit) = NoRequest
    <3>1. asked[r] = NoRequest => asked[r].aborted = hit
      BY <2>3, <2>4, Zenon
    <3>2. asked[r] = NoRequest => AbortedIf(asked[r], hit) = asked[r]
      <4>1. asked[r].aborted = hit => AbortedIf(asked[r], hit) = asked[r]
        BY <2>2, <2>4, <2>6, Zenon
      <4> QED BY <3>1, <4>1, Zenon
    <3>3. asked[r] = NoRequest => AbortedIf(asked[r], hit) = NoRequest
      BY <3>2
    <3>4. AbortedIf(asked[r], hit) \in Request /\ AbortedIf(asked[r], hit).pending = asked[r].pending
      BY <2>2, <2>4, <2>5
    <3>5. AbortedIf(asked[r], hit).aborted = hit
      BY <2>2, <2>4, <2>6
    <3> QED BY <3>3, <3>4, <3>5
  <2> QED BY <2>1, <2>7, Zenon DEF hit, Request
<1>3. PreviousAborted \in [Requests -> [pending : BOOLEAN, text : Texts, aborted : BOOLEAN]]
  BY <1>2 DEF PreviousAborted
<1> QED
  BY <1>2, <1>3 DEF LiveIsCurrent, Live

LEMMA SettledInv ==
  ASSUME SearchInv, NEW r \in Pending, NEW results, NEW isOpen \in BOOLEAN,
         Settled(r, results, isOpen), results \in Found \cup {""},
         timer = "off" => Fits(results), dismissed => ~isOpen
  PROVE  SearchInv'
<1> USE DEF Settled, SearchInv
<1>1. SearchTypeOK'
  BY SearchAssumption DEF SearchTypeOK, NoRequest, Pending
<1>2. Live' \subseteq Live /\ \A q \in Live' : asked'[q] = asked[q]
  BY DEF Live, SearchTypeOK, NoRequest
<1>3. bar'.query = bar.query /\ bar'.results = results /\ bar'.isOpen = isOpen /\ ~bar'.isLoading
  BY DEF SearchTypeOK
<1>4. TimerIsLast' /\ LiveIsCurrent' /\ SpinnerEnds' /\ NothingOpens'
  BY <1>2, <1>3 DEF TimerIsLast, LiveIsCurrent, SpinnerEnds, NothingOpens
<1>5. ListFits'
  BY <1>2, <1>3 DEF ListFits, Fits
<1> QED BY <1>1, <1>4, <1>5

LEMMA DismissedInv == ASSUME SearchInv, Dismissed, ~bar.isLoading \/ bar.isOpen PROVE SearchInv'
<1> USE DEF Dismissed, SearchInv
<1>1. SearchTypeOK'
  BY AbortEndsLive, SearchAssumption DEF SearchTypeOK
<1>2. Live' = {} /\ Pending' = Pending
  BY AbortEndsLive DEF Live, Pending
<1>3. bar'.query = "" /\ bar'.results = "" /\ ~bar'.isOpen /\ bar'.isLoading = bar.isLoading
  BY DEF SearchTypeOK
<1> QED
  BY <1>1, <1>2, <1>3 DEF TimerIsLast, LiveIsCurrent, ListFits, Fits, SpinnerEnds, NothingOpens

LEMMA StepSearchInv == SearchInv /\ [SearchNext]_searchVars => SearchInv'
<1> SUFFICES ASSUME SearchInv, [SearchNext]_searchVars PROVE SearchInv'
  OBVIOUS
<1> USE DEF SearchInv
<1>1. ASSUME NEW text \in Texts, EnterText(text) PROVE SearchInv'
  <2>1. SearchTypeOK' /\ timer' # "off" /\ bar'.query = text /\ bar'.isLoading = bar.isLoading
    BY <1>1, SearchAssumption DEF EnterText, SearchTypeOK
  <2> QED
    BY <1>1, <2>1 DEF EnterText, TimerIsLast, LiveIsCurrent, Live, ListFits, SpinnerEnds, Pending,
       NothingOpens
<1>2. CASE SearchNothing
  <2>1. bar.query \in Blank /\ timer # "off"
    BY <1>2, SearchAssumption DEF SearchNothing, TimerIsLast
  <2>2. SearchTypeOK' /\ bar'.query = bar.query /\ bar'.isLoading = bar.isLoading
    BY <1>2, SearchAssumption DEF SearchNothing, SearchTypeOK
  <2> QED
    BY <1>2, <2>1, <2>2 DEF SearchNothing, TimerIsLast, LiveIsCurrent, Live, ListFits, Fits,
       SpinnerEnds, Pending, NothingOpens
<1>3. CASE Search
  <2>1. PICK r \in Requests \ Pending :
          /\ asked' = [PreviousAborted EXCEPT ![r] = [pending |-> TRUE, text |-> timer, aborted |-> FALSE]]
          /\ current' = {r}
    BY <1>3 DEF Search
  <2>2. timer \in Texts /\ timer = bar.query /\ timer' = "off" /\ ~dismissed /\ dismissed' = dismissed
    BY <1>3 DEF Search, SearchTypeOK, TimerIsLast, NothingOpens
  <2>3. bar' = [bar EXCEPT !.isLoading = TRUE, !.results = ""]
    BY <1>3 DEF Search
  <2>4. SearchTypeOK'
    BY <2>1, <2>2, <2>3, AbortEndsLive DEF SearchTypeOK, Pending
  <2>5. asked'[r].text = timer /\ r \in Pending' /\ Live' \subseteq {r}
    BY <2>1, AbortEndsLive DEF Live, Pending
  <2>6. bar'.query = bar.query /\ bar'.results = ""
    BY <2>3 DEF SearchTypeOK
  <2> QED
    BY <2>1, <2>2, <2>4, <2>5, <2>6 DEF TimerIsLast, LiveIsCurrent, ListFits, Fits, SpinnerEnds,
       NothingOpens
<1>4. ASSUME NEW r \in Requests, Listed(r) PROVE SearchInv'
  <2>1. r \in Live /\ r \in Pending /\ ~dismissed
    BY <1>4 DEF Listed, Live, Pending, NothingOpens
  <2> DEFINE results == IF asked[r].text \in Found THEN asked[r].text ELSE ""
  <2>2. results \in Found \cup {""} /\ (timer = "off" => Fits(results))
    BY <2>1 DEF ListFits, Fits
  <2> QED BY <1>4, <2>1, <2>2, SettledInv DEF Listed
<1>5. ASSUME NEW r \in Requests, Failed(r) PROVE SearchInv'
  BY <1>5, SettledInv DEF Failed, Fits
<1>6. ASSUME NEW r \in Requests, Rejected(r) PROVE SearchInv'
  <2>1. bar.results \in Found \cup {""} /\ bar.isOpen \in BOOLEAN
    BY DEF SearchTypeOK
  <2> QED BY <1>6, <2>1, SettledInv DEF Rejected, ListFits, NothingOpens
<1>7. CASE SelectNode \/ Escape \/ ClearSearch
  BY <1>7, DismissedInv DEF SelectNode, Escape, ClearSearch
<1>8. CASE ClickOutside
  <2>1. SearchTypeOK' /\ bar'.query = bar.query /\ bar'.results = bar.results /\ ~bar'.isOpen
        /\ bar'.isLoading = bar.isLoading
    BY <1>8 DEF ClickOutside, SearchTypeOK
  <2> QED
    BY <1>8, <2>1 DEF ClickOutside, TimerIsLast, LiveIsCurrent, Live, ListFits, Fits, SpinnerEnds,
       Pending, NothingOpens
<1>9. CASE UNCHANGED searchVars
  BY <1>9 DEF searchVars, SearchTypeOK, TimerIsLast, LiveIsCurrent, Live, ListFits, Fits, SpinnerEnds,
     Pending, NothingOpens
<1> QED BY <1>1, <1>2, <1>3, <1>4, <1>5, <1>6, <1>7, <1>8, <1>9 DEF SearchNext

\* The variables keep their types, whatever is typed, answered and clicked.
THEOREM SearchTypeCorrect == SearchSpec => []SearchTypeOK
<1>1. SearchInv => SearchTypeOK
  BY DEF SearchInv
<1> QED BY InitSearchInv, StepSearchInv, <1>1, PTL DEF SearchSpec

\* For any texts and any number of requests that are late, aborted or fail:
\* what is listed at rest is what the field asks for, the spinner ends with
\* the requests, and nothing opens the list again once it was dismissed.
THEOREM SearchShowsWhatIsWanted == SearchSpec => []ListIsWanted
<1>1. SearchInv => ListIsWanted
  BY DEF SearchInv, ListIsWanted, ListFitsQuery, Quiet, ListFits, Fits, StaysDismissed, NothingOpens
<1> QED BY InitSearchInv, StepSearchInv, <1>1, PTL DEF SearchSpec

-----------------------------------------------------------------------------
(* How the 3D view gets its graph. *)

LoadRecords ==
  [pc : {"idle", "fetching", "parsing", "reading", "yielding"}, for : TypeFilters,
   signal : BOOLEAN, aborted : BOOLEAN, got : Graphs, shown : Graphs]

PageRecords ==
  [data : {{}} \cup {{g} : g \in Graphs}, error : BOOLEAN, loading : BOOLEAN,
   progress : BOOLEAN, ready : BOOLEAN]

Part(g, f) == g \in Graphs /\ g.nodes \subseteq Answer[f].nodes /\ g.links \subseteq Answer[f].links

\* The links among some nodes.
Among(f, nodes) == {k \in Answer[f].links : k[1] \in nodes /\ k[2] \in nodes}

\* What a load has read and shown is of the graph it is for; JSON is put into
\* batches with all the links there are among the nodes.
SoundLoad(x) ==
  /\ Part(x.got, x.for) /\ Part(x.shown, x.for)
  /\ x.shown.nodes \subseteq x.got.nodes /\ x.shown.links \subseteq x.got.links
  /\ x.pc = "idle" => x = Idle
  /\ x.pc \in {"fetching", "parsing"} => x.got = EmptyGraph /\ x.shown = EmptyGraph
  /\ x.pc = "yielding" => x.got.links = Among(x.for, x.got.nodes)
  /\ x.aborted => x.signal

LoadsSound == load \in [Loads -> LoadRecords] /\ \A l \in Loads : SoundLoad(load[l])

PageSound == page \in PageRecords /\ LinksHaveEnds

\* Somebody will clear the flag.
LoadingEnds == page.loading => \E l \in InFlight : NotLoading(l)

ProgressEnds == page.progress /\ filter # "none" => \E l \in InFlight : ~load[l].aborted

\* Of loads that aborts keep apart one goes on, for the filters there are, and
\* the others will not get to the page.
GoesOn(l)   == ~load[l].aborted /\ load[l].for = filter /\ filter # "none"
Doomed(l) == load[l].aborted /\ ~ (load[l].pc = "yielding" /\ Shown(l))

KeptApart ==
  ~muddled =>
    /\ \A l \in InFlight : GoesOn(l) \/ Doomed(l)
    /\ \A k, l \in InFlight : GoesOn(k) /\ GoesOn(l) => k = l

PresentGraph == IF filter = "none" THEN EmptyGraph ELSE Answer[filter]

SettledPage ==
  ~muddled /\ (\A l \in InFlight : ~GoesOn(l)) => page.error \/ page.data = {PresentGraph}

StreamInv ==
  /\ filter \in TypeFilters /\ muddled \in BOOLEAN
  /\ LoadsSound /\ PageSound /\ LoadingEnds /\ ProgressEnds /\ KeptApart /\ SettledPage

LEMMA StreamInvHolds == StreamInv => StreamTypeOK /\ LinksHaveEnds /\ RestingPageIsCurrent
<1> SUFFICES ASSUME StreamInv PROVE StreamTypeOK /\ LinksHaveEnds /\ RestingPageIsCurrent
  OBVIOUS
<1>1. StreamTypeOK
  <2>1. page \in PageRecords /\ filter \in TypeFilters /\ muddled \in BOOLEAN
    BY DEF StreamInv, PageSound
  <2>2. \A l \in Loads : load[l] \in LoadRecords /\ SoundLoad(load[l])
    BY DEF StreamInv, LoadsSound
  <2> QED BY <2>1, <2>2 DEF StreamTypeOK, LoadRecords, PageRecords, SoundLoad
<1>2. QuietPage
  BY DEF StreamInv, QuietPage, LoadingEnds, ProgressEnds
<1>3. InFlight = {} /\ ~muddled =>
        page.error \/ page.data = {IF filter = "none" THEN EmptyGraph ELSE Answer[filter]}
  BY DEF StreamInv, SettledPage, PresentGraph
<1> QED BY <1>1, <1>2, <1>3 DEF RestingPageIsCurrent, StreamInv, PageSound

LEMMA AnswerFacts ==
  ASSUME NEW f \in TypeFilters
  PROVE  /\ Answer[f] = [nodes |-> Answer[f].nodes, links |-> Answer[f].links]
         /\ Answer[f].links \subseteq Answer[f].nodes \X Answer[f].nodes
         /\ IsFiniteSet(Answer[f].nodes) /\ IsFiniteSet(Answer[f].links)
         /\ Part(Answer[f], f) /\ Answer[f] \in Graphs
<1>1. /\ Answer[f] \in [nodes : {Answer[f].nodes}, links : SUBSET (Answer[f].nodes \X Answer[f].nodes)]
      /\ IsFiniteSet(Answer[f].nodes)
  BY GraphStreamAssumption
<1>2. /\ Answer[f] = [nodes |-> Answer[f].nodes, links |-> Answer[f].links]
      /\ Answer[f].links \subseteq Answer[f].nodes \X Answer[f].nodes
  BY <1>1
<1>3. IsFiniteSet(Answer[f].links)
  BY <1>1, <1>2, FS_Product, FS_Subset
<1>4. Answer[f] \in [nodes : SUBSET Answer[f].nodes, links : SUBSET Answer[f].links]
  BY <1>2
<1>5. Answer[f] \in Graphs
  BY <1>4 DEF Graphs
<1> QED BY <1>1, <1>2, <1>3, <1>5 DEF Part

\* Parts of an answer, and pages they may be shown on.
LEMMA PartIs ==
  ASSUME NEW f \in TypeFilters, NEW ns \in SUBSET Answer[f].nodes, NEW ks \in SUBSET Answer[f].links
  PROVE  LET g == [nodes |-> ns, links |-> ks]
         IN  Part(g, f) /\ g.nodes = ns /\ g.links = ks
<1> DEFINE g == [nodes |-> ns, links |-> ks]
<1>1. g \in [nodes : SUBSET Answer[f].nodes, links : SUBSET Answer[f].links]
  OBVIOUS
<1>2. g \in Graphs
  BY <1>1 DEF Graphs
<1> QED BY <1>2 DEF Part

LEMMA EmptyIsPart ==
  /\ "none" \in TypeFilters
  /\ EmptyGraph \in Graphs /\ EmptyGraph.nodes = {} /\ EmptyGraph.links = {}
  /\ \A f \in TypeFilters : Part(EmptyGraph, f)
<1>1. "none" \in TypeFilters
  BY GraphStreamAssumption
<1>2. \A f \in TypeFilters : EmptyGraph \in [nodes : SUBSET Answer[f].nodes, links : SUBSET Answer[f].links]
  BY DEF EmptyGraph
<1>3. EmptyGraph \in Graphs
  BY <1>1, <1>2 DEF Graphs
<1> QED BY <1>1, <1>3 DEF Part, EmptyGraph

LEMMA IdleIsSound ==
  /\ Idle \in LoadRecords /\ SoundLoad(Idle) /\ Idle.pc = "idle" /\ ~Idle.aborted
  /\ \A l, f : \A s \in BOOLEAN : f \in TypeFilters =>
       /\ Begin(l, f, s) \in LoadRecords /\ SoundLoad(Begin(l, f, s))
       /\ Begin(l, f, s).pc = "fetching" /\ Begin(l, f, s).for = f
       /\ ~Begin(l, f, s).aborted
<1>1. Idle \in LoadRecords
  BY EmptyIsPart DEF Idle, LoadRecords
<1>2. /\ Idle.pc = "idle" /\ Idle.for = "none" /\ Idle.signal = FALSE /\ Idle.aborted = FALSE
      /\ Idle.got = EmptyGraph /\ Idle.shown = EmptyGraph
  BY DEF Idle
<1>3. SoundLoad(Idle)
  BY <1>2, EmptyIsPart DEF SoundLoad
<1>4. ASSUME NEW l, NEW f \in TypeFilters, NEW s \in BOOLEAN
      PROVE  /\ Begin(l, f, s) \in LoadRecords /\ SoundLoad(Begin(l, f, s))
             /\ Begin(l, f, s).pc = "fetching" /\ Begin(l, f, s).for = f
             /\ ~Begin(l, f, s).aborted
  <2>1. PICK x : x = Begin(l, f, s)
    OBVIOUS
  <2>2. x = [pc |-> "fetching", for |-> f, signal |-> s, aborted |-> FALSE, got |-> EmptyGraph, shown |-> EmptyGraph]
    BY <2>1 DEF Begin, Idle
  <2>3. x \in LoadRecords
    BY <2>2, EmptyIsPart DEF LoadRecords
  <2>4. /\ x.pc = "fetching" /\ x.for = f /\ ~x.aborted
        /\ x.got = EmptyGraph /\ x.shown = EmptyGraph
    BY <2>2
  <2>5. SoundLoad(x)
    BY <2>4, EmptyIsPart DEF SoundLoad
  <2> QED BY <2>1, <2>3, <2>4, <2>5
<1> QED BY <1>1, <1>2, <1>3, <1>4

LEMMA BegunIsSound ==
  ASSUME NEW l, NEW f \in TypeFilters, NEW s \in BOOLEAN
  PROVE  /\ Begin(l, f, s) \in LoadRecords /\ SoundLoad(Begin(l, f, s))
         /\ Begin(l, f, s).pc = "fetching" /\ Begin(l, f, s).for = f
         /\ ~Begin(l, f, s).aborted
BY IdleIsSound

\* What the page becomes.
LEMMA EmptiedPage ==
  ASSUME page \in PageRecords, NEW loading \in BOOLEAN, Emptied(loading)
  PROVE  /\ page' \in PageRecords
         /\ page'.data = {EmptyGraph} /\ ~page'.error /\ ~page'.progress
         /\ page'.loading = loading
<1>1. page.ready \in BOOLEAN
  BY DEF PageRecords
<1>2. PICK r \in BOOLEAN : page' = [data |-> {EmptyGraph}, error |-> FALSE, loading |-> loading,
                                    progress |-> FALSE, ready |-> r]
  <2>1. (page.ready /\ ~loading) \in BOOLEAN
    BY <1>1, Zenon
  <2> QED BY <2>1, Zenon DEF Emptied
<1>3. {EmptyGraph} \in {{g} : g \in Graphs}
  BY EmptyIsPart
<1>4. page' \in PageRecords
  BY <1>2, <1>3 DEF PageRecords
<1> QED BY <1>2, <1>4

LEMMA CompletedPage ==
  ASSUME page \in PageRecords, NEW l, load[l].signal \in BOOLEAN, load[l].aborted \in BOOLEAN,
         NEW g \in Graphs, Complete(l, g)
  PROVE  /\ page' \in PageRecords
         /\ page'.data = {g} /\ page'.error = page.error /\ ~page'.progress
         /\ page'.loading => page.loading /\ ~NotLoading(l)
<1>1. PICK b \in BOOLEAN : b = NotLoading(l)
  BY Zenon DEF NotLoading
<1>2. page' = [page EXCEPT !.data = {g}, !.progress = FALSE, !.ready = TRUE,
                           !.loading = IF NotLoading(l) THEN FALSE ELSE @]
  BY DEF Complete
<1>3. PICK c \in BOOLEAN : c = IF NotLoading(l) THEN FALSE ELSE page.loading
  <2>1. page.loading \in BOOLEAN
    BY DEF PageRecords
  <2> QED BY <2>1, Zenon
<1>4. page' = [page EXCEPT !.data = {g}, !.progress = FALSE, !.ready = TRUE, !.loading = c]
  BY <1>2, <1>3, Zenon
<1>5. {g} \in {{h} : h \in Graphs}
  OBVIOUS
<1>6. page' \in PageRecords
  BY <1>4, <1>5 DEF PageRecords
<1>7. page'.data = {g} /\ page'.error = page.error /\ page'.progress = FALSE /\ page'.loading = c
  BY <1>4 DEF PageRecords
<1> QED BY <1>1, <1>3, <1>6, <1>7

LEMMA FailedPage ==
  ASSUME page \in PageRecords, NEW l, load[l].signal \in BOOLEAN, load[l].aborted \in BOOLEAN, Fail(l)
  PROVE  /\ page' \in PageRecords
         /\ page'.data = {} /\ page'.error /\ ~page'.progress
         /\ page'.loading => page.loading /\ ~NotLoading(l)
<1>1. PICK b \in BOOLEAN : b = NotLoading(l)
  BY Zenon DEF NotLoading
<1>2. page' = [page EXCEPT !.data = {}, !.error = TRUE, !.progress = FALSE,
                           !.loading = IF NotLoading(l) THEN FALSE ELSE @]
  BY DEF Fail
<1>3. PICK c \in BOOLEAN : c = IF NotLoading(l) THEN FALSE ELSE page.loading
  <2>1. page.loading \in BOOLEAN
    BY DEF PageRecords
  <2> QED BY <2>1, Zenon
<1>4. page' = [page EXCEPT !.data = {}, !.error = TRUE, !.progress = FALSE, !.loading = c]
  BY <1>2, <1>3, Zenon
<1>6. page' \in PageRecords
  BY <1>4 DEF PageRecords
<1>7. page'.data = {} /\ page'.error = TRUE /\ page'.progress = FALSE /\ page'.loading = c
  BY <1>4 DEF PageRecords
<1> QED BY <1>1, <1>3, <1>6, <1>7

LEMMA ProgressPage ==
  ASSUME page \in PageRecords, NEW l, NEW stage, NEW has, NEW shown \in Graphs,
         Progress(l, stage, has, shown)
  PROVE  /\ page' \in PageRecords
         /\ page'.data \in {page.data, {shown}}
         /\ page'.loading = page.loading
<1>1. CASE shown = load[l].shown
  BY <1>1, Zenon DEF Progress
<1>2. CASE shown # load[l].shown
  <2>1. PICK r \in BOOLEAN : r = (page.ready \/ (load[l].shown.nodes = {} /\ shown.nodes # {}))
    BY Zenon
  <2>2. page' = [page EXCEPT !.data = {shown}, !.progress = TRUE,
                     !.ready = @ \/ (load[l].shown.nodes = {} /\ shown.nodes # {})]
    BY <1>2, Zenon DEF Progress
  <2>3. page' = [page EXCEPT !.data = {shown}, !.progress = TRUE, !.ready = r]
    BY <2>1, <2>2, Zenon
  <2>4. {shown} \in {{h} : h \in Graphs}
    OBVIOUS
  <2>5. page' \in PageRecords
    BY <2>3, <2>4 DEF PageRecords
  <2>6. page'.data = {shown} /\ page'.loading = page.loading
    BY <2>3 DEF PageRecords
  <2> QED BY <2>5, <2>6
<1> QED BY <1>1, <1>2

\* One load is put back to rest.
LEMMA QuitLoad ==
  ASSUME LoadsSound, NEW l \in Loads, Quit(l)
  PROVE  /\ LoadsSound' /\ InFlight' = InFlight \ {l}
         /\ \A k \in Loads \ {l} : load'[k] = load[k]
         /\ filter' = filter /\ muddled' = muddled
<1>1. load' = [load EXCEPT ![l] = Idle] /\ filter' = filter /\ muddled' = muddled
  BY DEF Quit
<1>2. load \in [Loads -> LoadRecords]
  BY DEF LoadsSound
<1>3. load'[l] = Idle /\ \A k \in Loads \ {l} : load'[k] = load[k]
  BY <1>1, <1>2
<1>4. load' \in [Loads -> LoadRecords]
  BY <1>1, <1>2, IdleIsSound
<1>5. \A k \in Loads : SoundLoad(load'[k])
  BY <1>3, IdleIsSound DEF LoadsSound
<1>6. LoadsSound'
  <2>1. ASSUME NEW k \in Loads PROVE SoundLoad(load[k])'
    BY <1>5 DEF SoundLoad
  <2> QED BY <1>4, <1>5 DEF LoadsSound
<1>7. InFlight' = InFlight \ {l}
  BY <1>3, IdleIsSound DEF InFlight
<1> QED BY <1>1, <1>3, <1>6, <1>7

\* One load goes on.
LEMMA LoadGoesOn ==
  ASSUME LoadsSound, NEW l \in Loads, load[l].pc # "idle",
         NEW x \in LoadRecords, SoundLoad(x), x.pc # "idle",
         x.aborted = load[l].aborted, x.for = load[l].for, x.signal = load[l].signal,
         load' = [load EXCEPT ![l] = x]
  PROVE  /\ LoadsSound' /\ InFlight' = InFlight
         /\ load'[l] = x /\ \A k \in Loads \ {l} : load'[k] = load[k]
         /\ \A k \in Loads : /\ load'[k].aborted = load[k].aborted /\ load'[k].for = load[k].for
                             /\ load'[k].signal = load[k].signal
<1>2. load \in [Loads -> LoadRecords]
  BY DEF LoadsSound
<1>3. load'[l] = x /\ \A k \in Loads \ {l} : load'[k] = load[k]
  BY <1>2
<1>4. load' \in [Loads -> LoadRecords]
  BY <1>2
<1>5. \A k \in Loads : SoundLoad(load'[k])
  BY <1>3 DEF LoadsSound
<1>6. LoadsSound'
  BY <1>4, <1>5 DEF LoadsSound
<1>7. InFlight' = InFlight
  BY <1>3 DEF InFlight
<1> QED BY <1>3, <1>6, <1>7

\* A load ends, and the page is left by it as the next loads and rests need it.
LEMMA EndOfLoad ==
  ASSUME StreamInv, NEW l \in Loads, load[l].pc # "idle", Quit(l),
         page' \in PageRecords, LinksHaveEnds',
         page'.loading => page.loading /\ ~NotLoading(l),
         page'.progress => page.progress /\ load[l].aborted,
         ~muddled => page'.error \/ page'.data = {PresentGraph} \/ (load[l].aborted /\ page' = page)
  PROVE  StreamInv'
<1> USE DEF StreamInv
<1>1. /\ LoadsSound' /\ InFlight' = InFlight \ {l}
      /\ \A k \in Loads \ {l} : load'[k] = load[k]
      /\ filter' = filter /\ muddled' = muddled
  BY QuitLoad
<1>2. InFlight \subseteq Loads /\ l \in InFlight
  BY DEF InFlight
<1>3. \A k \in InFlight \ {l} : (NotLoading(k)' <=> NotLoading(k)) /\ (GoesOn(k)' <=> GoesOn(k)) /\ (Doomed(k)' <=> Doomed(k))
  BY <1>1, <1>2 DEF NotLoading, GoesOn, Doomed, Shown
<1>4. LoadingEnds'
  BY <1>1, <1>2, <1>3 DEF LoadingEnds
<1>5. ProgressEnds'
  BY <1>1, <1>2 DEF ProgressEnds
<1>6. KeptApart'
  BY <1>1, <1>2, <1>3 DEF KeptApart
<1>7. SettledPage'
  <2>1. PresentGraph' = PresentGraph
    BY <1>1 DEF PresentGraph
  <2>2. load[l].aborted => ~GoesOn(l)
    BY DEF GoesOn
  <2>3. SUFFICES ASSUME ~muddled, \A k \in InFlight' : ~GoesOn(k)' PROVE page'.error \/ page'.data = {PresentGraph}
    BY <1>1, <2>1 DEF SettledPage
  <2>4. CASE load[l].aborted /\ page' = page
    <3>1. \A k \in InFlight : ~GoesOn(k)
      BY <1>1, <1>2, <1>3, <2>2, <2>3, <2>4
    <3> QED BY <3>1, <2>3, <2>4 DEF SettledPage
  <2> QED BY <2>3, <2>4
<1> QED BY <1>1, <1>4, <1>5, <1>6, <1>7 DEF PageSound

\* A load that no abort has reached goes on.
LEMMA OnTheWay ==
  ASSUME StreamInv, NEW l \in Loads, load[l].pc # "idle", ~load[l].aborted,
         NEW x \in LoadRecords, SoundLoad(x), x.pc # "idle",
         x.aborted = load[l].aborted, x.for = load[l].for, x.signal = load[l].signal,
         load' = [load EXCEPT ![l] = x], UNCHANGED <<filter, muddled>>,
         page' \in PageRecords, LinksHaveEnds', page'.loading = page.loading
  PROVE  StreamInv'
<1> USE DEF StreamInv
<1>1. /\ LoadsSound' /\ InFlight' = InFlight
      /\ load'[l] = x /\ \A k \in Loads \ {l} : load'[k] = load[k]
      /\ \A k \in Loads : /\ load'[k].aborted = load[k].aborted /\ load'[k].for = load[k].for
                          /\ load'[k].signal = load[k].signal
      /\ filter' = filter /\ muddled' = muddled
  BY LoadGoesOn
<1>2. InFlight \subseteq Loads /\ l \in InFlight
  BY DEF InFlight
<1>3. \A k \in InFlight : (NotLoading(k)' <=> NotLoading(k)) /\ (GoesOn(k)' <=> GoesOn(k))
  BY <1>1, <1>2 DEF NotLoading, GoesOn
<1>4. \A k \in InFlight \ {l} : Doomed(k)' <=> Doomed(k)
  BY <1>1, <1>2 DEF Doomed, Shown
<1>5. ~muddled => GoesOn(l)
  BY <1>2 DEF KeptApart, Doomed
<1>6. LoadingEnds'
  BY <1>1, <1>2, <1>3 DEF LoadingEnds
<1>7. ProgressEnds'
  BY <1>1, <1>2 DEF ProgressEnds
<1>8. KeptApart'
  BY <1>1, <1>2, <1>3, <1>4, <1>5 DEF KeptApart
<1>9. SettledPage'
  BY <1>1, <1>2, <1>3, <1>5 DEF SettledPage
<1> QED BY <1>1, <1>6, <1>7, <1>8, <1>9 DEF PageSound

\* What is shown of an answer whose links are those among its nodes.
LEMMA DataLinks ==
  ASSUME NEW P, page'.data \in {page.data, P}, LinksHaveEnds,
         \A g \in P : g.links \subseteq g.nodes \X g.nodes
  PROVE  LinksHaveEnds'
BY DEF LinksHaveEnds

LEMMA AmongHasEnds ==
  ASSUME NEW f \in TypeFilters, NEW g, g.links = Among(f, g.nodes)
  PROVE  g.links \subseteq g.nodes \X g.nodes
<1>1. \A k \in Answer[f].links : k = <<k[1], k[2]>>
  <2>1. Answer[f].links \subseteq Answer[f].nodes \X Answer[f].nodes
    BY AnswerFacts
  <2>2. ASSUME NEW A, NEW k \in A \X A PROVE k = <<k[1], k[2]>> /\ k[1] \in A /\ k[2] \in A
    OBVIOUS
  <2> QED BY <2>1, <2>2
<1> QED BY <1>1 DEF Among

LEMMA LoadFacts ==
  ASSUME StreamInv, NEW l \in Loads
  PROVE  /\ load[l] \in LoadRecords /\ SoundLoad(load[l]) /\ load[l].for \in TypeFilters
         /\ load[l].signal \in BOOLEAN /\ load[l].aborted \in BOOLEAN
         /\ load[l].got \in Graphs /\ load[l].shown \in Graphs
         /\ ~muddled /\ load[l].pc # "idle" => GoesOn(l) \/ Doomed(l)
<1>1. load[l] \in LoadRecords /\ SoundLoad(load[l])
  BY DEF StreamInv, LoadsSound
<1>2. ~muddled /\ load[l].pc # "idle" => GoesOn(l) \/ Doomed(l)
  BY DEF StreamInv, KeptApart, InFlight
<1> QED BY <1>1, <1>2 DEF LoadRecords

LEMMA RespondInv ==
  ASSUME StreamInv, NEW l \in Loads, NEW stage \in {"parsing", "reading"}, Respond(l, stage)
  PROVE  StreamInv'
<1>1. /\ load[l].pc = "fetching" /\ ~load[l].aborted
      /\ load' = [load EXCEPT ![l].pc = stage] /\ UNCHANGED <<filter, page, muddled>>
  BY DEF Respond, Step
<1>2. load[l] \in LoadRecords /\ SoundLoad(load[l])
  BY LoadFacts
<1>3. PICK x : x = [load[l] EXCEPT !.pc = stage]
  OBVIOUS
<1>4. load' = [load EXCEPT ![l] = x]
  BY <1>1, <1>3
<1>5. /\ x \in LoadRecords /\ x.pc = stage /\ x.aborted = load[l].aborted /\ x.for = load[l].for
      /\ x.signal = load[l].signal /\ x.got = load[l].got /\ x.shown = load[l].shown
  BY <1>2, <1>3 DEF LoadRecords
<1>6. SoundLoad(x)
  BY <1>1, <1>2, <1>5 DEF SoundLoad
<1>7. page' \in PageRecords /\ LinksHaveEnds' /\ page'.loading = page.loading
  BY <1>1 DEF StreamInv, PageSound, LinksHaveEnds
<1> QED BY <1>1, <1>4, <1>5, <1>6, <1>7, OnTheWay

LEMMA FailInv ==
  ASSUME StreamInv, NEW l \in Loads, Fail(l)
  PROVE  StreamInv'
<1>1. load[l].pc # "idle" /\ Quit(l)
  BY DEF Fail, Step
<1>2. /\ page' \in PageRecords /\ page'.data = {} /\ page'.error /\ ~page'.progress
      /\ page'.loading => page.loading /\ ~NotLoading(l)
  BY FailedPage, LoadFacts DEF StreamInv, PageSound
<1>3. LinksHaveEnds'
  BY <1>2 DEF LinksHaveEnds
<1> QED BY <1>1, <1>2, <1>3, EndOfLoad

LEMMA IgnoredInv ==
  ASSUME StreamInv, NEW l \in Loads, load[l].pc # "idle", load[l].aborted, UNCHANGED page, Quit(l)
  PROVE  StreamInv'
<1>1. ~NotLoading(l)
  BY LoadFacts DEF NotLoading, SoundLoad
<1>2. page.loading => \E k \in InFlight : NotLoading(k)
  BY DEF StreamInv, LoadingEnds
<1>3. /\ page' \in PageRecords /\ LinksHaveEnds'
  BY DEF StreamInv, PageSound, LinksHaveEnds
<1> QED BY <1>1, <1>3, EndOfLoad

\* A load that is not stopped ends with the whole answer.
LEMMA WholeInv ==
  ASSUME StreamInv, NEW l \in Loads, load[l].pc # "idle",
         ~load[l].aborted \/ (load[l].pc = "yielding" /\ Shown(l)),
         NEW g, g = Answer[load[l].for], Complete(l, g)
  PROVE  StreamInv'
<1>1. load[l].for \in TypeFilters /\ g \in Graphs /\ g.links \subseteq g.nodes \X g.nodes
  BY LoadFacts, AnswerFacts
<1>2. /\ page' \in PageRecords /\ page'.data = {g} /\ ~page'.progress
      /\ page'.loading => page.loading /\ ~NotLoading(l)
  BY CompletedPage, LoadFacts, <1>1 DEF StreamInv, PageSound
<1>3. LinksHaveEnds'
  BY <1>1, <1>2 DEF LinksHaveEnds
<1>4. ~muddled => g = PresentGraph
  BY LoadFacts DEF GoesOn, Doomed, PresentGraph
<1>5. Quit(l)
  BY DEF Complete
<1> QED BY <1>2, <1>3, <1>4, <1>5, EndOfLoad

LEMMA ReadEndInv ==
  ASSUME StreamInv, NEW l \in Loads, ReadEnd(l)
  PROVE  StreamInv'
<1>1. load[l].pc # "idle" /\ ~load[l].aborted /\ Complete(l, Answer[load[l].for])
  BY DEF ReadEnd, Step
<1> QED BY <1>1, WholeInv

\* A batch of JSON keeps the links those among the nodes.
LEMMA BatchIsAmong ==
  ASSUME StreamInv, NEW l \in Loads, load[l].pc \in {"parsing", "yielding"},
         NEW batch \in SUBSET Answer[load[l].for].nodes
  PROVE  /\ AddBatch(l, batch) \in Graphs /\ Part(AddBatch(l, batch), load[l].for)
         /\ AddBatch(l, batch).nodes = load[l].got.nodes \cup batch
         /\ AddBatch(l, batch).links = Among(load[l].for, AddBatch(l, batch).nodes)
<1> DEFINE f == load[l].for
           nodes == load[l].got.nodes \cup batch
           links == load[l].got.links \cup BatchLinks(f, batch, nodes)
<1>1. f \in TypeFilters /\ SoundLoad(load[l]) /\ EmptyGraph.nodes = {} /\ EmptyGraph.links = {}
  BY LoadFacts, EmptyIsPart
<1>2. load[l].got.links = Among(f, load[l].got.nodes)
  <2>1. Among(f, {}) = {}
    BY DEF Among
  <2> QED BY <1>1, <2>1 DEF SoundLoad
<1>3. nodes \subseteq Answer[f].nodes
  BY <1>1 DEF SoundLoad, Part
<1>4. links = Among(f, nodes)
  BY <1>2 DEF Among, BatchLinks
<1>5. links \subseteq Answer[f].links
  BY <1>4 DEF Among
<1>6. AddBatch(l, batch) = [nodes |-> nodes, links |-> links]
  BY DEF AddBatch
<1> HIDE DEF links, nodes
<1>7. AddBatch(l, batch).nodes = nodes /\ AddBatch(l, batch).links = links /\ Part(AddBatch(l, batch), f)
  BY <1>1, <1>3, <1>5, <1>6, PartIs
<1> QED BY <1>4, <1>7 DEF Part, nodes

LEMMA BatchInv ==
  ASSUME StreamInv, NEW l \in Loads, Batch(l)
  PROVE  StreamInv'
<1>1. /\ load[l].pc \in {"parsing", "yielding"} /\ load[l].pc # "idle" /\ ~load[l].aborted
      /\ \E batch \in SUBSET Answer[load[l].for].nodes : Progress(l, "yielding", AddBatch(l, batch), AddBatch(l, batch))
  BY DEF Batch, BatchDue, Step
<1>2. PICK batch \in SUBSET Answer[load[l].for].nodes : Progress(l, "yielding", AddBatch(l, batch), AddBatch(l, batch))
  BY <1>1
<1>3. PICK g : g = AddBatch(l, batch)
  OBVIOUS
<1>4. g \in Graphs /\ Part(g, load[l].for) /\ g.links = Among(load[l].for, g.nodes)
  BY <1>1, <1>3, BatchIsAmong
<1>5. Progress(l, "yielding", g, g)
  BY <1>2, <1>3
<1>6. /\ page' \in PageRecords /\ page'.data \in {page.data, {g}} /\ page'.loading = page.loading
  BY <1>4, <1>5, ProgressPage DEF StreamInv, PageSound
<1>7. load[l] \in LoadRecords /\ load[l].for \in TypeFilters
  BY LoadFacts
<1>8. g.links \subseteq g.nodes \X g.nodes
  BY <1>4, <1>7, AmongHasEnds
<1>9. LinksHaveEnds'
  BY <1>6, <1>8 DEF LinksHaveEnds, StreamInv, PageSound
<1>10. PICK x : x = [load[l] EXCEPT !.pc = "yielding", !.got = g, !.shown = g]
  OBVIOUS
<1>11. load' = [load EXCEPT ![l] = x] /\ UNCHANGED <<filter, muddled>>
  BY <1>5, <1>10 DEF Progress
<1>12. /\ x \in LoadRecords /\ x.pc = "yielding" /\ x.aborted = load[l].aborted /\ x.for = load[l].for
       /\ x.signal = load[l].signal /\ x.got = g /\ x.shown = g
  BY <1>4, <1>7, <1>10 DEF LoadRecords
<1>13. SoundLoad(x)
  BY <1>1, <1>4, <1>12 DEF SoundLoad
<1> QED BY <1>1, <1>6, <1>9, <1>11, <1>12, <1>13, OnTheWay

\* Among all its nodes an answer has all its links.
LEMMA AllIsWhole ==
  ASSUME NEW f \in TypeFilters, NEW g \in Graphs, g.nodes = Answer[f].nodes, g.links = Among(f, g.nodes)
  PROVE  g = Answer[f]
<1>1. g = [nodes |-> g.nodes, links |-> g.links]
  BY DEF Graphs
<1>2. Answer[f].links \subseteq Answer[f].nodes \X Answer[f].nodes
  BY AnswerFacts
<1>3. ASSUME NEW A, NEW k \in A \X A PROVE k[1] \in A /\ k[2] \in A
  OBVIOUS
<1>4. g.links = Answer[f].links
  BY <1>2, <1>3 DEF Among
<1> QED BY <1>1, <1>4, AnswerFacts

LEMMA WholeJSONInv ==
  ASSUME StreamInv, NEW l \in Loads, WholeJSON(l)
  PROVE  StreamInv'
<1> DEFINE f == load[l].for
           g == AddBatch(l, Answer[f].nodes)
<1>1. /\ load[l].pc = "parsing" /\ ~load[l].aborted /\ Complete(l, g)
  BY DEF WholeJSON, Step
<1>2. g \in Graphs /\ g.nodes = load[l].got.nodes \cup Answer[f].nodes /\ g.links = Among(f, g.nodes)
  BY <1>1, BatchIsAmong
<1>3. f \in TypeFilters /\ load[l].got.nodes \subseteq Answer[f].nodes
  BY LoadFacts DEF SoundLoad, Part
<1> HIDE DEF g, f
<1>4. g = Answer[f]
  BY <1>2, <1>3, AllIsWhole
<1> QED BY <1>1, <1>4, WholeInv DEF f

LEMMA EndJSONInv ==
  ASSUME StreamInv, NEW l \in Loads, EndJSON(l)
  PROVE  StreamInv'
<1>1. load[l].pc = "yielding" /\ Shown(l) /\ Complete(l, load[l].got)
  BY DEF EndJSON
<1>2. load[l].got = Answer[load[l].for]
  BY <1>1, LoadFacts, AllIsWhole DEF Shown, SoundLoad
<1> QED BY <1>1, <1>2, WholeInv

\* What a chunk has read and shown: links are shown when all nodes are.
LEMMA ChunkShows ==
  ASSUME StreamInv, NEW l \in Loads, ReadChunk(l)
  PROVE  \E has, shown :
           /\ Part(has, load[l].for) /\ Part(shown, load[l].for)
           /\ shown.nodes \subseteq has.nodes /\ shown.links \subseteq has.links
           /\ shown.links \subseteq shown.nodes \X shown.nodes
           /\ load[l].pc = "reading" /\ ~load[l].aborted
           /\ Progress(l, "reading", has, shown)
<1> DEFINE f == load[l].for
<1>1. PICK ns \in SUBSET Answer[f].nodes, ks \in SUBSET Answer[f].links :
        /\ ks # {} => ns = Answer[f].nodes
        /\ \E sn \in SUBSET ns, sk \in SUBSET ks :
             LET shown == [nodes |-> sn, links |-> sk]
             IN  /\ InBatches([nodes |-> ns, links |-> ks], shown)
                 /\ Progress(l, "reading", [nodes |-> ns, links |-> ks], shown)
  BY DEF ReadChunk
<1>2. PICK sn \in SUBSET ns, sk \in SUBSET ks :
         /\ InBatches([nodes |-> ns, links |-> ks], [nodes |-> sn, links |-> sk])
         /\ Progress(l, "reading", [nodes |-> ns, links |-> ks], [nodes |-> sn, links |-> sk])
  BY <1>1
<1>3. PICK has, shown : has = [nodes |-> ns, links |-> ks] /\ shown = [nodes |-> sn, links |-> sk]
  OBVIOUS
<1>4. f \in TypeFilters
  BY LoadFacts
<1>5. sn \subseteq Answer[f].nodes /\ sk \subseteq Answer[f].links
  OBVIOUS
<1>6. Part(has, f) /\ Part(shown, f) /\ has.nodes = ns /\ has.links = ks /\ shown.nodes = sn /\ shown.links = sk
  BY <1>3, <1>4, <1>5, PartIs
<1>7. shown.links \subseteq shown.nodes \X shown.nodes
  <2>1. CASE sk = {}
    BY <1>6, <2>1
  <2>2. CASE sk # {}
    <3>1. IsFiniteSet(sk)
      BY <1>4, <1>5, AnswerFacts, FS_Subset
    <3>2. Cardinality(sk) \in Nat /\ Cardinality(sk) # 0
      BY <2>2, <3>1, FS_CardinalityType, FS_EmptySet
    <3>3. PICK c : c = Closed(Cardinality(has.links), 2 * BatchSize)
      OBVIOUS
    <3>4. Cardinality(sk) = c /\ (c > 0 => sn = ns)
      BY <1>2, <1>3, <1>6, <3>3 DEF InBatches
    <3>5. sn = ns
      BY <3>2, <3>4
    <3>6. ns = Answer[f].nodes
      BY <1>1, <2>2
    <3> QED BY <1>4, <1>5, <1>6, <3>5, <3>6, AnswerFacts
  <2> QED BY <2>1, <2>2
<1>8. load[l].pc = "reading" /\ ~load[l].aborted
  BY DEF ReadChunk, Step
<1>9. Progress(l, "reading", has, shown)
  BY <1>2, <1>3
<1> QED BY <1>6, <1>7, <1>8, <1>9

LEMMA ReadChunkInv ==
  ASSUME StreamInv, NEW l \in Loads, ReadChunk(l)
  PROVE  StreamInv'
<1>1. PICK has, shown :
        /\ Part(has, load[l].for) /\ Part(shown, load[l].for)
        /\ shown.nodes \subseteq has.nodes /\ shown.links \subseteq has.links
        /\ shown.links \subseteq shown.nodes \X shown.nodes
        /\ load[l].pc = "reading" /\ ~load[l].aborted
        /\ Progress(l, "reading", has, shown)
  BY ChunkShows
<1>2. has \in Graphs /\ shown \in Graphs
  BY <1>1 DEF Part
<1>3. /\ page' \in PageRecords /\ page'.data \in {page.data, {shown}} /\ page'.loading = page.loading
  BY <1>1, <1>2, ProgressPage DEF StreamInv, PageSound
<1>4. load[l] \in LoadRecords
  BY LoadFacts
<1>5. LinksHaveEnds'
  BY <1>1, <1>3 DEF LinksHaveEnds, StreamInv, PageSound
<1>6. PICK x : x = [load[l] EXCEPT !.pc = "reading", !.got = has, !.shown = shown]
  OBVIOUS
<1>7. load' = [load EXCEPT ![l] = x] /\ UNCHANGED <<filter, muddled>>
  BY <1>1, <1>6 DEF Progress
<1>8. /\ x \in LoadRecords /\ x.pc = "reading" /\ x.aborted = load[l].aborted /\ x.for = load[l].for
      /\ x.signal = load[l].signal /\ x.got = has /\ x.shown = shown
  BY <1>2, <1>4, <1>6 DEF LoadRecords
<1>9. SoundLoad(x)
  BY <1>1, <1>8 DEF SoundLoad
<1> QED BY <1>1, <1>3, <1>5, <1>7, <1>8, <1>9, OnTheWay

\* A load that has been told to stop.
LEMMA AbortedIsSound ==
  ASSUME StreamInv, NEW l \in Loads
  PROVE  /\ Aborted(l) \in LoadRecords /\ SoundLoad(Aborted(l))
         /\ Aborted(l).pc = load[l].pc /\ Aborted(l).for = load[l].for /\ Aborted(l).got = load[l].got
         /\ Aborted(l).signal = load[l].signal /\ Aborted(l).aborted = load[l].signal
<1>1. load[l] \in LoadRecords /\ SoundLoad(load[l])
  BY LoadFacts
<1>2. PICK x : x = Aborted(l)
  OBVIOUS
<1>3. x = [load[l] EXCEPT !.aborted = load[l].signal]
  BY <1>2 DEF Aborted
<1>4. /\ x \in LoadRecords /\ x.pc = load[l].pc /\ x.for = load[l].for /\ x.got = load[l].got
      /\ x.shown = load[l].shown /\ x.signal = load[l].signal /\ x.aborted = load[l].signal
  BY <1>1, <1>3 DEF LoadRecords
<1>5. x.pc = "idle" => x = Idle
  <2>1. SUFFICES ASSUME load[l].pc = "idle" PROVE x = Idle
    BY <1>4
  <2>2. load[l] = Idle
    BY <1>1, <2>1 DEF SoundLoad
  <2>3. Idle.signal = FALSE
    BY DEF Idle
  <2>4. x = [Idle EXCEPT !.aborted = FALSE]
    BY <1>3, <2>2, <2>3, Zenon
  <2> QED BY <2>4 DEF Idle
<1>6. SoundLoad(x)
  BY <1>1, <1>4, <1>5 DEF SoundLoad
<1> QED BY <1>2, <1>4, <1>6

\* The effect runs: the loads in flight are told to stop, and there may be a
\* new one.
LEMMA EffectLoads ==
  ASSUME StreamInv, NEW f \in TypeFilters, NEW new \in SUBSET (Loads \ InFlight),
         \A k, l \in new : k = l,
         load' = [l \in Loads |-> IF l \in new THEN Begin(l, f, TRUE)
                                  ELSE IF l \in InFlight THEN Aborted(l) ELSE load[l]],
         filter' = f, new # {} <=> f # "none",
         muddled' = (InFlight # {} /\ (muddled \/ \E l \in InFlight : Unstoppable(l)))
  PROVE  /\ LoadsSound' /\ KeptApart' /\ muddled' \in BOOLEAN
         /\ \A l \in new : l \in InFlight' /\ NotLoading(l)' /\ ~load'[l].aborted
         /\ \A l \in new : GoesOn(l)'
<1>1. \A l \in Loads : /\ load'[l] \in LoadRecords /\ SoundLoad(load'[l])
  <2> TAKE l \in Loads
  <2>1. load[l] \in LoadRecords /\ SoundLoad(load[l])
    BY LoadFacts
  <2> QED BY <2>1, AbortedIsSound, IdleIsSound
<1>2. load' \in [Loads -> LoadRecords]
  BY <1>1
<1>3. LoadsSound'
  BY <1>1, <1>2 DEF LoadsSound
<1>4. \A l \in new : /\ load'[l].pc = "fetching" /\ load'[l].for = f
                     /\ load'[l].signal = TRUE /\ ~load'[l].aborted
  <2> TAKE l \in new
  <2>1. load'[l] = Begin(l, f, TRUE)
    OBVIOUS
  <2>2. /\ Begin(l, f, TRUE).pc = "fetching" /\ Begin(l, f, TRUE).for = f
        /\ Begin(l, f, TRUE).signal = TRUE /\ ~Begin(l, f, TRUE).aborted
    BY DEF Begin, Idle
  <2> QED BY <2>1, <2>2
<1>5. \A l \in InFlight : /\ load'[l].pc = load[l].pc /\ load'[l].for = load[l].for /\ load'[l].got = load[l].got
                          /\ load'[l].signal = load[l].signal /\ load'[l].aborted = load[l].signal
  BY AbortedIsSound DEF InFlight
<1>6. InFlight' = InFlight \cup new
  <2>1. \A l \in Loads : load'[l].pc # "idle" <=> l \in InFlight \cup new
    BY <1>4, <1>5 DEF InFlight
  <2> QED BY <2>1 DEF InFlight
<1>7. muddled' \in BOOLEAN
  <2>1. (InFlight # {} /\ (muddled \/ \E l \in InFlight : Unstoppable(l))) \in BOOLEAN
    BY Zenon
  <2> QED BY <2>1, Zenon
<1>8. \A l \in new : GoesOn(l)'
  BY <1>4 DEF GoesOn
<1>9. KeptApart'
  <2>1. SUFFICES ASSUME ~muddled'
                 PROVE  /\ \A l \in InFlight' : GoesOn(l)' \/ Doomed(l)'
                        /\ \A k, l \in InFlight' : GoesOn(k)' /\ GoesOn(l)' => k = l
    BY DEF KeptApart
  <2>2. \A l \in InFlight : ~Unstoppable(l)
    BY <2>1, Zenon
  <2>3. \A l \in InFlight : Doomed(l)' /\ ~GoesOn(l)'
    <3> TAKE l \in InFlight
    <3>1. load[l].signal /\ ~(load[l].pc = "yielding" /\ load[l].got.nodes = Answer[load[l].for].nodes)
      BY <2>2, Zenon DEF Unstoppable, Shown
    <3>2. load'[l].aborted
      BY <1>5, <3>1, Zenon
    <3>3. ~(load'[l].pc = "yielding" /\ load'[l].got.nodes = Answer[load'[l].for].nodes)
      BY <1>5, <3>1
    <3> QED BY <3>2, <3>3 DEF Doomed, GoesOn, Shown
  <2> QED BY <1>6, <1>8, <2>3
<1> QED BY <1>3, <1>4, <1>6, <1>7, <1>8, <1>9 DEF NotLoading

LEMMA EmptyHasEnds == EmptyGraph.links \subseteq EmptyGraph.nodes \X EmptyGraph.nodes
BY EmptyIsPart

LEMMA SetFilterInv ==
  ASSUME StreamInv, NEW f \in TypeFilters, SetFilter(f)
  PROVE  StreamInv'
<1>1. CASE f = "none"
  <2>1. /\ filter' = f /\ page' = [page EXCEPT !.data = {EmptyGraph}, !.error = FALSE, !.loading = FALSE]
        /\ load' = [l \in Loads |-> IF l \in InFlight THEN Aborted(l) ELSE load[l]]
        /\ muddled' = (InFlight # {} /\ (muddled \/ \E l \in InFlight : Unstoppable(l)))
    BY <1>1, Zenon DEF SetFilter
  <2>2. PICK new \in SUBSET (Loads \ InFlight) : new = {}
    OBVIOUS
  <2>3. load' = [l \in Loads |-> IF l \in new THEN Begin(l, f, TRUE)
                                 ELSE IF l \in InFlight THEN Aborted(l) ELSE load[l]]
    BY <2>1, <2>2
  <2>4. LoadsSound' /\ KeptApart' /\ muddled' \in BOOLEAN
    BY <1>1, <2>1, <2>2, <2>3, EffectLoads
  <2>5. page' \in PageRecords /\ page'.data = {EmptyGraph} /\ page'.loading = FALSE
    <3>1. page \in PageRecords
      BY DEF StreamInv, PageSound
    <3>2. {EmptyGraph} \in {{g} : g \in Graphs}
      BY EmptyIsPart
    <3> QED BY <2>1, <3>1, <3>2 DEF PageRecords
  <2>6. LinksHaveEnds'
    BY <2>5, EmptyHasEnds DEF LinksHaveEnds
  <2> QED BY <1>1, <2>1, <2>4, <2>5, <2>6
          DEF StreamInv, PageSound, LoadingEnds, ProgressEnds, SettledPage, PresentGraph
<1>2. CASE f # "none"
  <2>1. PICK one \in Loads \ InFlight :
          /\ Emptied(TRUE)
          /\ load' = [l \in Loads |-> IF l = one THEN Begin(l, f, TRUE)
                                      ELSE IF l \in InFlight THEN Aborted(l) ELSE load[l]]
    BY <1>2 DEF SetFilter
  <2>2. filter' = f /\ muddled' = (InFlight # {} /\ (muddled \/ \E l \in InFlight : Unstoppable(l)))
    BY Zenon DEF SetFilter
  <2>3. PICK new \in SUBSET (Loads \ InFlight) : new = {one}
    OBVIOUS
  <2>4. load' = [l \in Loads |-> IF l \in new THEN Begin(l, f, TRUE)
                                 ELSE IF l \in InFlight THEN Aborted(l) ELSE load[l]]
    BY <2>1, <2>3
  <2>5. /\ LoadsSound' /\ KeptApart' /\ muddled' \in BOOLEAN
        /\ one \in InFlight' /\ NotLoading(one)' /\ ~load'[one].aborted /\ GoesOn(one)'
    <3>1. \A k, l \in new : k = l
      BY <2>3
    <3>2. new # {} <=> f # "none"
      BY <1>2, <2>3
    <3> QED BY <2>2, <2>3, <2>4, <3>1, <3>2, EffectLoads
  <2>6. /\ page' \in PageRecords /\ page'.data = {EmptyGraph} /\ ~page'.progress
    BY <2>1, EmptiedPage DEF StreamInv, PageSound
  <2>7. LinksHaveEnds'
    BY <2>6, EmptyHasEnds DEF LinksHaveEnds
  <2> QED BY <2>2, <2>5, <2>6, <2>7
          DEF StreamInv, PageSound, LoadingEnds, ProgressEnds, SettledPage
<1> QED BY <1>1, <1>2

LEMMA ReloadInv ==
  ASSUME StreamInv, Reload
  PROVE  StreamInv'
<1>1. filter' = filter /\ muddled' = (InFlight # {})
  BY Zenon DEF Reload
<1>2. muddled' \in BOOLEAN /\ (muddled' <=> InFlight # {})
  <2>1. (InFlight # {}) \in BOOLEAN
    BY Zenon
  <2> QED BY <1>1, <2>1, Zenon
<1>3. CASE filter = "none"
  <2>1. Emptied(FALSE) /\ load' = load
    BY <1>3 DEF Reload
  <2>2. /\ page' \in PageRecords /\ page'.data = {EmptyGraph} /\ ~page'.progress /\ ~page'.loading
    BY <2>1, EmptiedPage DEF StreamInv, PageSound
  <2>3. LinksHaveEnds'
    BY <2>2, EmptyHasEnds DEF LinksHaveEnds
  <2>4. InFlight' = InFlight /\ LoadsSound'
    BY <2>1 DEF InFlight, LoadsSound, StreamInv
  <2>5. KeptApart'
    BY <1>2, <2>4 DEF KeptApart
  <2> QED BY <1>1, <1>2, <1>3, <2>2, <2>3, <2>4, <2>5
          DEF StreamInv, PageSound, LoadingEnds, ProgressEnds, SettledPage, PresentGraph
<1>4. CASE filter # "none"
  <2>1. PICK new \in Loads \ InFlight :
          /\ Emptied(TRUE)
          /\ load' = [load EXCEPT ![new] = Begin(new, filter, FALSE)]
    BY <1>4 DEF Reload
  <2>2. /\ page' \in PageRecords /\ page'.data = {EmptyGraph} /\ ~page'.progress
    BY <2>1, EmptiedPage DEF StreamInv, PageSound
  <2>3. LinksHaveEnds'
    BY <2>2, EmptyHasEnds DEF LinksHaveEnds
  <2>4. PICK x : x = Begin(new, filter, FALSE)
    OBVIOUS
  <2>5. /\ x \in LoadRecords /\ SoundLoad(x) /\ x.pc = "fetching" /\ x.for = filter
        /\ x.signal = FALSE /\ x.aborted = FALSE
    <3>1. FALSE \in BOOLEAN /\ filter \in TypeFilters
      BY DEF StreamInv
    <3>2. x.signal = FALSE /\ x.aborted = FALSE
      BY <2>4 DEF Begin, Idle
    <3>3. /\ Begin(new, filter, FALSE) \in LoadRecords /\ SoundLoad(Begin(new, filter, FALSE))
          /\ Begin(new, filter, FALSE).pc = "fetching" /\ Begin(new, filter, FALSE).for = filter
      BY <3>1, BegunIsSound
    <3> QED BY <2>4, <3>2, <3>3
  <2>6. load \in [Loads -> LoadRecords]
    BY DEF StreamInv, LoadsSound
  <2>7. load'[new] = x /\ \A k \in Loads \ {new} : load'[k] = load[k]
    BY <2>1, <2>4, <2>6
  <2>8. load' \in [Loads -> LoadRecords]
    BY <2>1, <2>4, <2>5, <2>6
  <2>9. \A k \in Loads : SoundLoad(load'[k])
    BY <2>5, <2>7 DEF StreamInv, LoadsSound
  <2>10. LoadsSound'
    BY <2>8, <2>9 DEF LoadsSound
  <2>11. InFlight' = InFlight \cup {new}
    BY <2>5, <2>7 DEF InFlight
  <2>12. NotLoading(new)' /\ ~load'[new].aborted /\ GoesOn(new)'
    BY <1>1, <1>4, <2>5, <2>7 DEF NotLoading, GoesOn
  <2>13. KeptApart'
    BY <1>2, <2>11, <2>12 DEF KeptApart
  <2> QED BY <1>1, <1>2, <2>2, <2>3, <2>10, <2>11, <2>12, <2>13
          DEF StreamInv, PageSound, LoadingEnds, ProgressEnds, SettledPage
<1> QED BY <1>3, <1>4

LEMMA InitStreamInv == StreamInit => StreamInv
<1> SUFFICES ASSUME StreamInit PROVE StreamInv
  OBVIOUS
<1>1. /\ filter \in TypeFilters /\ filter # "none" /\ muddled = FALSE
      /\ page = [data |-> {EmptyGraph}, error |-> FALSE, loading |-> TRUE, progress |-> FALSE, ready |-> FALSE]
  BY DEF StreamInit
<1>2. PICK one \in Loads : load = [k \in Loads |->
          IF k = one THEN [Idle EXCEPT !.pc = "fetching", !.for = filter, !.signal = TRUE] ELSE Idle]
  BY DEF StreamInit
<1>3. PICK x : x = Begin(one, filter, TRUE)
  OBVIOUS
<1>4. load = [k \in Loads |-> IF k = one THEN x ELSE Idle]
  BY <1>2, <1>3 DEF Begin
<1>5. /\ x \in LoadRecords /\ SoundLoad(x) /\ x.pc = "fetching" /\ x.for = filter
      /\ x.signal = TRUE /\ x.aborted = FALSE
  <2>1. x.signal = TRUE /\ x.aborted = FALSE
    BY <1>3 DEF Begin, Idle
  <2>2. PICK s \in BOOLEAN : s = TRUE
    OBVIOUS
  <2>3. x = Begin(one, filter, s)
    BY <1>3, <2>2, Zenon
  <2>4. x \in LoadRecords /\ SoundLoad(x) /\ x.pc = "fetching" /\ x.for = filter
    BY <1>1, <2>3, IdleIsSound
  <2> QED BY <2>1, <2>4
<1>6. LoadsSound
  BY <1>4, <1>5, IdleIsSound DEF LoadsSound
<1>7. InFlight = {one} /\ load[one] = x
  BY <1>4, <1>5, IdleIsSound DEF InFlight
<1>8. page \in PageRecords /\ page.data = {EmptyGraph} /\ page.progress = FALSE
  <2>1. {EmptyGraph} \in {{g} : g \in Graphs}
    BY EmptyIsPart
  <2> QED BY <1>1, <2>1 DEF PageRecords
<1>9. LinksHaveEnds
  BY <1>8, EmptyHasEnds DEF LinksHaveEnds
<1>10. GoesOn(one) /\ NotLoading(one)
  BY <1>1, <1>5, <1>7 DEF GoesOn, NotLoading
<1>11. KeptApart
  BY <1>7, <1>10 DEF KeptApart
<1> QED BY <1>1, <1>6, <1>7, <1>8, <1>9, <1>10, <1>11
        DEF StreamInv, PageSound, LoadingEnds, ProgressEnds, SettledPage

LEMMA StepStreamInv == StreamInv /\ [StreamNext]_streamVars => StreamInv'
<1> SUFFICES ASSUME StreamInv, [StreamNext]_streamVars PROVE StreamInv'
  OBVIOUS
<1>1. CASE \E f \in TypeFilters : SetFilter(f)
  BY <1>1, SetFilterInv
<1>2. CASE Reload
  BY <1>2, ReloadInv
<1>3. CASE \E l \in Loads : LoadNext(l)
  <2>1. PICK l \in Loads : LoadNext(l)
    BY <1>3
  <2>2. CASE Respond(l, "parsing") \/ Respond(l, "reading")
    BY <2>2, RespondInv
  <2>3. CASE Fail(l)
    BY <2>3, FailInv
  <2>4. CASE Reject(l)
    BY <2>4, IgnoredInv DEF Reject
  <2>5. CASE Batch(l)
    BY <2>5, BatchInv
  <2>6. CASE WholeJSON(l)
    BY <2>6, WholeJSONInv
  <2>7. CASE EndJSON(l)
    BY <2>7, EndJSONInv
  <2>8. CASE StopJSON(l)
    BY <2>8, IgnoredInv DEF StopJSON
  <2>9. CASE ReadChunk(l)
    BY <2>9, ReadChunkInv
  <2>10. CASE ReadEnd(l)
    BY <2>10, ReadEndInv
  <2> QED BY <2>1, <2>2, <2>3, <2>4, <2>5, <2>6, <2>7, <2>8, <2>9, <2>10 DEF LoadNext
<1>4. CASE UNCHANGED streamVars
  BY <1>4 DEF streamVars, StreamInv, LoadsSound, PageSound, LinksHaveEnds, LoadingEnds, ProgressEnds,
              KeptApart, SettledPage, InFlight, NotLoading, GoesOn, Doomed, Shown, PresentGraph
<1> QED BY <1>1, <1>2, <1>3, <1>4 DEF StreamNext

-----------------------------------------------------------------------------
(* The level of detail. *)
USE LodAssumption

LodRecords ==
  [tier : Tier, target : Tier, transit : Upto(TransitionTime),
   below : Upto(DowngradeDelay), above : Upto(UpgradeDelay)]

LEMMA BoundedSeqs ==
  ASSUME NEW S, NEW n \in Nat, NEW s
  PROVE  s \in BoundedSeq(S, n) <=> s \in Seq(S) /\ Len(s) <= n
<1>1. ASSUME s \in BoundedSeq(S, n) PROVE s \in Seq(S) /\ Len(s) <= n
  <2>1. PICK m \in 0..n : s \in [1..m -> S]
    BY <1>1 DEF BoundedSeq, SeqOf
  <2> QED BY <2>1
<1>2. ASSUME s \in Seq(S), Len(s) <= n PROVE s \in BoundedSeq(S, n)
  <2>1. Len(s) \in 0..n /\ s \in [1..Len(s) -> S]
    BY <1>2
  <2> QED BY <2>1 DEF BoundedSeq, SeqOf
<1> QED BY <1>1, <1>2

LEMMA LaterIs ==
  ASSUME NEW cap \in Nat, NEW since \in Upto(cap), NEW gap \in Nat
  PROVE  Later(since, gap, cap) \in Upto(cap) /\ (since # Off => Later(since, gap, cap) # Off)
BY DEF Later, Upto, Off

LEMMA HeldIs ==
  ASSUME NEW cap \in Nat, NEW since \in Upto(cap), NEW gap \in Nat, NEW c
  PROVE  Held(c, since, gap, cap) \in Upto(cap)
<1>1. Off \in Upto(cap) /\ 0 \in Upto(cap)
  BY DEF Upto, Off
<1> QED BY <1>1, LaterIs DEF Held

LEMMA UpdatedIs ==
  ASSUME LodTypeOK, NEW h, NEW gap \in Nat
  PROVE  /\ Updated(h, gap) \in LodRecords
         /\ Updated(h, gap).transit = Off <=> Updated(h, gap).tier = Updated(h, gap).target
<1> DEFINE x == Updated(h, gap)
<1>1. /\ lod \in LodRecords /\ (lod.transit = Off <=> lod.tier = lod.target)
      /\ lod.tier \in Tier /\ lod.target \in Tier /\ lod.transit \in Upto(TransitionTime)
      /\ lod.below \in Upto(DowngradeDelay) /\ lod.above \in Upto(UpgradeDelay)
  BY DEF LodTypeOK, LodRecords
<1>2. PICK below, above, transit, below2, above2 :
        /\ below = Held(Low(h), lod.below, gap, DowngradeDelay)
        /\ above = Held(High(h), lod.above, gap, UpgradeDelay)
        /\ transit = Later(lod.transit, gap, TransitionTime)
        /\ below2 = Later(lod.below, gap, DowngradeDelay)
        /\ above2 = Later(lod.above, gap, UpgradeDelay)
  OBVIOUS
<1>3. /\ below \in Upto(DowngradeDelay) /\ above \in Upto(UpgradeDelay)
      /\ transit \in Upto(TransitionTime) /\ (lod.transit # Off => transit # Off)
      /\ below2 \in Upto(DowngradeDelay) /\ above2 \in Upto(UpgradeDelay)
  BY <1>1, <1>2, LaterIs, HeldIs
<1>4. \A n \in Nat : Off \in Upto(n) /\ 0 \in Upto(n) /\ 0 # Off
  BY DEF Upto, Off
<1>5. CASE lod.transit # Off
  <2>1. PICK tier, tr : /\ tier = IF transit = TransitionTime THEN lod.target ELSE lod.tier
                        /\ tr = IF transit = TransitionTime THEN Off ELSE transit
    OBVIOUS
  <2>2. x = [lod EXCEPT !.tier = tier, !.transit = tr, !.below = below2, !.above = above2]
    BY <1>2, <1>5, <2>1 DEF Updated
  <2>3. tier \in Tier /\ tr \in Upto(TransitionTime) /\ (tr = Off <=> tier = lod.target)
    BY <1>1, <1>3, <1>4, <1>5, <2>1
  <2> HIDE DEF x
  <2>4. x \in LodRecords /\ x.tier = tier /\ x.target = lod.target /\ x.transit = tr
    BY <1>1, <1>3, <2>2, <2>3 DEF LodRecords
  <2> QED BY <2>3, <2>4 DEF x
<1>6. CASE lod.transit = Off /\ below = DowngradeDelay /\ CanLower
  <2>1. x = Stepped(lod.tier - 1)
    BY <1>2, <1>6 DEF Updated
  <2>2. PICK t : t = lod.tier - 1
    OBVIOUS
  <2>3. t \in Tier /\ t # lod.tier
    BY <1>1, <1>6, <2>2 DEF CanLower, Tier
  <2>4. x = [lod EXCEPT !.target = t, !.transit = 0, !.below = Off, !.above = Off]
    BY <2>1, <2>2 DEF Stepped
  <2> HIDE DEF x
  <2>5. x \in LodRecords /\ x.tier = lod.tier /\ x.target = t /\ x.transit = 0
    BY <1>1, <1>4, <2>3, <2>4 DEF LodRecords
  <2> QED BY <1>4, <2>3, <2>5 DEF x
<1>7. CASE lod.transit = Off /\ ~(below = DowngradeDelay /\ CanLower) /\ above = UpgradeDelay /\ CanRaise
  <2>1. x = Stepped(lod.tier + 1)
    BY <1>2, <1>7 DEF Updated
  <2>2. PICK t : t = lod.tier + 1
    OBVIOUS
  <2>3. t \in Tier /\ t # lod.tier
    BY <1>1, <1>7, <2>2 DEF CanRaise, Tier
  <2>4. x = [lod EXCEPT !.target = t, !.transit = 0, !.below = Off, !.above = Off]
    BY <2>1, <2>2 DEF Stepped
  <2> HIDE DEF x
  <2>5. x \in LodRecords /\ x.tier = lod.tier /\ x.target = t /\ x.transit = 0
    BY <1>1, <1>4, <2>3, <2>4 DEF LodRecords
  <2> QED BY <1>4, <2>3, <2>5 DEF x
<1>8. CASE lod.transit = Off /\ ~(below = DowngradeDelay /\ CanLower) /\ ~(above = UpgradeDelay /\ CanRaise)
  <2>1. x = [lod EXCEPT !.below = below, !.above = above]
    BY <1>2, <1>8 DEF Updated
  <2> HIDE DEF x
  <2>2. x \in LodRecords /\ x.tier = lod.tier /\ x.target = lod.target /\ x.transit = lod.transit
    BY <1>1, <1>3, <2>1 DEF LodRecords
  <2> QED BY <1>1, <2>2 DEF x
<1> QED BY <1>5, <1>6, <1>7, <1>8

LEMMA InitLodType == LodInit => LodTypeOK
<1> SUFFICES ASSUME LodInit PROVE LodTypeOK
  OBVIOUS
<1>1. frames \in BoundedSeq(Rates, Window)
  <2>1. frames \in Seq(Rates) /\ Len(frames) <= Window
    BY DEF LodInit
  <2> QED BY <2>1, BoundedSeqs
<1>2. \A n \in Nat : Off \in Upto(n)
  BY DEF Upto, Off
<1>3. lod = [tier |-> 3, target |-> 3, transit |-> Off, below |-> Off, above |-> Off]
  BY DEF LodInit, Start
<1>4. lod \in LodRecords /\ lod.transit = Off /\ lod.tier = lod.target
  BY <1>2, <1>3 DEF LodRecords, Tier
<1>5. beat \in BOOLEAN
  BY Zenon DEF LodInit
<1>6. overrides \in 0..MaxOverrides
  <2>1. overrides = 0
    BY Zenon DEF LodInit
  <2> QED BY <2>1
<1> QED BY <1>1, <1>4, <1>5, <1>6 DEF LodTypeOK, LodRecords

LEMMA StepLodType == LodTypeOK /\ [LodNext]_lodVars => LodTypeOK'
<1> SUFFICES ASSUME LodTypeOK, [LodNext]_lodVars PROVE LodTypeOK'
  OBVIOUS
<1>1. /\ lod \in LodRecords /\ (lod.transit = Off <=> lod.tier = lod.target)
      /\ beat \in BOOLEAN /\ overrides \in 0..MaxOverrides
      /\ frames \in Seq(Rates) /\ Len(frames) <= Window /\ frames \in BoundedSeq(Rates, Window)
  BY BoundedSeqs DEF LodTypeOK, LodRecords
<1>2. \A n \in Nat : Off \in Upto(n) /\ 0 \in Upto(n) /\ 0 # Off
  BY DEF Upto, Off
<1>3. CASE \E rate \in Rates, gap \in Gaps : Frame(rate, gap)
  <2>1. PICK rate \in Rates, gap \in Gaps : Frame(rate, gap)
    BY <1>3
  <2>2. frames' \in Seq(Rates) /\ Len(frames') <= Window
    <3>1. PICK all : all = Append(frames, rate)
      OBVIOUS
    <3>2. all \in Seq(Rates) /\ Len(all) = Len(frames) + 1
      BY <1>1, <3>1
    <3>3. frames' = IF Len(all) > Window THEN Tail(all) ELSE all
      BY <2>1, <3>1 DEF Frame, Recorded
    <3> QED BY <1>1, <3>2, <3>3
  <2>3. PICK h : h = frames'
    OBVIOUS
  <2>4. lod' = Updated(h, gap) /\ beat' = ~beat /\ overrides' = overrides
    BY <2>1, <2>3 DEF Frame
  <2>5. lod' \in LodRecords /\ (lod'.transit = Off <=> lod'.tier = lod'.target)
    BY <2>4, UpdatedIs
  <2> QED BY <1>1, <2>2, <2>4, <2>5, BoundedSeqs DEF LodTypeOK, LodRecords
<1>4. CASE EmptyFrame
  <2>1. lod' = Updated(frames, 0) /\ beat' = ~beat /\ overrides' = overrides /\ frames' = frames
    BY <1>4 DEF EmptyFrame
  <2>2. lod' \in LodRecords /\ (lod'.transit = Off <=> lod'.tier = lod'.target)
    BY <2>1, UpdatedIs
  <2> QED BY <1>1, <2>1, <2>2 DEF LodTypeOK, LodRecords
<1>5. CASE \E tier \in Tier : SetTier(tier)
  <2>1. PICK t \in Tier : SetTier(t)
    BY <1>5
  <2>2. /\ t # lod.tier /\ lod' = [lod EXCEPT !.target = t, !.transit = 0]
        /\ frames' = frames /\ beat' = beat /\ overrides' \in 0..MaxOverrides
    BY <1>1, <2>1 DEF SetTier, OtherTier
  <2>3. lod' \in LodRecords /\ lod'.tier = lod.tier /\ lod'.target = t /\ lod'.transit = 0
    BY <1>1, <1>2, <2>2 DEF LodRecords
  <2> QED BY <1>1, <1>2, <2>2, <2>3 DEF LodTypeOK, LodRecords
<1>6. CASE ResetLod
  <2>1. frames' = <<>> /\ beat' = beat /\ overrides' \in 0..MaxOverrides
    BY <1>1, <1>6 DEF ResetLod
  <2>2. lod' = [tier |-> 3, target |-> 3, transit |-> Off, below |-> Off, above |-> Off]
    BY <1>6 DEF ResetLod, Start
  <2>3. lod' \in LodRecords /\ lod'.transit = Off /\ lod'.tier = lod'.target
    BY <1>2, <2>2 DEF LodRecords, Tier
  <2>4. frames' \in BoundedSeq(Rates, Window)
    <3>1. frames' \in Seq(Rates) /\ Len(frames') <= Window
      BY <2>1
    <3> QED BY <3>1, BoundedSeqs
  <2> QED BY <1>1, <2>1, <2>3, <2>4 DEF LodTypeOK, LodRecords
<1>7. CASE UNCHANGED lodVars
  BY <1>7 DEF lodVars, LodTypeOK
<1> QED BY <1>3, <1>4, <1>5, <1>6, <1>7 DEF LodNext

HIDE LodAssumption

-----------------------------------------------------------------------------
(* The layout of the 3D view. *)
USE LayoutAssumption

SimRecords ==
  [at : Spread, pre : BOOLEAN, threaded : BOOLEAN, main : {"none", "running", "still"}, useGiven : BOOLEAN]

SceneRecords == [at : Spread, ends : Spread]

Messages == [type : {"init", "updatePhysics", "stop"}, graph : Layouts]

MarredRecords == [rebuilt : BOOLEAN, recoloured : BOOLEAN, laidOut : BOOLEAN]

LayoutInv ==
  /\ view \in [graph : Layouts, changes : 0..MaxChanges]
  /\ sim \in SimRecords /\ DOMAIN sim.at = NodesOf(view.graph)
  /\ toWorker \in Seq(Messages)
  /\ worker \in [graph : Layouts \cup {"none"}, running : BOOLEAN]
  /\ worker.running => worker.graph \in Layouts
  /\ toPage \in Seq(Layouts) /\ Len(toPage) <= MaxPosts
  /\ scene \in SceneRecords
  /\ marred \in MarredRecords
  /\ LinksMeetNodes

LEMMA LayoutInvHolds == LayoutInv => LayoutTypeOK /\ LinksMeetNodes
<1> SUFFICES ASSUME LayoutInv PROVE LayoutTypeOK /\ LinksMeetNodes
  OBVIOUS
<1>1. sim \in SimRecords
  BY DEF LayoutInv
<1>2. /\ DOMAIN sim = {"at", "pre", "threaded", "main", "useGiven"}
      /\ sim.at \in Spread /\ sim.pre \in BOOLEAN /\ sim.threaded \in BOOLEAN /\ sim.useGiven \in BOOLEAN
      /\ sim.main \in {"none", "running", "still"}
  BY <1>1 DEF SimRecords
<1>3. scene \in SceneRecords
  BY DEF LayoutInv
<1>4. DOMAIN scene = {"at", "ends"} /\ scene.at \in Spread /\ scene.ends \in Spread
  BY <1>3 DEF SceneRecords
<1>5. toPage \in BoundedSeq(Layouts, MaxPosts)
  BY BoundedSeqs DEF LayoutInv
<1> QED BY <1>2, <1>4, <1>5 DEF LayoutInv, LayoutTypeOK, Messages, MarredRecords

LEMMA SpreadIs ==
  ASSUME NEW f, NEW S \in SUBSET AllNodes
  PROVE  /\ f \in [S -> Places] => f \in Spread
         /\ f \in Spread => DOMAIN f \subseteq AllNodes /\ f \in [DOMAIN f -> Places]
BY DEF Spread

LEMMA NodesAre ==
  ASSUME NEW g \in Layouts
  PROVE  /\ NodesOf(g) \subseteq AllNodes
         /\ \A i \in 1..Len(Order[g]) : Order[g][i] \in NodesOf(g)
         /\ DOMAIN Order[g] = 1..Len(Order[g]) /\ Len(Order[g]) \in Nat
         /\ \A n \in NodesOf(g) : /\ <<n, g>> \in Places /\ <<n, "server">> \in Places
                                  /\ <<n, "none">> \in Places
<1>1. Order[g] \in Seq(ToSet(Order[g]))
  OBVIOUS
<1>2. DOMAIN Order[g] = 1..Len(Order[g]) /\ Len(Order[g]) \in Nat
  BY <1>1
<1>3. \A i \in 1..Len(Order[g]) : Order[g][i] \in NodesOf(g)
  BY <1>2 DEF NodesOf, ToSet
<1>4. NodesOf(g) \subseteq AllNodes
  BY DEF AllNodes
<1>5. \A n \in NodesOf(g) : /\ <<n, g>> \in Places /\ <<n, "server">> \in Places
                            /\ <<n, "none">> \in Places
  BY <1>4 DEF Places
<1> QED BY <1>2, <1>3, <1>4, <1>5

LEMMA GivenIs ==
  ASSUME NEW g \in Layouts
  PROVE  /\ Given(g) \in Spread /\ DOMAIN Given(g) = NodesOf(g)
         /\ Computed(g) \in Spread /\ DOMAIN Computed(g) = NodesOf(g)
<1>1. PICK from : from = IF g \in Placed THEN "server" ELSE "none"
  OBVIOUS
<1>2. Given(g) = [n \in NodesOf(g) |-> <<n, from>>]
  BY <1>1 DEF Given
<1>3. from = "server" \/ from = "none"
  BY <1>1
<1>4. Given(g) \in [NodesOf(g) -> Places]
  BY <1>2, <1>3, NodesAre
<1>5. Computed(g) \in [NodesOf(g) -> Places]
  BY NodesAre DEF Computed
<1> QED BY <1>2, <1>4, <1>5, NodesAre, SpreadIs DEF Computed

LEMMA NothingIs == <<>> \in Spread /\ DOMAIN <<>> = {}
<1>1. DOMAIN <<>> = {} /\ <<>> \in [{} -> Places]
  OBVIOUS
<1>2. {} \in SUBSET AllNodes
  OBVIOUS
<1> QED BY <1>1, <1>2, SpreadIs

LEMMA ByIndexIs ==
  ASSUME NEW from \in Layouts, NEW to \in Layouts
  PROVE  ByIndex(from, to) \in Spread /\ DOMAIN ByIndex(from, to) \subseteq NodesOf(to)
<1> DEFINE both == {i \in DOMAIN Order[to] : i <= Len(Order[from])}
           at(n) == <<Order[from][CHOOSE i \in both : Order[to][i] = n], from>>
           S == {Order[to][i] : i \in both}
<1>1. ByIndex(from, to) = [n \in S |-> at(n)]
  BY DEF ByIndex
<1>2. \A i \in both : i \in 1..Len(Order[from]) /\ i \in 1..Len(Order[to])
  BY NodesAre
<1>3. S \subseteq NodesOf(to)
  BY <1>2, NodesAre
<1>4. ASSUME NEW n \in S PROVE at(n) \in Places
  <2>1. \E i \in both : Order[to][i] = n
    OBVIOUS
  <2>2. PICK i \in both : i = CHOOSE j \in both : Order[to][j] = n
    BY <2>1
  <2>3. Order[from][i] \in NodesOf(from)
    BY <1>2, NodesAre
  <2>4. at(n) = <<Order[from][i], from>>
    BY <2>2
  <2> QED BY <2>3, <2>4, NodesAre
<1> HIDE DEF S, at
<1>5. [n \in S |-> at(n)] \in [S -> Places]
  BY <1>4
<1>6. S \in SUBSET AllNodes
  BY <1>3, NodesAre
<1> QED BY <1>1, <1>3, <1>5, <1>6, SpreadIs

LEMMA MovedToIs ==
  ASSUME NEW shown \in Spread, NEW places \in Spread
  PROVE  /\ MovedTo(shown, places) \in Spread /\ DOMAIN MovedTo(shown, places) = DOMAIN shown
         /\ \A n \in DOMAIN shown \cap DOMAIN places : MovedTo(shown, places)[n] = places[n]
<1>1. /\ DOMAIN shown \subseteq AllNodes /\ shown \in [DOMAIN shown -> Places]
      /\ DOMAIN places \subseteq AllNodes /\ places \in [DOMAIN places -> Places]
  <2>1. {} \in SUBSET AllNodes
    OBVIOUS
  <2> QED BY <2>1, SpreadIs
<1>2. MovedTo(shown, places) \in [DOMAIN shown -> Places]
  BY <1>1 DEF MovedTo
<1> QED BY <1>1, <1>2, SpreadIs DEF MovedTo

\* After a tick the links end where the nodes stand.
LEMMA TickedIs ==
  ASSUME scene \in SceneRecords, marred \in MarredRecords, NEW places \in Spread,
         scene' = Ticked(places), marred' = Mended(places)
  PROVE  scene' \in SceneRecords /\ marred' \in MarredRecords /\ LinksMeetNodes'
<1>1. scene.at \in Spread
  BY DEF SceneRecords
<1>2. PICK moved : moved = MovedTo(scene.at, places)
  OBVIOUS
<1>3. scene' = [at |-> moved, ends |-> places]
  BY <1>2 DEF Ticked
<1>4. moved \in Spread /\ DOMAIN moved = DOMAIN scene.at
      /\ \A n \in DOMAIN scene.at \cap DOMAIN places : moved[n] = places[n]
  BY <1>1, <1>2, MovedToIs
<1>5. scene' \in SceneRecords /\ scene'.at = moved /\ scene'.ends = places
  BY <1>3, <1>4 DEF SceneRecords
<1>6. LinksMeetNodes'
  BY <1>4, <1>5 DEF LinksMeetNodes
<1>7. PICK b \in BOOLEAN : b = (marred.recoloured /\ ~(DOMAIN scene.at \subseteq DOMAIN places))
  <2>1. (marred.recoloured /\ ~(DOMAIN scene.at \subseteq DOMAIN places)) \in BOOLEAN
    BY DEF MarredRecords
  <2> QED BY <2>1, Zenon
<1>8. marred' = [marred EXCEPT !.recoloured = b]
  BY <1>7, Zenon DEF Mended
<1>9. marred' \in MarredRecords
  BY <1>8 DEF MarredRecords
<1> QED BY <1>5, <1>6, <1>9

\* Messages, none, one or two.
LEMMA MessagesAre ==
  ASSUME NEW g \in Layouts
  PROVE  /\ <<>> \in Seq(Messages)
         /\ \A t \in {"init", "updatePhysics", "stop"} : <<[type |-> t, graph |-> g]>> \in Seq(Messages)
         /\ <<[type |-> "init", graph |-> g], [type |-> "updatePhysics", graph |-> g]>> \in Seq(Messages)
<1>1. ASSUME NEW S, NEW a \in S, NEW b \in S
      PROVE  <<>> \in Seq(S) /\ <<a>> \in Seq(S) /\ <<a, b>> \in Seq(S)
  OBVIOUS
<1>2. \A t \in {"init", "updatePhysics", "stop"} : [type |-> t, graph |-> g] \in Messages
  BY DEF Messages
<1>3. \A t \in {"init", "updatePhysics", "stop"} : <<[type |-> t, graph |-> g]>> \in Seq(Messages)
  BY <1>1, <1>2
<1>4. PICK a \in Messages, b \in Messages :
        a = [type |-> "init", graph |-> g] /\ b = [type |-> "updatePhysics", graph |-> g]
  BY <1>2
<1>5. <<>> \in Seq(Messages) /\ <<a, b>> \in Seq(Messages)
  BY <1>1
<1> QED BY <1>3, <1>4, <1>5

LEMMA InitLayoutInv == LayoutInit => LayoutInv
<1> SUFFICES ASSUME LayoutInit PROVE LayoutInv
  OBVIOUS
<1>1. PICK threaded \in BOOLEAN, useGiven \in BOOLEAN :
       /\ sim = [at |-> Given("empty"), pre |-> FALSE, threaded |-> threaded, useGiven |-> useGiven,
                 main |-> IF threaded THEN "none" ELSE "running"]
       /\ toWorker = IF threaded THEN <<[type |-> "init", graph |-> "empty"],
                                        [type |-> "updatePhysics", graph |-> "empty"]>>
                     ELSE <<>>
  BY DEF LayoutInit
<1>2. Given("empty") \in Spread /\ DOMAIN Given("empty") = NodesOf("empty")
  BY GivenIs
<1>3. PICK main : main = IF threaded THEN "none" ELSE "running"
  OBVIOUS
<1>4. sim = [at |-> Given("empty"), pre |-> FALSE, threaded |-> threaded, useGiven |-> useGiven,
                 main |-> main]
  BY <1>1, <1>3
<1>5. sim \in SimRecords /\ sim.at = Given("empty")
  BY <1>2, <1>3, <1>4 DEF SimRecords
<1>6. toWorker \in Seq(Messages)
  BY <1>1, MessagesAre
<1>7. view = [graph |-> "empty", changes |-> 0] /\ worker = [graph |-> "none", running |-> FALSE]
      /\ toPage = <<>> /\ scene = [at |-> Given("empty"), ends |-> Given("empty")]
      /\ marred = [rebuilt |-> FALSE, recoloured |-> FALSE, laidOut |-> FALSE]
  BY DEF LayoutInit
<1>8. scene \in SceneRecords /\ LinksMeetNodes
  BY <1>2, <1>7 DEF SceneRecords, LinksMeetNodes
<1>9. view \in [graph : Layouts, changes : 0..MaxChanges] /\ view.graph = "empty"
  BY <1>7
<1>10. worker \in [graph : Layouts \cup {"none"}, running : BOOLEAN] /\ ~worker.running
  BY <1>7
<1>11. toPage \in Seq(Layouts) /\ Len(toPage) <= MaxPosts
  BY <1>7
<1>12. marred \in MarredRecords
  BY <1>7 DEF MarredRecords
<1> QED BY <1>2, <1>5, <1>6, <1>8, <1>9, <1>10, <1>11, <1>12 DEF LayoutInv

\* The page's data is set, and the worker told.
LEMMA DataSetIs ==
  ASSUME LayoutInv, NEW g \in Layouts
  PROVE  /\ DataSet(g) \in SimRecords /\ DataSet(g).at = Given(g)
         /\ Stop \in Seq(Messages) /\ InitMessage(g) \in Seq(Messages)
<1>1. sim \in SimRecords
  BY DEF LayoutInv
<1>2. PICK pre \in BOOLEAN : pre = Pre(g)
  <2>1. Pre(g) \in BOOLEAN
    BY <1>1 DEF Pre, SimRecords
  <2> QED BY <2>1, Zenon
<1>3. PICK main : main = Simulated(g)
  OBVIOUS
<1>4. main \in {"none", "running", "still"}
  BY <1>1, <1>3 DEF Simulated, SimRecords
<1>5. DataSet(g) = [sim EXCEPT !.at = Given(g), !.pre = pre, !.main = main]
  BY <1>2, <1>3, Zenon DEF DataSet
<1>6. DataSet(g) \in SimRecords /\ DataSet(g).at = Given(g)
  BY <1>1, <1>4, <1>5, GivenIs DEF SimRecords
<1>7. view.graph \in Layouts
  BY DEF LayoutInv
<1>8. Stop \in Seq(Messages) /\ InitMessage(g) \in Seq(Messages)
  BY <1>7, MessagesAre DEF Stop, InitMessage
<1> QED BY <1>6, <1>8

LEMMA Joined ==
  ASSUME NEW S, NEW s \in Seq(S), NEW t \in Seq(S)
  PROVE  s \o t \in Seq(S)
OBVIOUS

LEMMA ViewChanged ==
  ASSUME LayoutInv, Counted, NEW g \in Layouts
  PROVE  /\ [graph |-> g, changes |-> view.changes + 1] \in [graph : Layouts, changes : 0..MaxChanges]
         /\ [view EXCEPT !.changes = @ + 1] \in [graph : Layouts, changes : 0..MaxChanges]
         /\ [view EXCEPT !.changes = @ + 1].graph = view.graph
<1>1. view \in [graph : Layouts, changes : 0..MaxChanges]
  BY DEF LayoutInv
<1>2. PICK n \in 0..MaxChanges : n = view.changes + 1
  BY <1>1 DEF Counted
<1>3. view.changes + 1 = n
  BY <1>2
<1> QED BY <1>1, <1>3

LEMMA SetGraphInv ==
  ASSUME LayoutInv, NEW g \in Layouts, SetGraph(g)
  PROVE  LayoutInv'
<1>1. /\ Counted /\ view' = [graph |-> g, changes |-> view.changes + 1]
      /\ sim' = DataSet(g)
      /\ toWorker' = toWorker \o Stop \o (IF sim.threaded THEN InitMessage(g) ELSE <<>>)
      /\ scene' = [at |-> Given(g), ends |-> IF g \in Placed THEN Given(g) ELSE <<>>]
      /\ worker' = worker /\ toPage' = toPage
  BY DEF SetGraph
<1>2. view' \in [graph : Layouts, changes : 0..MaxChanges] /\ view'.graph = g
  BY <1>1, ViewChanged
<1>3. sim' \in SimRecords /\ sim'.at = Given(g) /\ DOMAIN sim'.at = NodesOf(g)
  BY <1>1, DataSetIs, GivenIs
<1>4. toWorker' \in Seq(Messages)
  <2>1. PICK m \in Seq(Messages) : m = IF sim.threaded THEN InitMessage(g) ELSE <<>>
    BY DataSetIs
  <2>2. toWorker' = toWorker \o Stop \o m
    BY <1>1, <2>1
  <2>3. toWorker \in Seq(Messages)
    BY DEF LayoutInv
  <2>4. toWorker \o Stop \in Seq(Messages)
    BY <2>3, DataSetIs, Joined
  <2> QED BY <2>1, <2>2, <2>4, Joined
<1>5. PICK ends : ends = IF g \in Placed THEN Given(g) ELSE <<>>
  OBVIOUS
<1>6. ends \in Spread /\ (ends = Given(g) \/ DOMAIN ends = {})
  BY <1>5, GivenIs, NothingIs
<1>7. scene' = [at |-> Given(g), ends |-> ends]
  BY <1>1, <1>5
<1>8. scene' \in SceneRecords /\ scene'.at = Given(g) /\ scene'.ends = ends
  BY <1>6, <1>7, GivenIs DEF SceneRecords
<1>9. LinksMeetNodes'
  BY <1>6, <1>8 DEF LinksMeetNodes
<1>10. marred' \in MarredRecords
  <2>1. marred \in MarredRecords
    BY DEF LayoutInv
  <2>2. PICK b \in BOOLEAN : b = (marred.laidOut \/ (~Pre(g) /\ Order[g] # <<>>))
    <3>1. (marred.laidOut \/ (~Pre(g) /\ Order[g] # <<>>)) \in BOOLEAN
      BY <2>1, Zenon DEF MarredRecords
    <3> QED BY <3>1, Zenon
  <2>3. marred' = [rebuilt |-> FALSE, recoloured |-> FALSE, laidOut |-> b]
    BY <2>2, Zenon DEF SetGraph
  <2> QED BY <2>3 DEF MarredRecords
<1> QED BY <1>1, <1>2, <1>3, <1>4, <1>8, <1>9, <1>10 DEF LayoutInv

LEMMA RelayoutInv ==
  ASSUME LayoutInv, NEW physics \in BOOLEAN, Relayout(physics)
  PROVE  LayoutInv'
<1> DEFINE g == view.graph
<1>1. /\ Counted /\ view' = [view EXCEPT !.changes = @ + 1]
      /\ sim' = DataSet(g)
      /\ toWorker' = IF ~sim.threaded THEN toWorker
                     ELSE toWorker \o Stop \o InitMessage(g)
                            \o (IF physics THEN <<[type |-> "updatePhysics", graph |-> g]>> ELSE <<>>)
      /\ worker' = worker /\ toPage' = toPage
  BY DEF Relayout
<1>2. g \in Layouts /\ scene \in SceneRecords /\ marred \in MarredRecords /\ toWorker \in Seq(Messages)
  BY DEF LayoutInv
<1>3. view' \in [graph : Layouts, changes : 0..MaxChanges] /\ view'.graph = g
  BY <1>1, <1>2, ViewChanged
<1>4. sim' \in SimRecords /\ sim'.at = Given(g) /\ DOMAIN sim'.at = NodesOf(g)
  BY <1>1, <1>2, DataSetIs, GivenIs
<1>5. toWorker' \in Seq(Messages)
  <2>1. PICK m : m = IF physics THEN <<[type |-> "updatePhysics", graph |-> g]>> ELSE <<>>
    OBVIOUS
  <2>2. m \in Seq(Messages)
    BY <1>2, <2>1, MessagesAre
  <2>3. toWorker' = toWorker \/ toWorker' = toWorker \o Stop \o InitMessage(g) \o m
    BY <1>1, <2>1
  <2>4. toWorker \o Stop \o InitMessage(g) \o m \in Seq(Messages)
    BY <1>2, <2>2, DataSetIs, Joined
  <2> QED BY <1>2, <2>3, <2>4
<1>6. scene' \in SceneRecords /\ marred' \in MarredRecords /\ LinksMeetNodes'
  <2>1. CASE Pre(g)
    <3>1. scene' = Ticked(Given(g)) /\ marred' = Mended(Given(g))
      BY <2>1 DEF Relayout
    <3> QED BY <1>2, <3>1, GivenIs, TickedIs
  <2>2. CASE ~Pre(g)
    <3>1. scene' = scene /\ marred' = marred
      BY <2>2 DEF Relayout
    <3> QED BY <1>2, <3>1 DEF LayoutInv, LinksMeetNodes
  <2> QED BY <2>1, <2>2
<1> QED BY <1>1, <1>3, <1>4, <1>5, <1>6 DEF LayoutInv

LEMMA RebuildInv ==
  ASSUME LayoutInv, Rebuild \/ Recolour
  PROVE  LayoutInv'
<1>1. /\ Counted /\ view' = [view EXCEPT !.changes = @ + 1]
      /\ UNCHANGED <<sim, toWorker, worker, toPage>>
  BY DEF Rebuild, Recolour
<1>2. view' \in [graph : Layouts, changes : 0..MaxChanges] /\ view'.graph = view.graph
  BY <1>1, ViewChanged DEF LayoutInv
<1>3. scene \in SceneRecords /\ marred \in MarredRecords /\ view.graph \in Layouts
  BY DEF LayoutInv
<1>4. CASE Rebuild
  <2>1. scene' = [at |-> <<>>, ends |-> <<>>] /\ marred' = [marred EXCEPT !.rebuilt = TRUE, !.recoloured = FALSE]
    BY <1>4 DEF Rebuild
  <2>2. PICK e : e = <<>>
    OBVIOUS
  <2>3. e \in Spread /\ DOMAIN e = {} /\ scene' = [at |-> e, ends |-> e]
    BY <2>1, <2>2, NothingIs
  <2>4. scene' \in SceneRecords /\ DOMAIN scene'.ends = {}
    BY <2>3 DEF SceneRecords
  <2>5. marred' \in MarredRecords
    BY <1>3, <2>1 DEF MarredRecords
  <2> QED BY <1>1, <1>2, <2>4, <2>5 DEF LayoutInv, LinksMeetNodes
<1>5. CASE Recolour
  <2>1. /\ scene' = [scene EXCEPT !.at = Given(view.graph)]
        /\ marred' = [marred EXCEPT !.recoloured = TRUE]
    BY <1>5 DEF Recolour
  <2>2. scene' \in SceneRecords
    BY <1>3, <2>1, GivenIs DEF SceneRecords
  <2>3. marred' \in MarredRecords /\ marred'.recoloured
    BY <1>3, <2>1 DEF MarredRecords
  <2> QED BY <1>1, <1>2, <2>2, <2>3 DEF LayoutInv, LinksMeetNodes
<1> QED BY <1>4, <1>5

LEMMA WorkerReceiveInv ==
  ASSUME LayoutInv, WorkerReceive
  PROVE  LayoutInv'
<1>1. PICK m : m = Head(toWorker)
  OBVIOUS
<1>2. /\ toWorker # <<>> /\ toWorker' = Tail(toWorker)
      /\ worker' = CASE m.type = "init" -> [graph |-> m.graph, running |-> TRUE]
                     [] m.type = "stop" -> [worker EXCEPT !.running = FALSE]
                     [] m.type = "updatePhysics" -> [worker EXCEPT !.running = worker.graph # "none"]
      /\ UNCHANGED <<view, sim, toPage, scene, marred>>
  BY <1>1 DEF WorkerReceive
<1>3. toWorker \in Seq(Messages)
  BY DEF LayoutInv
<1>4. m \in Messages /\ toWorker' \in Seq(Messages)
  BY <1>1, <1>2, <1>3
<1>5. m.type \in {"init", "updatePhysics", "stop"} /\ m.graph \in Layouts
  BY <1>4 DEF Messages
<1>6. /\ worker \in [graph : Layouts \cup {"none"}, running : BOOLEAN]
      /\ worker.running => worker.graph \in Layouts
  BY DEF LayoutInv
<1>7. /\ worker' \in [graph : Layouts \cup {"none"}, running : BOOLEAN]
      /\ worker'.running => worker'.graph \in Layouts
  <2>1. CASE m.type = "init"
    <3>1. worker' = [graph |-> m.graph, running |-> TRUE]
      BY <1>2, <2>1
    <3> QED BY <1>5, <3>1
  <2>2. CASE m.type = "stop"
    <3>1. worker' = [worker EXCEPT !.running = FALSE]
      BY <1>2, <2>2
    <3> QED BY <1>6, <3>1
  <2>3. CASE m.type = "updatePhysics"
    <3>1. PICK b \in BOOLEAN : b = (worker.graph # "none")
      BY Zenon
    <3>2. worker' = [worker EXCEPT !.running = (worker.graph # "none")]
      BY <1>2, <2>3
    <3>3. worker' = [worker EXCEPT !.running = b]
      BY <3>1, <3>2, Zenon
    <3> QED BY <1>6, <3>1, <3>3
  <2> QED BY <1>5, <2>1, <2>2, <2>3
<1> QED BY <1>2, <1>4, <1>7 DEF LayoutInv, LinksMeetNodes

LEMMA WorkerTickInv ==
  ASSUME LayoutInv, NEW last \in BOOLEAN, WorkerTick(last)
  PROVE  LayoutInv'
<1>1. /\ worker.running /\ Len(toPage) < MaxPosts
      /\ worker' = [worker EXCEPT !.running = ~last]
      /\ toPage' = IF Order[worker.graph] = <<>> THEN toPage ELSE Append(toPage, worker.graph)
      /\ UNCHANGED <<view, sim, toWorker, scene, marred>>
  BY DEF WorkerTick
<1>2. /\ worker \in [graph : Layouts \cup {"none"}, running : BOOLEAN]
      /\ worker.graph \in Layouts /\ toPage \in Seq(Layouts) /\ Len(toPage) <= MaxPosts
  BY <1>1 DEF LayoutInv
<1>3. PICK b \in BOOLEAN : b = ~last
  BY Zenon
<1>4. worker' = [worker EXCEPT !.running = b]
  BY <1>1, <1>3, Zenon
<1>5. /\ worker' \in [graph : Layouts \cup {"none"}, running : BOOLEAN]
      /\ worker'.graph \in Layouts
  BY <1>2, <1>4
<1>6. toPage' \in Seq(Layouts) /\ Len(toPage') <= MaxPosts
  BY <1>1, <1>2
<1> QED BY <1>1, <1>5, <1>6 DEF LayoutInv, LinksMeetNodes

LEMMA PageReceiveInv ==
  ASSUME LayoutInv, PageReceive
  PROVE  LayoutInv'
<1>1. PICK places : places = ByIndex(Head(toPage), view.graph)
  OBVIOUS
<1>2. /\ toPage # <<>> /\ toPage' = Tail(toPage)
      /\ sim' = [sim EXCEPT !.at = MovedTo(sim.at, places)]
      /\ scene' = Ticked(places) /\ marred' = Mended(places)
      /\ UNCHANGED <<view, toWorker, worker>>
  BY <1>1 DEF PageReceive
<1>3. /\ toPage \in Seq(Layouts) /\ Len(toPage) <= MaxPosts /\ view.graph \in Layouts
      /\ sim \in SimRecords /\ DOMAIN sim.at = NodesOf(view.graph)
      /\ scene \in SceneRecords /\ marred \in MarredRecords
  BY DEF LayoutInv
<1>4. Head(toPage) \in Layouts /\ toPage' \in Seq(Layouts) /\ Len(toPage') <= MaxPosts
  BY <1>2, <1>3
<1>5. places \in Spread
  BY <1>1, <1>3, <1>4, ByIndexIs
<1>6. sim.at \in Spread
  BY <1>3 DEF SimRecords
<1>7. PICK moved : moved = MovedTo(sim.at, places)
  OBVIOUS
<1>8. moved \in Spread /\ DOMAIN moved = DOMAIN sim.at
  BY <1>5, <1>6, <1>7, MovedToIs
<1>9. sim' = [sim EXCEPT !.at = moved]
  BY <1>2, <1>7
<1>10. sim' \in SimRecords /\ sim'.at = moved
  BY <1>3, <1>8, <1>9 DEF SimRecords
<1>11. scene' \in SceneRecords /\ marred' \in MarredRecords /\ LinksMeetNodes'
  BY <1>2, <1>3, <1>5, TickedIs
<1> QED BY <1>2, <1>3, <1>4, <1>8, <1>10, <1>11 DEF LayoutInv

LEMMA WorkerErrorInv ==
  ASSUME LayoutInv, WorkerError
  PROVE  LayoutInv'
<1>1. /\ sim' = [sim EXCEPT !.threaded = FALSE, !.main = FallenBack]
      /\ toWorker' = <<>> /\ toPage' = <<>>
      /\ worker' = [graph |-> "none", running |-> FALSE]
      /\ view' = view
  BY DEF WorkerError
<1>2. /\ sim \in SimRecords /\ DOMAIN sim.at = NodesOf(view.graph) /\ view.graph \in Layouts
      /\ scene \in SceneRecords /\ marred \in MarredRecords
  BY DEF LayoutInv
<1>3. sim.at \in Spread /\ sim.main \in {"none", "running", "still"}
  BY <1>2 DEF SimRecords
<1>4. PICK main \in {"none", "running", "still"} : main = FallenBack
  BY <1>3 DEF FallenBack
<1>5. sim' = [sim EXCEPT !.threaded = FALSE, !.main = main]
  BY <1>1, <1>4
<1>6. sim' \in SimRecords /\ sim'.at = sim.at
  BY <1>2, <1>5 DEF SimRecords
<1>7. scene' \in SceneRecords /\ marred' \in MarredRecords /\ LinksMeetNodes'
  <2>1. CASE sim.pre
    <3>1. scene' = Ticked(sim.at) /\ marred' = Mended(sim.at)
      BY <2>1 DEF WorkerError
    <3> QED BY <1>2, <1>3, <3>1, TickedIs
  <2>2. CASE ~sim.pre
    <3>1. scene' = scene /\ marred' = marred
      BY <2>2 DEF WorkerError
    <3> QED BY <1>2, <3>1 DEF LayoutInv, LinksMeetNodes
  <2> QED BY <2>1, <2>2
<1>8. toWorker' \in Seq(Messages) /\ toPage' \in Seq(Layouts) /\ Len(toPage') <= MaxPosts
  BY <1>1
<1>9. worker' \in [graph : Layouts \cup {"none"}, running : BOOLEAN] /\ ~worker'.running
  BY <1>1
<1> QED BY <1>1, <1>2, <1>6, <1>7, <1>8, <1>9 DEF LayoutInv

LEMMA MainTickInv ==
  ASSUME LayoutInv, NEW last \in BOOLEAN, MainTick(last)
  PROVE  LayoutInv'
<1>1. /\ sim' = [sim EXCEPT !.at = Computed(view.graph), !.main = IF last THEN "still" ELSE @]
      /\ scene' = Ticked(sim'.at) /\ marred' = Mended(sim'.at)
      /\ UNCHANGED <<view, toWorker, worker, toPage>>
  BY DEF MainTick
<1>2. /\ sim \in SimRecords /\ view.graph \in Layouts
      /\ scene \in SceneRecords /\ marred \in MarredRecords
  BY DEF LayoutInv
<1>3. PICK main \in {"none", "running", "still"} : main = IF last THEN "still" ELSE sim.main
  BY <1>2 DEF SimRecords
<1>4. sim' = [sim EXCEPT !.at = Computed(view.graph), !.main = main]
  BY <1>1, <1>3
<1>5. sim' \in SimRecords /\ sim'.at = Computed(view.graph)
  BY <1>2, <1>4, GivenIs DEF SimRecords
<1>6. PICK at : at = sim'.at
  OBVIOUS
<1>7. scene' \in SceneRecords /\ marred' \in MarredRecords /\ LinksMeetNodes'
  BY <1>1, <1>2, <1>5, <1>6, GivenIs, TickedIs
<1> QED BY <1>1, <1>2, <1>5, <1>7, GivenIs DEF LayoutInv

LEMMA StepLayoutInv == LayoutInv /\ [LayoutNext]_layoutVars => LayoutInv'
<1> SUFFICES ASSUME LayoutInv, [LayoutNext]_layoutVars PROVE LayoutInv'
  OBVIOUS
<1>1. CASE \E g \in Layouts : SetGraph(g)
  BY <1>1, SetGraphInv
<1>2. CASE \E physics \in BOOLEAN : Relayout(physics)
  BY <1>2, RelayoutInv
<1>3. CASE Rebuild \/ Recolour
  BY <1>3, RebuildInv
<1>4. CASE WorkerReceive
  BY <1>4, WorkerReceiveInv
<1>5. CASE PageReceive
  BY <1>5, PageReceiveInv
<1>6. CASE WorkerError
  BY <1>6, WorkerErrorInv
<1>7. CASE \E last \in BOOLEAN : WorkerTick(last) \/ MainTick(last)
  BY <1>7, WorkerTickInv, MainTickInv
<1>8. CASE UNCHANGED layoutVars
  BY <1>8 DEF layoutVars, LayoutInv, LinksMeetNodes
<1> QED BY <1>1, <1>2, <1>3, <1>4, <1>5, <1>6, <1>7, <1>8 DEF LayoutNext

HIDE LayoutAssumption

-----------------------------------------------------------------------------
(* The pages of the graph. *)
USE PagesAssumption

(* The order of the rows.                                                  *)

Typed == Nodes \subseteq Ids /\ val \in [Nodes -> Vals]

LEMMA WeightNat ==
  ASSUME Typed, NEW n \in Nodes
  PROVE  Weight(val[n]) \in Nat /\ n \in Nat /\ val[n] \in Int
BY DEF Typed, Weight, Vals, Ids

\* Rows are totally ordered: a weight may be shared, an id is not.
LEMMA BeforeOrder ==
  ASSUME Typed, NEW l \in Nodes, NEW m \in Nodes, NEW n \in Nodes
  PROVE  /\ ~Before(n, n)
         /\ Before(l, m) /\ Before(m, n) => Before(l, n)
         /\ m # n => Before(m, n) \/ Before(n, m)
         /\ ~(Before(m, n) /\ Before(n, m))
BY WeightNat DEF Before, After

LEMMA NodesFinite ==
  ASSUME Typed, NEW S \in SUBSET Nodes
  PROVE  IsFiniteSet(S) /\ Cardinality(S) \in Nat
<1>1. IsFiniteSet(Ids)
  BY FS_Interval, 1 \in Int, N \in Int DEF Ids
<1>2. QED
  BY <1>1, FS_Subset, FS_CardinalityType DEF Typed

\* How many rows of S come before the one of n.
Ahead(S, n) == {m \in S : Before(m, n)}
Rank(S, n)  == Cardinality(Ahead(S, n))

LEMMA RankType ==
  ASSUME Typed, NEW S \in SUBSET Nodes, NEW n \in S
  PROVE  Rank(S, n) \in 0 .. Cardinality(S) - 1
<1>1. Ahead(S, n) \in SUBSET (S \ {n})
  BY BeforeOrder DEF Ahead
<1>2. IsFiniteSet(S \ {n}) /\ Cardinality(S \ {n}) = Cardinality(S) - 1
  BY NodesFinite, FS_RemoveElement
<1>3. Cardinality(Ahead(S, n)) <= Cardinality(S) - 1
  BY <1>1, <1>2, FS_Subset
<1>4. Ahead(S, n) \in SUBSET Nodes
  BY DEF Ahead
<1>5. Cardinality(Ahead(S, n)) \in Nat /\ Cardinality(S) \in Nat
  BY <1>4, NodesFinite
<1>6. QED
  BY <1>3, <1>5 DEF Rank

LEMMA RankLess ==
  ASSUME Typed, NEW S \in SUBSET Nodes, NEW m \in S, NEW n \in S, Before(m, n)
  PROVE  Rank(S, m) < Rank(S, n)
<1>1. Ahead(S, m) \in SUBSET Ahead(S, n)
  BY BeforeOrder DEF Ahead
<1>2. m \in Ahead(S, n) /\ m \notin Ahead(S, m)
  BY BeforeOrder DEF Ahead
<1>3. IsFiniteSet(Ahead(S, n)) /\ Ahead(S, n) \in SUBSET Nodes /\ Ahead(S, m) \in SUBSET Nodes
  BY NodesFinite DEF Ahead
<1>4. Cardinality(Ahead(S, m)) <= Cardinality(Ahead(S, n))
  BY <1>1, <1>3, FS_Subset
<1>5. Cardinality(Ahead(S, m)) # Cardinality(Ahead(S, n))
  BY <1>1, <1>2, <1>3, FS_Subset
<1>6. Cardinality(Ahead(S, m)) \in Nat /\ Cardinality(Ahead(S, n)) \in Nat
  BY <1>3, NodesFinite
<1>7. QED
  BY <1>4, <1>5, <1>6 DEF Rank

\* A finite set of rows has a last one: the ranks are all taken.
LEMMA LastExists ==
  ASSUME Typed, NEW S \in SUBSET Nodes, S # {}
  PROVE  \E n \in S : \A m \in S \ {n} : Before(m, n)
<1> DEFINE k == Cardinality(S)
           f == [n \in S |-> Rank(S, n)]
<1>1. IsFiniteSet(S) /\ k \in Nat /\ k # 0
  BY NodesFinite, FS_EmptySet
<1>2. IsFiniteSet(0 .. k - 1) /\ Cardinality(0 .. k - 1) = k
  <2>1. 0 \in Int /\ k - 1 \in Int
    BY <1>1
  <2>2. /\ IsFiniteSet(0 .. k - 1)
        /\ Cardinality(0 .. k - 1) = IF 0 > k - 1 THEN 0 ELSE k - 1 - 0 + 1
    BY <2>1, FS_Interval
  <2>3. QED
    BY <1>1, <2>2
<1>3. f \in [S -> 0 .. k - 1]
  BY RankType
<1>4. \A m, n \in S : f[m] = f[n] => m = n
  <2>1. SUFFICES ASSUME NEW m \in S, NEW n \in S, m # n, f[m] = f[n] PROVE FALSE
    OBVIOUS
  <2>2. Rank(S, m) \in Int /\ Rank(S, n) \in Int
    BY RankType
  <2>3. Before(m, n) \/ Before(n, m)
    BY <2>1, BeforeOrder
  <2>4. Rank(S, m) < Rank(S, n) \/ Rank(S, n) < Rank(S, m)
    BY <2>3, RankLess
  <2>5. QED
    BY <2>1, <2>2, <2>4
<1>5. f \in Injection(S, 0 .. k - 1)
  <2> HIDE DEF f
  <2>1. QED
    BY <1>3, <1>4, Fun_IsInj
<1>6. f \in Surjection(S, 0 .. k - 1)
  <2> HIDE DEF f, k
  <2>1. Cardinality(S) = Cardinality(0 .. k - 1)
    BY <1>2 DEF k
  <2>2. QED
    BY <1>2, <1>5, <2>1, FS_Injection
<1>7. PICK n \in S : f[n] = k - 1
  <2>1. k - 1 \in 0 .. k - 1
    BY <1>1
  <2> HIDE DEF f, k
  <2>2. QED
    BY <1>6, <2>1 DEF Surjection
<1>8. Ahead(S, n) = S \ {n}
  <2>1. Ahead(S, n) \in SUBSET (S \ {n})
    BY BeforeOrder DEF Ahead
  <2>2. IsFiniteSet(S \ {n}) /\ Cardinality(S \ {n}) = k - 1
    BY <1>1, FS_RemoveElement
  <2>3. Cardinality(Ahead(S, n)) = k - 1
    BY <1>7 DEF Rank
  <2> HIDE DEF k
  <2>4. QED
    BY <2>1, <2>2, <2>3, FS_Subset
<1>9. QED
  BY <1>8 DEF Ahead

LEMMA FirstClosed ==
  ASSUME Typed, NEW S \in SUBSET Nodes, NEW k \in Nat,
         NEW n \in First(S, k), NEW m \in S, Before(m, n)
  PROVE  m \in First(S, k)
<1>1. Rank(S, m) < Rank(S, n) /\ Rank(S, m) \in Int /\ Rank(S, n) \in Int
  BY RankLess, RankType DEF First
<1>2. Rank(S, n) < k
  BY DEF First, Rank, Ahead
<1>3. Rank(S, m) < k
  BY <1>1, <1>2
<1>4. QED
  BY <1>3 DEF First, Rank, Ahead

LEMMA FirstAll ==
  ASSUME Typed, NEW S \in SUBSET Nodes, NEW k \in Nat, Cardinality(S) <= k
  PROVE  First(S, k) = S
<1>1. ASSUME NEW n \in S PROVE Rank(S, n) < k
  <2>1. Rank(S, n) \in 0 .. Cardinality(S) - 1 /\ Cardinality(S) \in Nat
    BY RankType, NodesFinite
  <2>2. QED
    BY <2>1
<1>2. QED
  BY <1>1 DEF First, Rank, Ahead

-----------------------------------------------------------------------------
(* The walk.                                                               *)

Wanted(n) == Type[n] \in types /\ After(n, Bound(start))

\* What was given lies behind the cursor.
GivenBehind ==
  pc = "walking" => \A n \in got \cap stable : n \in Nodes /\ ~After(n, Bound(cursor))

\* What was not given lies ahead of it.
RestAhead ==
  pc = "walking" /\ (cursor # NoCursor => cursor[1] >= 0) =>
    \A n \in stable \cap Nodes : Wanted(n) => n \in got \/ After(n, Bound(cursor))

PagesInv == TypeOK /\ GivenBehind /\ RestAhead /\ StableOnce /\ EndIsComplete

LEMMA BoundType ==
  ASSUME NEW c \in {NoCursor} \cup Cursors
  PROVE  Bound(c)[1] \in Int /\ Bound(c)[2] \in Int
BY DEF Bound, Cursors, Vals, Ids

LEMMA KeptRows ==
  ASSUME TypeOK
  PROVE  /\ Typed /\ Matching(cursor) \in SUBSET Nodes
         /\ Rows \subseteq Matching(cursor) /\ Kept \subseteq Rows
         /\ size \in Nat
BY DEF TypeOK, Typed, Matching, Rows, First, Kept

LEMMA LastKeptIsLast ==
  ASSUME TypeOK, Kept # {}
  PROVE  LastKept \in Kept /\ \A m \in Kept \ {LastKept} : Before(m, LastKept)
<1>1. \E n \in Kept : \A m \in Kept \ {n} : Before(m, n)
  BY KeptRows, LastExists
<1>2. QED
  BY <1>1 DEF LastKept

\* A cursor of the last node given, and what lies ahead of it: the rows
\* that come after the node, or none when its val is negative.
LEMMA CursorOfNode ==
  ASSUME Typed, NEW l \in Nodes, NEW n \in Nodes
  PROVE  /\ After(n, <<val[l], l>>) => Before(l, n)
         /\ val[l] >= 0 /\ Before(l, n) => After(n, <<val[l], l>>)
BY WeightNat DEF Before, After, Weight

\* Rows are compared with cursors as with each other.
LEMMA AfterBefore ==
  ASSUME Typed, NEW c \in {NoCursor} \cup Cursors, NEW m \in Nodes, NEW n \in Nodes,
         After(m, Bound(c)), Before(m, n)
  PROVE  After(n, Bound(c))
BY WeightNat, BoundType DEF Before, After

LEMMA PageStep ==
  ASSUME PagesInv, Page
  PROVE  PagesInv'
<1>1. /\ TypeOK /\ Typed /\ size \in Nat /\ cursor \in {NoCursor} \cup Cursors
      /\ Matching(cursor) \in SUBSET Nodes
      /\ Rows \subseteq Matching(cursor) /\ Kept \subseteq Rows
  BY KeptRows DEF PagesInv, TypeOK
<1>2. /\ pc = "walking" /\ got' = got \cup Kept /\ more' = HasMore
      /\ again' = again \cup (got \cap Kept)
      /\ val' = val /\ size' = size /\ types' = types /\ start' = start
      /\ stable' = stable /\ Nodes' = Nodes
  BY DEF Page, request, Nodes
<1>3. \A n \in Matching(cursor) : n \in Nodes /\ After(n, Bound(cursor))
  BY DEF Matching
<1>4. StableOnce'
  BY <1>1, <1>2, <1>3 DEF PagesInv, StableOnce, GivenBehind
<1>5. got' \subseteq Ids /\ again' \subseteq got' /\ more' \in BOOLEAN
  BY <1>1, <1>2 DEF TypeOK, HasMore
<1>6. CASE NextCursor = NoCursor
  <2>1. pc' = "ended" /\ cursor' = cursor
    BY <1>6 DEF Page
  <2>2. TypeOK'
    BY <1>1, <1>2, <1>5, <2>1 DEF TypeOK
  <2>3. EndIsComplete'
    <3>1. SUFFICES ASSUME ~HasMore, cursor # NoCursor => cursor[1] >= 0,
                          NEW n \in stable \cap Nodes, Wanted(n)
                   PROVE  n \in got \cup Kept
      BY <1>2, <2>1 DEF EndIsComplete, Wanted, After
    <3>2. n \in got \/ n \in Matching(cursor)
      BY <1>2, <3>1 DEF PagesInv, RestAhead, Matching
    <3>3. Matching(cursor) = Rows
      <4>1. Cardinality(Matching(cursor)) \in Nat
        BY <1>1, NodesFinite
      <4>2. Cardinality(Matching(cursor)) <= size
        BY <1>1, <3>1, <4>1 DEF HasMore
      <4>3. QED
        BY <1>1, <4>2, FirstAll DEF Rows
    <3>4. QED
      BY <3>1, <3>2, <3>3 DEF Kept, Wanted
  <2>4. QED
    BY <1>4, <2>1, <2>2, <2>3 DEF PagesInv, GivenBehind, RestAhead
<1>7. CASE NextCursor # NoCursor
  <2> DEFINE L == LastKept
  <2>1. /\ pc' = "walking" /\ cursor' = <<val[L], L>>
        /\ HasMore /\ Kept # {}
    BY <1>2, <1>7 DEF Page, NextCursor
  <2>2. L \in Kept /\ (\A m \in Kept \ {L} : Before(m, L)) /\ L \in Nodes
    BY <1>1, <2>1, LastKeptIsLast
  <2>3. cursor' \in Cursors /\ Bound(cursor') = cursor'
    <3>1. cursor' \in Cursors
      BY <1>1, <2>1, <2>2 DEF Typed, Cursors
    <3>2. QED
      BY <3>1 DEF Bound
  <2> HIDE DEF L
  <2>4. \A n \in Nodes : After(n, Bound(cursor))' <=> After(n, <<val[L], L>>)
    BY <1>2, <2>1, <2>3 DEF After, Bound
  <2>5. TypeOK'
    BY <1>1, <1>2, <1>5, <2>1, <2>3 DEF TypeOK
  <2>6. GivenBehind'
    <3>1. SUFFICES ASSUME NEW n \in (got \cup Kept) \cap stable
                   PROVE  n \in Nodes /\ ~After(n, <<val[L], L>>)
      BY <1>2, <2>4 DEF GivenBehind
    <3>2. CASE n \in Kept
      BY <1>1, <2>2, <3>2, BeforeOrder, CursorOfNode
    <3>3. CASE n \in got
      <4>1. n \in Nodes /\ ~After(n, Bound(cursor))
        BY <1>2, <3>1, <3>3 DEF PagesInv, GivenBehind
      <4>2. After(L, Bound(cursor))
        BY <1>1, <1>3, <2>2
      <4>3. QED
        BY <1>1, <2>2, <4>1, <4>2, AfterBefore, CursorOfNode
    <3>4. QED
      BY <3>1, <3>2, <3>3
  <2>7. RestAhead'
    <3>1. SUFFICES ASSUME val[L] >= 0, NEW n \in stable \cap Nodes, Wanted(n)
                   PROVE  n \in got \cup Kept \/ After(n, <<val[L], L>>)
      <4>1. \A n \in Nodes : Wanted(n)' <=> Wanted(n)
        BY <1>2 DEF Wanted, After
      <4>2. cursor' # NoCursor /\ cursor'[1] = val[L]
        BY <2>1, <2>3
      <4>3. QED
        BY <1>2, <2>4, <4>1, <4>2 DEF RestAhead
    <3>2. cursor # NoCursor => cursor[1] >= 0
      <4>1. After(L, Bound(cursor)) /\ Weight(val[L]) \in Nat
        BY <1>1, <1>3, <2>2, WeightNat
      <4>2. cursor # NoCursor => Bound(cursor) = cursor
        BY DEF Bound
      <4>3. Bound(cursor)[1] \in Int
        BY <1>1, BoundType
      <4>4. QED
        BY <4>1, <4>2, <4>3 DEF After
    <3>3. n \in got \/ n \in Matching(cursor)
      BY <1>2, <3>1, <3>2 DEF PagesInv, RestAhead, Matching
    <3>4. CASE n \in Rows
      BY <3>1, <3>4 DEF Kept, Wanted
    <3>5. CASE n \in Matching(cursor) /\ n \notin Rows
      <4>1. ~Before(n, L)
        BY <1>1, <2>2, <3>5, FirstClosed DEF Rows
      <4>2. Before(L, n)
        BY <1>1, <2>2, <3>5, <4>1, BeforeOrder
      <4>3. QED
        BY <1>1, <2>2, <3>1, <4>2, CursorOfNode
    <3>6. QED
      BY <3>3, <3>4, <3>5
  <2>8. QED
    BY <1>4, <2>1, <2>5, <2>6, <2>7 DEF PagesInv, EndIsComplete
<1>8. QED
  BY <1>6, <1>7

\* A write moves what it writes, and that is not called stable any more.
LEMMA WriteStep ==
  ASSUME PagesInv, Write
  PROVE  PagesInv'
<1>1. PICK k \in Ids : RemoveNode(k) \/ \E v \in Vals : Upsert(k, v)
  BY DEF Write
<1>2. /\ pc' = pc /\ size' = size /\ types' = types /\ start' = start
      /\ cursor' = cursor /\ more' = more /\ got' = got /\ again' = again
      /\ stable' = stable \ {k}
  BY <1>1 DEF RemoveNode, Upsert, walk, request
<1>3. /\ DOMAIN val' \subseteq Ids /\ val' \in [DOMAIN val' -> Vals]
      /\ \A n \in Ids \ {k} : n \in DOMAIN val' <=> n \in Nodes
      /\ \A n \in Nodes \ {k} : val'[n] = val[n]
  <2>1. CASE RemoveNode(k)
    BY <2>1 DEF RemoveNode, PagesInv, TypeOK
  <2>2. ASSUME NEW v \in Vals, Upsert(k, v)
        PROVE  /\ DOMAIN val' \subseteq Ids /\ val' \in [DOMAIN val' -> Vals]
               /\ \A n \in Ids \ {k} : n \in DOMAIN val' <=> n \in Nodes
               /\ \A n \in Nodes \ {k} : val'[n] = val[n]
    BY <2>2 DEF Upsert, PagesInv, TypeOK
  <2>3. QED
    BY <1>1, <2>1, <2>2
<1>4. TypeOK'
  BY <1>2, <1>3 DEF PagesInv, TypeOK, Nodes
<1>5. \A n \in Nodes \ {k} : \A c : After(n, c)' <=> After(n, c)
  BY <1>3 DEF After
<1>6. \A n \in stable' \cap DOMAIN val' : n \in stable /\ n \in Nodes \ {k}
  BY <1>2, <1>3 DEF PagesInv, TypeOK
<1>7. \A n \in stable \cap Nodes : n # k => n \in DOMAIN val'
  BY <1>3 DEF PagesInv, TypeOK
<1>8. /\ \A n \in Nodes \ {k} : After(n, Bound(cursor))' <=> After(n, Bound(cursor))
      /\ \A n \in Nodes \ {k} : After(n, Bound(start))' <=> After(n, Bound(start))
  BY <1>2, <1>3 DEF After, Bound
<1>9. GivenBehind' /\ StableOnce'
  BY <1>2, <1>7, <1>8 DEF PagesInv, GivenBehind, StableOnce, Nodes
<1>10. RestAhead' /\ EndIsComplete'
  BY <1>2, <1>6, <1>8 DEF PagesInv, RestAhead, EndIsComplete, Wanted, Nodes
<1>11. QED
  BY <1>4, <1>9, <1>10 DEF PagesInv

LEMMA InitPagesInv == Init => PagesInv
<1> SUFFICES ASSUME Init PROVE PagesInv
  OBVIOUS
<1>1. TypeOK
  BY DEF Init, TypeOK, Nodes
<1>2. QED
  BY <1>1 DEF Init, PagesInv, GivenBehind, RestAhead, StableOnce, EndIsComplete

LEMMA StepPagesInv == PagesInv /\ [Next]_vars => PagesInv'
<1> SUFFICES ASSUME PagesInv, [Next]_vars PROVE PagesInv'
  OBVIOUS
<1>1. CASE StartWalk
  <2>1. TypeOK'
    BY <1>1 DEF StartWalk, PagesInv, TypeOK, Nodes
  <2>2. GivenBehind' /\ RestAhead' /\ StableOnce' /\ EndIsComplete'
    BY <1>1 DEF StartWalk, GivenBehind, RestAhead, StableOnce, EndIsComplete, Wanted, After
  <2>3. QED
    BY <2>1, <2>2 DEF PagesInv
<1>2. CASE FailPage \/ Leave
  <2>1. TypeOK'
    BY <1>2 DEF FailPage, Leave, Forget, request, PagesInv, TypeOK, Nodes
  <2>2. GivenBehind' /\ RestAhead' /\ StableOnce' /\ EndIsComplete'
    BY <1>2 DEF FailPage, Leave, Forget, PagesInv, GivenBehind, RestAhead, StableOnce, EndIsComplete
  <2>3. QED
    BY <2>1, <2>2 DEF PagesInv
<1>3. CASE UNCHANGED vars
  BY <1>3 DEF vars, walk, request, PagesInv, TypeOK, GivenBehind, RestAhead, StableOnce,
     EndIsComplete, Wanted, After, Nodes
<1>4. QED
  BY <1>1, <1>2, <1>3, PageStep, WriteStep DEF Next

\* The table, the request and the walk keep their types.
THEOREM PagesTypeCorrect == Spec => []TypeOK
<1>1. PagesInv => TypeOK
  BY DEF PagesInv
<1>2. QED
  BY InitPagesInv, StepPagesInv, <1>1, PTL DEF Spec

\* However the nodes around it move, an untouched node is given at most once.
THEOREM UntouchedGivenOnce == Spec => []StableOnce
<1>1. PagesInv => StableOnce
  BY DEF PagesInv
<1>2. QED
  BY InitPagesInv, StepPagesInv, <1>1, PTL DEF Spec

\* A walk that ends without has_more has missed no untouched node from where
\* it started, for every page size and filter.
THEOREM EndedWalkIsComplete == Spec => []EndIsComplete
<1>1. PagesInv => EndIsComplete
  BY DEF PagesInv
<1>2. QED
  BY InitPagesInv, StepPagesInv, <1>1, PTL DEF Spec

HIDE PagesAssumption

-----------------------------------------------------------------------------
(* All of them.                                                            *)

FrontendInv == StreamInv /\ SearchInv /\ LodTypeOK /\ LayoutInv /\ PagesInv

LEMMA FrontendInvariant == FrontendSpec => []FrontendInv
<1>1. FrontendInit => FrontendInv
  BY InitStreamInv, InitSearchInv, InitLodType, InitLayoutInv, InitPagesInv DEF FrontendInit, FrontendStart, FrontendInv
<1>2. FrontendInv /\ [FrontendNext]_<<active, vars, browserVars>> => FrontendInv'
  <2> SUFFICES ASSUME FrontendInv, [FrontendNext]_<<active, vars, browserVars>> PROVE FrontendInv'
    OBVIOUS
  <2>1. /\ [StreamNext]_streamVars /\ [SearchNext]_searchVars /\ [LodNext]_lodVars
        /\ [LayoutNext]_layoutVars /\ [Next]_vars
    BY DEF FrontendNext, browserVars
  <2> QED BY <2>1, StepStreamInv, StepSearchInv, StepLodType, StepLayoutInv, StepPagesInv DEF FrontendInv
<1> QED BY <1>1, <1>2, PTL DEF FrontendSpec

\* The variables of every component of the browser keep their types: a tier is
\* its target exactly when no transition is under way, and a load shows no more
\* than it has.
THEOREM FrontendTypeCorrect == FrontendSpec => []FrontendTypeOK
<1>1. FrontendInv => FrontendTypeOK
  BY StreamInvHolds, LayoutInvHolds DEF FrontendInv, FrontendTypeOK, SearchInv, PagesInv
<1> QED BY FrontendInvariant, <1>1, PTL

\* Whatever batches a graph is shown in, and wherever the layout has got to, a
\* link has both its ends and they are where its nodes are.
THEOREM LinksAlwaysWhole == FrontendSpec => []LinksAreWhole
<1>1. FrontendInv => LinksAreWhole
  BY StreamInvHolds, LayoutInvHolds DEF FrontendInv, LinksAreWhole
<1> QED BY FrontendInvariant, <1>1, PTL

\* However many loads were begun, aborted, answered and failed, in whatever
\* order, the page at rest does not say it is loading, and shows the graph of the
\* present filters or that it failed, unless loads overlapped that no abort kept
\* apart.
THEOREM RestingPageAlwaysCurrent == FrontendSpec => []RestingPageIsCurrent
<1>1. FrontendInv => RestingPageIsCurrent
  BY StreamInvHolds DEF FrontendInv
<1> QED BY FrontendInvariant, <1>1, PTL

\* What the search bar and a walk through the pages promise on their own holds
\* beside the rest of the browser.
THEOREM FrontendKeepAll == FrontendSpec => [](ListIsWanted /\ StableOnce /\ EndIsComplete)
<1>1. FrontendSpec => SearchSpec /\ Spec
  <2>1. FrontendInit => SearchInit /\ Init
    BY DEF FrontendInit, FrontendStart
  <2>2. [FrontendNext]_<<active, vars, browserVars>> => [SearchNext]_searchVars /\ [Next]_vars
    BY DEF FrontendNext, browserVars
  <2>3. QED
    BY <2>1, <2>2, PTL DEF FrontendSpec, SearchSpec, Spec
<1>2. QED
  BY <1>1, SearchShowsWhatIsWanted, UntouchedGivenOnce, EndedWalkIsComplete, PTL
=============================================================================
