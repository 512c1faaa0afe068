----------------------------- MODULE SearchPages -----------------------------
(***************************************************************************)
(* The two search pages of the dashboard, /graph and /overlap: a tab of a  *)
(* browser with the client component (GraphExplorer.tsx, OverlapFinder     *)
(* .tsx), the page that renders a stored search for it (app/graph,         *)
(* app/overlap), and the routes that run one (api/graph, api/overlap).     *)
(*                                                                         *)
(* A search has a number, its place in the table; 0 is none.  A navigation *)
(* is asked for (nav) and happens later, once the server has rendered the  *)
(* page.  A component whose page is navigated to again stays as it is: it  *)
(* takes its initial result when it is mounted, and only then.  What runs  *)
(* inside a search is in GraphSearch and TokenOverlap; the two rows a      *)
(* hybrid search is merged from are left out here.                         *)
(***************************************************************************)
EXTENDS Naturals, Sequences, FiniteSets

CONSTANTS PageWorlds,     \* [kind, asks, found]: the page, what is asked, searches there are
          MaxSubmits,     \* bound: searches submitted
          MaxVisits,      \* bound: links followed, pages left or loaded again
          MaxPageFaults   \* bound: requests that fail, searches of others that end

VARIABLES pageWorld,
          storedSearches, \* the table: a sequence of [source, tagged, status, whole, created]
          tab,            \* url, nav, mount, shown, run; early, kept (for the properties)
          submitted,      \* the calls of handleSubmit under way, and the routes that serve them
          pageBounds

pageVars == <<pageWorld, storedSearches, tab, submitted, pageBounds>>

IsOverlap == pageWorld.kind = "overlap"
None == "none"
\* Where a tab may be; nav is empty or the set of one of them.
Away == <<>>
SearchUrl(id) == <<id>>
NoView == [id |-> 0, source |-> None, status |-> None, whole |-> FALSE, added |-> 0, by |-> None]

-----------------------------------------------------------------------------
(* What is shown of a search, as the page renders it and as the client     *)
(* gets it from the API.                                                   *)

View(id, source, added, by) ==
    LET row == storedSearches[id]
    IN  [id |-> id, source |-> source, status |-> row.status, whole |-> row.whole,
         added |-> added, by |-> by]
NewlyAdded(source, created) == IF source = "local" THEN 0 ELSE created

GraphResult(id) == View(id, "graph", 0, "page")
\* Faulty variant: the source is guessed from where the result is from.
InferFromCache(row) == IF row.status = "done" /\ row.source # "local" THEN "dune" ELSE "local"

\* A row without a tag counts as Dune's when it says where its result is from.
InferSourceKind(row) ==
    IF row.tagged THEN row.source
    ELSE IF row.source = "dune" /\ row.status = "done" THEN "dune" ELSE "local"
OverlapResult(id) ==
    LET row == storedSearches[id]
        source == InferSourceKind(row)
    IN  View(id, source, NewlyAdded(source, row.created), "page")
Load(id) == IF id = 0 THEN NoView ELSE IF IsOverlap THEN OverlapResult(id) ELSE GraphResult(id)

GraphAnswer(id) == View(id, "graph", 0, "api")
OverlapAnswer(id) == View(id, None, storedSearches[id].created, "api")
ToGraphResult(answer) == answer
ToOverlapResult(answer, source) ==
    [answer EXCEPT !.source = source, !.added = NewlyAdded(source, @)]
ResultOf(s) == IF IsOverlap THEN ToOverlapResult(OverlapAnswer(s.id), s.source)
              ELSE ToGraphResult(GraphAnswer(s.id))

-----------------------------------------------------------------------------
(* The tab.                                                                *)

OnPage == tab.url # Away
OfThisMount(s) == OnPage /\ s.mount = tab.mount
Visit == pageBounds.visits < MaxVisits /\ pageBounds' = [pageBounds EXCEPT !.visits = @ + 1]
Mounted(t, id) ==
    [t EXCEPT !.url = SearchUrl(id), !.shown = Load(id), !.run = "idle", !.nav = {},
              !.mount = @ + 1, !.early = FALSE, !.kept = FALSE]
\* A page that stays mounted does not take the result it is sent to.
Going(t, to) == [t EXCEPT !.nav = {to}, !.kept = @ \/ Away \notin {t.url, to}]

\* A link to a recent search, the sidebar, or the history of the browser.
FollowLink(to) ==
    /\ Visit /\ to # tab.url
    /\ tab' = Going(tab, to)
    /\ UNCHANGED <<pageWorld, storedSearches, submitted>>

RenderPage ==
    /\ \E to \in tab.nav :
           tab' = IF to # Away /\ ~OnPage THEN Mounted(tab, to[1])
                  ELSE [tab EXCEPT !.url = to, !.nav = {}]
    /\ UNCHANGED <<pageWorld, storedSearches, submitted, pageBounds>>

\* The server goes on, and nobody waits for it.
Unawaited(S) ==
    {[s EXCEPT !.mount = 0] : s \in {x \in S : x.at \in {"post", "work", "tag"}}}
\* Loading the page again ends what the tab had under way, not the server.
Reload ==
    /\ Visit /\ OnPage
    /\ tab' = Mounted(tab, tab.url[1])
    /\ submitted' = Unawaited(submitted)
    /\ UNCHANGED <<pageWorld, storedSearches>>

ResultsShown == OnPage /\ tab.shown.id # 0
\* The button is not disabled while a search runs; the graph page has it
\* when there is a node, which a search that has not ended may have.
StartOver ==
    /\ Visit /\ ResultsShown
    /\ tab' = [tab EXCEPT !.shown = NoView, !.nav = {SearchUrl(0)}, !.kept = FALSE]
    /\ UNCHANGED <<pageWorld, storedSearches, submitted>>

\* What the forms let a user send.
SearchForm == IF OnPage /\ tab.run # "running" THEN {"graph"} ELSE {}
OverlapForm == IF OnPage /\ tab.run # "running" THEN pageWorld.asks ELSE {}
Submit(source) ==
    /\ pageBounds.submits < MaxSubmits
    /\ pageBounds' = [pageBounds EXCEPT !.submits = @ + 1]
    /\ tab' = [tab EXCEPT !.run = "running"]
    /\ submitted' = submitted \cup {[n |-> pageBounds.submits, source |-> source, id |-> 0,
                                     at |-> "post", mount |-> tab.mount, view |-> NoView]}
    /\ UNCHANGED <<pageWorld, storedSearches>>

-----------------------------------------------------------------------------
(* The routes.                                                             *)

Served(s, next) ==
    /\ submitted' = (submitted \ {s}) \cup {next}
    /\ UNCHANGED <<pageWorld, tab, pageBounds>>

SearchRow(source, tagged, status, created) ==
    [source |-> source, tagged |-> tagged, status |-> status, whole |-> FALSE, created |-> created]
\* A provider search fails as it is created; a hybrid one is done as it is
\* created, and its rows follow; the others are queued or running.
NewRow(source) ==
    CASE source = "provider" -> SearchRow(source, TRUE, "failed", 0)
      [] source = "hybrid" -> SearchRow(source, TRUE, "done", 1)
      [] OTHER -> SearchRow(source, FALSE, "running", 0)
CreateSearch(s) ==
    /\ s.at = "post"
    /\ storedSearches' = Append(storedSearches, NewRow(s.source))
    /\ Served(s, [s EXCEPT !.id = Len(storedSearches) + 1,
                           !.at = IF s.source = "provider" THEN "reply" ELSE "work"])
\* runGraphSearch, runLocalOverlapSearch, runTokenOverlapSearch; the rows of a
\* hybrid.
RunSearch(s, status) ==
    /\ s.at = "work" /\ (s.source = "hybrid" => status = "done")
    /\ storedSearches' = [storedSearches EXCEPT
           ![s.id].status = status, ![s.id].whole = status = "done",
           ![s.id].created = IF s.source = "dune" /\ status = "done" THEN 1 ELSE @]
    /\ Served(s, [s EXCEPT !.at = IF s.source \in {"local", "dune"} THEN "tag" ELSE "reply"])
TagSource(s) ==
    /\ s.at = "tag"
    /\ storedSearches' = [storedSearches EXCEPT ![s.id].tagged = TRUE]
    /\ Served(s, [s EXCEPT !.at = "reply"])
\* A search of another tab comes to its end.
OtherSearchEnds ==
    /\ pageBounds.faults < MaxPageFaults
    /\ \E id \in DOMAIN pageWorld.found, status \in {"done", "failed"} :
           /\ storedSearches[id].status = "running"
           /\ storedSearches' = [storedSearches EXCEPT ![id].status = status,
                                                       ![id].whole = status = "done"]
    /\ pageBounds' = [pageBounds EXCEPT !.faults = @ + 1]
    /\ UNCHANGED <<pageWorld, tab, submitted>>

-----------------------------------------------------------------------------
(* The rest of handleSubmit.  What it sets in a component that is no       *)
(* longer mounted has no effect; where it sends the tab has.               *)

\* The overlap page shows that a search failed, and loads it all the same.
PostAnswered(s) ==
    /\ s.at = "reply" /\ s.mount # 0
    /\ tab' = IF IsOverlap /\ storedSearches[s.id].status = "failed" /\ OfThisMount(s)
              THEN [tab EXCEPT !.run = "error", !.early = TRUE] ELSE tab
    /\ submitted' = (submitted \ {s}) \cup {[s EXCEPT !.at = "get"]}
    /\ UNCHANGED <<pageWorld, storedSearches, pageBounds>>

GetServed(s) ==
    /\ s.at = "get"
    /\ Served(s, [s EXCEPT !.at = "show", !.view = ResultOf(s)])
    /\ UNCHANGED storedSearches

ShowResult(s) ==
    /\ s.at = "show"
    /\ tab' = IF OfThisMount(s)
              THEN [tab EXCEPT !.shown = s.view, !.nav = {SearchUrl(s.id)}, !.kept = FALSE,
                       !.run = IF IsOverlap /\ s.view.status = "failed" THEN @ ELSE "idle"]
              ELSE Going(tab, SearchUrl(s.id))
    /\ submitted' = submitted \ {s}
    /\ UNCHANGED <<pageWorld, storedSearches, pageBounds>>

\* A request is refused, throws or is lost; the route may go on.
RequestFails(s) ==
    /\ pageBounds.faults < MaxPageFaults /\ s.mount # 0
    /\ pageBounds' = [pageBounds EXCEPT !.faults = @ + 1]
    /\ tab' = IF OfThisMount(s) THEN [tab EXCEPT !.run = "error"] ELSE tab
    /\ submitted' \in {submitted \ {s}, (submitted \ {s}) \cup Unawaited({s})}
    /\ UNCHANGED <<pageWorld, storedSearches>>

PagesInit ==
    /\ pageWorld \in PageWorlds
    /\ storedSearches = pageWorld.found
    /\ \E id \in 0..Len(storedSearches) :
           tab = [url |-> Away, nav |-> {SearchUrl(id)}, mount |-> 0, shown |-> NoView,
                  run |-> "idle", early |-> FALSE, kept |-> FALSE]
    /\ submitted = {}
    /\ pageBounds = [submits |-> 0, visits |-> 0, faults |-> 0]

PagesNext ==
    \/ \E to \in {Away} \cup {SearchUrl(id) : id \in 0..Len(storedSearches)} : FollowLink(to)
    \/ RenderPage \/ Reload \/ StartOver \/ OtherSearchEnds
    \/ \E source \in (IF IsOverlap THEN OverlapForm ELSE SearchForm) : Submit(source)
    \/ \E s \in submitted :
           \/ CreateSearch(s) \/ TagSource(s) \/ PostAnswered(s) \/ GetServed(s)
           \/ ShowResult(s) \/ RequestFails(s)
           \/ \E status \in {"done", "failed"} : RunSearch(s, status)

-----------------------------------------------------------------------------
Over(row) == row.status = "failed" \/ (row.status = "done" /\ row.whole)

\* On a page that is not about to change, the result is that of the search
\* its address names, but where a link was followed, or a search of an earlier
\* visit came to its end, while the page stayed mounted.  What a search of the
\* page itself brought is its last word, whole and under its own source; what
\* the page rendered of a search that is done is under its own source, and
\* both ways give the same.  "Running" is said while a search of the page is
\* under way and not otherwise, but for one whose failure is shown already.
PagesHonest ==
    /\ OnPage /\ tab.nav = {} => SearchUrl(tab.shown.id) = tab.url \/ tab.kept
    /\ tab.shown.by = "api" =>
           LET row == storedSearches[tab.shown.id]
           IN  Over(row) /\ tab.shown = [Load(tab.shown.id) EXCEPT !.by = "api"]
    /\ tab.shown.status = "done" => tab.shown.source = storedSearches[tab.shown.id].source
    /\ OnPage => LET mine == {s \in submitted : OfThisMount(s)}
                 IN  /\ tab.run = "running" => mine # {}
                     /\ mine # {} => tab.run = "running" \/ tab.early
                     /\ ~tab.early => Cardinality(mine) <= 1
=============================================================================
