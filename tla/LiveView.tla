------------------------------ MODULE LiveView ------------------------------
(***************************************************************************)
(* One browser tab on a live view: the event stream that tells it of new   *)
(* snapshots, the requests its effects make for the index, the page and    *)
(* search results, and what it shows (view/src/App.tsx, live-updates.ts,   *)
(* data-source.ts, SearchPage.tsx; src/view/server.ts, search.ts).         *)
(*                                                                         *)
(* The server is ViewStore's: it publishes snapshots, here named by their  *)
(* server instance and generation, and may be restarted.  A response is    *)
(* the snapshot it was made from.  React runs the effects whose            *)
(* dependencies changed in one flush: due is the set of them.  The pause   *)
(* before a search is sent is part of its way to the server.               *)
(***************************************************************************)
EXTENDS Naturals, Sequences, SequencesExt

CONSTANTS
    Paths,
    Queries,     \* what the user may search for
    Search,      \* the route of the search page
    None,        \* nothing shown, no query
    Closed,      \* no event stream
    MaxInstance, MaxGeneration, MaxFaults, MaxMoves

ASSUME BoundsAssumption ==
    MaxInstance \in Nat \ {0} /\ MaxGeneration \in Nat \ {0} /\ MaxFaults \in Nat /\ MaxMoves \in Nat

ASSUME ModelValues == Search \notin Paths /\ None \notin Queries

Change == [instance : 0..MaxInstance, generation : 0..MaxGeneration,
           markdown : 0..MaxGeneration]

Panels == {"index", "page", "results"}
Subject == {None} \cup Paths \cup Queries
Requests == [panel : Panels, subject : Subject, attempt : 1..2,
             since : {None} \cup Change,        \* a search: what the tab knew when it asked
             answer : {None} \cup Change]

VARIABLES
    published,   \* the store: its snapshot
    indexed, index, indexing,   \* the search service of this server
    stream,      \* events on their way to the tab
    visible,     \* the tab is on screen
    change,      \* the tab: projectChange
    due,         \* effects whose dependencies have changed
    requests,
    route, query,
    shown,       \* per panel: nothing, or what and as of when
    error,       \* per panel: an error is set
    faults, moves

server == <<published, indexed, index, indexing>>
tab == <<change, due, route, query, shown, error>>
vars == <<server, stream, visible, tab, requests, faults, moves>>

Fresh(i) == [instance |-> i, generation |-> 1, markdown |-> 1]
Nothing == [p \in Panels |-> None]

Init ==
    /\ published = Fresh(1)
    /\ indexed = 0 /\ index = 0 /\ indexing = None
    /\ stream = Closed
    /\ visible = TRUE
    /\ change = [instance |-> 0, generation |-> 0, markdown |-> 0]
    /\ due = {"index", "page"}
    /\ requests = {}
    /\ route \in Paths \cup {Search}
    /\ query \in Queries \cup {None} /\ (query # None => route = Search)
    /\ shown = Nothing
    /\ error = [p \in Panels |-> FALSE]
    /\ faults = 0 /\ moves = 0

-----------------------------------------------------------------------------
(* The server.                                                              *)

\* createViewApp subscribes its clients to the store: broadcastChange.
Publish ==
    /\ published.generation < MaxGeneration
    /\ \E m \in {0, 1} :
        published' = [published EXCEPT !.generation = @ + 1, !.markdown = @ + m]
    /\ stream' = IF stream = Closed THEN Closed
                 ELSE Append(stream, [event |-> "change", change |-> published'])
    /\ UNCHANGED <<indexed, index, indexing, visible, tab, requests, faults, moves>>

\* A first failed attempt of a GET is repeated, its answer is not awaited any more.
Interrupted == {[r EXCEPT !.attempt = 2, !.answer = None] :
                   r \in {s \in requests : s.attempt = 1}}

\* `lat ui` ends and is started again: another instance, its counters at the
\* start, nothing indexed.  Requests under way meet the new server.
Restart ==
    /\ published.instance < MaxInstance
    /\ published' = Fresh(published.instance + 1)
    /\ indexed' = 0 /\ index' = 0 /\ indexing' = None
    /\ stream' = Closed
    /\ requests' = Interrupted \cup {r \in requests : r.attempt = 2}
    /\ UNCHANGED <<visible, tab, faults, moves>>

\* prepareIndex: searches share one pass, credited with what it started from.
StartIndexing ==
    /\ indexing = None
    /\ indexed < published.markdown
    /\ \E r \in requests : r.panel = "results" /\ r.answer = None
    /\ indexing' = published.markdown
    /\ UNCHANGED <<published, indexed, index, stream, visible, tab, requests, faults, moves>>

Greater(a, b) == IF a > b THEN a ELSE b

\* Defect: a pass is credited with what has been published when it ends.
FinishIndexingCreditsNow ==
    /\ indexing # None
    /\ index' \in indexing..published.markdown
    /\ indexed' = published.markdown
    /\ indexing' = None
    /\ UNCHANGED <<published, stream, visible, tab, requests, faults, moves>>

\* Somewhere in the pass runIndex has read the documents.
FinishIndexing ==
    /\ indexing # None
    /\ index' \in indexing..published.markdown
    /\ indexed' = Greater(indexed, indexing)
    /\ indexing' = None
    /\ UNCHANGED <<published, stream, visible, tab, requests, faults, moves>>

\* handleRequest: a search is answered from the index, anything else from the
\* snapshot.  A search may wait for a pass begun since it found the index good.
Answer(r) ==
    /\ r \in requests /\ r.answer = None
    /\ r.panel = "results" => indexed > 0 /\ indexed >= published.markdown
    /\ requests' = (requests \ {r}) \cup
         {[r EXCEPT !.answer = IF r.panel = "results"
                               THEN [published EXCEPT !.markdown = index] ELSE published]}
    /\ UNCHANGED <<server, stream, visible, tab, faults, moves>>

-----------------------------------------------------------------------------
(* The event stream: subscribeVisibleViewEvents.                            *)

Connect ==
    /\ visible /\ stream = Closed
    /\ stream' = <<[event |-> "ready", change |-> published]>>
    /\ UNCHANGED <<server, visible, tab, requests, faults, moves>>

\* Hidden tabs and suspended pages close the stream; shown again, they open one.
Hide ==
    /\ moves < MaxMoves
    /\ moves' = moves + 1
    /\ visible' = ~visible
    /\ stream' = Closed
    /\ UNCHANGED <<server, tab, requests, faults>>

\* Within one instance generations only grow; another instance is trusted.
mergeProjectChange(current, incoming) ==
    IF current.instance # incoming.instance THEN incoming
    ELSE [current EXCEPT !.generation = Greater(@, incoming.generation),
                         !.markdown = Greater(@, incoming.markdown)]

\* Defect: a reconnection to the same generation loads nothing.
AffectedByChangesOnly(event, old, new) ==
    (IF new.generation # old.generation THEN {"index", "page"} ELSE {})
    \cup (IF new.markdown # old.markdown /\ route = Search THEN {"results"} ELSE {})

\* The dependencies of the effects: a reconnection, the generation, and for the
\* search page the Markdown generation.
Affected(event, old, new) ==
    (IF event = "ready" \/ new.generation # old.generation THEN {"index", "page"} ELSE {})
    \cup (IF new.markdown # old.markdown /\ route = Search THEN {"results"} ELSE {})

Receive ==
    /\ stream \notin {Closed, <<>>}
    /\ stream' = Tail(stream)
    /\ change' = mergeProjectChange(change, Head(stream).change)
    /\ due' = due \cup Affected(Head(stream).event, change, change')
    /\ UNCHANGED <<server, visible, requests, route, query, shown, error, faults, moves>>

-----------------------------------------------------------------------------
(* The tab.                                                                 *)

\* Defect: a superseded request goes on and its answer is shown.
AbortNothing(panels) == requests

\* The cleanup of an effect aborts the request of its last run.
Abort(panels) == {r \in requests : r.panel \notin panels}

Asks == {p \in due : CASE p = "index" -> TRUE
                       [] p = "page" -> route # Search
                       [] p = "results" -> query # None}

RunEffects ==
    /\ due # {}
    /\ due' = IF "page" \in due /\ shown["page"] = None /\ query # None
              THEN {"results"} ELSE {}          \* the search page mounts
    /\ requests' = Abort(due) \cup
         {[panel |-> p, attempt |-> 1, answer |-> None,
          since |-> IF p = "results" THEN change ELSE None,
           subject |-> CASE p = "index" -> None [] p = "page" -> route
                         [] p = "results" -> query] : p \in Asks}
    /\ error' = [p \in Panels |-> error[p] /\ (p \notin due \/ p = "index")]
    /\ shown' = [p \in Panels |->
                   IF p \notin due THEN shown[p]
                   ELSE IF p = "results" THEN None
                   ELSE IF p = "page" /\ route = Search
                   THEN [subject |-> Search, since |-> None, answer |-> None]
                   ELSE shown[p]]
    /\ UNCHANGED <<server, stream, visible, change, route, query, faults, moves>>

\* The answer of a request that was not aborted is shown.
Deliver(r) ==
    /\ r \in requests /\ r.answer # None
    /\ requests' = requests \ {r}
    /\ shown' = [shown EXCEPT ![r.panel] =
                   [subject |-> r.subject, since |-> r.since, answer |-> r.answer]]
    /\ error' = [error EXCEPT ![r.panel] = FALSE]
    /\ UNCHANGED <<server, stream, visible, change, due, route, query, faults, moves>>

\* The connection breaks: a GET is sent a second time.
Interrupt(r) ==
    /\ r \in requests /\ r.attempt = 1
    /\ faults < MaxFaults
    /\ faults' = faults + 1
    /\ requests' = (requests \ {r}) \cup {[r EXCEPT !.attempt = 2, !.answer = None]}
    /\ UNCHANGED <<server, stream, visible, tab, moves>>

\* A second break, fifteen seconds without an answer, or an error response (an
\* indexing pass that fails ends for everyone).  A failed index leaves the last
\* one on the screen; a failed page does not.
Reject(r) ==
    /\ r \in requests
    /\ faults < MaxFaults
    /\ faults' = faults + 1
    /\ requests' = requests \ {r}
    /\ error' = [error EXCEPT ![r.panel] = TRUE]
    /\ shown' = IF r.panel = "page" THEN [shown EXCEPT !["page"] = None] ELSE shown
    /\ indexing' = IF r.panel = "results" THEN None ELSE indexing
    /\ UNCHANGED <<published, indexed, index, stream, visible, change, due, route, query, moves>>

\* navigate, onPopState, closeSearch, retryPage: the answer of the last page
\* request does not count any more.  The URL of the search page has its query.
Navigate(to, q) ==
    /\ moves < MaxMoves
    /\ q # None => to = Search
    /\ to = route => shown["page"] = None \/ error["page"]
    /\ moves' = moves + 1
    /\ route' = to
    /\ shown' = [shown EXCEPT !["page"] = None, !["results"] = None]
    /\ requests' = Abort({"page", "results"})
    /\ error' = [error EXCEPT !["page"] = @ /\ to # route, !["results"] = FALSE]
    /\ query' = q
    /\ due' = (due \ {"results"}) \cup {"page"}
    /\ UNCHANGED <<server, stream, visible, change, faults>>

TypeQuery(q) ==
    /\ moves < MaxMoves
    /\ moves' = moves + 1
    /\ route = Search /\ shown["page"] # None /\ q # query
    /\ query' = q
    /\ due' = due \cup {"results"}
    /\ UNCHANGED <<server, stream, visible, change, route, requests, shown, error, faults>>

ServerStep ==
    \/ StartIndexing \/ FinishIndexing
    \/ \E r \in requests : Answer(r)

TabStep == Connect \/ Receive \/ RunEffects \/ \E r \in requests : Deliver(r)

Next ==
    \/ Publish \/ Restart \/ ServerStep
    \/ Hide \/ TabStep
    \/ \E r \in requests : Interrupt(r) \/ Reject(r)
    \/ \E q \in Queries \cup {None} :
          TypeQuery(q) \/ \E to \in Paths \cup {Search} : Navigate(to, q)

Spec == Init /\ [][Next]_vars

\* The server answers, the browser delivers and React flushes.
FairSpec == Spec /\ WF_vars(ServerStep) /\ WF_vars(TabStep)

-----------------------------------------------------------------------------

Shown == {None} \cup [subject : Subject \cup {Search}, since : {None} \cup Change,
                    answer : {None} \cup Change]

\* The variables have these types; an index pass belongs to this server.
TypeOK ==
    /\ published \in Change
    /\ indexed \in 0..published.markdown /\ index \in 0..published.markdown
    /\ indexing \in {None} \cup 1..published.markdown
    /\ stream \in {Closed} \cup Seq([event : {"ready", "change"}, change : Change])
    /\ visible \in BOOLEAN
    /\ change \in Change
    /\ due \subseteq Panels
    /\ requests \subseteq Requests
    /\ route \in Paths \cup {Search} /\ query \in Queries \cup {None}
    /\ shown \in [Panels -> Shown]
    /\ error \in [Panels -> BOOLEAN]
    /\ faults \in 0..MaxFaults /\ moves \in 0..MaxMoves

(***************************************************************************)
(* Whatever the order in which answers arrive, the page is that of the     *)
(* route and the results are those of the query, or their effect is due.   *)
(***************************************************************************)
ShowsWhatIsAsked ==
    /\ shown["page"] # None => shown["page"].subject = route
    /\ shown["results"] # None => shown["results"].subject = query \/ "results" \in due

(***************************************************************************)
(* A search sees every Markdown change the tab had been told of when it    *)
(* was made: an indexing pass that started before a change is not          *)
(* credited with it.                                                       *)
(***************************************************************************)
SearchSeesKnownChanges ==
    LET r == shown["results"]
    IN  r # None /\ r.answer.instance = r.since.instance
            => r.answer.markdown >= r.since.markdown

(***************************************************************************)
(* A visible tab catches up: in the end each panel shows the current       *)
(* snapshot (a search, the current Markdown) or has reported an error,     *)
(* however often the stream was closed, the server restarted, or events    *)
(* were missed in between.  Only search results may stay those of an       *)
(* earlier server: SearchPage depends on the Markdown generation alone,    *)
(* which starts again with each server.                                    *)
(***************************************************************************)
Current(p) ==
    \/ error[p]
    \/ shown[p] # None /\ IF p = "results" THEN shown[p].since.instance = published.instance
                                 => shown[p].answer.markdown = published.markdown
                          ELSE shown[p].answer = published
    \/ p = "results" /\ query = None
    \/ p = "page" /\ route = Search

CatchesUp == <>[](visible => \A p \in Panels : Current(p))
=============================================================================
