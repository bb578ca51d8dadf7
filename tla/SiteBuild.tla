------------------------------ MODULE SiteBuild ------------------------------
(***************************************************************************)
(* Publishing the view (src/view/static-build.ts, server-build.ts,         *)
(* vercel-build.ts): which pages a build collects, when it reads them, and *)
(* how the site that it staged takes the place of the one before.          *)
(*                                                                         *)
(* A document is one paragraph.  Rendering, payload formats and the search *)
(* database's contents are left out.  Pages are fetched one at a time, in  *)
(* any order.                                                              *)
(***************************************************************************)
EXTENDS Integers, Sequences, FiniteSets

CONSTANTS
    Docs,                  \* the documents of lat.md that may exist
    Previews,              \* the other Markdown files of the project
    Sources, Resources,    \* its source files, and what else is linked
    Externals,             \* the documents of the external sources
    Worlds,                \* what the files say: see below
    Projects,              \* the files that exist when the builds begin
    MaxRetries,            \* VIEW_BUILD_MOVE_MAX_RETRIES
    MaxProjectChanges, MaxKills

SiteFiles == Docs \cup Previews \cup Sources \cup Resources
Names == SiteFiles \cup Externals

\* An external document links nothing of the project; a comment in a source
\* mentions documents and externals; "graph" is a page of its own.
ASSUME SiteAssumption ==
  /\ \A w \in Worlds :
       /\ w.links \in [Names -> SUBSET Names]
       /\ \A x \in Externals : w.links[x] \subseteq Externals
       /\ w.comments \subseteq Sources \X (Docs \cup Externals)
  /\ Projects \subseteq SUBSET SiteFiles
  /\ "graph" \notin Previews /\ Externals \cap SiteFiles = {}
  /\ {MaxRetries, MaxProjectChanges, MaxKills} \subseteq Nat

VARIABLES
    world,      \* what files say: [links, comments, excluded]
    present,    \* the files of the project that exist
    build,      \* a run of lat ui build
    rival,      \* how far another build into the same directory is
    output,     \* the directory that every build is told to write
    stood,      \* history: a site has stood there
    cleared,    \* history: a forced build has removed what stood there
    cutShort,   \* history: a removal has ended before everything was gone
    projectChanges, kills

siteVars == <<world, present, build, rival, output, stood, cleared, cutShort,
              projectChanges, kills>>

-----------------------------------------------------------------------------
(* Pages and their links. *)

Url(kind, file, from) == [kind |-> kind, file |-> file, from |-> from]
Document(p) == Url("document", p, "")
External(p) == Url("external", p, "")
Resource(r) == Url("resource", r, "")
Source(s, from) == Url("source", s, from)
Graph == Url("graph", "", "")

\* createPublicationPolicy
Publishable(f) == f \in present \ world.excluded

\* A source link carries the section it stands in; a link that resolves to
\* nothing is text.
RenderedUrls(p, snap) ==
  LET links == world.links[p] IN
     {Document(d) : d \in links \cap (snap.docs \cup Previews)}
       \cup {Resource(r) : r \in links \cap Resources}
       \cup {Source(s, IF p \in Docs THEN p ELSE "") : s \in {x \in links \cap Sources : Publishable(x)}}
       \cup {External(x) : x \in links \cap (IF p \in Externals THEN snap.externals \cup {p}
                                             ELSE Externals)}

\* What quotes a page: the documents that link it and the comments in code.
Quoted(p, snap) ==
  LET quoting == {d \in snap.docs : p \in world.links[d]} IN
     (UNION {{Document(d)} \cup RenderedUrls(d, snap) : d \in quoting})
       \cup {Source(c[1], "comment") : c \in {m \in snap.comments : m[2] = p}}

\* The links of a page; a preview is shown without what quotes it, and of a
\* source only that is shown.
Urls(u, snap) ==
  (IF u.kind = "source" THEN {} ELSE RenderedUrls(u.file, snap))
    \cup (IF u.file \in Previews THEN {} ELSE Quoted(u.file, snap))

\* viewIndex, buildViewReferenceIndex, buildViewGraph
Snapshot ==
  LET docs == Docs \cap present
      comments == {c \in world.comments : Publishable(c[1]) /\ c[2] \in docs \cup Externals}
      linked == UNION {world.links[d] : d \in docs}
      externals == Externals \cap (linked \cup {c[2] : c \in comments})
  IN [docs |-> docs, comments |-> comments, externals |-> externals,
      graph |-> {Document(d) : d \in docs} \cup {External(x) : x \in externals}
                  \cup {Source(s, "") : s \in linked \cap Sources \cap present}
                  \cup {Source(c[1], "comment") : c \in comments}]

Page(url, urls) == [url |-> url, urls |-> urls]
OfKind(urls, kind) == {u \in urls : u.kind = kind}
UrlsOf(pages) == UNION {p.urls : p \in pages}
PagesOf(pages, kinds) == {p \in pages : p.url.kind \in kinds}

\* Defect: what a preview links to is not looked at.
DocumentsAskedShallow(j) ==
  {Document(d) : d \in j.snap.docs}
    \cup OfKind(UrlsOf({p \in j.pages : p.url.file \in Docs}), "document")

\* The documents and the previews that they and other previews link.
DocumentsAsked(j) ==
  {Document(d) : d \in j.snap.docs} \cup OfKind(UrlsOf(j.pages), "document")

\* What the documents, the graph and other externals link.
ExternalsAsked(j) ==
  {External(x) : x \in j.snap.externals} \cup OfKind(UrlsOf(j.pages), "external")

\* What the documents, the graph and other sources link.
SourcesAsked(j) == OfKind(UrlsOf(PagesOf(j.pages, {"document", "graph", "source"})), "source")

\* What the documents show.
ResourcesAsked(j) == OfKind(UrlsOf(PagesOf(j.pages, {"document"})), "resource")

\* staticViewUrl and writeRouteShell: the directory that a page is written to.
Route(entry, u) ==
  CASE u.kind = "document" -> IF u.file = entry THEN <<>> ELSE <<u.file>>
    [] u.kind = "source" -> <<"code", u.file>>
    [] u.kind = "external" -> <<"external", u.file>>
    [] u.kind = "resource" -> <<"resources", u.file>>
    [] u.kind = "graph" -> <<"graph">>

EntryOf(snap) == IF "index" \in snap.docs THEN "index" ELSE CHOOSE d \in snap.docs : TRUE

\* validateDocumentRoutes
ValidRoutes(docs) == "graph" \notin docs

-----------------------------------------------------------------------------
(* A build. *)

NoSite == [pc |-> "none"]

Stopped == [pc |-> "off", kind |-> "static", force |-> FALSE, retries |-> 0,
            snap |-> NoSite, pages |-> {}, hits |-> {}, steady |-> TRUE]

Theirs == [Stopped EXCEPT !.kind = "theirs"]

\* What a removal that is under way, or was cut short, leaves of any site.
Ruins == [Stopped EXCEPT !.kind = "ruins"]

SiteInit ==
  /\ world \in Worlds /\ present \in Projects
  /\ build = Stopped /\ rival = "off"
  /\ output = NoSite /\ stood = FALSE /\ cleared = FALSE /\ cutShort = FALSE
  /\ projectChanges = 0 /\ kills = 0

Goes(from, to) ==
  /\ build.pc = from
  /\ build' = to
  /\ UNCHANGED <<world, present, rival, projectChanges, kills>>
Keeps == UNCHANGED <<output, stood, cleared, cutShort>>

\* The staging directory goes with the build that failed.
Broken == [Stopped EXCEPT !.pc = "failed", !.kind = build.kind]

\* validateViewBuildOutput, mkdtemp
BeginBuild ==
  \E kind \in {"static", "server", "vercel"}, force \in BOOLEAN :
    /\ Goes("off",
            IF output # NoSite /\ ~force THEN [Stopped EXCEPT !.pc = "failed"]
            ELSE [Stopped EXCEPT !.pc = "open", !.kind = kind, !.force = force])
    /\ Keeps

\* createViewStore
Open ==
  /\ LET snap == Snapshot IN
       Goes("open",
            IF snap.docs # {} /\ ValidRoutes(snap.docs)
              THEN [build EXCEPT !.pc = "documents", !.snap = snap] ELSE Broken)
  /\ Keeps

\* A page that is asked for and not there yet, if it can be read.
Fetch(asked, readable) ==
  \E u \in asked \ {p.url : p \in build.pages} :
    Goes(build.pc,
         IF u \in readable THEN [build EXCEPT !.pages = @ \cup {Page(u, Urls(u, build.snap))}]
         ELSE Broken)

\* All that was asked for is there.
Fetched(asked, to) == asked \subseteq {p.url : p \in build.pages} /\ Goes(build.pc, to)

\* The documents come from the snapshot, the previews from their files; then
\* the graph is at hand.
FetchDocuments ==
  LET asked == DocumentsAsked(build) IN
  /\ build.pc = "documents"
  /\ \/ Fetch(asked, {u \in asked : u.file \in Previews => u.file \in present})
     \/ Fetched(asked, [build EXCEPT !.pc = "externals",
                          !.pages = @ \cup {Page(Graph, build.snap.graph)}])
  /\ Keeps

\* Retrieving an external may fail.
FetchExternals ==
  LET asked == ExternalsAsked(build) IN
  /\ build.pc = "externals"
  /\ \/ \E readable \in {asked, {}} : Fetch(asked, readable)
     \/ Fetched(asked, [build EXCEPT !.pc = "sources"])
  /\ Keeps

\* A source that is gone or excluded fails the build.
FetchSources ==
  LET asked == SourcesAsked(build) IN
  /\ build.pc = "sources"
  /\ \/ Fetch(asked, {u \in asked : Publishable(u.file)})
     \/ Fetched(asked, [build EXCEPT !.pc = "write"])
  /\ Keeps

\* The texts of the documents and the resources are read again.
WriteSite ==
  /\ LET asked == ResourcesAsked(build) IN
       Goes("write",
            IF build.snap.docs \subseteq present /\ \A u \in asked : Publishable(u.file)
              THEN [build EXCEPT !.pc = IF build.kind = "static" THEN "clear" ELSE "index",
                                 !.pages = @ \cup {Page(u, {}) : u \in asked}]
              ELSE Broken)
  /\ Keeps

\* The server's search is built by a worker from an analysis of its own.
BuildSearch ==
  /\ \/ Goes("index", [build EXCEPT !.pc = IF build.kind = "vercel" THEN "package" ELSE "clear",
                                   !.hits = Docs \cap present])
     \/ Goes("index", Broken)
  /\ Keeps

\* For Vercel the finished server is installed, traced and copied.
Package ==
  /\ Goes("package", [build EXCEPT !.pc = "clear"]) \/ Goes("package", Broken)
  /\ Keeps

\* rm({recursive, force}) goes file by file, whoever put them, and does not try
\* again.
RemoveSome ==
  /\ output \notin {NoSite, Ruins}
  /\ output' = Ruins
  /\ cleared' = TRUE
  /\ UNCHANGED <<stood, cutShort>>
RemoveRest ==
  /\ output \in {NoSite, Ruins}
  /\ output' = NoSite
  /\ UNCHANGED <<stood, cleared, cutShort>>
RemoveNoMore ==
  /\ cutShort' = TRUE
  /\ UNCHANGED <<output, stood, cleared>>

Clear ==
  \/ ~build.force /\ Goes("clear", [build EXCEPT !.pc = "move"]) /\ Keeps
  \/ /\ build.force
     /\ \/ Goes("clear", build) /\ RemoveSome
        \/ Goes("clear", [build EXCEPT !.pc = "move"]) /\ RemoveRest
        \/ Goes("clear", Broken) /\ RemoveNoMore

\* rename does not replace a directory that holds anything; it may find it
\* busy.  The conversion for Vercel does not try again.
Move ==
  LET j == build IN
  \/ /\ output = NoSite
     /\ Goes("move", [Stopped EXCEPT !.pc = "done"])
     /\ output' = j
     /\ stood' = TRUE
     /\ UNCHANGED <<cleared, cutShort>>
  \/ /\ Goes("move",
             IF j.kind # "vercel" /\ j.retries < MaxRetries
               THEN [j EXCEPT !.retries = @ + 1] ELSE Broken)
     /\ Keeps

\* Another program changes a file while builds run.
ChangeProject ==
  /\ projectChanges < MaxProjectChanges
  /\ projectChanges' = projectChanges + 1
  /\ \/ \E f \in SiteFiles \ present : present' = present \cup {f}
     \/ \E f \in present : present' = present \ {f}
  /\ build' = [build EXCEPT !.steady = FALSE]
  /\ UNCHANGED <<world, rival, output, stood, cleared, cutShort, kills>>

\* Its staging directory stays behind, and what it was removing as far as it is.
Kill ==
  /\ kills < MaxKills
  /\ kills' = kills + 1
  /\ build.pc \notin {"off", "done", "failed"}
  /\ build' = [Stopped EXCEPT !.pc = "failed"]
  /\ cutShort' = (cutShort \/ (build.pc = "clear" /\ build.force))
  /\ UNCHANGED <<world, present, rival, output, stood, cleared, projectChanges>>

\* Another build of this directory, with the pages that it happens to have.
Rival ==
  \/ /\ rival = "off"
     /\ rival' = (IF output = NoSite THEN "staged" ELSE "forced")
     /\ Keeps
  \/ /\ rival = "forced"
     /\ \/ rival' = "forced" /\ RemoveSome
        \/ rival' = "staged" /\ RemoveRest
        \/ rival' = "failed" /\ RemoveNoMore
  \/ /\ rival = "staged" /\ output = NoSite
     /\ rival' = "done"
     /\ output' = Theirs
     /\ stood' = TRUE
     /\ UNCHANGED <<cleared, cutShort>>

SiteNext ==
  \/ ChangeProject
  \/ Rival /\ UNCHANGED <<world, present, build, projectChanges, kills>>
  \/ BeginBuild \/ Open \/ FetchDocuments \/ FetchExternals \/ FetchSources \/ WriteSite
  \/ BuildSearch \/ Package \/ Clear \/ Move \/ Kill

SiteSpec == SiteInit /\ [][SiteNext]_siteVars

-----------------------------------------------------------------------------
(* Properties. *)

\* Every link on every page of the site that stands leads to a page of it, and
\* no two pages have one address; the search of a server finds only pages that
\* are there.  Two changes while the build runs break this: a source that
\* appears is linked from where an external page quotes a document, and a
\* document that appears is found without having a page (buildStaticView,
\* buildServerView).
PublishedSiteIsClosed ==
  output \notin {NoSite, Theirs, Ruins} =>
    LET pages == output.pages
        urls == {p.url : p \in pages}
        late(p, u) == ~output.steady /\ p.url.kind = "external" /\ u.kind = "source"
    IN /\ \A p \in pages : \A u \in p.urls : u \in urls \/ late(p, u)
       /\ \A u, w \in urls : Route(EntryOf(output.snap), u) = Route(EntryOf(output.snap), w)
                               => u.kind = w.kind /\ u.file = w.file
       /\ \A d \in output.hits : Document(d) \in urls \/ ~output.steady

\* A site that stood is gone, or in ruins, only where a forced build removed it
\* to put its own, and died or could not; ruins stand only while a removal goes
\* on, or after one that was cut short (moveViewBuildOutput, rm).
SitesOutliveFailures ==
  /\ stood /\ output \in {NoSite, Ruins} => cleared
  /\ output = Ruins => cutShort \/ rival = "forced" \/ (build.pc = "clear" /\ build.force)

\* Both: the site that stands is whole, unless its removal was cut short, and one
\* stands after a failed build, unless it was removed.
SiteIsWhole == PublishedSiteIsClosed /\ SitesOutliveFailures
=============================================================================
