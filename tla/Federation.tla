----------------------------- MODULE Federation -----------------------------
(***************************************************************************)
(* What a prompt hook adds from the knowledge stores: federateTags looks   *)
(* up the tagged documents behind a prompt with a few concurrent workers   *)
(* under three budgets, and the markers of the session keep one prompt     *)
(* from repeating another (src/knowledge/index.ts, session.ts, and the     *)
(* prompt handlers of src/cli/hook.ts and src/fork/antigravity-hook.ts).   *)
(*                                                                         *)
(* A hook is a process of its own.  Two hooks of one session may overlap:  *)
(* they share only the marker file, which is read, truncated and written   *)
(* in separate steps.  A document's stores are one: they have something to *)
(* say about it, they have nothing, or one of them does not answer.        *)
(***************************************************************************)
EXTENDS Integers, Sequences, FiniteSets, SequencesExt

CONSTANTS
    Hooks,         \* processes that may run at once
    Docs,
    Tagged,        \* the documents with a tag that yields a search term
    Prompts,       \* [refs, matches : sequences of documents]
    Concurrency, MaxEmitted, MaxAttempts,
    Lifetime,      \* how long an empty attempt is remembered
    None, Torn,
    Target,        \* the document Surfaces is about
    MaxEvents      \* bounds what goes wrong, what the stores learn, and the clock

\* What a marker file holds: the documents surfaced, and when the others
\* turned out to have nothing.
Marker == [seen : SUBSET Docs, empty : UNION {[S -> Nat] : S \in SUBSET Docs}]

ASSUME FederationAssumption ==
  /\ Tagged \subseteq Docs /\ Target \in Tagged
  /\ Prompts \subseteq [refs : Seq(Docs), matches : Seq(Docs)]
  /\ None \notin Marker /\ Torn \notin Marker
  /\ {Concurrency, MaxEmitted, MaxAttempts, Lifetime} \subseteq Nat \ {0}
  /\ MaxEvents \in Nat

VARIABLES
    answers,     \* what the stores have on a tagged document: "hits", "empty", "hangs"
    markers,     \* the marker file of the session
    hook,        \* the state of each process
    now,
    events,
    shown,       \* history: how often a document was surfaced, up to twice
    disturbed,   \* history: two hooks overlapped, or the file was lost
    silenced     \* history: documents of hooks killed before they printed

vars == <<answers, markers, hook, now, events, shown, disturbed, silenced>>

Idle == [pc |-> "idle"]
NoMarkers == [seen |-> {}, empty |-> << >>]

\* The workers claim documents in order, so what was claimed is a prefix of
\* what is open.
FirstOf(S, n) == {i \in S : Cardinality({j \in S : j < i}) < n}

-----------------------------------------------------------------------------
Init ==
  /\ answers \in [Tagged -> {"hits", "empty", "hangs"}]
  /\ markers = None
  /\ hook = [h \in Hooks |-> Idle]
  /\ now = 0 /\ events = 0
  /\ shown = [d \in Docs |-> 0] /\ disturbed = FALSE /\ silenced = {}

\* loadSessionMarkers: any doubt about the file, and the hook starts afresh.
Loaded ==
  IF markers \in {None, Torn} THEN NoMarkers
  ELSE LET fresh == {d \in DOMAIN markers.empty : now - markers.empty[d] < Lifetime}
       IN  [seen |-> markers.seen, empty |-> [d \in fresh |-> markers.empty[d]]]

\* The documents a prompt leads to, in order: its refs, then the matches.
Collected(p, searched) == p.refs \o IF searched THEN p.matches ELSE <<>>

\* taggedDocsForFiles: each path once.
FirstMentions(paths) == {i \in DOMAIN paths : \A j \in 1..(i - 1) : paths[j] # paths[i]}

\* tagsToTerms
HasTerms(d) == d \in Tagged

\* Defect: empty attempts are not remembered.
OpenExhausted(paths, kept) ==
  {i \in FirstMentions(paths) : HasTerms(paths[i]) /\ paths[i] \notin kept.seen}

\* Skips spend no attempt: repeated paths, documents without a search term,
\* and what the markers know.
Open(paths, kept) ==
  {i \in FirstMentions(paths) :
     HasTerms(paths[i]) /\ paths[i] \notin kept.seen \cup DOMAIN kept.empty}

\* federateTags begins: every worker claims a document.
FirstQuery(p, searched, kept) ==
  LET paths == Collected(p, searched)
      open == Open(paths, kept)
      first == FirstOf(open, Min({Concurrency, MaxAttempts}))
  IN  [pc |-> "query", paths |-> paths, open |-> open, claimed |-> first,
       flight |-> first, found |-> {}, seen |-> kept.seen, since |-> kept.empty,
       empty |-> DOMAIN kept.empty, steady |-> TRUE]

(***************************************************************************)
(* A prompt: its [[refs]], then what the search matched unless the index   *)
(* is unusable.  The markers are loaded, or not even found.                *)
(***************************************************************************)
Submit(h) ==
  /\ hook[h].pc = "idle"
  /\ \E p \in Prompts, searched \in BOOLEAN, unreadable \in BOOLEAN :
       LET overlaps == \E g \in Hooks \ {h} : hook[g].pc # "idle"
           kept == IF unreadable THEN NoMarkers ELSE Loaded
       IN  /\ hook' = [hook EXCEPT ![h] = FirstQuery(p, searched, kept)]
           /\ events' = events + Cardinality({x \in {1, 2} : <<unreadable, overlaps>>[x]})
           /\ events' <= MaxEvents
           /\ disturbed' = (disturbed \/ (unreadable /\ markers # None) \/ markers = Torn \/ overlaps)
  /\ UNCHANGED <<answers, markers, now, shown, silenced>>

\* worker: the next document, unless enough were found or attempted.
Claim(w, found) ==
  IF Cardinality(found) >= MaxEmitted \/ Cardinality(w.claimed) >= MaxAttempts THEN {}
  ELSE FirstOf(w.open \ w.claimed, 1)

\* A document's stores answer; its worker takes the next one at once.
StoresAnswer(h, i) ==
  LET w == hook[h]
      doc == w.paths[i]
      found == IF answers[doc] = "hits" THEN w.found \cup {i} ELSE w.found
      next == Claim(w, found)
  IN
  /\ w.pc = "query" /\ i \in w.flight /\ answers[doc] # "hangs"
  /\ hook' = [hook EXCEPT ![h] =
       [w EXCEPT !.found = found,
                 !.flight = (w.flight \ {i}) \cup next,
                 !.claimed = @ \cup next,
                 !.empty = IF answers[doc] = "empty" THEN @ \cup {doc} ELSE @]]
  /\ UNCHANGED <<answers, markers, now, events, shown, disturbed, silenced>>

\* raceDeadline: what is in flight is abandoned, and stays open to later calls.
\* It passes when only stores that hang are left, and sooner when all are slow.
Deadline(h) ==
  LET w == hook[h]
      hanging == \A i \in w.flight : answers[w.paths[i]] = "hangs"
  IN
  /\ w.pc = "query" /\ w.flight # {} /\ (hanging \/ events < MaxEvents)
  /\ events' = IF hanging THEN events ELSE events + 1
  /\ hook' = [hook EXCEPT ![h] = [w EXCEPT !.flight = {}, !.steady = FALSE]]
  /\ UNCHANGED <<answers, markers, now, shown, disturbed, silenced>>

\* Defect: everything the workers found is accepted.
AcceptedAll(found) == found

\* Acceptance in document order, then saveSessionMarkers truncates the file.
\* An empty attempt keeps the time it was first recorded.
Accepted(found) == FirstOf(found, MaxEmitted)

Stamped(w) ==
  [d \in w.empty |-> IF d \in DOMAIN w.since THEN w.since[d] ELSE now]

\* Defect: what is surfaced is not recorded as seen.
AcceptUnrecorded(h) ==
  LET w == hook[h]
      docs == {w.paths[i] : i \in Accepted(w.found)}
  IN
  /\ w.pc = "query" /\ w.flight = {}
  /\ markers' = Torn
  /\ hook' = [hook EXCEPT ![h] = [pc |-> "write", docs |-> docs, seen |-> w.seen, empty |-> Stamped(w)]]
  /\ UNCHANGED <<answers, now, events, shown, disturbed, silenced>>

Accept(h) ==
  LET w == hook[h]
      docs == {w.paths[i] : i \in Accepted(w.found)}
  IN
  /\ w.pc = "query" /\ w.flight = {}
  /\ \E failing \in {FALSE, events < MaxEvents} :
       /\ events' = IF failing THEN events + 1 ELSE events
       /\ disturbed' = (disturbed \/ failing)
       /\ markers' = IF failing THEN markers ELSE Torn
       /\ hook' = [hook EXCEPT ![h] =
            [pc |-> IF failing THEN "print" ELSE "write", docs |-> docs,
             seen |-> w.seen \cup docs, empty |-> Stamped(w)]]
  /\ UNCHANGED <<answers, now, shown, silenced>>

WriteMarkers(h) ==
  LET w == hook[h] IN
  /\ w.pc = "write"
  /\ markers' = [seen |-> w.seen, empty |-> w.empty]
  /\ hook' = [hook EXCEPT ![h] = [pc |-> "print", docs |-> w.docs]]
  /\ UNCHANGED <<answers, now, events, shown, disturbed, silenced>>

\* outputPromptSubmit
PrintContext(h) ==
  /\ hook[h].pc = "print"
  /\ shown' = [d \in Docs |-> IF d \in hook[h].docs THEN Min({2, shown[d] + 1}) ELSE shown[d]]
  /\ hook' = [hook EXCEPT ![h] = Idle]
  /\ UNCHANGED <<answers, markers, now, events, disturbed, silenced>>

\* The agent gives up on a hook.
Kill(h) ==
  /\ hook[h].pc # "idle" /\ events < MaxEvents /\ events' = events + 1
  /\ silenced' = IF hook[h].pc \in {"write", "print"} THEN silenced \cup hook[h].docs ELSE silenced
  /\ hook' = [hook EXCEPT ![h] = Idle]
  /\ UNCHANGED <<answers, markers, now, shown, disturbed>>

-----------------------------------------------------------------------------
\* The stores learn something, or come back.
Learn ==
  /\ events < MaxEvents /\ events' = events + 1
  /\ \E d \in Tagged, a \in {"hits", "empty"} :
       answers[d] \notin {a, "hits"} /\ answers' = [answers EXCEPT ![d] = a]
  /\ hook' = [h \in Hooks |-> IF hook[h].pc = "query" THEN [hook[h] EXCEPT !.steady = FALSE]
                              ELSE hook[h]]
  /\ UNCHANGED <<markers, now, shown, disturbed, silenced>>

TimePasses ==
  /\ events < MaxEvents /\ events' = events + 1 /\ now' = now + 1
  /\ UNCHANGED <<answers, markers, hook, shown, disturbed, silenced>>

\* The documents a hook waits for.
InFlight(h) == IF hook[h].pc = "query" THEN hook[h].flight ELSE {}

Step(h) ==
  Submit(h) \/ (\E i \in InFlight(h) : StoresAnswer(h, i)) \/ Deadline(h) \/ Accept(h)
    \/ WriteMarkers(h) \/ PrintContext(h)

Next == (\E h \in Hooks : Step(h) \/ Kill(h)) \/ Learn \/ TimePasses

\* Hooks that run end, and prompts keep coming.  Overlaps are bounded, so that
\* some hook moving is every hook moving.
Spec == Init /\ [][Next]_vars /\ WF_vars(\E h \in Hooks : Step(h))

-----------------------------------------------------------------------------
\* A document is surfaced once in a session: while hooks do not overlap and the
\* file is not lost, never twice; and what the file records as seen was shown,
\* is about to be, or belongs to a hook that was killed before it could print.
ShownOnce ==
  /\ ~disturbed => \A d \in Docs : shown[d] <= 1
  /\ markers \notin {None, Torn} =>
       \A d \in markers.seen :
         shown[d] > 0 \/ d \in silenced \/ \E h \in Hooks : hook[h].pc \in {"write", "print"} /\ d \in hook[h].docs

\* What one worker at a time would accept: the first documents that yield
\* something, within the attempts.
Sequential(w) ==
  LET attempted == FirstOf(w.open, MaxAttempts)
      yields == {i \in attempted : answers[w.paths[i]] = "hits"}
  IN  {w.paths[i] : i \in FirstOf(yields, MaxEmitted)}

\* The workers overlap their queries, stop early, and finish in any order; as
\* long as no deadline cuts them short and no store learns meanwhile, they
\* accept exactly what the sequential version accepts.
AcceptsLikeSequential ==
  [][\A h \in Hooks :
       hook[h].pc = "query" /\ hook'[h].pc \in {"write", "print"} /\ hook[h].steady
         => hook'[h].docs = Sequential(hook[h])]_vars

\* A document every prompt names, whose stores have something to say, is
\* surfaced: empty attempts ahead of it are remembered and let the budget reach
\* it, provided that it is not remembered as empty itself and that fewer stores
\* hang than there are workers and attempts.  (The clock stops with the other
\* events: prompts then come within one lifetime.)
Remembered(d) ==
  \/ markers \notin {None, Torn} /\ d \in DOMAIN markers.empty
  \/ \E h \in Hooks : hook[h].pc = "query" /\ d \in hook[h].empty
  \/ \E h \in Hooks : hook[h].pc = "write" /\ d \in DOMAIN hook[h].empty

Reachable(d) ==
  /\ answers[d] = "hits" /\ ~Remembered(d)
  /\ \A p \in Prompts : d \in ToSet(p.refs)
  /\ Cardinality({e \in Tagged : answers[e] = "hangs"}) < Min({Concurrency, MaxAttempts})

Surfaces == Reachable(Target) ~> (shown[Target] > 0 \/ Target \in silenced)

=============================================================================
