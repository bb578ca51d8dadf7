---------------------------- MODULE LiveViewProofs ----------------------------
(***************************************************************************)
(* What the tab shows is what it was asked for, and a search sees what the *)
(* tab knew, for any number of pages, queries, snapshots and servers; and  *)
(* the references in code that the store keeps for the tab are those of    *)
(* the files, for any files and any changes of them (CodeScope).           *)
(***************************************************************************)
EXTENDS LiveView, CodeScope, TLAPS

(***************************************************************************)
(* Types.                                                                  *)
(***************************************************************************)
Event == [event : {"ready", "change"}, change : Change]

\* Only some changes are to Markdown.
TypesInv == TypeOK /\ published.markdown <= published.generation

\* A request sent again, and a request with its answer.
Again(r) == [r EXCEPT !.attempt = 2, !.answer = None]
Answered(r, c) == [r EXCEPT !.answer = c]

LEMMA AgainFields ==
  ASSUME NEW r \in Requests
  PROVE  /\ Again(r) \in Requests /\ Again(r).answer = None
         /\ Again(r).panel = r.panel /\ Again(r).subject = r.subject
         /\ Again(r).since = r.since
<1>1. Again(r) \in Requests
  <2>1. [r EXCEPT !.attempt = 2] \in Requests
    BY DEF Requests
  <2>2. \A s \in Requests : [s EXCEPT !.answer = None] \in Requests
    BY DEF Requests
  <2>3. Again(r) = [[r EXCEPT !.attempt = 2] EXCEPT !.answer = None]
    BY Zenon DEF Again
  <2> QED
    BY <2>1, <2>2, <2>3
<1>2. /\ Again(r).answer = None /\ Again(r).panel = r.panel
      /\ Again(r).subject = r.subject /\ Again(r).since = r.since
  BY DEF Again, Requests
<1> QED
  BY <1>1, <1>2

LEMMA AnsweredFields ==
  ASSUME NEW r \in Requests, NEW c \in Change
  PROVE  /\ Answered(r, c) \in Requests /\ Answered(r, c).answer = c
         /\ Answered(r, c).panel = r.panel /\ Answered(r, c).subject = r.subject
         /\ Answered(r, c).since = r.since
BY DEF Answered, Requests

LEMMA MergedChange ==
  ASSUME NEW c \in Change, NEW d \in Change
  PROVE  mergeProjectChange(c, d) \in Change
<1>1. /\ c.generation \in 0..MaxGeneration /\ d.generation \in 0..MaxGeneration
      /\ c.markdown \in 0..MaxGeneration /\ d.markdown \in 0..MaxGeneration
  BY DEF Change
<1>2. Greater(c.generation, d.generation) \in 0..MaxGeneration
      /\ Greater(c.markdown, d.markdown) \in 0..MaxGeneration
  BY <1>1 DEF Greater
<1> QED
  BY <1>2 DEF mergeProjectChange, Change

LEMMA TypesInitially == Init => TypesInv
<1> SUFFICES ASSUME Init PROVE TypesInv
  OBVIOUS
<1>1. Fresh(1) \in Change /\ [instance |-> 0, generation |-> 0, markdown |-> 0] \in Change
  BY BoundsAssumption DEF Fresh, Change
<1>2. published.markdown = 1 /\ published.generation = 1
  BY DEF Init, Fresh
<1>3. shown \in [Panels -> Shown]
  BY DEF Init, Nothing, Shown
<1>4. faults \in 0..MaxFaults /\ moves \in 0..MaxMoves
  BY BoundsAssumption DEF Init
<1>5. due \subseteq Panels /\ requests \subseteq Requests /\ error \in [Panels -> BOOLEAN]
  BY DEF Init, Panels
<1> QED
  BY <1>1, <1>2, <1>3, <1>4, <1>5 DEF Init, TypesInv, TypeOK

LEMMA ServerTypes ==
  ASSUME TypesInv, Publish \/ Restart \/ StartIndexing \/ FinishIndexing
  PROVE  TypesInv'
<1> USE DEF TypesInv, TypeOK, server, tab
<1>0. /\ published.instance \in 0..MaxInstance /\ published.generation \in 0..MaxGeneration
      /\ published.markdown \in 0..MaxGeneration
      /\ MaxGeneration \in Nat \ {0} /\ MaxInstance \in Nat \ {0}
  BY BoundsAssumption DEF Change
<1>1. CASE Publish
  <2>1. PICK m \in {0, 1} :
          published' = [published EXCEPT !.generation = @ + 1, !.markdown = @ + m]
    BY <1>1 DEF Publish
  <2>2. /\ published' \in Change /\ published'.markdown = published.markdown + m
        /\ published'.generation = published.generation + 1
    <3>1. published' = [instance |-> published.instance, generation |-> published.generation + 1,
                        markdown |-> published.markdown + m]
      BY <2>1 DEF Change
    <3>2. published.generation + 1 \in 0..MaxGeneration
      BY <1>0, <1>1 DEF Publish
    <3> QED
      BY <1>0, <3>1, <3>2 DEF Change
  <2>3. stream' \in {Closed} \cup Seq(Event)
    <3>1. [event |-> "change", change |-> published'] \in Event
      BY <2>2 DEF Event
    <3>2. CASE stream = Closed
      BY <1>1, <3>2 DEF Publish
    <3>3. CASE stream # Closed
      <4>1. stream \in Seq(Event) /\ stream' = Append(stream, [event |-> "change", change |-> published'])
        BY <1>1, <3>3 DEF Publish, Event
      <4> QED
        BY <3>1, <4>1
    <3> QED
      BY <3>2, <3>3
  <2>4. /\ indexed' \in 0..published'.markdown /\ index' \in 0..published'.markdown
        /\ indexing' \in {None} \cup 1..published'.markdown
    BY <1>0, <1>1, <2>2 DEF Publish
  <2> QED
    BY <1>0, <1>1, <2>2, <2>3, <2>4 DEF Publish
<1>2. CASE Restart
  <2>1. published' \in Change /\ published'.markdown = 1 /\ published'.generation = 1
    BY <1>0, <1>2 DEF Restart, Fresh, Change
  <2>2. requests' \subseteq Requests
    <3> SUFFICES ASSUME NEW s \in requests', s \notin requests PROVE s \in Requests
      OBVIOUS
    <3>1. PICK r \in requests : s = Again(r)
      BY <1>2 DEF Restart, Interrupted, Again
    <3> QED
      BY <3>1, AgainFields
  <2> QED
    BY <1>2, <2>1, <2>2 DEF Restart
<1>3. CASE StartIndexing
  BY <1>0, <1>3 DEF StartIndexing
<1>4. CASE FinishIndexing
  <2>1. indexing \in 1..published.markdown
    BY <1>4 DEF FinishIndexing
  <2>2. Greater(indexed, indexing) \in 0..published.markdown
    BY <1>0, <2>1 DEF Greater
  <2>3. index' \in 0..published.markdown
    BY <1>0, <1>4, <2>1 DEF FinishIndexing
  <2> QED
    BY <1>4, <2>2, <2>3 DEF FinishIndexing
<1> QED
  BY <1>1, <1>2, <1>3, <1>4

LEMMA AnswerIsChange == TypesInv => [published EXCEPT !.markdown = index] \in Change
<1> SUFFICES ASSUME TypesInv PROVE [published EXCEPT !.markdown = index] \in Change
  OBVIOUS
<1> USE DEF TypesInv, TypeOK
<1>1. [published EXCEPT !.markdown = index]
        = [instance |-> published.instance, generation |-> published.generation,
           markdown |-> index]
  BY DEF Change
<1>2. index \in 0..MaxGeneration
  BY BoundsAssumption DEF Change
<1> QED
  BY <1>1, <1>2 DEF Change

LEMMA RequestTypes ==
  ASSUME TypesInv, NEW r \in requests,
         Answer(r) \/ Deliver(r) \/ Interrupt(r) \/ Reject(r)
  PROVE  TypesInv'
<1> USE DEF TypesInv, TypeOK, server, tab
<1>1. CASE Answer(r)
  <2>1. [published EXCEPT !.markdown = index] \in Change
    BY AnswerIsChange
  <2>2. PICK c \in Change : requests' = (requests \ {r}) \cup {Answered(r, c)}
    BY <1>1, <2>1 DEF Answer, Answered
  <2>3. requests' \subseteq Requests
    BY <2>2, AnsweredFields
  <2> QED
    BY <1>1, <2>3 DEF Answer
<1>2. CASE Deliver(r)
  <2>1. [subject |-> r.subject, since |-> r.since, answer |-> r.answer] \in Shown
    BY DEF Requests, Shown
  <2> QED
    BY <1>2, <2>1 DEF Deliver
<1>3. CASE Interrupt(r)
  <2>1. faults' \in 0..MaxFaults
    BY <1>3, BoundsAssumption DEF Interrupt
  <2> QED
    <3>1. requests' = (requests \ {r}) \cup {Again(r)}
      BY <1>3 DEF Interrupt, Again
    <3>2. requests' \subseteq Requests
      BY <3>1, AgainFields
    <3> QED
      BY <1>3, <2>1, <3>2 DEF Interrupt
<1>4. CASE Reject(r)
  <2>1. faults' \in 0..MaxFaults
    BY <1>4, BoundsAssumption DEF Reject
  <2>2. shown' \in [Panels -> Shown]
    BY <1>4 DEF Reject, Shown
  <2> QED
    BY <1>4, <2>1, <2>2 DEF Reject
<1> QED
  BY <1>1, <1>2, <1>3, <1>4

LEMMA TabTypes ==
  ASSUME TypesInv, Connect \/ Hide \/ Receive \/ RunEffects
  PROVE  TypesInv'
<1> USE DEF TypesInv, TypeOK, server, tab
<1>1. CASE Connect
  BY <1>1 DEF Connect
<1>2. CASE Hide
  BY <1>2, BoundsAssumption DEF Hide
<1>3. CASE Receive
  <2>1. Head(stream).change \in Change /\ Tail(stream) \in Seq(Event)
    <3>1. stream \in Seq(Event) /\ stream # <<>>
      BY <1>3 DEF Receive, Event
    <3>2. Head(stream) \in Event
      BY <3>1
    <3> QED
      BY <3>1, <3>2 DEF Event
  <2>2. change' \in Change
    BY <1>3, <2>1, MergedChange DEF Receive
  <2>3. due' \subseteq Panels
    BY <1>3 DEF Receive, Affected, Panels
  <2> QED
    BY <1>3, <2>1, <2>2, <2>3 DEF Receive
<1>4. CASE RunEffects
  <2>1. due' \subseteq Panels
    BY <1>4 DEF RunEffects, Panels
  <2>2. requests' \subseteq Requests
    <3> SUFFICES ASSUME NEW s \in requests', s \notin requests PROVE s \in Requests
      OBVIOUS
    <3>1. PICK p \in Asks :
            s = [panel |-> p, attempt |-> 1, answer |-> None,
                 since |-> IF p = "results" THEN change ELSE None,
                 subject |-> CASE p = "index" -> None [] p = "page" -> route
                               [] p = "results" -> query]
      BY <1>4 DEF RunEffects, Abort
    <3>2. \/ p = "index"
          \/ p = "page" /\ route \in Paths
          \/ p = "results" /\ query \in Queries
      <4>1. Asks \subseteq due
        BY DEF Asks
      <4>2. p = "page" => route \in Paths
        BY <3>1 DEF Asks
      <4>3. p = "results" => query \in Queries
        BY <3>1 DEF Asks
      <4> QED
        BY <4>1, <4>2, <4>3 DEF Panels
    <3> QED
      BY <3>1, <3>2 DEF Requests, Panels, Subject
  <2>3. shown' \in [Panels -> Shown]
    BY <1>4 DEF RunEffects, Shown
  <2>4. error' \in [Panels -> BOOLEAN]
    BY <1>4 DEF RunEffects
  <2> QED
    BY <1>4, <2>1, <2>2, <2>3, <2>4 DEF RunEffects
<1> QED
  BY <1>1, <1>2, <1>3, <1>4

LEMMA UserTypes ==
  ASSUME TypesInv, NEW q \in Queries \cup {None}, NEW to \in Paths \cup {Search},
         TypeQuery(q) \/ Navigate(to, q)
  PROVE  TypesInv'
<1> USE BoundsAssumption DEF TypesInv, TypeOK, server, tab
<1>1. CASE TypeQuery(q)
  BY <1>1 DEF TypeQuery, Panels
<1>2. CASE Navigate(to, q)
  <2>1. shown' \in [Panels -> Shown] /\ error' \in [Panels -> BOOLEAN]
    BY <1>2 DEF Navigate, Shown
  <2>2. requests' \subseteq Requests /\ due' \subseteq Panels
    BY <1>2 DEF Navigate, Abort, Panels
  <2> QED
    BY <1>2, <2>1, <2>2 DEF Navigate
<1> QED
  BY <1>1, <1>2

LEMMA TypesInductive == TypesInv /\ [Next]_vars => TypesInv'
<1>1. TypesInv /\ UNCHANGED vars => TypesInv'
  BY DEF TypesInv, TypeOK, vars, server, tab
<1> QED
  BY <1>1, ServerTypes, RequestTypes, TabTypes, UserTypes DEF Next, ServerStep, TabStep

(***************************************************************************)
(* What is asked: the requests that are left are for the route and query.  *)
(***************************************************************************)
AsksInv ==
  /\ ShowsWhatIsAsked
  /\ \A r \in requests :
       /\ r.panel = "page" => r.subject = route
       /\ r.panel = "results" => r.subject = query \/ "results" \in due

\* Nothing is asked that was not asked before.
SameAsks ==
  \A r \in requests' : \E s \in requests : s.panel = r.panel /\ s.subject = r.subject

LEMMA SameAsksKeep ==
  ASSUME AsksInv, SameAsks, UNCHANGED <<due, shown, route, query>>
  PROVE  AsksInv'
BY DEF AsksInv, SameAsks, ShowsWhatIsAsked

LEMMA AsksInductive ==
  ASSUME TypesInv, AsksInv, Next
  PROVE  AsksInv'
<1> USE DEF server, tab
<1>0. requests \subseteq Requests /\ due \subseteq Panels /\ shown \in [Panels -> Shown]
      /\ {"index", "page", "results"} = Panels
  BY DEF TypesInv, TypeOK, Panels
<1>1. CASE Publish \/ StartIndexing \/ FinishIndexing \/ Connect \/ Hide
  BY <1>1, SameAsksKeep DEF Publish, StartIndexing, FinishIndexing, Connect, Hide, SameAsks
<1>2. CASE Restart
  <2>1. ASSUME NEW s \in requests', s \notin requests
        PROVE  \E r \in requests : s = Again(r)
    BY <1>2, <2>1 DEF Restart, Interrupted, Again
  <2>2. SameAsks
    BY <1>0, <2>1, AgainFields DEF SameAsks
  <2> QED
    BY <1>2, <2>2, SameAsksKeep DEF Restart
<1>3. ASSUME NEW r \in requests, Answer(r) PROVE AsksInv'
  <2>1. PICK c : requests' = (requests \ {r}) \cup {Answered(r, c)}
    BY <1>3 DEF Answer, Answered
  <2>2. Answered(r, c).panel = r.panel /\ Answered(r, c).subject = r.subject
    BY <1>0 DEF Answered, Requests
  <2>3. SameAsks
    BY <2>1, <2>2 DEF SameAsks
  <2> QED
    BY <1>3, <2>3, SameAsksKeep DEF Answer
<1>4. ASSUME NEW r \in requests, Interrupt(r) PROVE AsksInv'
  <2>1. requests' = (requests \ {r}) \cup {Again(r)}
    BY <1>4 DEF Interrupt, Again
  <2>2. SameAsks
    BY <1>0, <2>1, AgainFields DEF SameAsks
  <2> QED
    BY <1>4, <2>2, SameAsksKeep DEF Interrupt
<1>5. CASE Receive
  BY <1>5 DEF Receive, AsksInv, ShowsWhatIsAsked
<1>6. CASE RunEffects
  <2>1. ShowsWhatIsAsked'
    BY <1>0, <1>6 DEF RunEffects, AsksInv, ShowsWhatIsAsked
  <2>2. ASSUME NEW s \in requests'
        PROVE  /\ s.panel = "page" => s.subject = route
               /\ s.panel = "results" => s.subject = query
    <3>1. CASE s \in Abort(due)
      BY <3>1 DEF Abort, AsksInv
    <3>2. CASE s \notin Abort(due)
      <4>1. PICK p \in Asks :
              s = [panel |-> p, attempt |-> 1, answer |-> None,
                   since |-> IF p = "results" THEN change ELSE None,
                   subject |-> CASE p = "index" -> None [] p = "page" -> route
                                 [] p = "results" -> query]
        BY <1>6, <3>2 DEF RunEffects
      <4> QED
        BY <4>1
    <3> QED
      BY <3>1, <3>2
  <2> QED
    BY <1>6, <2>1, <2>2 DEF RunEffects, AsksInv
<1>7. ASSUME NEW r \in requests, Deliver(r) PROVE AsksInv'
  <2>1. ShowsWhatIsAsked'
    BY <1>0, <1>7 DEF Deliver, AsksInv, ShowsWhatIsAsked
  <2> QED
    BY <1>7, <2>1 DEF Deliver, AsksInv
<1>8. ASSUME NEW r \in requests, Reject(r) PROVE AsksInv'
  BY <1>0, <1>8 DEF Reject, AsksInv, ShowsWhatIsAsked
<1>9. ASSUME NEW q \in Queries \cup {None}, NEW to \in Paths \cup {Search}, Navigate(to, q)
      PROVE  AsksInv'
  BY <1>0, <1>9 DEF Navigate, Abort, AsksInv, ShowsWhatIsAsked
<1>10. ASSUME NEW q \in Queries \cup {None}, TypeQuery(q) PROVE AsksInv'
  BY <1>10 DEF TypeQuery, AsksInv, ShowsWhatIsAsked
<1> QED
  BY <1>1, <1>2, <1>3, <1>4, <1>5, <1>6, <1>7, <1>8, <1>9, <1>10 DEF Next, ServerStep, TabStep

(***************************************************************************)
(* What a search knows: an index pass is credited with what it started     *)
(* from, so the index is never older than it says.                         *)
(***************************************************************************)
\* The server has published at least this, or has been restarted since.
Known(c) ==
  \/ c.instance < published.instance
  \/ c.instance = published.instance /\ c.markdown <= published.markdown

\* The answer shows the Markdown that was known.
Sees(since, answer) ==
  answer.instance = since.instance => answer.markdown >= since.markdown

EventsAreKnown ==
  stream # Closed => \A i \in 1..Len(stream) : Known(stream[i].change)

KnowsInv ==
  /\ Known(change) /\ EventsAreKnown
  /\ indexed <= index /\ (indexing # None => indexed <= indexing)
  /\ \A r \in requests : r.panel = "results" =>
       /\ r.since \in Change /\ Known(r.since)
       /\ r.answer # None => Sees(r.since, r.answer)
  /\ shown["results"] # None => Sees(shown["results"].since, shown["results"].answer)

\* What is known stays known when the server publishes or is restarted.
LEMMA KnownStays ==
  ASSUME TypesInv, Publish \/ Restart, NEW c \in Change, Known(c)
  PROVE  Known(c)'
<1>1. /\ c.instance \in Int /\ c.markdown \in Int
      /\ published.instance \in Int /\ published.markdown \in Int
  BY DEF TypesInv, TypeOK, Change
<1>2. CASE Publish
  <2>1. PICK m \in {0, 1} :
          published' = [published EXCEPT !.generation = @ + 1, !.markdown = @ + m]
    BY <1>2 DEF Publish
  <2>2. published'.instance = published.instance /\ published'.markdown = published.markdown + m
    BY <2>1 DEF TypesInv, TypeOK, Change
  <2> QED
    BY <1>1, <2>2 DEF Known
<1>3. CASE Restart
  BY <1>1, <1>3 DEF Restart, Fresh, Known
<1> QED
  BY <1>2, <1>3

LEMMA AnswersSee ==
  ASSUME TypesInv, KnowsInv, NEW r \in requests, Answer(r), r.panel = "results"
  PROVE  Sees(r.since, [published EXCEPT !.markdown = index])
<1>1. /\ [published EXCEPT !.markdown = index].instance = published.instance
      /\ [published EXCEPT !.markdown = index].markdown = index
  BY DEF TypesInv, TypeOK, Change
<1>2. index >= published.markdown
  <2>1. indexed \in Int /\ index \in Int /\ published.markdown \in Int
    BY DEF TypesInv, TypeOK, Change
  <2> QED
    BY <2>1 DEF Answer, KnowsInv
<1>3. r.since \in Change /\ Known(r.since)
  BY DEF KnowsInv
<1>4. published.instance = r.since.instance => r.since.markdown <= published.markdown
  BY <1>3 DEF Known, TypesInv, TypeOK, Change
<1>5. /\ r.since.markdown \in Int /\ published.markdown \in Int /\ index \in Int
  BY <1>3 DEF TypesInv, TypeOK, Change
<1> QED
  BY <1>1, <1>2, <1>4, <1>5 DEF Sees

LEMMA KnowsInductive ==
  ASSUME TypesInv, KnowsInv, Next
  PROVE  KnowsInv'
<1> USE DEF server, tab
<1>0. /\ requests \subseteq Requests /\ shown \in [Panels -> Shown] /\ change \in Change
      /\ published \in Change /\ published.markdown \in Int /\ indexed \in Int /\ index \in Int
      /\ stream \in {Closed} \cup Seq(Event) /\ "results" \in Panels
  BY DEF TypesInv, TypeOK, Panels, Change, Event
<1>1. CASE Publish \/ Restart
  <2>1. Known(change)'
    BY <1>0, <1>1, KnownStays DEF KnowsInv, Publish, Restart
  <2>2. EventsAreKnown'
    <3>1. CASE stream' = Closed
      BY <3>1 DEF EventsAreKnown
    <3>2. CASE stream' # Closed
      <4>1. /\ stream \in Seq(Event)  /\ stream # Closed
            /\ stream' = Append(stream, [event |-> "change", change |-> published'])
        BY <1>0, <1>1, <3>2 DEF Publish, Restart
      <4>2. Known(published)'
        <5>1. TypesInv'
          BY <1>1, ServerTypes
        <5>2. published'.markdown \in Int
          BY <5>1 DEF TypesInv, TypeOK, Change
        <5> QED
          BY <5>2 DEF Known
      <4>3. ASSUME NEW i \in 1..Len(stream) PROVE Known(stream[i].change)'
        <5>1. stream[i].change \in Change /\ Known(stream[i].change)
          <6>1. stream[i] \in Event
            BY <4>1
          <6> QED
            BY <4>1, <6>1 DEF KnowsInv, EventsAreKnown, Event
        <5> QED
          BY <1>1, <4>1, <5>1, KnownStays DEF Known
      <4> QED
        BY <4>1, <4>2, <4>3 DEF EventsAreKnown, Known
    <3> QED
      BY <3>1, <3>2
  <2>3. ASSUME NEW s \in requests', s.panel = "results"
        PROVE  /\ s.since \in Change /\ Known(s.since)'
               /\ s.answer # None => Sees(s.since, s.answer)
    <3>1. \/ s \in requests
          \/ \E r \in requests : s = Again(r)
      BY <1>1 DEF Publish, Restart, Interrupted, Again
    <3>2. PICK r \in requests :
            r.panel = "results" /\ s.since = r.since /\ (s.answer = None \/ s = r)
      BY <1>0, <2>3, <3>1, AgainFields
    <3> QED
      BY <1>1, <3>2, KnownStays DEF KnowsInv, Known
  <2>4. (indexed <= index /\ (indexing # None => indexed <= indexing))'
    BY <1>1 DEF Publish, Restart, KnowsInv
  <2> QED
    BY <1>1, <2>1, <2>2, <2>3, <2>4 DEF KnowsInv, Sees, Known, Publish, Restart
<1>2. CASE StartIndexing
  BY <1>0, <1>2 DEF StartIndexing, KnowsInv, EventsAreKnown, Known, Sees
<1>3. CASE FinishIndexing
  <2>1. indexing \in 1..published.markdown /\ indexed <= indexing
    BY <1>3 DEF FinishIndexing, KnowsInv, TypesInv, TypeOK
  <2>2. indexed' = indexing /\ indexing <= index' /\ indexing' = None
    BY <1>0, <1>3, <2>1 DEF FinishIndexing, Greater
  <2> QED
    BY <1>3, <2>2 DEF FinishIndexing, KnowsInv, EventsAreKnown, Known, Sees
<1>4. ASSUME NEW r \in requests, Answer(r) PROVE KnowsInv'
  <2>1. PICK c \in Change :
          /\ requests' = (requests \ {r}) \cup {Answered(r, c)}
          /\ r.panel = "results" => c = [published EXCEPT !.markdown = index]
    <3>1. CASE r.panel = "results"
      BY <1>4, <3>1, AnswerIsChange DEF Answer, Answered
    <3>2. CASE r.panel # "results"
      BY <1>0, <1>4, <3>2 DEF Answer, Answered
    <3> QED
      BY <3>1, <3>2
  <2>2. ASSUME NEW s \in requests', s.panel = "results"
        PROVE  /\ s.since \in Change /\ Known(s.since)
               /\ s.answer # None => Sees(s.since, s.answer)
    <3>1. CASE s \in requests
      BY <2>2, <3>1 DEF KnowsInv
    <3>2. CASE s \notin requests
      <4>0. requests' = (requests \ {r}) \cup {Answered(r, c)}
        BY <2>1
      <4>1. s = Answered(r, c)
        BY <3>2, <4>0
      <4>2. r.panel = "results" /\ s.since = r.since /\ s.answer = c
        BY <1>0, <2>2, <4>1, AnsweredFields
      <4>3. r.since \in Change /\ Known(r.since)
        BY <4>2 DEF KnowsInv
      <4>4. Sees(r.since, c)
        BY <1>4, <2>1, <4>2, AnswersSee
      <4> QED
        BY <4>2, <4>3, <4>4
    <3> QED
      BY <3>1, <3>2
  <2> QED
    BY <1>4, <2>2 DEF Answer, KnowsInv, EventsAreKnown, Known, Sees
<1>5. ASSUME NEW r \in requests, Interrupt(r) PROVE KnowsInv'
  <2>1. requests' = (requests \ {r}) \cup {Again(r)}
    BY <1>5 DEF Interrupt, Again
  <2>2. ASSUME NEW s \in requests', s.panel = "results"
        PROVE  /\ s.since \in Change /\ Known(s.since)
               /\ s.answer # None => Sees(s.since, s.answer)
    BY <1>0, <2>1, <2>2, AgainFields DEF KnowsInv
  <2> QED
    BY <1>5, <2>2 DEF Interrupt, KnowsInv, EventsAreKnown, Known, Sees
<1>6. CASE Connect \/ Hide
  <2>1. Known(published)
    BY <1>0 DEF Known, Change
  <2>2. EventsAreKnown'
    BY <1>6, <2>1 DEF Connect, Hide, EventsAreKnown, Known
  <2> QED
    BY <1>6, <2>2 DEF Connect, Hide, KnowsInv, Known, Sees
<1>7. CASE Receive
  <2>1. stream \in Seq(Event) /\ stream # <<>> /\ stream # Closed
    BY <1>0, <1>7 DEF Receive
  <2>2. Head(stream).change \in Change /\ Known(Head(stream).change)
    <3>1. Head(stream) \in Event
      BY <2>1
    <3>2. Head(stream) = stream[1] /\ 1 \in 1..Len(stream)
      BY <2>1
    <3> QED
      BY <2>1, <3>1, <3>2 DEF KnowsInv, EventsAreKnown, Event
  <2>3. Known(mergeProjectChange(change, Head(stream).change))
    BY <1>0, <2>2 DEF KnowsInv, Known, mergeProjectChange, Greater, Change
  <2>4. EventsAreKnown'
    <3>1. ASSUME NEW i \in 1..Len(Tail(stream))
          PROVE  Tail(stream)[i] = stream[i + 1] /\ i + 1 \in 1..Len(stream)
      BY <2>1
    <3> QED
      BY <1>7, <2>1, <3>1 DEF Receive, KnowsInv, EventsAreKnown, Known
  <2> QED
    BY <1>7, <2>3, <2>4 DEF Receive, KnowsInv, Known, Sees
<1>8. CASE RunEffects
  <2>1. ASSUME NEW s \in requests', s.panel = "results"
        PROVE  /\ s.since \in Change /\ Known(s.since)
               /\ s.answer # None => Sees(s.since, s.answer)
    <3>1. CASE s \in Abort(due)
      BY <2>1, <3>1 DEF Abort, KnowsInv
    <3>2. CASE s \notin Abort(due)
      <4>1. PICK p \in Asks :
              s = [panel |-> p, attempt |-> 1, answer |-> None,
                   since |-> IF p = "results" THEN change ELSE None,
                   subject |-> CASE p = "index" -> None [] p = "page" -> route
                                 [] p = "results" -> query]
        BY <1>8, <3>2 DEF RunEffects
      <4> QED
        BY <1>0, <2>1, <4>1 DEF KnowsInv
    <3> QED
      BY <3>1, <3>2
  <2>2. shown'["results"] # None => shown'["results"] = shown["results"]
    BY <1>0, <1>8 DEF RunEffects
  <2> QED
    BY <1>8, <2>1, <2>2 DEF RunEffects, KnowsInv, EventsAreKnown, Known, Sees
<1>9. ASSUME NEW r \in requests, Deliver(r) PROVE KnowsInv'
  <2>1. shown'["results"] # None => Sees(shown'["results"].since, shown'["results"].answer)
    <3>1. CASE r.panel = "results"
      BY <1>0, <1>9, <3>1 DEF Deliver, KnowsInv
    <3>2. CASE r.panel # "results"
      BY <1>0, <1>9, <3>2 DEF Deliver, KnowsInv
    <3> QED
      BY <3>1, <3>2
  <2> QED
    BY <1>9, <2>1 DEF Deliver, KnowsInv, EventsAreKnown, Known, Sees
<1>10. ASSUME NEW r \in requests, Reject(r) PROVE KnowsInv'
  <2>1. shown'["results"] = shown["results"]
    BY <1>0, <1>10 DEF Reject
  <2> QED
    BY <1>10, <2>1 DEF Reject, KnowsInv, EventsAreKnown, Known, Sees
<1>11. ASSUME NEW q \in Queries \cup {None}, NEW to \in Paths \cup {Search},
              TypeQuery(q) \/ Navigate(to, q)
       PROVE  KnowsInv'
  <2>1. requests' \subseteq requests
    BY <1>11 DEF TypeQuery, Navigate, Abort
  <2>2. shown'["results"] # None => shown'["results"] = shown["results"]
    BY <1>0, <1>11 DEF TypeQuery, Navigate
  <2> QED
    BY <1>11, <2>1, <2>2 DEF TypeQuery, Navigate, KnowsInv, EventsAreKnown, Known, Sees
<1> QED
  BY <1>1, <1>2, <1>3, <1>4, <1>5, <1>6, <1>7, <1>8, <1>9, <1>10, <1>11
     DEF Next, ServerStep, TabStep

(***************************************************************************)
(* The theorems.                                                           *)
(***************************************************************************)
IInv == TypesInv /\ AsksInv /\ KnowsInv

LEMMA Initially == Init => IInv
<1> SUFFICES ASSUME Init PROVE IInv
  OBVIOUS
<1>1. AsksInv
  BY DEF Init, AsksInv, ShowsWhatIsAsked, Nothing, Panels
<1>2. KnowsInv
  BY DEF Init, KnowsInv, EventsAreKnown, Known, Fresh, Nothing, Panels
<1> QED
  BY <1>1, <1>2, TypesInitially DEF IInv

LEMMA Inductive == IInv /\ [Next]_vars => IInv'
<1>1. IInv /\ UNCHANGED vars => IInv'
  BY DEF vars, server, tab, IInv, TypesInv, TypeOK, AsksInv, ShowsWhatIsAsked, KnowsInv,
     EventsAreKnown, Known, Sees
<1> QED
  BY <1>1, TypesInductive, AsksInductive, KnowsInductive DEF IInv

\* Whatever the order in which answers arrive, the page is that of the route and
\* the results are those of the query, or their effect is due: navigating and
\* running an effect abort what they supersede.
THEOREM TabShowsWhatIsAsked == Spec => []ShowsWhatIsAsked
<1>1. IInv => ShowsWhatIsAsked
  BY DEF IInv, AsksInv
<1> QED
  BY <1>1, Initially, Inductive, PTL DEF Spec

\* A search sees every Markdown change the tab had been told of when it was made:
\* a pass is credited with what it started from, so the index is at least as new
\* as its number says, and the server is never behind what a tab knows.
THEOREM SearchesSeeWhatIsKnown == Spec => []SearchSeesKnownChanges
<1>1. IInv => SearchSeesKnownChanges
  BY DEF IInv, KnowsInv, Sees, SearchSeesKnownChanges
<1> QED
  BY <1>1, Initially, Inductive, PTL DEF Spec

-----------------------------------------------------------------------------
(***************************************************************************)
(* The inductive invariant.  ScopeIsCurrent speaks of quiet moments only;  *)
(* between them a file may be known wrongly as long as a notification that *)
(* names it, or everything, has been heard and not been dealt with: it is  *)
(* still to be refreshed, or in the running batch, or was lost by a        *)
(* refresh that rejected.                                                  *)
(***************************************************************************)
Told(f, heard) == heard \cap {f, All, Gitignore} # {}

IsKnown(refs, f, heard) ==
  \/ refs[f] = Visible(f)
  \/ f \in ignoredCodePaths /\ refs[f] = Absent
  \/ Told(f, heard)

\* A file the store may read: ruled out only if that has been heard of.
Allowed(f, heard) == f \notin excluded \/ Gitignore \in heard

Heard == pending \cup forgotten \cup batch
\* What a rereading refresh leaves to others.
StillHeard == pending \cup (forgotten \ batch)

KeptIsCurrent ==
  at # "reread" =>
    \A f \in Files : /\ IsKnown(codeFiles, f, Heard)
                     /\ codeFiles[f] # Absent => f \in codeScope

RereadIsCurrent ==
  at = "reread" =>
    /\ todo \subseteq codeScope /\ batch \cap {All, Gitignore} = {}
    /\ \A f \in Files : /\ f \notin todo => IsKnown(working, f, StillHeard)
                        /\ working[f] # Absent => f \in codeScope

LoadIsCurrent ==
  at = "load" =>
    /\ todo \subseteq found
    /\ \A f \in Files : /\ f \notin todo => working[f] = Visible(f) \/ Told(f, pending)
                        /\ working[f] # Absent => f \in found

\* No path is both kept and skipped, and what is kept was not ruled out.
ScopeIsAllowed ==
  /\ codeScope \cap ignoredCodePaths = {}
  /\ \A f \in codeScope : Allowed(f, Heard)
  /\ at = "load" => \A f \in found : Allowed(f, pending)

\* Between two refreshes there is no batch, and what is known has been published.
RestIsPublished ==
  /\ at \in {"idle", "publish"} => batch = {}
  /\ at # "publish" => snapshotFiles = codeFiles \/ unpublished

ScopeInv ==
  CodeTypeOK /\ KeptIsCurrent /\ RereadIsCurrent /\ LoadIsCurrent /\ ScopeIsAllowed
    /\ RestIsPublished

LEMMA ScopeInitially == CodeInit => ScopeInv
<1> SUFFICES ASSUME CodeInit PROVE ScopeInv
  OBVIOUS
<1>1. \A f \in Files : Visible(f) \in Contents \cup {Absent}
  BY DEF CodeInit, Visible
<1>2. CodeTypeOK
  <2>1. /\ codeFiles \in [Files -> Contents \cup {Absent}] /\ working = codeFiles /\ snapshotFiles = codeFiles
    BY <1>1 DEF CodeInit
  <2>2. unpublished \in BOOLEAN
    BY DEF CodeInit
  <2> QED
    BY <2>1, <2>2, CodeAssumption DEF CodeInit, CodeTypeOK, Inventory
<1>3. KeptIsCurrent /\ RereadIsCurrent /\ LoadIsCurrent /\ ScopeIsAllowed /\ RestIsPublished
  BY DEF CodeInit, KeptIsCurrent, RereadIsCurrent, LoadIsCurrent, ScopeIsAllowed, RestIsPublished,
         IsKnown, Visible, Inventory, Allowed
<1> QED
  BY <1>2, <1>3 DEF ScopeInv

(***************************************************************************)
(* Other programs: whatever a change makes stale has been notified.        *)
(***************************************************************************)
LEMMA ChangeIsTold ==
  ASSUME ScopeInv, pending \subseteq pending',
         \A f \in Files : Visible(f)' = Visible(f) \/ Told(f, pending)',
         excluded' = excluded \/ Gitignore \in pending',
         UNCHANGED <<batch, at, todo, found, working, codeFiles, scopes, forgotten, readers>>,
         CodeTypeOK'
  PROVE  ScopeInv'
<1>1. /\ Heard \subseteq Heard' /\ StillHeard \subseteq StillHeard'
      /\ pending' \subseteq Heard' /\ pending' \subseteq StillHeard'
  BY DEF Heard, StillHeard
<1>2. ASSUME NEW h, NEW k, h \subseteq k, pending' \subseteq k, NEW f \in Files
      PROVE  /\ Told(f, h) => Told(f, k)
             /\ Allowed(f, h) => Allowed(f, k)'
             /\ Visible(f)' = Visible(f) \/ Told(f, k)
  BY <1>2 DEF Told, Allowed
<1>3. ASSUME NEW f \in Files
      PROVE  /\ IsKnown(codeFiles, f, Heard) => IsKnown(codeFiles, f, Heard)'
             /\ IsKnown(working, f, StillHeard) => IsKnown(working, f, StillHeard)'
             /\ Allowed(f, Heard) => Allowed(f, Heard)'
             /\ Allowed(f, pending) => Allowed(f, pending)'
             /\ Told(f, pending) => Told(f, pending)'
  <2>1. Told(f, Heard) => Told(f, Heard')
    BY <1>1 DEF Told
  <2>2. Told(f, StillHeard) => Told(f, StillHeard')
    BY <1>1 DEF Told
  <2>3. Visible(f)' = Visible(f) \/ (Told(f, Heard') /\ Told(f, StillHeard'))
    BY <1>1 DEF Told
  <2>4. /\ IsKnown(codeFiles, f, Heard) => IsKnown(codeFiles, f, Heard)'
        /\ IsKnown(working, f, StillHeard) => IsKnown(working, f, StillHeard)'
    BY <2>1, <2>2, <2>3 DEF IsKnown, scopes, Told
  <2>5. /\ Allowed(f, Heard) => Allowed(f, Heard)'
        /\ Allowed(f, pending) => Allowed(f, pending)'
        /\ Told(f, pending) => Told(f, pending)'
    BY <1>1 DEF Allowed, Told
  <2> QED
    BY <2>4, <2>5
<1>4. KeptIsCurrent' /\ RereadIsCurrent'
  BY <1>3 DEF ScopeInv, KeptIsCurrent, RereadIsCurrent, scopes
<1>5. LoadIsCurrent'
  <2>1. \A f \in Files : Visible(f)' = Visible(f) \/ Told(f, pending)'
    OBVIOUS
  <2> QED
    BY <1>3, <2>1 DEF ScopeInv, LoadIsCurrent
<1>6. ScopeIsAllowed'
  BY <1>3 DEF ScopeInv, ScopeIsAllowed, scopes, CodeTypeOK
<1>7. RestIsPublished'
  BY DEF ScopeInv, RestIsPublished, readers
<1> QED
  BY <1>4, <1>5, <1>6, <1>7 DEF ScopeInv

\* One more change keeps its bound.
LEMMA CountsOn ==
  ASSUME CodeTypeOK, changes < MaxChanges, changes' = changes + 1
  PROVE  changes' \in 0 .. MaxChanges
BY CodeAssumption DEF CodeTypeOK

LEMMA FileChangesIsTold ==
  ASSUME ScopeInv, NEW f \in Files, NEW c \in Contents \cup {Absent},
         NEW named \in BOOLEAN, FileChanges(f, c, named)
  PROVE  ScopeInv'
<1>1. /\ sources' = [sources EXCEPT ![f] = c]
      /\ pending' = pending \cup {IF named THEN f ELSE All}
      /\ UNCHANGED <<excluded, batch, at, todo, found, working, codeFiles, scopes, forgotten, readers>>
      /\ CodeTypeOK
  BY DEF FileChanges, ScopeInv
<1>2. changes' \in 0 .. MaxChanges
  BY <1>1, CountsOn DEF FileChanges
<1>3. CodeTypeOK'
  BY <1>1, <1>2 DEF CodeTypeOK, scopes, readers
<1>4. \A g \in Files : Visible(g)' = Visible(g) \/ Told(g, pending)'
  BY <1>1 DEF Visible, Told, CodeTypeOK
<1> QED
  BY <1>1, <1>3, <1>4, ChangeIsTold

LEMMA GitignoreChangesIsTold ==
  ASSUME ScopeInv, NEW s \in SUBSET Files, GitignoreChanges(s)
  PROVE  ScopeInv'
<1>1. /\ excluded' = s /\ pending' = pending \cup {Gitignore}
      /\ UNCHANGED <<sources, batch, at, todo, found, working, codeFiles, scopes, forgotten, readers>>
      /\ CodeTypeOK
  BY DEF GitignoreChanges, ScopeInv
<1>2. changes' \in 0 .. MaxChanges
  BY <1>1, CountsOn DEF GitignoreChanges
<1>3. CodeTypeOK'
  BY <1>1, <1>2 DEF CodeTypeOK, scopes, readers
<1>4. \A g \in Files : Told(g, pending)'
  BY <1>1 DEF Told
<1> QED
  BY <1>1, <1>3, <1>4, ChangeIsTold

(***************************************************************************)
(* A refresh.                                                              *)
(***************************************************************************)
\* A batch that asks for no scan names only files in scope or ignored: the
\* first are reread and the others keep no references.
LEMMA OthersAreKnown ==
  ASSUME ScopeInv, at = "idle", ~refreshCodeScope(pending), NEW f \in Files,
         f \notin (codePaths(pending) \cap codeScope) \ ignoredCodePaths
  PROVE  IsKnown(codeFiles, f, forgotten \ pending)
<1>1. /\ All \notin pending /\ Gitignore \notin pending
      /\ codePaths(pending) \subseteq codeScope \cup ignoredCodePaths
  BY DEF refreshCodeScope
<1>2. batch = {} /\ IsKnown(codeFiles, f, Heard) /\ (codeFiles[f] # Absent => f \in codeScope)
  BY DEF ScopeInv, RestIsPublished, KeptIsCurrent
<1>3. CASE f \in pending
  <2>1. f \in ignoredCodePaths /\ f \notin codeScope
    BY <1>1, <1>3 DEF codePaths, ScopeInv, ScopeIsAllowed
  <2> QED
    BY <1>2, <2>1 DEF IsKnown
<1>4. CASE f \notin pending
  <2>1. Told(f, Heard) => Told(f, forgotten \ pending)
    BY <1>1, <1>2, <1>4 DEF Told, Heard
  <2> QED
    BY <1>2, <2>1 DEF IsKnown
<1> QED
  BY <1>3, <1>4

LEMMA StartRefreshIsCurrent == ScopeInv /\ StartRefresh => ScopeInv'
<1> SUFFICES ASSUME ScopeInv, StartRefresh PROVE ScopeInv'
  OBVIOUS
<1> DEFINE reread == (codePaths(pending) \cap codeScope) \ ignoredCodePaths
<1>1. /\ UNCHANGED <<sources, excluded, changes, found, codeFiles, codeScope,
                     ignoredCodePaths, forgotten, snapshotFiles, unpublished>>
      /\ at = "idle" /\ pending' = {} /\ working' = codeFiles
      /\ CodeTypeOK
  BY DEF StartRefresh, scopes, readers, ScopeInv
<1>2. batch = {} /\ (snapshotFiles = codeFiles \/ unpublished)
  BY <1>1 DEF ScopeInv, RestIsPublished
<1>3. CASE refreshCodeScope(pending)
  <2>1. at' = "list" /\ todo' = {} /\ batch' = pending
    BY <1>3 DEF StartRefresh
  <2>2. CodeTypeOK'
    BY <1>1, <2>1 DEF CodeTypeOK
  <2>3. Heard' = Heard
    BY <1>1, <1>2, <2>1 DEF Heard
  <2>4. KeptIsCurrent' /\ ScopeIsAllowed'
    BY <1>1, <2>1, <2>3 DEF ScopeInv, KeptIsCurrent, ScopeIsAllowed, IsKnown, Visible, Allowed
  <2> QED
    BY <1>1, <1>2, <2>1, <2>2, <2>4 DEF ScopeInv, RereadIsCurrent, LoadIsCurrent, RestIsPublished
<1>4. CASE ~refreshCodeScope(pending) /\ reread # {}
  <2>1. at' = "reread" /\ todo' = reread /\ batch' = pending
    BY <1>4 DEF StartRefresh
  <2>2. All \notin pending /\ Gitignore \notin pending
    BY <1>4 DEF refreshCodeScope
  <2>3. CodeTypeOK'
    BY <1>1, <2>1 DEF CodeTypeOK, codePaths
  <2>4. Heard' = Heard /\ StillHeard' = forgotten \ pending
    BY <1>1, <1>2, <2>1 DEF Heard, StillHeard
  <2>5. ASSUME NEW f \in Files, f \notin todo' PROVE IsKnown(working, f, StillHeard)'
    <3>1. IsKnown(codeFiles, f, forgotten \ pending)
      BY <1>1, <1>4, <2>1, <2>5, OthersAreKnown
    <3> QED
      BY <1>1, <2>4, <3>1 DEF IsKnown, Visible
  <2>6. RereadIsCurrent'
    BY <1>1, <2>1, <2>2, <2>5 DEF RereadIsCurrent, ScopeInv, KeptIsCurrent
  <2>7. ScopeIsAllowed'
    BY <1>1, <2>1, <2>4 DEF ScopeInv, ScopeIsAllowed, Allowed
  <2> QED
    BY <1>1, <1>2, <2>1, <2>3, <2>6, <2>7 DEF ScopeInv, KeptIsCurrent, LoadIsCurrent, RestIsPublished
<1>5. CASE ~refreshCodeScope(pending) /\ reread = {}
  <2>1. UNCHANGED <<batch, at, todo>>
    BY <1>5 DEF StartRefresh
  <2>2. CodeTypeOK'
    BY <1>1, <2>1 DEF CodeTypeOK
  <2>3. Heard' = forgotten /\ Heard = pending \cup forgotten
    BY <1>1, <1>2, <2>1 DEF Heard
  <2>4. ASSUME NEW f \in Files PROVE IsKnown(codeFiles, f, Heard)'
    <3>1. IsKnown(codeFiles, f, forgotten \ pending)
      BY <1>1, <1>5, OthersAreKnown
    <3> QED
      BY <1>1, <2>3, <3>1 DEF IsKnown, Visible, Told
  <2>5. Gitignore \notin pending
    BY <1>5 DEF refreshCodeScope
  <2>6. KeptIsCurrent' /\ ScopeIsAllowed'
    BY <1>1, <2>1, <2>3, <2>4, <2>5 DEF ScopeInv, KeptIsCurrent, ScopeIsAllowed, Allowed
  <2> QED
    BY <1>1, <1>2, <2>1, <2>2, <2>6 DEF ScopeInv, RereadIsCurrent, LoadIsCurrent, RestIsPublished
<1> QED
  BY <1>3, <1>4, <1>5

\* A refresh that rejects leaves everything as it is and forgets what it heard.
LEMMA RejectIsCurrent == ScopeInv /\ (StartRejects \/ ScanRejects) => ScopeInv'
<1> SUFFICES ASSUME ScopeInv, StartRejects \/ ScanRejects PROVE ScopeInv'
  OBVIOUS
<1>1. /\ UNCHANGED <<sources, excluded, changes, codeFiles, codeScope, ignoredCodePaths, snapshotFiles,
                     unpublished>>
      /\ at \in {"idle", "list", "load"} /\ at' = "idle"
      /\ CodeTypeOK
  BY DEF StartRejects, ScanRejects, env, scopes, readers, ScopeInv
<1>2. CodeTypeOK'
  BY <1>1 DEF CodeTypeOK, StartRejects, ScanRejects, env, scopes, readers
<1>3. Heard' = Heard /\ batch' = {}
  BY <1>1 DEF StartRejects, ScanRejects, env, Heard, ScopeInv, RestIsPublished
<1>4. KeptIsCurrent' /\ ScopeIsAllowed'
  BY <1>1, <1>3 DEF ScopeInv, KeptIsCurrent, ScopeIsAllowed, IsKnown, Visible, Allowed
<1> QED
  BY <1>1, <1>2, <1>3, <1>4 DEF ScopeInv, RereadIsCurrent, LoadIsCurrent, RestIsPublished

\* Publishing changes nothing that is known.
LEMMA SnapshotIsCurrent == ScopeInv /\ (OtherRefresh \/ BuildSnapshot) => ScopeInv'
<1> SUFFICES ASSUME ScopeInv, OtherRefresh \/ BuildSnapshot PROVE ScopeInv'
  OBVIOUS
<1>1. /\ UNCHANGED <<sources, excluded, changes, pending, batch, todo, found, working, codeFiles, codeScope,
                     ignoredCodePaths, forgotten>>
      /\ \/ at = "idle" /\ at' = "publish" /\ UNCHANGED <<snapshotFiles, unpublished>>
         \/ /\ at = "publish" /\ at' = "idle" /\ unpublished' \in BOOLEAN
            /\ snapshotFiles' \in {snapshotFiles, codeFiles}
            /\ snapshotFiles' = codeFiles \/ unpublished'
      /\ CodeTypeOK
  BY DEF OtherRefresh, BuildSnapshot, env, scopes, readers, ScopeInv
<1>2. CodeTypeOK'
  BY <1>1 DEF CodeTypeOK
<1>3. Heard' = Heard
  BY <1>1 DEF Heard
<1>4. KeptIsCurrent' /\ ScopeIsAllowed'
  BY <1>1, <1>3 DEF ScopeInv, KeptIsCurrent, ScopeIsAllowed, IsKnown, Visible, Allowed
<1>5. RestIsPublished'
  BY <1>1 DEF ScopeInv, RestIsPublished
<1> QED
  BY <1>1, <1>2, <1>4, <1>5 DEF ScopeInv, RereadIsCurrent, LoadIsCurrent

\* What the listing misses is not to be shown, or will be notified.
LEMMA ScanListIsCurrent == ScopeInv /\ ScanList => ScopeInv'
<1> SUFFICES ASSUME ScopeInv, ScanList PROVE ScopeInv'
  OBVIOUS
<1>1. /\ UNCHANGED <<sources, excluded, changes, pending, batch, codeFiles, codeScope,
                     ignoredCodePaths, forgotten, snapshotFiles, unpublished>>
      /\ at = "list" /\ at' = "load" /\ todo' = Inventory /\ found' = Inventory
      /\ working' = [f \in Files |-> Absent]
      /\ CodeTypeOK
  BY DEF ScanList, env, scopes, readers, ScopeInv
<1>2. CodeTypeOK'
  BY <1>1 DEF CodeTypeOK, Inventory
<1>3. LoadIsCurrent'
  BY <1>1 DEF LoadIsCurrent, Visible, Inventory
<1>4. Heard' = Heard
  BY <1>1 DEF Heard
<1>5. KeptIsCurrent'
  BY <1>1, <1>4 DEF ScopeInv, KeptIsCurrent, IsKnown, Visible
<1>6. ScopeIsAllowed'
  BY <1>1, <1>4 DEF ScopeInv, ScopeIsAllowed, Allowed, Inventory
<1> QED
  BY <1>1, <1>2, <1>3, <1>5, <1>6 DEF ScopeInv, RereadIsCurrent, RestIsPublished

LEMMA ScanLoadIsCurrent ==
  ASSUME ScopeInv, NEW f \in Files, ScanLoad(f)
  PROVE  ScopeInv'
<1>1. /\ UNCHANGED <<sources, excluded, changes, pending, batch, at, found, codeFiles,
                     codeScope, ignoredCodePaths, forgotten, snapshotFiles, unpublished>>
      /\ at = "load" /\ f \in todo /\ todo' = todo \ {f}
      /\ working' = [working EXCEPT ![f] = sources[f]]
      /\ CodeTypeOK
  BY DEF ScanLoad, env, scopes, readers, ScopeInv
<1>2. CodeTypeOK'
  BY <1>1 DEF CodeTypeOK
<1>3. Heard' = Heard /\ \A g : (Told(g, pending)' <=> Told(g, pending)) /\ Visible(g)' = Visible(g)
  BY <1>1 DEF Heard, Told, Visible
<1>4. f \in found /\ (sources[f] = Visible(f) \/ Told(f, pending))
  BY <1>1 DEF ScopeInv, ScopeIsAllowed, LoadIsCurrent, Allowed, Visible, Told
<1>5. LoadIsCurrent'
  BY <1>1, <1>3, <1>4 DEF ScopeInv, LoadIsCurrent, CodeTypeOK
<1>6. ScopeIsAllowed' /\ KeptIsCurrent'
  BY <1>1, <1>3 DEF ScopeInv, ScopeIsAllowed, Allowed, KeptIsCurrent, IsKnown
<1> QED
  BY <1>1, <1>2, <1>5, <1>6 DEF ScopeInv, RereadIsCurrent, RestIsPublished

LEMMA ScanDoneIsCurrent == ScopeInv /\ ScanDone => ScopeInv'
<1> SUFFICES ASSUME ScopeInv, ScanDone PROVE ScopeInv'
  OBVIOUS
<1>1. /\ UNCHANGED <<sources, excluded, changes, pending, todo, working, snapshotFiles, unpublished>>
      /\ at = "load" /\ todo = {} /\ at' = "publish" /\ batch' = {} /\ found' = {}
      /\ codeScope' = found /\ codeFiles' = working /\ forgotten' = {}
      /\ ignoredCodePaths' = codePaths(batch) \ found
      /\ CodeTypeOK
  BY DEF ScanDone, env, readers, ScopeInv
<1>2. CodeTypeOK'
  BY <1>1 DEF CodeTypeOK, codePaths
<1>3. Heard' = pending /\ \A g : Visible(g)' = Visible(g)
  BY <1>1 DEF Heard, Visible
<1>4. KeptIsCurrent'
  BY <1>1, <1>3 DEF ScopeInv, LoadIsCurrent, KeptIsCurrent, IsKnown
<1>5. ScopeIsAllowed'
  BY <1>1, <1>3 DEF ScopeInv, ScopeIsAllowed, Allowed
<1> QED
  BY <1>1, <1>2, <1>4, <1>5 DEF ScopeInv, LoadIsCurrent, RereadIsCurrent, RestIsPublished

LEMMA RereadFileIsCurrent ==
  ASSUME ScopeInv, NEW f \in Files, Reread(f)
  PROVE  ScopeInv'
<1>1. /\ UNCHANGED <<sources, excluded, changes, pending, batch, at, found, codeFiles,
                     ignoredCodePaths, forgotten, snapshotFiles, unpublished>>
      /\ at = "reread" /\ f \in todo /\ todo' = todo \ {f}
      /\ working' = [working EXCEPT ![f] = sources[f]]
      /\ codeScope' = IF sources[f] = Absent THEN codeScope \ {f} ELSE codeScope
      /\ CodeTypeOK
  BY DEF Reread, env, readers, ScopeInv
<1>2. CodeTypeOK'
  BY <1>1 DEF CodeTypeOK
<1>3. Heard' = Heard /\ StillHeard' = StillHeard /\ \A g : Visible(g)' = Visible(g)
  BY <1>1 DEF Heard, StillHeard, Visible
<1>4. f \in codeScope /\ (sources[f] = Visible(f) \/ Told(f, StillHeard))
  BY <1>1 DEF ScopeInv, ScopeIsAllowed, RereadIsCurrent, Allowed, Visible, Told, Heard, StillHeard
<1>5. todo' \subseteq codeScope' /\ batch' \cap {All, Gitignore} = {}
  BY <1>1 DEF ScopeInv, RereadIsCurrent
<1>6. ASSUME NEW g \in Files
      PROVE  /\ g \notin todo' => IsKnown(working, g, StillHeard)'
             /\ working'[g] # Absent => g \in codeScope'
  <2>1. CASE g = f
    BY <1>1, <1>3, <1>4, <2>1 DEF IsKnown, CodeTypeOK
  <2>2. CASE g # f
    <3>1. working'[g] = working[g]
      BY <1>1, <2>2 DEF CodeTypeOK
    <3> QED
      BY <1>1, <1>3, <2>2, <3>1 DEF ScopeInv, RereadIsCurrent, IsKnown
  <2> QED
    BY <2>1, <2>2
<1>7. RereadIsCurrent'
  BY <1>5, <1>6 DEF RereadIsCurrent
<1>8. ScopeIsAllowed'
  BY <1>1, <1>3 DEF ScopeInv, ScopeIsAllowed, Allowed
<1> QED
  BY <1>1, <1>2, <1>7, <1>8 DEF ScopeInv, KeptIsCurrent, LoadIsCurrent, RestIsPublished

LEMMA RereadDoneIsCurrent == ScopeInv /\ RereadDone => ScopeInv'
<1> SUFFICES ASSUME ScopeInv, RereadDone PROVE ScopeInv'
  OBVIOUS
<1>1. /\ UNCHANGED <<sources, excluded, changes, pending, todo, found, working,
                     codeScope, ignoredCodePaths, snapshotFiles, unpublished>>
      /\ at = "reread" /\ todo = {} /\ at' = "publish" /\ batch' = {}
      /\ forgotten' = forgotten \ batch
      /\ codeFiles' = working /\ CodeTypeOK
  BY DEF RereadDone, env, scopes, readers, ScopeInv
<1>2. CodeTypeOK'
  BY <1>1 DEF CodeTypeOK
<1>3. Heard' = StillHeard /\ Gitignore \notin batch /\ \A g : Visible(g)' = Visible(g)
  BY <1>1 DEF Heard, StillHeard, Visible, ScopeInv, RereadIsCurrent
<1>4. KeptIsCurrent'
  BY <1>1, <1>3 DEF ScopeInv, RereadIsCurrent, KeptIsCurrent, IsKnown
<1>5. ScopeIsAllowed'
  BY <1>1, <1>3 DEF ScopeInv, ScopeIsAllowed, Allowed, Heard, StillHeard
<1> QED
  BY <1>1, <1>2, <1>4, <1>5 DEF ScopeInv, LoadIsCurrent, RereadIsCurrent, RestIsPublished

LEMMA ScopeInductive == ScopeInv /\ [CodeNext]_codeVars => ScopeInv'
<1> SUFFICES ASSUME ScopeInv, [CodeNext]_codeVars PROVE ScopeInv'
  OBVIOUS
<1>1. CASE \E f \in Files, c \in Contents \cup {Absent}, named \in BOOLEAN :
             FileChanges(f, c, named)
  BY <1>1, FileChangesIsTold
<1>2. CASE \E s \in SUBSET Files : GitignoreChanges(s)
  BY <1>2, GitignoreChangesIsTold
<1>3. CASE RunRefresh
  BY <1>3, StartRefreshIsCurrent, RejectIsCurrent, SnapshotIsCurrent, ScanListIsCurrent,
     ScanLoadIsCurrent, ScanDoneIsCurrent, RereadFileIsCurrent, RereadDoneIsCurrent DEF RunRefresh
<1>4. CASE UNCHANGED codeVars
  <2>1. UNCHANGED <<sources, excluded, changes, pending, batch, at, todo, found, working, codeFiles,
                    codeScope, ignoredCodePaths, forgotten, snapshotFiles, unpublished>>
    BY <1>4 DEF codeVars, env, scopes, readers
  <2>2. Heard' = Heard /\ StillHeard' = StillHeard /\ CodeTypeOK'
    BY <2>1 DEF Heard, StillHeard, CodeTypeOK, ScopeInv
  <2> QED
    BY <2>1, <2>2 DEF ScopeInv, KeptIsCurrent, RereadIsCurrent, LoadIsCurrent, ScopeIsAllowed,
       RestIsPublished, IsKnown, Told, Allowed, Visible
<1> QED
  BY <1>1, <1>2, <1>3, <1>4 DEF CodeNext

\* However changes and refreshes that reject fall between the listing, the reads
\* and the batches, once nothing is left to refresh every file is known as it is,
\* but for ignored paths that show nothing and paths that a rejected refresh
\* took; the readers see what is known, unless the last snapshot could not be
\* built; and only files in scope keep references.
THEOREM ScopeStaysCurrent == CodeSpec => []ScopeIsCurrent
<1>1. ScopeInv => ScopeIsCurrent
  <2> SUFFICES ASSUME ScopeInv PROVE ScopeIsCurrent
    OBVIOUS
  <2>1. Quiet => Heard = forgotten
    BY DEF Quiet, Heard, ScopeInv, RestIsPublished
  <2>2. OnlyIgnoredPathsAreStale
    BY <2>1 DEF OnlyIgnoredPathsAreStale, Quiet, ScopeInv, KeptIsCurrent, IsKnown, Told, Missed
  <2>3. ReadersAreTold
    BY DEF ReadersAreTold, Quiet, ScopeInv, RestIsPublished
  <2>4. ScopeMatchesKeptFiles
    BY DEF ScopeMatchesKeptFiles, Quiet, ScopeInv, KeptIsCurrent, ScopeIsAllowed
  <2> QED
    BY <2>2, <2>3, <2>4 DEF ScopeIsCurrent, ScopeInv
<1> QED
  BY <1>1, ScopeInitially, ScopeInductive, PTL DEF CodeSpec
=============================================================================
