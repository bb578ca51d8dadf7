----------------------------- MODULE HookProofs -----------------------------
(***************************************************************************)
(* What the agents' hooks keep.  For any documents, prompts, budgets and   *)
(* number of hooks: what a session is shown of the federation is recorded  *)
(* and shown once, and concurrent workers accept what a single one would.  *)
(* For any lines, lengths and number of calls: the gate before a write and *)
(* the reminder after it agree, and no block of prose passes the gate in   *)
(* its sight.                                                              *)
(***************************************************************************)
EXTENDS Federation, CommentGate, FiniteSetTheorems, SequenceTheorems, TLAPS

(***************************************************************************)
(* The states of a hook.                                                   *)
(***************************************************************************)
Empties == UNION {[S -> Nat] : S \in SUBSET Docs}

Querying ==
  [pc : {"query"}, paths : Seq(Docs), open : SUBSET Nat, claimed : SUBSET Nat,
   flight : SUBSET Nat, found : SUBSET Nat, seen : SUBSET Docs, since : Empties,
   empty : SUBSET Docs, steady : BOOLEAN]

Saving ==
  [pc : {"write", "print"}, docs : SUBSET Docs, seen : SUBSET Docs, empty : Empties]

Printing == [pc : {"print"}, docs : SUBSET Docs]

TypeOK ==
  /\ answers \in [Tagged -> {"hits", "empty", "hangs"}]
  /\ markers \in {None, Torn} \cup Marker
  /\ hook \in [Hooks -> {Idle} \cup Querying \cup Saving \cup Printing]
  /\ now \in Nat
  /\ shown \in [Docs -> 0..2] /\ disturbed \in BOOLEAN /\ silenced \subseteq Docs

(***************************************************************************)
(* The workers of one hook.  They claim what is open in order, and stop    *)
(* only when enough was found or attempted or nothing is left.             *)
(***************************************************************************)
InOrder(part, all) == \A i \in part, j \in all : j < i => j \in part

Hits(w, S) == {i \in S : answers[w.paths[i]] = "hits"}

ClaimsInOrder(w) ==
  /\ IsFiniteSet(w.open)
  /\ \A i \in w.open : i \in DOMAIN w.paths /\ w.paths[i] \in Tagged \ w.seen
  /\ w.claimed \subseteq w.open /\ InOrder(w.claimed, w.open)
  /\ Cardinality(w.claimed) <= MaxAttempts
  /\ w.flight \subseteq w.claimed /\ w.found \subseteq w.claimed

FoundAll(w) ==
  w.steady =>
    /\ w.found = Hits(w, w.claimed \ w.flight)
    /\ \/ w.flight # {} \/ w.claimed = w.open
       \/ Cardinality(w.found) >= MaxEmitted \/ Cardinality(w.claimed) >= MaxAttempts

WorkersAreSound ==
  \A h \in Hooks : hook[h].pc = "query" => ClaimsInOrder(hook[h]) /\ FoundAll(hook[h])

(***************************************************************************)
(* The session.  What anybody takes for seen has been shown, will be, or   *)
(* belongs to a hook that was killed; and while no two hooks overlap and   *)
(* the file is not lost, it names everything that was shown.               *)
(***************************************************************************)
IsBeingShown(h, d) == hook[h].pc \in {"write", "print"} /\ d \in hook[h].docs

Accounted(d) ==
  shown[d] > 0 \/ d \in silenced \/ \E h \in Hooks : IsBeingShown(h, d)

SeenIsAccounted ==
  /\ markers \notin {None, Torn} => \A d \in markers.seen : Accounted(d)
  /\ \A h \in Hooks : hook[h].pc \in {"query", "write"} =>
       \A d \in hook[h].seen : Accounted(d)

OneHook ==
  \A g, h \in Hooks : hook[g].pc # "idle" /\ hook[h].pc # "idle" => g = h

WasShown == {d \in Docs : shown[d] > 0}

FileIsWhole ==
  \/ markers = Torn
  \/ markers = None /\ WasShown = {}
  \/ markers \notin {None, Torn} /\ WasShown \subseteq markers.seen

HookKnows(h) ==
  /\ hook[h].pc \in {"query", "write"} => WasShown \subseteq hook[h].seen
  /\ hook[h].pc \in {"write", "print"} => hook[h].docs \cap WasShown = {}
  /\ hook[h].pc = "write" => hook[h].docs \subseteq hook[h].seen
  /\ hook[h].pc = "print" =>
       markers # None /\ (markers # Torn => hook[h].docs \subseteq markers.seen)

Undisturbed ==
  ~disturbed =>
    /\ OneHook /\ FileIsWhole /\ \A h \in Hooks : HookKnows(h)
    /\ \A d \in Docs : shown[d] <= 1

FederationInv ==
  TypeOK /\ WorkersAreSound /\ SeenIsAccounted /\ Undisturbed

LEMMA Constants ==
  /\ Concurrency \in Nat /\ MaxEmitted \in Nat /\ MaxAttempts \in Nat /\ Lifetime \in Nat
  /\ Concurrency > 0 /\ MaxEmitted > 0 /\ MaxAttempts > 0
  /\ Tagged \subseteq Docs
BY FederationAssumption

(***************************************************************************)
(* The first elements of a finite set of positions.                        *)
(***************************************************************************)
Below(S, i) == {j \in S : j < i}

LEMMA BelowIsFinite ==
  ASSUME NEW S, IsFiniteSet(S), NEW i
  PROVE  IsFiniteSet(Below(S, i)) /\ Cardinality(Below(S, i)) \in Nat
BY FS_Subset, FS_CardinalityType DEF Below

LEMMA RankGrows ==
  ASSUME NEW S \in SUBSET Nat, IsFiniteSet(S), NEW i \in S, NEW j \in S, i < j
  PROVE  Cardinality(Below(S, i)) < Cardinality(Below(S, j))
<1>1. Below(S, i) \in SUBSET Below(S, j) /\ i \in Below(S, j) \ Below(S, i)
  <2>1. i \in Nat /\ j \in Nat /\ \A k \in S : k \in Nat
    OBVIOUS
  <2>2. \A k \in S : k < i => k < j
    BY <2>1
  <2>3. Below(S, i) \subseteq Below(S, j)
    BY <2>2 DEF Below
  <2>4. i \in Below(S, j) /\ i \notin Below(S, i)
    BY <2>1 DEF Below
  <2> QED
    BY <2>3, <2>4
<1>2. /\ IsFiniteSet(Below(S, j))
      /\ Cardinality(Below(S, i)) \in Nat /\ Cardinality(Below(S, j)) \in Nat
  BY BelowIsFinite
<1>3. /\ Cardinality(Below(S, i)) <= Cardinality(Below(S, j))
      /\ Cardinality(Below(S, i)) # Cardinality(Below(S, j))
  BY <1>1, <1>2, FS_Subset
<1> QED
  BY <1>2, <1>3

\* The ranks of the first n are different and smaller than n.
LEMMA FirstAreFew ==
  ASSUME NEW S \in SUBSET Nat, IsFiniteSet(S), NEW n \in Nat
  PROVE  /\ FirstOf(S, n) \subseteq S
         /\ Cardinality(FirstOf(S, n)) <= n
         /\ InOrder(FirstOf(S, n), S)
<1> DEFINE rank == [i \in FirstOf(S, n) |-> Cardinality(Below(S, i))]
<1>1. FirstOf(S, n) \subseteq S
  BY DEF FirstOf
<1>2. \A i \in S : Cardinality(Below(S, i)) \in Nat
  BY BelowIsFinite
<1>3. \A i \in FirstOf(S, n) : Cardinality(Below(S, i)) \in 0 .. n - 1
  BY <1>2 DEF FirstOf, Below
<1>4. \A i, j \in FirstOf(S, n) : rank[i] = rank[j] => i = j
  <2> SUFFICES ASSUME NEW i \in FirstOf(S, n), NEW j \in FirstOf(S, n), i # j
               PROVE  rank[i] # rank[j]
    OBVIOUS
  <2>1. i \in S /\ j \in S /\ i \in Nat /\ j \in Nat
    BY <1>1
  <2>2. CASE i < j
    BY <1>2, <2>1, <2>2, RankGrows
  <2>3. CASE j < i
    BY <1>2, <2>1, <2>3, RankGrows
  <2> QED
    BY <2>1, <2>2, <2>3
<1>5. rank \in Injection(FirstOf(S, n), 0 .. n - 1)
  BY <1>3, <1>4 DEF Injection, IsInjective
<1>6. IsFiniteSet(0 .. n - 1) /\ Cardinality(0 .. n - 1) = n
  BY FS_Interval
<1>7. Cardinality(FirstOf(S, n)) <= n
  <2> HIDE DEF rank
  <2> QED
    BY <1>5, <1>6, FS_Injection
<1>8. InOrder(FirstOf(S, n), S)
  <2> SUFFICES ASSUME NEW i \in FirstOf(S, n), NEW j \in S, j < i
               PROVE  j \in FirstOf(S, n)
    BY DEF InOrder
  <2>1. Cardinality(Below(S, j)) < Cardinality(Below(S, i))
    BY <1>1, RankGrows
  <2>2. Cardinality(Below(S, i)) < n
    BY DEF FirstOf, Below
  <2>3. /\ Cardinality(Below(S, i)) \in Nat
        /\ Cardinality(Below(S, j)) \in Nat
    BY <1>1, <1>2
  <2>4. Cardinality(Below(S, j)) < n
    BY <2>1, <2>2, <2>3
  <2> QED
    BY <2>4 DEF FirstOf, Below
<1> QED
  BY <1>1, <1>7, <1>8

\* A finite set of positions has a first one: what lies below its elements
\* cannot shrink for ever.
LEMMA FirstExists ==
  ASSUME NEW S \in SUBSET Nat, IsFiniteSet(S), S # {}, NEW n \in Nat, n > 0
  PROVE  FirstOf(S, n) # {}
<1> DEFINE below == {Below(S, i) : i \in S}
<1>1. below \subseteq FiniteSubsetsOf(S) /\ below # {}
  <2>1. \A i \in S : Below(S, i) \in SUBSET S /\ IsFiniteSet(Below(S, i))
    BY BelowIsFinite DEF Below
  <2> QED
    BY <2>1 DEF FiniteSubsetsOf
<1>2. PICK X \in below : \A Y \in below : <<Y, X>> \notin StrictSubsetOrdering(S)
  <2> HIDE DEF below
  <2> QED
    BY <1>1, FS_StrictSubsetOrderingWellFounded, WFMin
<1>3. PICK i \in S : X = Below(S, i)
  BY <1>2
<1>4. ASSUME NEW j \in X PROVE FALSE
  <2>1. j \in S /\ j < i
    BY <1>3 DEF Below
  <2>2. i \in Nat /\ j \in Nat /\ \A k \in S : k \in Nat
    BY <2>1
  <2>3. Below(S, j) \subseteq X
    <3>1. \A k \in S : k < j => k < i
      BY <2>1, <2>2
    <3> QED
      BY <1>3, <3>1 DEF Below
  <2>4. j \in X /\ j \notin Below(S, j)
    BY <1>4, <2>2 DEF Below
  <2>5. Below(S, j) \in SUBSET S /\ X \in SUBSET S
    BY <1>3 DEF Below
  <2>6. <<Below(S, j), X>> \in StrictSubsetOrdering(S)
    BY <2>3, <2>4, <2>5 DEF StrictSubsetOrdering
  <2> QED
    BY <1>2, <2>1, <2>6
<1>5. Below(S, i) = {} /\ Cardinality({}) = 0
  BY <1>3, <1>4, FS_EmptySet
<1> QED
  BY <1>5 DEF FirstOf, Below

\* The first one alone.
LEMMA FirstOne ==
  ASSUME NEW S \in SUBSET Nat, IsFiniteSet(S)
  PROVE  /\ FirstOf(S, 1) = {} => S = {}
         /\ \A i \in FirstOf(S, 1) :
              i \in S /\ Below(S, i) = {} /\ FirstOf(S, 1) = {i}
<1>1. FirstOf(S, 1) = {} => S = {}
  BY FirstExists
<1>2. \A i \in FirstOf(S, 1) : i \in S /\ Below(S, i) = {}
  <2> TAKE i \in FirstOf(S, 1)
  <2>1. i \in S /\ Cardinality(Below(S, i)) < 1
    BY DEF FirstOf, Below
  <2>2. IsFiniteSet(Below(S, i)) /\ Cardinality(Below(S, i)) \in Nat
    BY BelowIsFinite
  <2>3. Cardinality(Below(S, i)) = 0
    BY <2>1, <2>2
  <2> QED
    BY <2>1, <2>2, <2>3, FS_EmptySet
<1>3. \A i, j \in FirstOf(S, 1) : i = j
  <2> TAKE i, j \in FirstOf(S, 1)
  <2>1. i \in Nat /\ j \in Nat /\ ~(i < j) /\ ~(j < i)
    BY <1>2 DEF Below
  <2> QED
    BY <2>1
<1> QED
  BY <1>1, <1>2, <1>3

(***************************************************************************)
(* Types.                                                                  *)
(***************************************************************************)
HookStates == {Idle} \cup Querying \cup Saving \cup Printing

LEMMA HookKinds ==
  ASSUME TypeOK, NEW h \in Hooks
  PROVE  /\ hook[h] \in HookStates
         /\ hook[h].pc \in {"idle", "query", "write", "print"}
         /\ hook[h].pc = "query" => hook[h] \in Querying
         /\ hook[h].pc = "write" => hook[h] \in Saving
         /\ hook[h].pc \in {"write", "print"} => hook[h].docs \subseteq Docs
<1>1. hook[h] \in HookStates
  BY DEF TypeOK, HookStates
<1>2. CASE hook[h] = Idle
  BY <1>1, <1>2 DEF Idle
<1>3. CASE hook[h] \in Querying
  BY <1>1, <1>3 DEF Querying
<1>4. CASE hook[h] \in Saving
  BY <1>1, <1>4 DEF Saving
<1>5. CASE hook[h] \in Printing
  BY <1>1, <1>5 DEF Printing
<1> QED
  BY <1>1, <1>2, <1>3, <1>4, <1>5 DEF HookStates

\* The positions a prompt leads to.
LEMMA Mentions ==
  ASSUME NEW p \in Prompts, NEW searched \in BOOLEAN
  PROVE  /\ Collected(p, searched) \in Seq(Docs)
         /\ \A kept : /\ Open(Collected(p, searched), kept) \in SUBSET Nat
                      /\ IsFiniteSet(Open(Collected(p, searched), kept))
                      /\ \A i \in Open(Collected(p, searched), kept) :
                           /\ i \in DOMAIN Collected(p, searched)
                           /\ Collected(p, searched)[i] \in Tagged \ kept.seen
<1> DEFINE paths == Collected(p, searched)
<1>1. p.refs \in Seq(Docs) /\ p.matches \in Seq(Docs)
  BY FederationAssumption
<1>2. paths \in Seq(Docs)
  BY <1>1 DEF Collected
<1> HIDE DEF paths
<1>3. DOMAIN paths = 1 .. Len(paths) /\ Len(paths) \in Nat
  BY <1>2
<1>4. DOMAIN paths \subseteq Nat /\ IsFiniteSet(DOMAIN paths)
  BY <1>3, FS_Interval
<1>5. ASSUME NEW kept
      PROVE  /\ Open(paths, kept) \in SUBSET DOMAIN paths
             /\ \A i \in Open(paths, kept) : paths[i] \in Tagged \ kept.seen
  BY DEF Open, FirstMentions, HasTerms
<1>6. ASSUME NEW kept
      PROVE  Open(paths, kept) \in SUBSET Nat /\ IsFiniteSet(Open(paths, kept))
  BY <1>4, <1>5, FS_Subset
<1> QED
  BY <1>2, <1>5, <1>6 DEF paths

LEMMA LoadedIsMarker == TypeOK => Loaded \in Marker /\ NoMarkers \in Marker
<1> SUFFICES ASSUME TypeOK PROVE Loaded \in Marker /\ NoMarkers \in Marker
  OBVIOUS
<1>1. NoMarkers \in Marker
  <2>1. << >> \in [{} -> Nat]
    OBVIOUS
  <2> QED
    BY <2>1 DEF NoMarkers, Marker
<1>2. CASE markers \notin {None, Torn}
  <2> DEFINE fresh == {d \in DOMAIN markers.empty : now - markers.empty[d] < Lifetime}
             rest == [d \in fresh |-> markers.empty[d]]
  <2>1. markers.seen \subseteq Docs /\ markers.empty \in Empties
    BY <1>2 DEF TypeOK, Marker, Empties
  <2>2. PICK S \in SUBSET Docs : markers.empty \in [S -> Nat]
    BY <2>1 DEF Empties
  <2>3. fresh \in SUBSET Docs /\ rest \in [fresh -> Nat]
    BY <2>2
  <2>4. Loaded = [seen |-> markers.seen, empty |-> rest]
    BY <1>2 DEF Loaded
  <2> HIDE DEF fresh, rest
  <2>5. rest \in UNION {[T -> Nat] : T \in SUBSET Docs}
    BY <2>3
  <2> QED
    BY <1>1, <2>1, <2>4, <2>5 DEF Marker
<1>3. CASE markers \in {None, Torn}
  BY <1>1, <1>3 DEF Loaded
<1> QED
  BY <1>1, <1>2, <1>3

LEMMA FirstQueryIsTyped ==
  ASSUME NEW p \in Prompts, NEW searched \in BOOLEAN, NEW kept \in Marker
  PROVE  FirstQuery(p, searched, kept) \in Querying
<1> DEFINE open == Open(Collected(p, searched), kept)
           first == FirstOf(open, Min({Concurrency, MaxAttempts}))
<1>1. Collected(p, searched) \in Seq(Docs) /\ open \in SUBSET Nat
  BY Mentions
<1>2. first \in SUBSET Nat
  BY <1>1 DEF FirstOf
<1>3. kept.seen \in SUBSET Docs /\ kept.empty \in Empties
  BY DEF Marker, Empties
<1>4. DOMAIN kept.empty \in SUBSET Docs
  BY <1>3 DEF Empties
<1>5. FirstQuery(p, searched, kept) =
        [pc |-> "query", paths |-> Collected(p, searched), open |-> open,
         claimed |-> first, flight |-> first, found |-> {}, seen |-> kept.seen,
         since |-> kept.empty, empty |-> DOMAIN kept.empty, steady |-> TRUE]
  BY DEF FirstQuery
<1> HIDE DEF open, first
<1> QED
  BY <1>1, <1>2, <1>3, <1>4, <1>5 DEF Querying


\* What Submit does, with the markers it has read.
Submitted(h, p, searched, unreadable, kept) ==
  /\ kept.seen = IF unreadable \/ markers \in {None, Torn} THEN {} ELSE markers.seen
  /\ hook' = [hook EXCEPT ![h] = FirstQuery(p, searched, kept)]
  /\ disturbed' = (\/ disturbed
                   \/ unreadable /\ markers # None
                   \/ markers = Torn
                   \/ \E g \in Hooks \ {h} : hook[g].pc # "idle")

LEMMA Submits ==
  ASSUME TypeOK, NEW h \in Hooks, Submit(h)
  PROVE  \E p \in Prompts, searched \in BOOLEAN, unreadable \in BOOLEAN, kept \in Marker :
           Submitted(h, p, searched, unreadable, kept)
<1> DEFINE kept(u) == IF u THEN NoMarkers ELSE Loaded
<1>1. \A u : kept(u) \in Marker
  BY LoadedIsMarker
<1>2. /\ NoMarkers.seen = {}
      /\ Loaded.seen = IF markers \in {None, Torn} THEN {} ELSE markers.seen
  BY DEF NoMarkers, Loaded
<1>3. PICK p \in Prompts, s \in BOOLEAN, u \in BOOLEAN :
        /\ hook' = [hook EXCEPT ![h] = FirstQuery(p, s, IF u THEN NoMarkers ELSE Loaded)]
        /\ disturbed' = (disturbed \/ (u /\ markers # None) \/ markers = Torn
                           \/ (\E g \in Hooks \ {h} : hook[g].pc # "idle"))
  BY Zenon DEF Submit
<1>4. kept(u).seen = IF u \/ markers \in {None, Torn} THEN {} ELSE markers.seen
  BY <1>2
<1>5. Submitted(h, p, s, u, kept(u))
  BY <1>3, <1>4, Zenon DEF Submitted
<1> HIDE DEF kept
<1> QED
  BY <1>1, <1>5

\* What an answer does to the state of a hook.
Answered(w, i, doc, next) ==
  [w EXCEPT !.found = IF answers[doc] = "hits" THEN w.found \cup {i} ELSE w.found,
            !.flight = (w.flight \ {i}) \cup next,
            !.claimed = w.claimed \cup next,
            !.empty = IF answers[doc] = "empty" THEN w.empty \cup {doc} ELSE w.empty]

LEMMA AnsweredIsTyped ==
  ASSUME NEW w \in Querying, NEW i \in Nat, NEW doc \in Docs, NEW next \in SUBSET Nat
  PROVE  Answered(w, i, doc, next) \in Querying
<1> DEFINE found == IF answers[doc] = "hits" THEN w.found \cup {i} ELSE w.found
           empty == IF answers[doc] = "empty" THEN w.empty \cup {doc} ELSE w.empty
           flight == (w.flight \ {i}) \cup next
           claimed == w.claimed \cup next
<1>1. /\ found \in SUBSET Nat /\ empty \in SUBSET Docs
      /\ flight \in SUBSET Nat /\ claimed \in SUBSET Nat
  BY DEF Querying
<1>2. Answered(w, i, doc, next) =
        [w EXCEPT !.found = found, !.flight = flight, !.claimed = claimed, !.empty = empty]
  BY DEF Answered
<1> HIDE DEF found, empty, flight, claimed
<1> QED
  BY <1>1, <1>2 DEF Querying

\* An answer comes for a document the worker has claimed.
LEMMA Answers ==
  ASSUME TypeOK, WorkersAreSound, NEW h \in Hooks, NEW i, StoresAnswer(h, i)
  PROVE  LET w == hook[h]
             doc == w.paths[i]
             found == IF answers[doc] = "hits" THEN w.found \cup {i} ELSE w.found
             next == Claim(w, found)
         IN  /\ w.pc = "query" /\ w \in Querying /\ i \in w.flight /\ i \in Nat
             /\ doc \in Tagged
             /\ next \in SUBSET Nat
             /\ hook' = [hook EXCEPT ![h] = Answered(w, i, doc, next)]
<1> DEFINE w == hook[h]
           doc == w.paths[i]
           found == IF answers[doc] = "hits" THEN w.found \cup {i} ELSE w.found
           next == Claim(w, found)
<1>1. w.pc = "query" /\ i \in w.flight
  BY DEF StoresAnswer
<1>2. w \in Querying
  BY <1>1, HookKinds
<1>3. i \in Nat /\ i \in w.open /\ doc \in Tagged
  BY <1>1, <1>2 DEF WorkersAreSound, ClaimsInOrder, Querying
<1>4. next \in SUBSET Nat
  BY <1>2 DEF Claim, FirstOf, Querying
<1>5. hook' = [hook EXCEPT ![h] = Answered(w, i, doc, next)]
  BY DEF StoresAnswer, Answered
<1> QED
  BY <1>1, <1>2, <1>3, <1>4, <1>5

LEMMA StampedIsTyped ==
  ASSUME TypeOK, NEW w \in Querying
  PROVE  Stamped(w) \in Empties
<1>1. PICK S \in SUBSET Docs : w.since \in [S -> Nat]
  BY DEF Querying, Empties
<1>2. w.empty \in SUBSET Docs
  BY DEF Querying
<1>3. Stamped(w) \in [w.empty -> Nat]
  BY <1>1 DEF Stamped, TypeOK
<1> QED
  BY <1>2, <1>3 DEF Empties

\* A document is counted up to twice.
LEMMA PrintedOnce ==
  /\ \A n \in 0..2 : Min({2, n + 1}) \in 0..2 /\ Min({2, n + 1}) > 0
  /\ Min({2, 0 + 1}) = 1
<1>1. ASSUME NEW n \in 0..2 PROVE Min({2, n + 1}) \in 1..2 /\ Min({2, n + 1}) <= n + 1
  <2>1. \E x \in {2, n + 1} : \A y \in {2, n + 1} : x <= y
    OBVIOUS
  <2>2. /\ Min({2, n + 1}) \in {2, n + 1}
        /\ \A y \in {2, n + 1} : Min({2, n + 1}) <= y
    BY <2>1 DEF Min
  <2> QED
    BY <2>2
<1>2. Min({2, 0 + 1}) \in 1..2 /\ Min({2, 0 + 1}) <= 0 + 1
  BY <1>1
<1> QED
  BY <1>1, <1>2

LEMMA TypesStay ==
  ASSUME TypeOK, WorkersAreSound, [Next]_vars
  PROVE  TypeOK'
<1> USE Constants
<1>1. ASSUME NEW h \in Hooks, Submit(h) PROVE TypeOK'
  <2>1. PICK p \in Prompts, s \in BOOLEAN, u \in BOOLEAN, kept \in Marker :
          Submitted(h, p, s, u, kept)
    BY <1>1, Submits
  <2>2. FirstQuery(p, s, kept) \in Querying
    BY FirstQueryIsTyped
  <2>3. hook' \in [Hooks -> {Idle} \cup Querying \cup Saving \cup Printing]
    BY <2>1, <2>2 DEF Submitted, TypeOK
  <2>4. disturbed' \in BOOLEAN
    BY <2>1 DEF Submitted
  <2> QED
    BY <1>1, <2>3, <2>4 DEF Submit, TypeOK
<1>2. ASSUME NEW h \in Hooks, NEW i, StoresAnswer(h, i) PROVE TypeOK'
  <2> DEFINE w == hook[h]
             doc == w.paths[i]
             next == Claim(w, IF answers[doc] = "hits" THEN w.found \cup {i} ELSE w.found)
             new == Answered(w, i, doc, next)
  <2>1. /\ w \in Querying /\ i \in Nat /\ doc \in Tagged /\ next \in SUBSET Nat
        /\ hook' = [hook EXCEPT ![h] = new]
    BY <1>2, Answers
  <2>2. doc \in Docs
    BY <2>1
  <2>3. new \in Querying
    BY <2>1, <2>2, AnsweredIsTyped
  <2> HIDE DEF new
  <2>4. hook' \in [Hooks -> {Idle} \cup Querying \cup Saving \cup Printing]
    BY <2>1, <2>3 DEF TypeOK
  <2> QED
    BY <1>2, <2>4 DEF StoresAnswer, TypeOK
<1>3. ASSUME NEW h \in Hooks, Deadline(h) PROVE TypeOK'
  <2>1. hook[h] \in Querying
    BY <1>3, HookKinds DEF Deadline
  <2>2. [hook[h] EXCEPT !.flight = {}, !.steady = FALSE] \in Querying
    BY <2>1 DEF Querying
  <2>3. hook' = [hook EXCEPT ![h] = [hook[h] EXCEPT !.flight = {}, !.steady = FALSE]]
    BY <1>3 DEF Deadline
  <2>4. hook' \in [Hooks -> {Idle} \cup Querying \cup Saving \cup Printing]
    BY <2>2, <2>3 DEF TypeOK
  <2> QED
    BY <1>3, <2>4 DEF Deadline, TypeOK
<1>4. ASSUME NEW h \in Hooks, Accept(h) PROVE TypeOK'
  <2> DEFINE w == hook[h]
             docs == {w.paths[i] : i \in Accepted(w.found)}
             new(stage) == [pc |-> stage, docs |-> docs, seen |-> w.seen \cup docs,
                         empty |-> Stamped(w)]
  <2>1. w \in Querying /\ ClaimsInOrder(w)
    BY <1>4, HookKinds DEF Accept, WorkersAreSound
  <2>2. docs \subseteq Docs
    BY <2>1 DEF Accepted, FirstOf, ClaimsInOrder
  <2>3. Stamped(w) \in Empties /\ w.seen \in SUBSET Docs
    BY <2>1, StampedIsTyped DEF Querying
  <2>4. \E stage \in {"write", "print"} : hook' = [hook EXCEPT ![h] = new(stage)]
    BY <1>4 DEF Accept
  <2>5. \A stage \in {"write", "print"} : new(stage) \in Saving
    <3> HIDE DEF docs
    <3> QED
      BY <2>2, <2>3 DEF Saving
  <2> HIDE DEF new
  <2>6. hook' \in [Hooks -> {Idle} \cup Querying \cup Saving \cup Printing]
    BY <2>4, <2>5 DEF TypeOK
  <2>7. disturbed' \in BOOLEAN
    BY <1>4 DEF Accept
  <2>8. markers' \in {None, Torn} \cup Marker
    BY <1>4 DEF Accept, TypeOK
  <2> QED
    BY <1>4, <2>6, <2>7, <2>8 DEF Accept, TypeOK
<1>5. ASSUME NEW h \in Hooks, WriteMarkers(h) PROVE TypeOK'
  <2>1. hook[h] \in Saving
    BY <1>5, HookKinds DEF WriteMarkers
  <2>2. /\ [pc |-> "print", docs |-> hook[h].docs] \in Printing
        /\ [seen |-> hook[h].seen, empty |-> hook[h].empty] \in Marker
    BY <2>1 DEF Saving, Printing, Marker, Empties
  <2>3. /\ markers' = [seen |-> hook[h].seen, empty |-> hook[h].empty]
        /\ hook' = [hook EXCEPT ![h] = [pc |-> "print", docs |-> hook[h].docs]]
    BY <1>5 DEF WriteMarkers
  <2>4. hook' \in [Hooks -> {Idle} \cup Querying \cup Saving \cup Printing]
    BY <2>2, <2>3 DEF TypeOK
  <2> QED
    BY <1>5, <2>2, <2>3, <2>4 DEF WriteMarkers, TypeOK
<1>6. ASSUME NEW h \in Hooks, PrintContext(h) PROVE TypeOK'
  <2>1. \A n \in 0..2 : Min({2, n + 1}) \in 0..2
    BY PrintedOnce
  <2>2. shown' \in [Docs -> 0..2]
    BY <1>6, <2>1 DEF PrintContext, TypeOK
  <2>3. hook' \in [Hooks -> {Idle} \cup Querying \cup Saving \cup Printing]
    BY <1>6 DEF PrintContext, TypeOK
  <2> QED
    BY <1>6, <2>2, <2>3 DEF PrintContext, TypeOK
<1>7. ASSUME NEW h \in Hooks, Kill(h) PROVE TypeOK'
  <2>1. silenced' \subseteq Docs
    BY <1>7, HookKinds DEF Kill, TypeOK
  <2>2. hook' \in [Hooks -> {Idle} \cup Querying \cup Saving \cup Printing]
    BY <1>7 DEF Kill, TypeOK
  <2> QED
    BY <1>7, <2>1, <2>2 DEF Kill, TypeOK
<1>8. ASSUME Learn PROVE TypeOK'
  <2>1. answers' \in [Tagged -> {"hits", "empty", "hangs"}]
    BY <1>8 DEF Learn, TypeOK
  <2>2. \A h \in Hooks : hook[h].pc = "query" =>
          [hook[h] EXCEPT !.steady = FALSE] \in Querying
    BY HookKinds DEF Querying
  <2>3. hook' \in [Hooks -> {Idle} \cup Querying \cup Saving \cup Printing]
    BY <1>8, <2>2 DEF Learn, TypeOK
  <2> QED
    BY <1>8, <2>1, <2>3 DEF Learn, TypeOK
<1>9. CASE TimePasses
  BY <1>9 DEF TimePasses, TypeOK
<1>10. CASE UNCHANGED vars
  BY <1>10 DEF vars, TypeOK
<1> QED
  BY <1>1, <1>2, <1>3, <1>4, <1>5, <1>6, <1>7, <1>8, <1>9, <1>10 DEF Next, Step

(***************************************************************************)
(* The workers.                                                            *)
(***************************************************************************)
LEMMA Budget ==
  Min({Concurrency, MaxAttempts}) \in Nat \ {0} /\ Min({Concurrency, MaxAttempts}) <= MaxAttempts
<1>1. \E x \in {Concurrency, MaxAttempts} : \A y \in {Concurrency, MaxAttempts} : x <= y
  BY Constants
<1>2. /\ Min({Concurrency, MaxAttempts}) \in {Concurrency, MaxAttempts}
      /\ \A y \in {Concurrency, MaxAttempts} : Min({Concurrency, MaxAttempts}) <= y
  BY <1>1 DEF Min
<1> QED
  BY <1>2, Constants

LEMMA FirstQueryIsSound ==
  ASSUME NEW p \in Prompts, NEW searched \in BOOLEAN, NEW kept \in Marker
  PROVE  LET w == FirstQuery(p, searched, kept)
         IN  /\ ClaimsInOrder(w) /\ w.steady /\ w.found = {} /\ w.claimed = w.flight
             /\ w.flight # {} \/ w.claimed = w.open
<1> DEFINE open == Open(Collected(p, searched), kept)
           n == Min({Concurrency, MaxAttempts})
           w == FirstQuery(p, searched, kept)
<1>1. /\ open \in SUBSET Nat /\ IsFiniteSet(open)
      /\ \A i \in open : /\ i \in DOMAIN Collected(p, searched)
                         /\ Collected(p, searched)[i] \in Tagged \ kept.seen
  BY Mentions
<1>2. /\ n \in Nat /\ n > 0 /\ n <= MaxAttempts
      /\ FirstOf(open, n) \subseteq open /\ InOrder(FirstOf(open, n), open)
      /\ Cardinality(FirstOf(open, n)) <= n
  <2>1. n \in Nat /\ n > 0 /\ n <= MaxAttempts
    BY Budget
  <2> HIDE DEF n, open
  <2> QED
    BY <1>1, <2>1, FirstAreFew
<1>3. Cardinality(FirstOf(open, n)) \in Nat
  BY <1>1, <1>2, FS_Subset, FS_CardinalityType
<1>4. Cardinality(FirstOf(open, n)) <= MaxAttempts
  BY <1>2, <1>3, Constants
<1>5. FirstOf(open, n) # {} \/ FirstOf(open, n) = open
  BY <1>1, <1>2, FirstExists
<1>6. /\ w.paths = Collected(p, searched) /\ w.open = open /\ w.seen = kept.seen
      /\ w.claimed = FirstOf(open, n) /\ w.flight = FirstOf(open, n)
      /\ w.found = {} /\ w.steady
  BY DEF FirstQuery
<1> HIDE DEF open, n, w
<1>7. ClaimsInOrder(w)
  BY <1>1, <1>2, <1>4, <1>6 DEF ClaimsInOrder
<1> QED
  BY <1>5, <1>6, <1>7 DEF w

\* The next claim extends what was claimed by its successor, if any.
LEMMA ClaimGoesOn ==
  ASSUME NEW w \in Querying, ClaimsInOrder(w), NEW found
  PROVE  LET next == Claim(w, found)
             claimed == w.claimed \cup next
         IN  /\ next \subseteq w.open \ w.claimed
             /\ InOrder(claimed, w.open)
             /\ Cardinality(claimed) <= MaxAttempts
             /\ next = {} => \/ w.claimed = w.open
                             \/ Cardinality(found) >= MaxEmitted
                             \/ Cardinality(w.claimed) >= MaxAttempts
<1> DEFINE rest == w.open \ w.claimed
           next == Claim(w, found)
<1>1. /\ IsFiniteSet(w.open) /\ w.open \in SUBSET Nat /\ w.claimed \subseteq w.open
      /\ InOrder(w.claimed, w.open) /\ Cardinality(w.claimed) <= MaxAttempts
  BY DEF ClaimsInOrder, Querying
<1>2. rest \in SUBSET Nat /\ IsFiniteSet(rest) /\ IsFiniteSet(w.claimed)
  BY <1>1, FS_Subset
<1>3. /\ FirstOf(rest, 1) = {} => rest = {}
      /\ \A i \in FirstOf(rest, 1) :
           i \in rest /\ Below(rest, i) = {} /\ FirstOf(rest, 1) = {i}
  <2> HIDE DEF rest
  <2> QED
    BY <1>2, FirstOne
<1>4. Cardinality(w.claimed) \in Nat /\ MaxAttempts \in Nat
  BY <1>2, FS_CardinalityType, Constants
<1>5. CASE Cardinality(found) >= MaxEmitted \/ Cardinality(w.claimed) >= MaxAttempts
  <2>1. next = {}
    BY <1>5 DEF Claim
  <2>2. w.claimed \cup next = w.claimed
    BY <2>1
  <2> QED
    BY <1>1, <1>5, <2>1, <2>2
<1>6. CASE ~(Cardinality(found) >= MaxEmitted \/ Cardinality(w.claimed) >= MaxAttempts)
  <2>1. next = FirstOf(rest, 1)
    BY <1>6 DEF Claim
  <2>2. CASE next = {}
    <3>1. rest = {} /\ w.claimed \cup next = w.claimed
      BY <1>3, <2>1, <2>2
    <3> QED
      BY <1>1, <2>2, <3>1
  <2>3. ASSUME NEW i \in next
        PROVE  /\ next = {i} /\ i \in rest
               /\ InOrder(w.claimed \cup {i}, w.open)
               /\ Cardinality(w.claimed \cup {i}) <= MaxAttempts
    <3>1. next = {i} /\ i \in rest /\ Below(rest, i) = {}
      BY <1>3, <2>1
    <3>2. Cardinality(w.claimed \cup {i}) = Cardinality(w.claimed) + 1
      BY <1>2, <3>1, FS_AddElement
    <3>3. Cardinality(w.claimed) < MaxAttempts
      BY <1>4, <1>6
    <3>4. Cardinality(w.claimed \cup {i}) <= MaxAttempts
      BY <1>4, <3>2, <3>3
    <3>5. \A j \in w.open : j < i => j \in w.claimed
      BY <3>1 DEF Below
    <3>6. InOrder(w.claimed \cup {i}, w.open)
      BY <1>1, <3>5 DEF InOrder
    <3> QED
      BY <3>1, <3>4, <3>6
  <2> QED
    BY <2>2, <2>3, <1>1, <1>2
<1> QED
  BY <1>5, <1>6

LEMMA AnswerIsSound ==
  ASSUME NEW w \in Querying, ClaimsInOrder(w), FoundAll(w), NEW i \in w.flight,
         NEW doc, doc = w.paths[i],
         NEW next,
         next = Claim(w, IF answers[doc] = "hits" THEN w.found \cup {i} ELSE w.found)
  PROVE  LET new == Answered(w, i, doc, next)
         IN  ClaimsInOrder(new) /\ FoundAll(new)
<1> DEFINE found == IF answers[doc] = "hits" THEN w.found \cup {i} ELSE w.found
           new == Answered(w, i, doc, next)
           claimed == w.claimed \cup next
<1>1. /\ IsFiniteSet(w.open) /\ w.flight \subseteq w.claimed /\ w.found \subseteq w.claimed
      /\ w.claimed \subseteq w.open /\ w.open \in SUBSET Nat
      /\ \A j \in w.open : j \in DOMAIN w.paths /\ w.paths[j] \in Tagged \ w.seen
  BY DEF ClaimsInOrder, Querying
<1>2. /\ next \subseteq w.open \ w.claimed
      /\ InOrder(claimed, w.open)
      /\ Cardinality(claimed) <= MaxAttempts
      /\ next = {} => \/ w.claimed = w.open
                      \/ Cardinality(found) >= MaxEmitted
                      \/ Cardinality(w.claimed) >= MaxAttempts
  BY ClaimGoesOn
<1>3. i \in Nat /\ doc \in Docs /\ next \in SUBSET Nat
  BY <1>1, <1>2, Constants
<1>4. /\ new.paths = w.paths /\ new.open = w.open /\ new.seen = w.seen
      /\ new.steady = w.steady /\ new.found = found
      /\ new.flight = (w.flight \ {i}) \cup next /\ new.claimed = claimed
  BY DEF Answered, Querying
<1> HIDE DEF new
<1>5. ClaimsInOrder(new)
  <2>1. found \subseteq claimed
    BY <1>1
  <2>2. (w.flight \ {i}) \cup next \subseteq claimed /\ claimed \subseteq w.open
    BY <1>1, <1>2
  <2> HIDE DEF found, claimed
  <2> QED
    BY <1>1, <1>2, <1>4, <2>1, <2>2 DEF ClaimsInOrder
<1>6. ASSUME w.steady
      PROVE  /\ found = Hits(w, claimed \ ((w.flight \ {i}) \cup next))
             /\ \/ (w.flight \ {i}) \cup next # {} \/ claimed = w.open
                \/ Cardinality(found) >= MaxEmitted \/ Cardinality(claimed) >= MaxAttempts
  <2>1. w.found = Hits(w, w.claimed \ w.flight)
    BY <1>6 DEF FoundAll
  <2>2. claimed \ ((w.flight \ {i}) \cup next) = (w.claimed \ w.flight) \cup {i}
    BY <1>1, <1>2
  <2>3. found = Hits(w, (w.claimed \ w.flight) \cup {i})
    BY <2>1 DEF Hits
  <2>4. next = {} => claimed = w.claimed
    OBVIOUS
  <2> HIDE DEF claimed, found
  <2> QED
    BY <1>2, <2>2, <2>3, <2>4
<1>7. FoundAll(new)
  <2>1. Hits(new, claimed \ new.flight) = Hits(w, claimed \ new.flight)
    BY <1>4 DEF Hits
  <2> HIDE DEF claimed, found
  <2> QED
    BY <1>4, <1>6, <2>1 DEF FoundAll
<1> QED
  BY <1>5, <1>7 DEF new

\* A step of one hook leaves the workers of the others alone.
LEMMA WorkersKeep ==
  ASSUME WorkersAreSound, UNCHANGED answers, NEW h \in Hooks, NEW w,
         hook'[h] = w, \A g \in Hooks \ {h} : hook'[g] = hook[g],
         w.pc = "query" => ClaimsInOrder(w) /\ FoundAll(w)
  PROVE  WorkersAreSound'
<1> SUFFICES ASSUME NEW g \in Hooks, hook'[g].pc = "query"
             PROVE  ClaimsInOrder(hook'[g]) /\ FoundAll(hook[g])'
  BY DEF WorkersAreSound, ClaimsInOrder
<1>1. CASE g = h
  BY <1>1 DEF ClaimsInOrder, FoundAll, Hits, InOrder
<1>2. CASE g # h
  BY <1>2 DEF WorkersAreSound, ClaimsInOrder, FoundAll, Hits, InOrder
<1> QED
  BY <1>1, <1>2

LEMMA WorkersStay ==
  ASSUME TypeOK, WorkersAreSound, [Next]_vars
  PROVE  WorkersAreSound'
<1> DEFINE OnlyHook(h) == \A g \in Hooks \ {h} : hook'[g] = hook[g]
<1>1. ASSUME NEW h \in Hooks, Submit(h) PROVE WorkersAreSound'
  <2>1. PICK p \in Prompts, s \in BOOLEAN, u \in BOOLEAN, kept \in Marker :
          Submitted(h, p, s, u, kept)
    BY <1>1, Submits
  <2> DEFINE w == FirstQuery(p, s, kept)
  <2>2. /\ ClaimsInOrder(w) /\ w.steady /\ w.found = {} /\ w.claimed = w.flight
        /\ w.flight # {} \/ w.claimed = w.open
    BY FirstQueryIsSound
  <2> HIDE DEF w
  <2>3. FoundAll(w)
    BY <2>2 DEF FoundAll, Hits
  <2>4. hook'[h] = w /\ OnlyHook(h)
    BY <2>1 DEF Submitted, TypeOK, w
  <2>5. UNCHANGED answers
    BY <1>1 DEF Submit
  <2> QED
    BY <2>2, <2>3, <2>4, <2>5, WorkersKeep
<1>2. ASSUME NEW h \in Hooks, NEW i, StoresAnswer(h, i) PROVE WorkersAreSound'
  <2> DEFINE w == hook[h]
             doc == w.paths[i]
             next == Claim(w, IF answers[doc] = "hits" THEN w.found \cup {i} ELSE w.found)
             new == Answered(w, i, doc, next)
  <2>1. /\ w.pc = "query" /\ w \in Querying /\ i \in w.flight
        /\ hook' = [hook EXCEPT ![h] = new]
    BY <1>2, Answers
  <2>2. ClaimsInOrder(w) /\ FoundAll(w)
    BY <2>1 DEF WorkersAreSound
  <2>3. ClaimsInOrder(new) /\ FoundAll(new)
    BY <2>1, <2>2, AnswerIsSound
  <2>4. hook'[h] = new /\ OnlyHook(h)
    BY <2>1 DEF TypeOK
  <2>5. UNCHANGED answers
    BY <1>2 DEF StoresAnswer
  <2> HIDE DEF new
  <2> QED
    BY <2>3, <2>4, <2>5, WorkersKeep
<1>3. ASSUME NEW h \in Hooks, Deadline(h) PROVE WorkersAreSound'
  <2> DEFINE w == hook[h]
             new == [w EXCEPT !.flight = {}, !.steady = FALSE]
  <2>1. w.pc = "query" /\ w \in Querying /\ ClaimsInOrder(w)
    BY <1>3, HookKinds DEF Deadline, WorkersAreSound
  <2>2. /\ new.open = w.open /\ new.paths = w.paths /\ new.seen = w.seen
        /\ new.claimed = w.claimed /\ new.found = w.found
        /\ new.flight = {} /\ ~new.steady
    BY <2>1 DEF Querying
  <2>3. hook'[h] = new /\ OnlyHook(h) /\ UNCHANGED answers
    BY <1>3 DEF Deadline, TypeOK
  <2> HIDE DEF new
  <2>4. ClaimsInOrder(new) /\ FoundAll(new)
    BY <2>1, <2>2 DEF ClaimsInOrder, FoundAll
  <2> QED
    BY <2>3, <2>4, WorkersKeep
<1>4. ASSUME NEW h \in Hooks, Accept(h) \/ WriteMarkers(h) \/ PrintContext(h) \/ Kill(h)
      PROVE WorkersAreSound'
  <2>1. hook'[h].pc # "query" /\ OnlyHook(h) /\ UNCHANGED answers
    BY <1>4 DEF Accept, WriteMarkers, PrintContext, Kill, Idle, TypeOK
  <2> QED
    BY <2>1, WorkersKeep
<1>5. ASSUME Learn PROVE WorkersAreSound'
  <2> DEFINE new(h) == [hook[h] EXCEPT !.steady = FALSE]
  <2>1. ASSUME NEW h \in Hooks, hook'[h].pc = "query"
        PROVE  ClaimsInOrder(hook'[h]) /\ ~hook'[h].steady
    <3>1. hook[h].pc = "query" /\ hook'[h] = new(h)
      <4>1. CASE hook[h].pc = "query"
        BY <1>5, <4>1 DEF Learn
      <4>2. CASE hook[h].pc # "query"
        BY <1>5, <2>1, <4>2 DEF Learn
      <4> QED
        BY <4>1, <4>2
    <3>2. hook[h] \in Querying /\ ClaimsInOrder(hook[h])
      BY <3>1, HookKinds DEF WorkersAreSound
    <3>3. /\ new(h).open = hook[h].open /\ new(h).paths = hook[h].paths
          /\ new(h).seen = hook[h].seen /\ new(h).claimed = hook[h].claimed
          /\ new(h).found = hook[h].found /\ new(h).flight = hook[h].flight
          /\ ~new(h).steady
      BY <3>2 DEF Querying
    <3> HIDE DEF new
    <3> QED
      BY <3>1, <3>2, <3>3 DEF ClaimsInOrder
  <2>2. \A w : ~w.steady => FoundAll(w)'
    BY DEF FoundAll
  <2> QED
    BY <2>1, <2>2 DEF WorkersAreSound, ClaimsInOrder
<1>6. CASE TimePasses \/ UNCHANGED vars
  <2>1. UNCHANGED <<answers, hook>>
    BY <1>6 DEF TimePasses, vars
  <2> QED
    BY <2>1 DEF WorkersAreSound, ClaimsInOrder, FoundAll, Hits, InOrder
<1> HIDE DEF OnlyHook
<1> QED
  BY <1>1, <1>2, <1>3, <1>4, <1>5, <1>6 DEF Next, Step

(***************************************************************************)
(* Acceptance.  What was claimed is a beginning of what one worker would   *)
(* attempt; it is all of it, or what it misses comes after enough hits.    *)
(***************************************************************************)
LEMMA AcceptsSequentially ==
  ASSUME NEW w \in Querying, ClaimsInOrder(w), FoundAll(w), w.steady, w.flight = {}
  PROVE  {w.paths[i] : i \in Accepted(w.found)} = Sequential(w)
<1> DEFINE attempted == FirstOf(w.open, MaxAttempts)
           yields == Hits(w, attempted)
<1>1. /\ IsFiniteSet(w.open) /\ w.open \in SUBSET Nat
      /\ w.claimed \subseteq w.open /\ InOrder(w.claimed, w.open)
      /\ Cardinality(w.claimed) <= MaxAttempts
  BY DEF ClaimsInOrder, Querying
<1>2. IsFiniteSet(w.claimed) /\ Cardinality(w.claimed) \in Nat
  BY <1>1, FS_Subset, FS_CardinalityType
<1>3. w.found = Hits(w, w.claimed)
  BY DEF FoundAll, Hits
<1>4. w.claimed \subseteq attempted
  <2> SUFFICES ASSUME NEW i \in w.claimed PROVE Cardinality(Below(w.open, i)) < MaxAttempts
    BY <1>1 DEF FirstOf, Below
  <2>1. Below(w.open, i) \in SUBSET (w.claimed \ {i})
    BY <1>1 DEF Below, InOrder
  <2>2. /\ IsFiniteSet(w.claimed \ {i})
        /\ Cardinality(w.claimed \ {i}) = Cardinality(w.claimed) - 1
    BY <1>2, FS_RemoveElement
  <2>3. /\ Cardinality(Below(w.open, i)) <= Cardinality(w.claimed \ {i})
        /\ Cardinality(Below(w.open, i)) \in Nat
    BY <1>1, <2>1, <2>2, FS_Subset, BelowIsFinite
  <2> QED
    BY <1>1, <1>2, <2>2, <2>3, Constants
\* Whatever was not claimed comes after everything that was.
<1>5. ASSUME NEW i \in w.open, i \notin w.claimed PROVE w.claimed \subseteq Below(w.open, i)
  <2> SUFFICES ASSUME NEW j \in w.claimed PROVE j < i
    BY <1>1 DEF Below
  <2>1. i \in Nat /\ j \in Nat /\ ~(i < j) /\ i # j
    BY <1>1, <1>5 DEF InOrder
  <2> QED
    BY <2>1
<1>6. CASE Cardinality(w.claimed) >= MaxAttempts \/ w.claimed = w.open
  <2>1. ASSUME NEW i \in attempted, i \notin w.claimed PROVE FALSE
    <3>1. i \in w.open /\ Cardinality(Below(w.open, i)) < MaxAttempts
      BY DEF FirstOf, Below
    <3>2. /\ Cardinality(w.claimed) <= Cardinality(Below(w.open, i))
          /\ Cardinality(Below(w.open, i)) \in Nat
      BY <1>1, <1>5, <2>1, <3>1, FS_Subset, BelowIsFinite
    <3>3. Cardinality(w.claimed) >= MaxAttempts
      BY <1>6, <2>1, <3>1
    <3> QED
      BY <1>2, <3>1, <3>2, <3>3, Constants
  <2>2. attempted = w.claimed
    BY <1>4, <2>1
  <2>3. w.found = yields
    BY <1>3, <2>2
  <2> QED
    BY <2>3 DEF Accepted, Sequential, Hits
<1>7. CASE Cardinality(w.found) >= MaxEmitted
  <2>1. yields \in SUBSET Nat /\ IsFiniteSet(yields) /\ yields \subseteq w.open
    BY <1>1, FS_Subset DEF Hits, FirstOf
  <2>2. w.found \subseteq yields /\ w.found \subseteq w.claimed
    BY <1>3, <1>4 DEF Hits
  <2>3. ASSUME NEW i \in FirstOf(yields, MaxEmitted) PROVE i \in w.found
    <3>1. i \in yields /\ Cardinality(Below(yields, i)) < MaxEmitted
      BY DEF FirstOf, Below
    <3>2. ASSUME i \notin w.claimed PROVE FALSE
      <4>1. w.found \in SUBSET Below(yields, i)
        BY <1>5, <2>1, <2>2, <3>1, <3>2 DEF Below
      <4>2. /\ Cardinality(w.found) <= Cardinality(Below(yields, i))
            /\ Cardinality(w.found) \in Nat /\ Cardinality(Below(yields, i)) \in Nat
        BY <2>1, <4>1, FS_Subset, FS_CardinalityType, BelowIsFinite
      <4> QED
        BY <1>7, <3>1, <4>2, Constants
    <3> QED
      BY <1>3, <3>1, <3>2 DEF Hits
  <2>4. ASSUME NEW i \in w.found PROVE Below(w.found, i) = Below(yields, i)
    <3>1. ASSUME NEW j \in yields, j < i PROVE j \in w.found
      BY <1>1, <1>3, <2>1, <2>2, <3>1 DEF InOrder, Hits
    <3> QED
      BY <2>2, <3>1 DEF Below
  <2>5. FirstOf(w.found, MaxEmitted) = FirstOf(yields, MaxEmitted)
    <3>1. \A i \in w.found : {j \in w.found : j < i} = {j \in yields : j < i}
      BY <2>4 DEF Below
    <3> HIDE DEF yields
    <3> QED
      BY <2>2, <2>3, <3>1 DEF FirstOf
  <2>6. Sequential(w) = {w.paths[i] : i \in FirstOf(yields, MaxEmitted)}
    BY DEF Sequential, Hits
  <2> QED
    BY <2>5, <2>6 DEF Accepted
<1> QED
  BY <1>6, <1>7 DEF FoundAll

(***************************************************************************)
(* The session.                                                            *)
(***************************************************************************)
\* A step of one hook leaves the state of the others alone.
LEMMA OthersStay ==
  ASSUME TypeOK, NEW g \in Hooks, Step(g) \/ Kill(g), NEW h \in Hooks, g # h
  PROVE  hook'[h] = hook[h]
<1>1. Submit(g) => hook'[h] = hook[h]
  BY Submits DEF Submitted, TypeOK
<1> QED
  BY <1>1 DEF Step, StoresAnswer, Deadline, Accept, WriteMarkers, PrintContext, Kill, TypeOK

\* What was shown, is being shown or was silenced never becomes unaccounted.
LEMMA AccountedStays ==
  ASSUME TypeOK, [Next]_vars, NEW d \in Docs, Accounted(d)
  PROVE  Accounted(d)'
<1>1. CASE shown[d] > 0 \/ d \in silenced
  <2>1. shown[d] > 0 => shown'[d] > 0
    <3>1. ASSUME NEW h \in Hooks, PrintContext(h), shown[d] > 0 PROVE shown'[d] > 0
      <4>1. shown[d] \in 0..2 /\ Min({2, shown[d] + 1}) > 0
        BY PrintedOnce DEF TypeOK
      <4> QED
        BY <3>1, <4>1 DEF PrintContext
    <3>2. (\A h \in Hooks : ~PrintContext(h)) => UNCHANGED shown
      BY DEF Next, Step, Submit, StoresAnswer, Deadline, Accept, WriteMarkers, Kill, Learn,
             TimePasses, vars
    <3> QED
      BY <3>1, <3>2
  <2>2. silenced \subseteq silenced'
    BY DEF Next, Step, Submit, StoresAnswer, Deadline, Accept, WriteMarkers, PrintContext,
           Kill, Learn, TimePasses, vars
  <2> QED
    BY <1>1, <2>1, <2>2 DEF Accounted
<1>2. ASSUME NEW h \in Hooks, IsBeingShown(h, d) PROVE Accounted(d)'
  <2>1. hook[h].pc \in {"write", "print"} /\ d \in hook[h].docs
    BY <1>2 DEF IsBeingShown
  <2>2. CASE hook'[h] = hook[h]
    BY <1>2, <2>2 DEF Accounted, IsBeingShown
  <2>3. ASSUME NEW g \in Hooks, Step(g) \/ Kill(g), g # h PROVE hook'[h] = hook[h]
    BY <2>3, OthersStay
  <2>4. CASE Step(h) \/ Kill(h)
    <3>1. CASE WriteMarkers(h)
      <4>1. hook'[h] = [pc |-> "print", docs |-> hook[h].docs]
        BY <3>1 DEF WriteMarkers, TypeOK
      <4> QED
        BY <2>1, <4>1 DEF Accounted, IsBeingShown
    <3>2. CASE PrintContext(h)
      <4>1. shown[d] \in 0..2 /\ shown'[d] = Min({2, shown[d] + 1})
        BY <2>1, <3>2 DEF PrintContext, TypeOK
      <4>2. shown'[d] > 0
        BY <4>1, PrintedOnce
      <4> QED
        BY <4>2 DEF Accounted
    <3>3. CASE Kill(h)
      BY <2>1, <3>3 DEF Kill, Accounted
    <3> QED
      BY <2>1, <2>4, <3>1, <3>2, <3>3 DEF Step, Submit, StoresAnswer, Deadline, Accept
  <2>5. CASE Learn \/ TimePasses \/ UNCHANGED vars
    BY <2>1, <2>2, <2>5 DEF Learn, TimePasses, vars, TypeOK
  <2> QED
    BY <2>2, <2>3, <2>4, <2>5 DEF Next
<1> QED
  BY <1>1, <1>2 DEF Accounted

\* Reading the file adds nothing to what somebody accounts for.
LEMMA SeenStaysAccounted ==
  ASSUME TypeOK, WorkersAreSound, SeenIsAccounted, [Next]_vars
  PROVE  SeenIsAccounted'
<1> DEFINE SeenOf(h) == \A d \in hook[h].seen : Accounted(d)
           FileOf == markers \notin {None, Torn} => \A d \in markers.seen : Accounted(d)
<1>1. \A d \in Docs : Accounted(d) => Accounted(d)'
  BY AccountedStays
<1>2. /\ markers \notin {None, Torn} => markers.seen \subseteq Docs
      /\ \A h \in Hooks : hook[h].pc \in {"query", "write"} => hook[h].seen \subseteq Docs
  BY HookKinds DEF TypeOK, Marker, Querying, Saving
<1>3. ASSUME UNCHANGED markers PROVE FileOf'
  BY <1>1, <1>2, <1>3 DEF SeenIsAccounted
<1>4. ASSUME NEW h \in Hooks, hook[h].pc \in {"query", "write"}, hook'[h].seen = hook[h].seen
      PROVE  SeenOf(h)'
  BY <1>1, <1>2, <1>4 DEF SeenIsAccounted
<1> HIDE DEF SeenOf, FileOf
\* One hook moves: the others still know what they knew.
<1>5. ASSUME NEW h \in Hooks, \A g \in Hooks \ {h} : hook'[g] = hook[g],
             FileOf', hook'[h].pc \in {"query", "write"} => SeenOf(h)'
      PROVE  SeenIsAccounted'
  <2>1. \A g \in Hooks : hook'[g].pc \in {"query", "write"} => SeenOf(g)'
    BY <1>4, <1>5
  <2> QED
    BY <1>5, <2>1 DEF SeenIsAccounted, SeenOf, FileOf
<1>6. ASSUME NEW h \in Hooks, Submit(h) PROVE SeenIsAccounted'
  <2>1. PICK p \in Prompts, s \in BOOLEAN, u \in BOOLEAN, kept \in Marker :
          Submitted(h, p, s, u, kept)
    BY <1>6, Submits
  <2>2. hook'[h].seen = kept.seen /\ \A g \in Hooks \ {h} : hook'[g] = hook[g]
    BY <2>1 DEF Submitted, FirstQuery, TypeOK
  <2>3. kept.seen = {} \/ (markers \notin {None, Torn} /\ kept.seen = markers.seen)
    BY <2>1 DEF Submitted
  <2>4. \A d \in kept.seen : d \in Docs /\ Accounted(d)
    BY <1>2, <2>3 DEF SeenIsAccounted
  <2>5. SeenOf(h)'
    BY <1>1, <2>2, <2>4 DEF SeenOf
  <2> QED
    BY <1>3, <1>5, <1>6, <2>2, <2>5 DEF Submit
<1>7. ASSUME NEW h \in Hooks, NEW i, StoresAnswer(h, i) PROVE SeenIsAccounted'
  <2>1. /\ hook[h].pc = "query" /\ hook'[h].seen = hook[h].seen
        /\ \A g \in Hooks \ {h} : hook'[g] = hook[g]
        /\ UNCHANGED markers
    BY <1>7, HookKinds DEF StoresAnswer, TypeOK, Querying
  <2> QED
    BY <1>3, <1>4, <1>5, <2>1
<1>8. ASSUME NEW h \in Hooks, Deadline(h) PROVE SeenIsAccounted'
  <2>1. /\ hook[h].pc = "query" /\ hook'[h].seen = hook[h].seen
        /\ \A g \in Hooks \ {h} : hook'[g] = hook[g]
        /\ UNCHANGED markers
    BY <1>8, HookKinds DEF Deadline, TypeOK, Querying
  <2> QED
    BY <1>3, <1>4, <1>5, <2>1
<1>9. ASSUME NEW h \in Hooks, Accept(h) PROVE SeenIsAccounted'
  <2> DEFINE docs == {hook[h].paths[i] : i \in Accepted(hook[h].found)}
  <2>1. /\ hook[h].pc = "query" /\ hook[h] \in Querying
        /\ hook'[h].pc \in {"write", "print"} /\ hook'[h].docs = docs
        /\ hook'[h].seen = hook[h].seen \cup docs
        /\ \A g \in Hooks \ {h} : hook'[g] = hook[g]
    BY <1>9, HookKinds DEF Accept, TypeOK
  <2>2. \A d \in docs : Accounted(d)'
    BY <2>1 DEF Accounted, IsBeingShown
  <2>3. SeenOf(h)'
    <3> HIDE DEF docs
    <3> QED
      BY <1>1, <1>2, <2>1, <2>2 DEF SeenIsAccounted, SeenOf
  <2>4. FileOf'
    <3>1. markers' \in {markers, Torn}
      BY <1>9 DEF Accept
    <3> QED
      BY <1>3, <3>1 DEF FileOf
  <2> QED
    BY <1>5, <2>1, <2>3, <2>4
<1>10. ASSUME NEW h \in Hooks, WriteMarkers(h) PROVE SeenIsAccounted'
  <2>1. /\ hook[h].pc = "write" /\ hook'[h].pc = "print" /\ markers'.seen = hook[h].seen
        /\ \A g \in Hooks \ {h} : hook'[g] = hook[g]
    BY <1>10 DEF WriteMarkers, TypeOK
  <2>2. FileOf'
    BY <1>1, <1>2, <2>1 DEF SeenIsAccounted, FileOf
  <2> QED
    BY <1>5, <2>1, <2>2
<1>11. ASSUME NEW h \in Hooks, PrintContext(h) \/ Kill(h) PROVE SeenIsAccounted'
  <2>1. /\ hook'[h].pc = "idle" /\ \A g \in Hooks \ {h} : hook'[g] = hook[g]
        /\ UNCHANGED markers
    BY <1>11 DEF PrintContext, Kill, Idle, TypeOK
  <2> QED
    BY <1>3, <1>5, <2>1
<1>12. CASE Learn \/ TimePasses \/ UNCHANGED vars
  <2>1. UNCHANGED markers
    BY <1>12 DEF Learn, TimePasses, vars
  <2> DEFINE new(h) == [hook[h] EXCEPT !.steady = FALSE]
  <2>2. ASSUME NEW h \in Hooks, hook[h].pc = "query"
        PROVE  new(h).pc = "query" /\ new(h).seen = hook[h].seen
    BY <2>2, HookKinds DEF Querying
  <2>3. \A h \in Hooks : hook'[h] = IF Learn /\ hook[h].pc = "query" THEN new(h) ELSE hook[h]
    <3>1. CASE Learn
      BY <3>1, Zenon DEF Learn
    <3>2. CASE ~Learn
      BY <1>12, <3>2, Zenon DEF TimePasses, vars
    <3> QED
      BY <3>1, <3>2
  <2> HIDE DEF new
  <2>4. \A h \in Hooks : hook'[h].pc \in {"query", "write"} => SeenOf(h)'
    BY <1>4, <2>2, <2>3
  <2> QED
    BY <1>3, <2>1, <2>4 DEF SeenIsAccounted, SeenOf, FileOf
<1> QED
  BY <1>6, <1>7, <1>8, <1>9, <1>10, <1>11, <1>12 DEF Next, Step

\* While nothing goes wrong only one hook runs at a time, so that what it has
\* read is what the sessions before it have shown.
UndisturbedBy(h) ==
  /\ ~disturbed /\ FileIsWhole /\ HookKnows(h)
  /\ \A g \in Hooks \ {h} : hook[g].pc = "idle"
  /\ \A d \in Docs : shown[d] <= 1

LEMMA Alone ==
  ASSUME Undisturbed, ~disturbed, NEW h \in Hooks, hook[h].pc # "idle"
  PROVE  UndisturbedBy(h)
BY DEF Undisturbed, UndisturbedBy, OneHook

LEMMA StaysAlone ==
  ASSUME NEW h \in Hooks, FileIsWhole', HookKnows(h)',
         \A g \in Hooks \ {h} : hook'[g].pc = "idle",
         \A d \in Docs : shown'[d] <= 1
  PROVE  Undisturbed'
<1>1. \A g \in Hooks : HookKnows(g)'
  BY DEF HookKnows
<1>2. OneHook'
  BY DEF OneHook
<1> QED
  BY <1>1, <1>2 DEF Undisturbed

LEMMA UndisturbedStays ==
  ASSUME TypeOK, WorkersAreSound, Undisturbed, [Next]_vars
  PROVE  Undisturbed'
<1> SUFFICES ASSUME ~disturbed' PROVE Undisturbed'
  BY DEF Undisturbed
<1>1. ASSUME NEW h \in Hooks, Submit(h) PROVE Undisturbed'
  <2>1. PICK p \in Prompts, s \in BOOLEAN, u \in BOOLEAN, kept \in Marker :
          Submitted(h, p, s, u, kept)
    BY <1>1, Submits
  <2>2. /\ ~disturbed /\ (u => markers = None) /\ markers # Torn
        /\ \A g \in Hooks \ {h} : hook[g].pc = "idle"
    BY <2>1 DEF Submitted
  <2>3. /\ hook'[h].pc = "query" /\ hook'[h].seen = kept.seen
        /\ \A g \in Hooks \ {h} : hook'[g] = hook[g]
        /\ UNCHANGED <<markers, shown>>
    BY <1>1, <2>1 DEF Submitted, Submit, FirstQuery, TypeOK
  <2>4. FileIsWhole /\ \A d \in Docs : shown[d] <= 1
    BY <2>2 DEF Undisturbed
  <2>5. WasShown \subseteq kept.seen
    <3>1. CASE markers = None
      BY <2>2, <2>4, <3>1 DEF FileIsWhole
    <3>2. CASE markers # None
      <4>1. kept.seen = markers.seen
        BY <2>1, <2>2, <3>2 DEF Submitted
      <4> QED
        BY <2>2, <2>4, <3>2, <4>1 DEF FileIsWhole
    <3> QED
      BY <3>1, <3>2
  <2>6. FileIsWhole' /\ WasShown' = WasShown
    BY <2>3, <2>4 DEF FileIsWhole, WasShown
  <2>7. HookKnows(h)'
    BY <2>3, <2>5, <2>6 DEF HookKnows
  <2> QED
    BY <2>2, <2>3, <2>4, <2>6, <2>7, StaysAlone
<1>2. ASSUME NEW h \in Hooks, \E i \in InFlight(h) : StoresAnswer(h, i) PROVE Undisturbed'
  <2>1. /\ hook[h].pc = "query" /\ hook'[h].pc = "query" /\ hook'[h].seen = hook[h].seen
        /\ \A g \in Hooks \ {h} : hook'[g] = hook[g]
        /\ UNCHANGED <<markers, shown, disturbed>>
    <3>1. PICK i \in InFlight(h) : StoresAnswer(h, i)
      BY <1>2
    <3>2. hook[h].pc = "query" /\ hook[h] \in Querying
      BY <3>1, HookKinds DEF StoresAnswer
    <3> QED
      BY <3>1, <3>2 DEF StoresAnswer, TypeOK, Querying
  <2>2. UndisturbedBy(h)
    BY <2>1, Alone
  <2> QED
    BY <2>1, <2>2, StaysAlone DEF UndisturbedBy, FileIsWhole, HookKnows, WasShown
<1>3. ASSUME NEW h \in Hooks, Deadline(h) PROVE Undisturbed'
  <2>1. /\ hook[h].pc = "query" /\ hook'[h].pc = "query" /\ hook'[h].seen = hook[h].seen
        /\ \A g \in Hooks \ {h} : hook'[g] = hook[g]
        /\ UNCHANGED <<markers, shown, disturbed>>
    BY <1>3, HookKinds DEF Deadline, TypeOK, Querying
  <2>2. UndisturbedBy(h)
    BY <2>1, Alone
  <2> QED
    BY <2>1, <2>2, StaysAlone DEF UndisturbedBy, FileIsWhole, HookKnows, WasShown
\* What is accepted was open, so it has not been shown.
<1>4. ASSUME NEW h \in Hooks, Accept(h) PROVE Undisturbed'
  <2> DEFINE docs == {hook[h].paths[i] : i \in Accepted(hook[h].found)}
  <2>1. /\ hook[h].pc = "query" /\ hook'[h].pc = "write" /\ markers' = Torn
        /\ hook'[h].docs = docs /\ hook'[h].seen = hook[h].seen \cup docs
        /\ \A g \in Hooks \ {h} : hook'[g] = hook[g]
        /\ ~disturbed /\ UNCHANGED shown
    <3>1. PICK failing \in {FALSE, events < MaxEvents} :
            /\ disturbed' = (disturbed \/ failing)
            /\ markers' = IF failing THEN markers ELSE Torn
            /\ hook' = [hook EXCEPT ![h] =
                 [pc |-> IF failing THEN "print" ELSE "write", docs |-> docs,
                  seen |-> hook[h].seen \cup docs, empty |-> Stamped(hook[h])]]
      BY <1>4, Zenon DEF Accept
    <3>2. ~failing /\ ~disturbed
      BY <3>1, Zenon
    <3>3. hook[h].pc = "query" /\ UNCHANGED shown
      BY <1>4 DEF Accept
    <3> HIDE DEF docs
    <3> QED
      BY <3>1, <3>2, <3>3 DEF TypeOK
  <2>2. UndisturbedBy(h) /\ ClaimsInOrder(hook[h])
    BY <2>1, Alone DEF WorkersAreSound
  <2>3. docs \cap hook[h].seen = {}
    BY <2>2 DEF ClaimsInOrder, Accepted, FirstOf
  <2> HIDE DEF docs
  <2>4. WasShown' = WasShown /\ FileIsWhole'
    BY <2>1 DEF WasShown, FileIsWhole
  <2>5. HookKnows(h)'
    BY <2>1, <2>2, <2>3, <2>4 DEF HookKnows, UndisturbedBy
  <2> QED
    BY <2>1, <2>2, <2>4, <2>5, StaysAlone DEF UndisturbedBy
<1>5. ASSUME NEW h \in Hooks, WriteMarkers(h) PROVE Undisturbed'
  <2>1. /\ hook[h].pc = "write" /\ hook[h] \in Saving
        /\ hook'[h].pc = "print" /\ hook'[h].docs = hook[h].docs
        /\ markers' = [seen |-> hook[h].seen, empty |-> hook[h].empty]
        /\ \A g \in Hooks \ {h} : hook'[g] = hook[g]
        /\ UNCHANGED <<shown, disturbed>>
    BY <1>5, HookKinds DEF WriteMarkers, TypeOK
  <2>2. UndisturbedBy(h) /\ WasShown' = WasShown
    BY <2>1, Alone DEF WasShown
  <2>3. markers' \in Marker /\ markers'.seen = hook[h].seen
    BY <2>1 DEF Saving, Marker, Empties
  <2>4. markers' \notin {None, Torn}
    BY <2>3, FederationAssumption
  <2>5. FileIsWhole' /\ HookKnows(h)'
    BY <2>1, <2>2, <2>3, <2>4 DEF FileIsWhole, HookKnows, UndisturbedBy
  <2> QED
    BY <2>1, <2>2, <2>5, StaysAlone DEF UndisturbedBy
<1>6. ASSUME NEW h \in Hooks, PrintContext(h) PROVE Undisturbed'
  <2>1. /\ hook[h].pc = "print" /\ hook'[h].pc = "idle"
        /\ \A g \in Hooks \ {h} : hook'[g] = hook[g]
        /\ UNCHANGED <<markers, disturbed>>
        /\ shown' = [d \in Docs |-> IF d \in hook[h].docs THEN Min({2, shown[d] + 1})
                                    ELSE shown[d]]
    BY <1>6 DEF PrintContext, Idle, TypeOK
  <2>2. UndisturbedBy(h)
    BY <2>1, Alone
  <2>3. ASSUME NEW d \in Docs
        PROVE  shown'[d] = IF d \in hook[h].docs THEN 1 ELSE shown[d]
    <3>1. CASE d \in hook[h].docs
      <4>1. shown[d] = 0
        BY <2>1, <2>2, <3>1 DEF UndisturbedBy, HookKnows, WasShown, TypeOK
      <4> QED
        BY <2>1, <3>1, <4>1, PrintedOnce
    <3>2. CASE d \notin hook[h].docs
      BY <2>1, <3>2
    <3> QED
      BY <3>1, <3>2
  <2>4. \A d \in Docs : shown'[d] <= 1
    BY <2>2, <2>3 DEF UndisturbedBy
  <2>5. WasShown' \subseteq WasShown \cup hook[h].docs
    BY <2>3 DEF WasShown
  <2>6. FileIsWhole'
    <3>1. CASE markers = Torn
      BY <2>1, <3>1 DEF FileIsWhole
    <3>2. CASE markers # Torn
      <4>1. markers # None /\ WasShown \cup hook[h].docs \subseteq markers.seen
        BY <2>1, <2>2, <3>2 DEF UndisturbedBy, HookKnows, FileIsWhole
      <4> QED
        BY <2>1, <2>5, <3>2, <4>1 DEF FileIsWhole
    <3> QED
      BY <3>1, <3>2
  <2>7. HookKnows(h)'
    BY <2>1 DEF HookKnows
  <2> QED
    BY <2>1, <2>2, <2>4, <2>6, <2>7, StaysAlone DEF UndisturbedBy
<1>7. ASSUME NEW h \in Hooks, Kill(h) PROVE Undisturbed'
  <2>1. /\ hook[h].pc # "idle" /\ hook'[h].pc = "idle"
        /\ \A g \in Hooks \ {h} : hook'[g] = hook[g]
        /\ UNCHANGED <<markers, shown, disturbed>>
    BY <1>7 DEF Kill, Idle, TypeOK
  <2>2. UndisturbedBy(h)
    BY <2>1, Alone
  <2> QED
    BY <2>1, <2>2, StaysAlone DEF UndisturbedBy, FileIsWhole, HookKnows, WasShown
<1>8. CASE Learn \/ TimePasses \/ UNCHANGED vars
  <2> DEFINE new(h) == [hook[h] EXCEPT !.steady = FALSE]
  <2>1. ASSUME NEW h \in Hooks, hook[h].pc = "query"
        PROVE  new(h).pc = "query" /\ new(h).seen = hook[h].seen
    BY <2>1, HookKinds DEF Querying
  <2>2. \A h \in Hooks : hook'[h] = IF Learn /\ hook[h].pc = "query" THEN new(h) ELSE hook[h]
    <3>1. CASE Learn
      BY <3>1, Zenon DEF Learn
    <3>2. CASE ~Learn
      BY <1>8, <3>2, Zenon DEF TimePasses, vars
    <3> QED
      BY <3>1, <3>2
  <2> HIDE DEF new
  <2>3. UNCHANGED <<markers, shown, disturbed>>
    BY <1>8 DEF Learn, TimePasses, vars
  <2>4. ASSUME NEW h \in Hooks
        PROVE  /\ hook'[h].pc = hook[h].pc
               /\ hook[h].pc = "query" => hook'[h].seen = hook[h].seen
               /\ hook[h].pc # "query" => hook'[h] = hook[h]
    BY <2>1, <2>2
  <2>5. OneHook'
    BY <2>3, <2>4 DEF OneHook, Undisturbed
  <2>6. FileIsWhole' /\ WasShown' = WasShown
    BY <2>3 DEF FileIsWhole, WasShown, Undisturbed
  <2>7. ASSUME NEW h \in Hooks PROVE HookKnows(h)'
    <3>1. HookKnows(h)
      BY <2>3 DEF Undisturbed
    <3>2. CASE hook[h].pc = "query"
      BY <2>4, <2>6, <3>1, <3>2 DEF HookKnows
    <3>3. CASE hook[h].pc # "query"
      BY <2>3, <2>4, <2>6, <3>1, <3>3 DEF HookKnows
    <3> QED
      BY <3>2, <3>3
  <2> QED
    BY <2>3, <2>5, <2>6, <2>7 DEF Undisturbed
<1> QED
  BY <1>1, <1>2, <1>3, <1>4, <1>5, <1>6, <1>7, <1>8 DEF Next, Step

(***************************************************************************)
(* The invariant, and what it is for.                                      *)
(***************************************************************************)
LEMMA Initially == Init => FederationInv
<1> SUFFICES ASSUME Init PROVE FederationInv
  OBVIOUS
<1>1. TypeOK
  <2>1. hook \in [Hooks -> {Idle} \cup Querying \cup Saving \cup Printing]
    BY DEF Init
  <2>2. /\ answers \in [Tagged -> {"hits", "empty", "hangs"}]
        /\ shown \in [Docs -> 0..2] /\ now \in Nat
    BY DEF Init
  <2>3. disturbed \in BOOLEAN /\ markers = None /\ silenced \subseteq Docs
    BY DEF Init
  <2> QED
    BY <2>1, <2>2, <2>3 DEF TypeOK
<1>2. \A h \in Hooks : hook[h].pc = "idle"
  BY DEF Init, Idle
<1>3. WorkersAreSound /\ SeenIsAccounted
  BY <1>2 DEF Init, WorkersAreSound, SeenIsAccounted
<1>4. OneHook /\ \A h \in Hooks : HookKnows(h)
  BY <1>2 DEF OneHook, HookKnows
<1>5. FileIsWhole /\ \A d \in Docs : shown[d] <= 1
  BY DEF Init, FileIsWhole, WasShown
<1> QED
  BY <1>1, <1>3, <1>4, <1>5 DEF FederationInv, Undisturbed

LEMMA Inductive == FederationInv /\ [Next]_vars => FederationInv'
BY TypesStay, WorkersStay, SeenStaysAccounted, UndisturbedStays DEF FederationInv

LEMMA Holds == Spec => []FederationInv
BY Initially, Inductive, PTL DEF Spec

\* A session is shown a document once: never twice unless hooks overlap or the
\* file is lost, and never recorded without being shown unless a hook is killed.
THEOREM DocumentsAreShownOnce == Spec => []ShownOnce
<1>1. FederationInv => ShownOnce
  BY DEF FederationInv, Undisturbed, SeenIsAccounted, Accounted, IsBeingShown, ShownOnce
<1> QED
  BY <1>1, Holds, PTL

LEMMA OnlyAcceptAccepts ==
  ASSUME TypeOK, Next, NEW h \in Hooks, hook[h].pc = "query",
         hook'[h].pc \in {"write", "print"}
  PROVE  Accept(h)
<1>1. hook[h] \in Querying
  BY HookKinds
<1>2. [hook[h] EXCEPT !.steady = FALSE].pc = "query"
  BY <1>1 DEF Querying
<1>3. ~Learn
  BY <1>2, Zenon DEF Learn
<1>4. ASSUME NEW g \in Hooks, Step(g) \/ Kill(g) PROVE g = h
  BY <1>4, OthersStay
<1>5. Step(h) \/ Kill(h)
  BY <1>3, <1>4 DEF Next, TimePasses
<1>6. ~Submit(h) /\ ~WriteMarkers(h) /\ ~PrintContext(h)
  BY DEF Submit, WriteMarkers, PrintContext
<1>7. ~Kill(h)
  BY DEF Kill, Idle, TypeOK
<1>8. ASSUME Deadline(h) PROVE FALSE
  BY <1>1, <1>8 DEF Deadline, TypeOK, Querying
<1>9. ASSUME NEW i, StoresAnswer(h, i) PROVE FALSE
  BY <1>1, <1>9 DEF StoresAnswer, TypeOK, Querying
<1> QED
  BY <1>5, <1>6, <1>7, <1>8, <1>9 DEF Step

\* federateTags: however the queries overlap, what is accepted is what one
\* worker at a time would have accepted, for any number of workers and budgets.
THEOREM WorkersAcceptInOrder == Spec => AcceptsLikeSequential
<1>1. ASSUME FederationInv, Next, NEW h \in Hooks, hook[h].pc = "query",
             hook'[h].pc \in {"write", "print"}, hook[h].steady
      PROVE  hook'[h].docs = Sequential(hook[h])
  <2>1. Accept(h)
    BY <1>1, OnlyAcceptAccepts DEF FederationInv
  <2>2. /\ hook[h] \in Querying /\ ClaimsInOrder(hook[h]) /\ FoundAll(hook[h])
    BY <1>1, HookKinds DEF FederationInv, WorkersAreSound
  <2>3. /\ hook[h].flight = {}
        /\ hook'[h].docs = {hook[h].paths[i] : i \in Accepted(hook[h].found)}
    BY <1>1, <2>1 DEF Accept, FederationInv, TypeOK
  <2> QED
    BY <1>1, <2>2, <2>3, AcceptsSequentially
<1>2. FederationInv /\ [Next]_vars =>
        [\A h \in Hooks :
           hook[h].pc = "query" /\ hook'[h].pc \in {"write", "print"} /\ hook[h].steady
             => hook'[h].docs = Sequential(hook[h])]_vars
  BY <1>1
<1> QED
  BY <1>2, Holds, PTL DEF Spec, AcceptsLikeSequential

-----------------------------------------------------------------------------
(***************************************************************************)
(* The comment gate.  The inductive invariant: what a call in progress is  *)
(* made of; and that while nobody else has written the file, an edit       *)
(* replaces lines of the file, and a call that the gate let through is one *)
(* it would let through again.                                             *)
(***************************************************************************)
AnyLine == Prose \cup OtherLines

IsWrite(c) == c.tool = "Write" /\ c.new \in Seq(AnyLine)

IsHunk(h) ==
  /\ h.new \in Seq(AnyLine) /\ h.old \in Seq(AnyLine)
  /\ h.first \in Nat \ {0} /\ h.last \in Nat /\ h.first <= h.last

IsEdit(c) ==
  /\ c.tool # "Write"
  /\ DOMAIN c.hunks \in {1..1, 1..2}
  /\ \A k \in DOMAIN c.hunks : IsHunk(c.hunks[k])

Underway == pc \in {"proposed", "allowed"}

GateTypeOK ==
  /\ file # NoFile => file \in Seq(AnyLine)
  /\ rewrites \in Nat
  /\ Underway => IsWrite(call) \/ IsEdit(call)

EditsReplaceLines ==
  Underway /\ call.tool # "Write" =>
    /\ file \in Seq(AnyLine)
    /\ rewrites = 0 =>
         /\ file # NoFile
         /\ \A k \in DOMAIN call.hunks : Range(call.hunks[k].old) \subseteq Range(file)

PassedTheGate ==
  pc = "allowed" /\ rewrites = 0 /\ agent \in Gates => ~Flagged(Fragments(call, "before"))

GateInv == GateTypeOK /\ EditsReplaceLines /\ PassedTheGate

(***************************************************************************)
(* What is judged.                                                         *)
(***************************************************************************)
LEMMA TextsAreLines ==
  ASSUME NEW n \in Nat, NEW text \in Texts(n)
  PROVE  text \in Seq(AnyLine)
BY DEF Texts, AnyLine

LEMMA RunsAreProse ==
  ASSUME NEW s \in Seq(AnyLine), NEW r \in ProseRuns(s)
  PROVE  /\ r # {} /\ r \subseteq DOMAIN s /\ IsFiniteSet(r)
         /\ \A i \in r : IsProse(s[i])
<1>1. PICK i \in DOMAIN s, j \in DOMAIN s : r = i..j
  BY DEF ProseRuns
<1>2. r # {} /\ \A x \in r : IsProse(s[x])
  BY DEF ProseRuns
<1>3. i \in 1..Len(s) /\ j \in 1..Len(s) /\ Len(s) \in Nat
  OBVIOUS
<1>4. r \subseteq DOMAIN s
  BY <1>1, <1>3
<1>5. IsFiniteSet(r)
  BY <1>1, <1>3, FS_Interval
<1> QED
  BY <1>2, <1>4, <1>5

LEMMA OccursHere ==
  ASSUME NEW s \in Seq(AnyLine), NEW i \in DOMAIN s
  PROVE  /\ Occurrences(SubSeq(s, 1, i), s[i]) \in Nat /\ Occurrences(s, s[i]) \in Nat
         /\ Occurrences(SubSeq(s, 1, i), s[i]) > 0
         /\ Occurrences(SubSeq(s, 1, i), s[i]) <= Occurrences(s, s[i])
<1> DEFINE here == {j \in DOMAIN SubSeq(s, 1, i) : SubSeq(s, 1, i)[j] = s[i]}
           all == {j \in DOMAIN s : s[j] = s[i]}
<1>1. Len(s) \in Nat /\ DOMAIN s = 1..Len(s) /\ i \in 1..Len(s)
  OBVIOUS
<1>2. SubSeq(s, 1, i) \in Seq(AnyLine) /\ Len(SubSeq(s, 1, i)) = i
      /\ \A j \in 1..i : SubSeq(s, 1, i)[j] = s[j]
  BY <1>1
<1>3. DOMAIN SubSeq(s, 1, i) = 1..i
  BY <1>1, <1>2
<1>4. i \in here /\ here \subseteq all
  BY <1>1, <1>2, <1>3
<1>5. IsFiniteSet(1..Len(s)) /\ all \subseteq 1..Len(s)
  BY <1>1, FS_Interval
<1>6. IsFiniteSet(all) /\ IsFiniteSet(here)
  BY <1>4, <1>5, FS_Subset
<1>7. Cardinality(here) \in Nat /\ Cardinality(all) \in Nat /\ Cardinality(here) <= Cardinality(all)
  BY <1>4, <1>6, FS_CardinalityType, FS_Subset
<1>8. Cardinality(here) # 0
  BY <1>4, <1>6, FS_EmptySet
<1>9. /\ Occurrences(SubSeq(s, 1, i), s[i]) = Cardinality(here)
      /\ Occurrences(s, s[i]) = Cardinality(all)
  BY DEF Occurrences
<1> HIDE DEF here, all
<1> QED
  BY <1>7, <1>8, <1>9

LEMMA OccurrencesAreCounted ==
  ASSUME NEW s \in Seq(AnyLine), NEW line
  PROVE  Occurrences(s, line) \in Nat
<1>1. IsFiniteSet(1..Len(s)) /\ {i \in DOMAIN s : s[i] = line} \subseteq 1..Len(s)
  BY FS_Interval
<1>2. Cardinality({i \in DOMAIN s : s[i] = line}) \in Nat
  BY <1>1, FS_Subset, FS_CardinalityType
<1> QED
  BY <1>2 DEF Occurrences

LEMMA NeverOccurs ==
  ASSUME NEW s, NEW line, line \notin Range(s)
  PROVE  Occurrences(s, line) = 0
<1>1. {i \in DOMAIN s : s[i] = line} = {}
  BY DEF Range
<1> QED
  BY <1>1, FS_EmptySet DEF Occurrences

\* A line that what is replaced does not have is new, wherever it is.
LEMMA NewLinesAreFresh ==
  ASSUME NEW f, f.text \in Seq(AnyLine), NEW i \in DOMAIN f.text,
         f.base = NoFile \/ f.text[i] \notin Range(f.base)
  PROVE  i \in Fresh(f)
<1>1. CASE f.base = NoFile
  BY <1>1 DEF Fresh
<1>2. CASE f.text[i] \notin Range(f.base)
  <2>1. Occurrences(f.base, f.text[i]) = 0
    BY <1>2, NeverOccurs
  <2>2. Occurrences(SubSeq(f.text, 1, i), f.text[i]) > 0
    BY OccursHere
  <2> QED
    BY <2>1, <2>2 DEF Fresh
<1> QED
  BY <1>1, <1>2

\* A block with a new line in it is refused.
LEMMA NewBlocksAreFlagged ==
  ASSUME NEW fragments, NEW k \in DOMAIN fragments, fragments[k].text \in Seq(AnyLine),
         NEW r \in ProseRuns(fragments[k].text), Cardinality(r) >= Threshold,
         NEW i \in r, i \in Fresh(fragments[k])
  PROVE  Flagged(fragments)
BY DEF Flagged, FlaggedRuns

\* The lines of prose that stand alone, and the number of them that is too many.
Lone(fragments) ==
  {ki \in (DOMAIN fragments) \X (1..MaxLines) : ki[2] \in Isolated(fragments[ki[1]])}

LEMMA FlaggedForTwoReasons ==
  ASSUME NEW fragments
  PROVE  Flagged(fragments) <=> \/ \E k \in DOMAIN fragments : FlaggedRuns(fragments[k]) # {}
                                \/ Cardinality(Lone(fragments)) >= 2
BY DEF Flagged, Lone, Threshold

\* What is refused has a new line of prose.
LEMMA FlaggedAddsProse ==
  ASSUME NEW fragments, \A k \in DOMAIN fragments : fragments[k].text \in Seq(AnyLine),
         Flagged(fragments)
  PROVE  \E k \in DOMAIN fragments : \E i \in Fresh(fragments[k]) : IsProse(fragments[k].text[i])
<1>1. CASE \E k \in DOMAIN fragments : FlaggedRuns(fragments[k]) # {}
  <2>1. PICK k \in DOMAIN fragments : FlaggedRuns(fragments[k]) # {}
    BY <1>1
  <2>2. PICK r \in ProseRuns(fragments[k].text) : r \cap Fresh(fragments[k]) # {}
    BY <2>1 DEF FlaggedRuns
  <2> QED
    BY <2>2, RunsAreProse
<1>2. CASE Cardinality(Lone(fragments)) >= 2
  <2>1. Lone(fragments) # {}
    <3>1. Cardinality({}) = 0 /\ ~(0 >= 2)
      BY FS_EmptySet
    <3>2. Cardinality(Lone(fragments)) # Cardinality({})
      BY <1>2, <3>1
    <3> QED
      BY <3>2
  <2>2. PICK ki \in (DOMAIN fragments) \X (1..MaxLines) : ki[2] \in Isolated(fragments[ki[1]])
    BY <2>1 DEF Lone
  <2> QED
    BY <2>2 DEF Isolated
<1> QED
  BY <1>1, <1>2, FlaggedForTwoReasons

\* Without what it replaces, a text is judged no milder.
LEMMA MoreIsFlagged ==
  ASSUME NEW text \in Seq(AnyLine), NEW base,
         Flagged(<<[text |-> text, base |-> base]>>)
  PROVE  Flagged(<<[text |-> text, base |-> NoFile]>>)
<1> DEFINE f == [text |-> text, base |-> base]
           g == [text |-> text, base |-> NoFile]
<1>1. Fresh(f) \subseteq Fresh(g)
  BY DEF Fresh
<1>2. /\ DOMAIN <<f>> = {1} /\ <<f>>[1] = f
      /\ DOMAIN <<g>> = {1} /\ <<g>>[1] = g
  OBVIOUS
<1>3. /\ Flagged(<<f>>) <=> FlaggedRuns(f) # {} \/ Cardinality(Lone(<<f>>)) >= 2
      /\ Flagged(<<g>>) <=> FlaggedRuns(g) # {} \/ Cardinality(Lone(<<g>>)) >= 2
  BY <1>2, FlaggedForTwoReasons
<1>4. /\ Lone(<<f>>) = {ki \in {1} \X (1..MaxLines) : ki[2] \in Isolated(f)}
      /\ Lone(<<g>>) = {ki \in {1} \X (1..MaxLines) : ki[2] \in Isolated(g)}
  BY <1>2 DEF Lone
<1>5. CASE FlaggedRuns(g) # {}
  BY <1>3, <1>5
<1>6. CASE FlaggedRuns(g) = {}
  <2>1. FlaggedRuns(f) \subseteq FlaggedRuns(g)
    BY <1>1 DEF FlaggedRuns
  <2>2. Isolated(f) \subseteq Isolated(g)
    BY <1>1, <1>6 DEF Isolated
  <2>3. Lone(<<f>>) \subseteq Lone(<<g>>) /\ Lone(<<g>>) \subseteq {1} \X (1..MaxLines)
    BY <1>4, <2>2
  <2>4. IsFiniteSet({1} \X (1..MaxLines))
    <3>1. IsFiniteSet(1..MaxLines)
      BY GateAssumption, FS_Interval
    <3>2. IsFiniteSet({1})
      BY FS_Singleton
    <3> QED
      BY <3>1, <3>2, FS_Product
  <2>5. IsFiniteSet(Lone(<<g>>)) /\ IsFiniteSet(Lone(<<f>>))
    BY <2>3, <2>4, FS_Subset
  <2>6. /\ Cardinality(Lone(<<f>>)) <= Cardinality(Lone(<<g>>))
        /\ Cardinality(Lone(<<f>>)) \in Nat /\ Cardinality(Lone(<<g>>)) \in Nat
    BY <2>3, <2>5, FS_Subset, FS_CardinalityType
  <2>7. Cardinality(Lone(<<f>>)) >= 2
    BY <1>3, <1>6, <2>1
  <2>8. Cardinality(Lone(<<g>>)) >= 2
    BY <2>6, <2>7
  <2> QED
    BY <1>3, <2>8
<1> QED
  BY <1>5, <1>6

(***************************************************************************)
(* The steps.                                                              *)
(***************************************************************************)
\* The fragments of a call, as texts and what they replace.
LEMMA FragmentsOfWrite ==
  ASSUME NEW c, IsWrite(c), NEW phase
  PROVE  Fragments(c, phase) =
           <<[text |-> c.new, base |-> IF phase = "before" THEN file ELSE NoFile]>>
BY DEF IsWrite, Fragments

LEMMA FragmentsOfEdit ==
  ASSUME NEW c, IsEdit(c), NEW phase
  PROVE  /\ DOMAIN Fragments(c, phase) = DOMAIN c.hunks
         /\ \A k \in DOMAIN c.hunks :
              /\ Fragments(c, phase)[k].text = c.hunks[k].new
              /\ Fragments(c, phase)[k].base = c.hunks[k].old
BY DEF IsEdit, Fragments

LEMMA FragmentsAreTexts ==
  ASSUME NEW c, IsWrite(c) \/ IsEdit(c), NEW phase
  PROVE  \A k \in DOMAIN Fragments(c, phase) : Fragments(c, phase)[k].text \in Seq(AnyLine)
<1>1. CASE IsWrite(c)
  BY <1>1, FragmentsOfWrite DEF IsWrite
<1>2. CASE IsEdit(c)
  BY <1>2, FragmentsOfEdit DEF IsEdit, IsHunk
<1> QED
  BY <1>1, <1>2

LEMMA GateInitially == GateInit => GateInv
<1> SUFFICES ASSUME GateInit PROVE GateInv
  OBVIOUS
<1>1. file # NoFile => file \in Seq(AnyLine)
  BY GateAssumption, TextsAreLines DEF GateInit
<1> QED
  BY <1>1 DEF GateInit, GateInv, GateTypeOK, EditsReplaceLines, PassedTheGate, Underway

\* What an agent may call.
LEMMA HunksAreLines ==
  ASSUME file \in Seq(AnyLine), NEW i \in DOMAIN file, NEW j \in DOMAIN file, i <= j,
         NEW new \in Seq(AnyLine)
  PROVE  IsHunk(Hunk(i, j, new)) /\ Range(Hunk(i, j, new).old) \subseteq Range(file)
<1>1. /\ Hunk(i, j, new).new = new /\ Hunk(i, j, new).old = SubSeq(file, i, j)
      /\ Hunk(i, j, new).first = i /\ Hunk(i, j, new).last = j
  BY DEF Hunk
<1>2. i \in 1..Len(file) /\ j \in 1..Len(file) /\ Len(file) \in Nat /\ DOMAIN file = 1..Len(file)
  OBVIOUS
<1>3. SubSeq(file, i, j) \in Seq(AnyLine)
  BY <1>2
<1>4. \A k \in DOMAIN SubSeq(file, i, j) :
        i + k - 1 \in DOMAIN file /\ SubSeq(file, i, j)[k] = file[i + k - 1]
  BY <1>2
<1>5. Range(SubSeq(file, i, j)) \subseteq Range(file)
  BY <1>4 DEF Range
<1> QED
  BY <1>1, <1>2, <1>3, <1>5 DEF IsHunk

LEMMA CallsAreProposed ==
  ASSUME GateTypeOK, NEW c \in Writes \cup Edits \cup MultiEdits
  PROVE  /\ IsWrite(c) \/ IsEdit(c)
         /\ c.tool # "Write" =>
              /\ file # NoFile /\ file \in Seq(AnyLine)
              /\ \A k \in DOMAIN c.hunks : Range(c.hunks[k].old) \subseteq Range(file)
<1>1. CASE c \in Writes
  <2>1. PICK text \in Texts(MaxLines) : c = [tool |-> "Write", new |-> text]
    BY <1>1 DEF Writes
  <2> QED
    BY <2>1, TextsAreLines, GateAssumption DEF IsWrite
<1>2. CASE c \in Edits
  <2>1. file # NoFile /\ file \in Seq(AnyLine)
    BY <1>2 DEF Edits, GateTypeOK
  <2>2. PICK span \in Spans(0), new \in Texts(2) :
          c = [tool |-> "Edit", hunks |-> <<Hunk(span[1], span[2], new)>>]
    BY <1>2, <2>1 DEF Edits
  <2>3. span[1] \in DOMAIN file /\ span[2] \in DOMAIN file /\ span[1] <= span[2]
    BY <2>1, <2>2 DEF Spans
  <2>4. new \in Seq(AnyLine)
    BY <2>2, TextsAreLines
  <2>5. IsHunk(Hunk(span[1], span[2], new)) /\ Range(Hunk(span[1], span[2], new).old) \subseteq Range(file)
    BY <2>1, <2>3, <2>4, HunksAreLines
  <2>6. c.tool = "Edit" /\ DOMAIN c.hunks = 1..1 /\ c.hunks[1] = Hunk(span[1], span[2], new)
    BY <2>2
  <2>7. \A k \in DOMAIN c.hunks :
          IsHunk(c.hunks[k]) /\ Range(c.hunks[k].old) \subseteq Range(file)
    BY <2>5, <2>6
  <2> QED
    BY <2>1, <2>6, <2>7 DEF IsEdit
<1>3. CASE c \in MultiEdits
  <2>1. file # NoFile /\ file \in Seq(AnyLine)
    BY <1>3 DEF MultiEdits, GateTypeOK
  <2>2. PICK span \in Spans(1), a \in Texts(1), b \in Texts(1) :
          c = [tool |-> "MultiEdit",
               hunks |-> <<Hunk(span[1], span[1], a), Hunk(span[2], span[2], b)>>]
    BY <1>3, <2>1 DEF MultiEdits
  <2>3. span[1] \in DOMAIN file /\ span[2] \in DOMAIN file
        /\ span[1] <= span[1] /\ span[2] <= span[2]
    BY <2>1, <2>2 DEF Spans
  <2>4. a \in Seq(AnyLine) /\ b \in Seq(AnyLine)
    BY <2>2, TextsAreLines
  <2>5. IsHunk(Hunk(span[1], span[1], a)) /\ Range(Hunk(span[1], span[1], a).old) \subseteq Range(file)
    BY <2>1, <2>3, <2>4, HunksAreLines
  <2>6. IsHunk(Hunk(span[2], span[2], b)) /\ Range(Hunk(span[2], span[2], b).old) \subseteq Range(file)
    BY <2>1, <2>3, <2>4, HunksAreLines
  <2>7. c.tool = "MultiEdit" /\ DOMAIN c.hunks = 1..2
        /\ c.hunks[1] = Hunk(span[1], span[1], a) /\ c.hunks[2] = Hunk(span[2], span[2], b)
    BY <2>2
  <2>8. \A k \in DOMAIN c.hunks :
          IsHunk(c.hunks[k]) /\ Range(c.hunks[k].old) \subseteq Range(file)
    BY <2>5, <2>6, <2>7
  <2> QED
    BY <2>1, <2>7, <2>8 DEF IsEdit
<1> QED
  BY <1>1, <1>2, <1>3

LEMMA PartsAreLines ==
  ASSUME NEW s \in Seq(AnyLine), NEW m \in Nat \ {0}, NEW n \in Int, n <= Len(s)
  PROVE  SubSeq(s, m, n) \in Seq(AnyLine)
<1>1. \A i \in m..n : s[i] \in AnyLine
  <2> TAKE i \in m..n
  <2>1. i \in 1..Len(s)
    OBVIOUS
  <2> QED
    BY <2>1
<1> QED
  BY <1>1, SubSeqProperties

LEMMA ResultsAreLines ==
  ASSUME NEW c, IsWrite(c) \/ IsEdit(c), c.tool # "Write" => file \in Seq(AnyLine), Applies(c)
  PROVE  Result(c) \in Seq(AnyLine)
<1>1. CASE IsWrite(c)
  BY <1>1 DEF IsWrite, Result
<1>2. CASE IsEdit(c)
  <2> DEFINE h == c.hunks[1]
             g == c.hunks[Len(c.hunks)]
             rest == SubSeq(file, g.last + 1, Len(file))
  <2>1. Len(c.hunks) \in DOMAIN c.hunks /\ 1 \in DOMAIN c.hunks
    BY <1>2 DEF IsEdit
  <2>2. /\ h.new \in Seq(AnyLine) /\ h.first \in Nat \ {0} /\ h.last \in Nat
        /\ g.new \in Seq(AnyLine) /\ g.first \in Nat \ {0} /\ g.last \in Nat
        /\ h.first <= h.last /\ g.first <= g.last
        /\ file \in Seq(AnyLine) /\ c.tool # "Write"
    BY <1>2, <2>1 DEF IsEdit, IsHunk
  <2>3. h.last <= Len(file) /\ g.last <= Len(file)
    BY <2>1, <2>2 DEF Applies
  <2> HIDE DEF h, g
  <2>4. /\ SubSeq(file, 1, h.first - 1) \in Seq(AnyLine)
        /\ SubSeq(file, h.last + 1, g.first - 1) \in Seq(AnyLine)
        /\ rest \in Seq(AnyLine)
    <3>1. /\ h.first - 1 \in Int /\ h.first - 1 <= Len(file)
          /\ h.last + 1 \in Nat \ {0}
          /\ g.first - 1 \in Int /\ g.first - 1 <= Len(file)
          /\ g.last + 1 \in Nat \ {0}
          /\ Len(file) \in Int /\ Len(file) <= Len(file) /\ 1 \in Nat \ {0}
      BY <2>2, <2>3
    <3>2. /\ SubSeq(file, 1, h.first - 1) \in Seq(AnyLine)
          /\ SubSeq(file, h.last + 1, g.first - 1) \in Seq(AnyLine)
      BY <2>2, <3>1, PartsAreLines
    <3>3. rest \in Seq(AnyLine)
      BY <2>2, <3>1, PartsAreLines
    <3> QED
      BY <3>2, <3>3
  <2>5. Result(c) = SubSeq(file, 1, h.first - 1) \o h.new
          \o (IF Len(c.hunks) = 1 THEN <<>> ELSE SubSeq(file, h.last + 1, g.first - 1) \o g.new)
          \o rest
    BY <2>2 DEF Result, h, g
  <2> HIDE DEF rest
  <2> QED
    BY <2>2, <2>4, <2>5
<1> QED
  BY <1>1, <1>2

LEMMA GateGoesOn == GateInv /\ [GateNext]_gateVars => GateInv'
<1> SUFFICES ASSUME GateInv, [GateNext]_gateVars PROVE GateInv'
  OBVIOUS
<1> USE DEF GateInv
<1>1. CASE Propose
  <2>1. pc' = "proposed" /\ call' \in Writes \cup Edits \cup MultiEdits
        /\ file' = file /\ rewrites' = rewrites
    BY <1>1 DEF Propose
  <2>2. /\ IsWrite(call') \/ IsEdit(call')
        /\ call'.tool # "Write" =>
             /\ file # NoFile /\ file \in Seq(AnyLine)
             /\ \A k \in DOMAIN call'.hunks : Range(call'.hunks[k].old) \subseteq Range(file)
    BY <2>1, CallsAreProposed
  <2>3. GateTypeOK'
    BY <2>1, <2>2 DEF GateTypeOK
  <2>4. EditsReplaceLines'
    BY <2>1, <2>2 DEF EditsReplaceLines
  <2>5. PassedTheGate'
    BY <2>1 DEF PassedTheGate
  <2> QED
    BY <2>3, <2>4, <2>5
<1>2. CASE PreToolUse
  <2>1. /\ pc = "proposed" /\ UNCHANGED <<agent, file, call, rewrites>>
        /\ pc' \in {"denied", "allowed"}
        /\ pc' = "allowed" /\ agent \in Gates => ~Flagged(Fragments(call, "before"))
    BY <1>2 DEF PreToolUse
  <2>2. Fragments(call, "before")' = Fragments(call, "before")
    BY <2>1 DEF Fragments
  <2>3. PassedTheGate'
    BY <2>1, <2>2 DEF PassedTheGate
  <2> QED
    BY <2>1, <2>3 DEF GateTypeOK, EditsReplaceLines, Underway
<1>3. CASE Rewrite
  <2>1. /\ pc = "allowed" /\ pc' = pc /\ call' = call /\ rewrites' = rewrites + 1
        /\ file' \in Texts(1)
    BY <1>3 DEF Rewrite
  <2>2. rewrites' # 0 /\ rewrites' \in Nat
    BY <2>1 DEF GateTypeOK
  <2>3. file' \in Seq(AnyLine)
    BY <2>1, TextsAreLines
  <2> QED
    BY <2>1, <2>2, <2>3 DEF GateTypeOK, EditsReplaceLines, PassedTheGate, Underway
<1>4. CASE Tool
  <2>1. pc' \in {"written", "denied"} /\ rewrites' = rewrites
    BY <1>4 DEF Tool
  <2>2. file' # NoFile => file' \in Seq(AnyLine)
    <3>1. CASE Applies(call) /\ file' = Result(call)
      BY <1>4, <3>1, ResultsAreLines DEF Tool, GateTypeOK, EditsReplaceLines, Underway
    <3>2. CASE file' = file
      BY <3>2 DEF GateTypeOK
    <3> QED
      BY <1>4, <3>1, <3>2 DEF Tool
  <2> QED
    BY <2>1, <2>2 DEF GateTypeOK, EditsReplaceLines, PassedTheGate, Underway
<1>5. CASE PostToolUse \/ Drop
  <2>1. pc' = "idle" /\ UNCHANGED <<file, rewrites>>
    BY <1>5 DEF PostToolUse, Drop
  <2> QED
    BY <2>1 DEF GateTypeOK, EditsReplaceLines, PassedTheGate, Underway
<1>6. CASE UNCHANGED gateVars
  BY <1>6 DEF gateVars, GateTypeOK, EditsReplaceLines, PassedTheGate, Underway, Fragments
<1> QED
  BY <1>1, <1>2, <1>3, <1>4, <1>5, <1>6 DEF GateNext

(***************************************************************************)
(* The two halves agree.                                                   *)
(***************************************************************************)
\* An edit is judged alike before and after: it carries what it replaces.
LEMMA EditsAreJudgedAlike ==
  ASSUME NEW c, IsEdit(c)
  PROVE  Fragments(c, "before") = Fragments(c, "after")
BY DEF IsEdit, Fragments

\* A write is judged no milder after.
LEMMA WritesAreJudgedHarder ==
  ASSUME NEW c, IsWrite(c), Flagged(Fragments(c, "before"))
  PROVE  Flagged(Fragments(c, "after"))
<1>1. /\ Fragments(c, "before") = <<[text |-> c.new, base |-> file]>>
      /\ Fragments(c, "after") = <<[text |-> c.new, base |-> NoFile]>>
  BY FragmentsOfWrite
<1>2. c.new \in Seq(AnyLine)
  BY DEF IsWrite
<1> QED
  BY <1>1, <1>2, MoreIsFlagged

\* Whatever is refused adds a line of prose to what it replaces.
LEMMA RefusedCallsAddProse ==
  ASSUME NEW c, IsWrite(c) \/ IsEdit(c), NEW phase, Flagged(Fragments(c, phase)),
         file # NoFile => file \in Seq(AnyLine)
  PROVE  \E f \in Range(Fragments(c, phase)) : \E i \in DOMAIN f.text :
           /\ IsProse(f.text[i])
           /\ f.base = NoFile \/ Occurrences(f.text, f.text[i]) > Occurrences(f.base, f.text[i])
<1> DEFINE F == Fragments(c, phase)
<1>1. \A k \in DOMAIN F : F[k].text \in Seq(AnyLine)
  BY FragmentsAreTexts
<1>2. PICK k \in DOMAIN F : \E i \in Fresh(F[k]) : IsProse(F[k].text[i])
  BY <1>1, FlaggedAddsProse
<1>3. PICK i \in Fresh(F[k]) : IsProse(F[k].text[i])
  BY <1>2
<1> DEFINE f == F[k]
<1>4. f \in Range(F) /\ f.text \in Seq(AnyLine)
  BY <1>1 DEF Range
<1>5. /\ i \in DOMAIN f.text
      /\ f.base = NoFile \/ Occurrences(SubSeq(f.text, 1, i), f.text[i]) > Occurrences(f.base, f.text[i])
  BY DEF Fresh
<1>6. f.base # NoFile => f.base \in Seq(AnyLine)
  BY FragmentsOfWrite, FragmentsOfEdit DEF IsEdit, IsHunk
<1> HIDE DEF F, f
<1>7. f.base = NoFile \/ Occurrences(f.text, f.text[i]) > Occurrences(f.base, f.text[i])
  <2>1. CASE f.base = NoFile
    BY <2>1
  <2>2. CASE f.base # NoFile /\ Occurrences(SubSeq(f.text, 1, i), f.text[i]) > Occurrences(f.base, f.text[i])
    <3>1. /\ Occurrences(SubSeq(f.text, 1, i), f.text[i]) \in Nat
          /\ Occurrences(f.text, f.text[i]) \in Nat
          /\ Occurrences(SubSeq(f.text, 1, i), f.text[i]) <= Occurrences(f.text, f.text[i])
      BY <1>4, <1>5, OccursHere
    <3>2. Occurrences(f.base, f.text[i]) \in Nat
      BY <1>6, <2>2, OccurrencesAreCounted
    <3> QED
      BY <2>2, <3>1, <3>2
  <2> QED
    BY <1>5, <2>1, <2>2
<1> QED
  BY <1>3, <1>4, <1>5, <1>7 DEF F, f

\* Gate and reminder judge a call alike (HalvesAgree): what the one would deny
\* the other would speak of, an edit raises both or neither, and only a call
\* that adds a line of prose to what it replaces is denied (judgeWrittenComments
\* on the fragments of writtenFragments, whatever the files and the texts).
THEOREM TheHalvesAgree == GateSpec => []HalvesAgree
<1>1. GateInv => HalvesAgree
  <2> SUFFICES ASSUME GateInv, pc = "proposed" PROVE HalvesAgree
    BY DEF HalvesAgree
  <2>1. IsWrite(call) \/ IsEdit(call)
    BY DEF GateInv, GateTypeOK, Underway
  <2>2. Flagged(Fragments(call, "before")) => Flagged(Fragments(call, "after"))
    BY <2>1, EditsAreJudgedAlike, WritesAreJudgedHarder
  <2>3. call.tool # "Write" =>
          (Flagged(Fragments(call, "before")) = Flagged(Fragments(call, "after")))
    BY <2>1, EditsAreJudgedAlike DEF IsWrite
  <2>4. Flagged(Fragments(call, "before")) =>
          \E f \in Range(Fragments(call, "before")) : \E i \in DOMAIN f.text :
             /\ IsProse(f.text[i])
             /\ f.base = NoFile \/ Occurrences(f.text, f.text[i]) > Occurrences(f.base, f.text[i])
    BY <2>1, RefusedCallsAddProse DEF GateInv, GateTypeOK
  <2> QED
    BY <2>2, <2>3, <2>4 DEF HalvesAgree
<1> QED
  BY <1>1, GateInitially, GateGoesOn, PTL DEF GateSpec

(***************************************************************************)
(* What gets past the gate.                                                *)
(***************************************************************************)
LEMMA WrittenBlocksAreSeen ==
  ASSUME GateInv, agent \in Gates, pc = "allowed", rewrites = 0, IsWrite(call),
         NEW r \in ProseRuns(call.new), NEW i \in r, Cardinality(r) >= Threshold,
         file = NoFile \/ call.new[i] \notin Range(file)
  PROVE  FALSE
<1> DEFINE f == [text |-> call.new, base |-> file]
<1>1. Fragments(call, "before") = <<f>>
  BY FragmentsOfWrite
<1>2. f.text = call.new /\ f.base = file /\ <<f>>[1] = f /\ 1 \in DOMAIN <<f>>
      /\ call.new \in Seq(AnyLine)
  BY DEF IsWrite
<1>3. i \in DOMAIN f.text
  BY <1>2, RunsAreProse
<1>4. i \in Fresh(f)
  BY <1>2, <1>3, NewLinesAreFresh
<1>5. Flagged(<<f>>)
  BY <1>2, <1>4, NewBlocksAreFlagged
<1> QED
  BY <1>1, <1>5 DEF GateInv, PassedTheGate

LEMMA EditedBlocksAreSeen ==
  ASSUME GateInv, agent \in Gates, pc = "allowed", rewrites = 0, IsEdit(call),
         NEW k \in DOMAIN call.hunks, NEW q \in ProseRuns(call.hunks[k].new), Cardinality(q) # 1,
         NEW x \in q, call.hunks[k].new[x] \notin Range(file)
  PROVE  FALSE
<1> DEFINE F == Fragments(call, "before")
<1>1. /\ k \in DOMAIN F /\ F[k].text = call.hunks[k].new /\ F[k].base = call.hunks[k].old
      /\ F[k].text \in Seq(AnyLine)
  BY FragmentsOfEdit DEF IsEdit, IsHunk
<1>2. Range(call.hunks[k].old) \subseteq Range(file)
  BY DEF GateInv, EditsReplaceLines, Underway, IsEdit
<1>3. q # {} /\ IsFiniteSet(q) /\ q \subseteq DOMAIN F[k].text
  BY <1>1, RunsAreProse
<1>4. Cardinality(q) >= Threshold
  <2>1. Cardinality(q) \in Nat /\ Cardinality(q) # 0
    BY <1>3, FS_CardinalityType, FS_EmptySet
  <2> QED
    BY <2>1 DEF Threshold
<1>5. x \in Fresh(F[k])
  BY <1>1, <1>2, <1>3, NewLinesAreFresh
<1>6. Flagged(F)
  BY <1>1, <1>4, <1>5, NewBlocksAreFlagged
<1> QED
  BY <1>6 DEF GateInv, PassedTheGate

\* A block with a new line of prose gets past the gate only where it cannot see
\* it (BlocksPassUnseen): an edit that writes the line without its neighbour, or
\* a file somebody else wrote after computeCommentBlock looked at it.
THEOREM BlocksSlipOnlyUnseen == GateSpec => BlocksPassUnseen
<1>1. ASSUME GateInv, GateNext, agent \in Gates, pc = "allowed", pc' = "written", rewrites = 0,
             NEW r \in ProseRuns(file'), NEW i \in r, Cardinality(r) >= Threshold,
             file = NoFile \/ file'[i] \notin Range(file)
      PROVE  /\ call.tool # "Write"
             /\ \A k \in DOMAIN call.hunks : \A q \in ProseRuns(call.hunks[k].new) :
                  Cardinality(q) = 1 \/ \A x \in q : call.hunks[k].new[x] # file'[i]
  <2>1. Tool
    BY <1>1 DEF GateNext, Propose, PreToolUse, Rewrite, PostToolUse, Drop
  <2>2. file' = Result(call)
    BY <1>1, <2>1 DEF Tool
  <2>3. IsWrite(call) \/ IsEdit(call)
    BY <1>1 DEF GateInv, GateTypeOK, Underway
  <2>4. call.tool # "Write"
    <3> SUFFICES ASSUME call.tool = "Write" PROVE FALSE
      OBVIOUS
    <3>1. IsWrite(call)
      BY <2>3 DEF IsEdit
    <3>2. file' = call.new
      BY <2>2, <3>1 DEF Result, IsWrite
    <3> QED
      BY <1>1, <3>1, <3>2, WrittenBlocksAreSeen
  <2>5. IsEdit(call)
    BY <2>3, <2>4 DEF IsWrite
  <2>6. file # NoFile
    BY <1>1, <2>4 DEF GateInv, EditsReplaceLines, Underway
  <2>7. ASSUME NEW k \in DOMAIN call.hunks, NEW q \in ProseRuns(call.hunks[k].new),
               Cardinality(q) # 1, NEW x \in q, call.hunks[k].new[x] = file'[i]
        PROVE  FALSE
    BY <1>1, <2>5, <2>6, <2>7, EditedBlocksAreSeen
  <2> QED
    BY <2>4, <2>7
<1>2. GateInv /\ [GateNext]_gateVars =>
        [(agent \in Gates /\ pc = "allowed" /\ pc' = "written" /\ rewrites = 0) =>
           \A r \in ProseRuns(file') : \A i \in r :
             (Cardinality(r) >= Threshold /\ (file = NoFile \/ file'[i] \notin Range(file))) =>
               /\ call.tool # "Write"
               /\ \A k \in DOMAIN call.hunks : \A q \in ProseRuns(call.hunks[k].new) :
                    Cardinality(q) = 1 \/ \A x \in q : call.hunks[k].new[x] # file'[i]]_gateVars
  <2> SUFFICES ASSUME GateInv, GateNext, agent \in Gates, pc = "allowed", pc' = "written", rewrites = 0,
                      NEW r \in ProseRuns(file'), NEW i \in r, Cardinality(r) >= Threshold,
                      file = NoFile \/ file'[i] \notin Range(file)
               PROVE  /\ call.tool # "Write"
                      /\ \A k \in DOMAIN call.hunks : \A q \in ProseRuns(call.hunks[k].new) :
                           Cardinality(q) = 1 \/ \A x \in q : call.hunks[k].new[x] # file'[i]
    OBVIOUS
  <2> QED
    BY <1>1
<1> QED
  BY <1>2, GateInitially, GateGoesOn, PTL DEF GateSpec, BlocksPassUnseen
=============================================================================
