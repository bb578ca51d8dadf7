--------------------------- MODULE DocumentPolicy ---------------------------
(***************************************************************************)
(* The rules a document is held to: what it says of its review (`lat      *)
(* check status`, the note above a quoted section), the mode it is written *)
(* in (`lat check mode`), the gate in the root index that makes a mode     *)
(* compulsory, and the check of the frontmatter all of this is read from.  *)
(* The text is lines of a few kinds; people and agents edit it.            *)
(***************************************************************************)
EXTENDS Integers, Sequences, FiniteSets, SequencesExt

CONSTANTS
  Bodies,        \* the texts a document starts with
  Words,         \* what a line may say
  MaxText,       \* bound: lines of a text
  MaxRevisions,  \* bound: edits
  Unset          \* nothing written, nobody

VARIABLES
  doc,   \* the document: its place, its frontmatter and its text
  gate,  \* the frontmatter of the root index: require-mode
  read,  \* the text as a person last read it and recorded the review, or Unset
  revisions

policyVars == <<doc, gate, read, revisions>>

Modes == {"tutorial", "how-to", "reference", "explanation"}
Statuses == {"human-reviewed", "agent-extracted"}

\* The directory of a mode or another, and whether the file is the index of it.
Homes == [dir : Modes \cup {"other"}, index : BOOLEAN]

\* Fields are nested under `lat:`, written at the root, or in a block that is not YAML.
Blocks == {"lat", "root", "broken"}
Endings == {"lf", "crlf"}

Headings == {"h1", "h2"}
Fences == {"fence3", "fence4"}
Paragraphs == {"para", "command", "outcome"}
Line(kind, word) == <<kind, word>>
Lines ==
  ({"h1", "para"} \X Words)
    \cup (({"h2", "command", "outcome", "steps", "table"} \cup Fences) \X {""})

ASSUME PolicyAssumption ==
  /\ Bodies \subseteq Seq(Lines)
  /\ Unset \notin Modes \cup Statuses \cup {"other", "true", "yes"}
  /\ Unset \notin Seq(Lines \cup {Line("h1", "")})

-----------------------------------------------------------------------------
\* Markdown's fences: one is closed by a fence that is at least as long.
Size(line) == IF line[1] = "fence3" THEN 3 ELSE IF line[1] = "fence4" THEN 4 ELSE 0

\* The length of the fence that is open after line i, or 0.
OpenFence(body) ==
  LET open[i \in 0..Len(body)] ==
        IF i = 0 THEN 0
        ELSE LET size == Size(body[i])
             IN IF size = 0 THEN open[i - 1]
                ELSE IF open[i - 1] = 0 THEN size
                ELSE IF size >= open[i - 1] THEN 0 ELSE open[i - 1]
  IN open

InCode(body) ==
  LET open == OpenFence(body)
  IN {i \in DOMAIN body : open[i] # 0 \/ open[i - 1] # 0}

\* fencedLineMask: every fence opens or closes, whatever its length.
Fenced(body) ==
  {i \in DOMAIN body :
     body[i][1] \in Fences \/ Cardinality({j \in 1..i : body[j][1] \in Fences}) % 2 = 1}

\* Defect of HashReviewedBody: a line that looks like a heading is one, in code too.
HashOfAnyHeading(body) ==
  [i \in DOMAIN body |-> IF body[i][1] \in Headings THEN Line(body[i][1], "") ELSE body[i]]

\* hashReviewedBody: the lines, of a heading its level only.
HashReviewedBody(body) ==
  [i \in DOMAIN body |->
     IF body[i][1] \in Headings /\ i \notin Fenced(body) THEN Line(body[i][1], "") ELSE body[i]]

-----------------------------------------------------------------------------
\* What parseFrontmatter returns: nothing in a file saved with CRLF, where the
\* delimiters are not recognised; nothing and a problem when it is not YAML; and a
\* problem for every field of ours at the root, where it is not read.
Field(file, value) == IF file.eol = "lf" /\ file.block = "lat" THEN value ELSE Unset

Problems(file, written) ==
  file.eol = "lf" /\ (file.block = "broken" \/ (file.block = "root" /\ written))

CheckFrontmatter ==
  \/ Problems(doc, doc.mode # Unset \/ doc.status # Unset \/ doc.hash # Unset)
  \/ Problems(gate, gate.value # Unset)

Provenance == [status |-> Field(doc, doc.status), hash |-> Field(doc, doc.hash)]

\* The note a reader is shown above the text.
ProvenanceNote ==
  IF Provenance.status = Unset THEN Unset
  ELSE IF Provenance.status # "human-reviewed" THEN "unreviewed"
  ELSE IF Provenance.hash \in {Unset, HashReviewedBody(doc.body)} THEN "reviewed"
  ELSE "stale"

CheckStatus ==
  LET status == Provenance.status
      hash == Provenance.hash
  IN \/ status \in {Unset, "agent-extracted"} /\ hash # Unset
     \/ status \notin Statuses \cup {Unset}
     \/ status = "human-reviewed" /\ hash \notin {Unset, HashReviewedBody(doc.body)}

-----------------------------------------------------------------------------
\* The rules of the modes, on the text as Markdown has it.
OrderedList == \E i \in DOMAIN doc.body \ InCode(doc.body) : doc.body[i][1] = "steps"
OutcomeStated == \E i \in DOMAIN doc.body \ InCode(doc.body) : doc.body[i][1] = "outcome"

\* A second paragraph under a heading; a table is none.
ExtraParagraph ==
  LET code == InCode(doc.body)
      text(i) == i \notin code
  IN \E i, j, h \in DOMAIN doc.body :
       /\ h < i /\ i < j /\ text(h) /\ text(i) /\ text(j)
       /\ doc.body[h][1] \in Headings
       /\ doc.body[i][1] \in Paragraphs /\ doc.body[j][1] \in Paragraphs
       /\ \A k \in (i + 1)..(j - 1) : ~(text(k) /\ doc.body[k][1] \in Headings)

Imperative == \E i \in DOMAIN doc.body \ InCode(doc.body) : doc.body[i][1] = "command"

BreaksMode(mode) ==
  CASE mode = "how-to" -> ~OrderedList
    [] mode = "tutorial" -> ~OrderedList \/ ~OutcomeStated
    [] mode = "reference" -> ExtraParagraph
    [] mode = "explanation" -> Imperative

DirMode == IF doc.place.dir \in Modes THEN doc.place.dir ELSE Unset

ModeOf == IF Field(doc, doc.mode) # Unset THEN Field(doc, doc.mode) ELSE DirMode

\* The gate is on when the field is the boolean `true`; anything else that is
\* written there and is no boolean is reported.
RequireMode == Field(gate, gate.value) = "true"

CheckMode(requireMode) ==
  \/ Field(gate, gate.value) = "yes"
  \/ ModeOf = Unset /\ requireMode /\ ~doc.place.index
  \/ ModeOf \notin Modes \cup {Unset}
  \/ ModeOf \in Modes /\ DirMode \notin {Unset, ModeOf}
  \/ ModeOf \in Modes /\ DirMode \in {Unset, ModeOf} /\ BreaksMode(ModeOf)

-----------------------------------------------------------------------------
PolicyInit ==
  /\ \E body \in Bodies, place \in Homes :
       doc = [place |-> place, eol |-> "lf", block |-> "lat", mode |-> Unset,
              status |-> Unset, hash |-> Unset, body |-> body]
  /\ gate \in [value : {"true", Unset}, block : {"lat"}, eol : {"lf"}]
  /\ read = Unset
  /\ revisions = 0

\* A person reads the text and records the review.
Review ==
  /\ read = Unset
  /\ doc' = [doc EXCEPT !.status = "human-reviewed", !.hash = HashReviewedBody(doc.body)]
  /\ read' = doc.body
  /\ UNCHANGED <<gate, revisions>>

\* A line is rewritten, added or taken out.
Edited(body) ==
  LET rewritten == UNION {{[body EXCEPT ![i] = line] : line \in Lines} : i \in DOMAIN body}
  IN rewritten
     \cup {Append(body, line) : line \in Lines}
     \cup {RemoveAt(body, i) : i \in DOMAIN body}

EditBody ==
  /\ revisions < MaxRevisions
  /\ \E body \in Edited(doc.body) :
       /\ Len(body) \in 1..MaxText /\ body # doc.body
       /\ doc' = [doc EXCEPT !.body = body]
  /\ revisions' = revisions + 1
  /\ UNCHANGED <<gate, read>>

\* A field of the frontmatter, how it is written, or the place of the file.
EditFront ==
  /\ revisions < MaxRevisions
  /\ \/ \E mode \in Modes \cup {"other", Unset} : doc' = [doc EXCEPT !.mode = mode]
     \/ \E status \in Statuses \cup {"other", Unset} : doc' = [doc EXCEPT !.status = status]
     \/ \E block \in Blocks, eol \in Endings : doc' = [doc EXCEPT !.block = block, !.eol = eol]
     \/ \E place \in Homes : doc' = [doc EXCEPT !.place = place]
  /\ doc' # doc
  /\ revisions' = revisions + 1
  /\ UNCHANGED <<gate, read>>

EditGate ==
  /\ revisions < MaxRevisions
  /\ gate' \in [value : {"true", "yes", Unset}, block : Blocks, eol : Endings] \ {gate}
  /\ revisions' = revisions + 1
  /\ UNCHANGED <<doc, read>>

PolicyNext == Review \/ EditBody \/ EditFront \/ EditGate

PolicySpec == PolicyInit /\ [][PolicyNext]_policyVars

-----------------------------------------------------------------------------
\* What a review covers: everything but the words of the headings.
Claims(body) ==
  LET code == InCode(body)
  IN [i \in DOMAIN body |->
        IF body[i][1] \in Headings /\ i \notin code THEN Line(body[i][1], "") ELSE body[i]]

BothFences(body) == Fences \subseteq {body[i][1] : i \in DOMAIN body}

\* A review never covers a text that nobody read ("a plain `status` field becomes a
\* lie the moment an agent edits the document", hashReviewedBody): once the text
\* says something else, and while the frontmatter still claims the review, its
\* reader is told that it is stale and the check reports it, or reports that the
\* frontmatter is not read.  Retitling does not count.  Two exceptions: a file saved
\* with CRLF has no frontmatter for any reader, and fences of two lengths confuse
\* which lines are headings.
StaleReviewsShow ==
  (/\ read # Unset /\ doc.status = "human-reviewed"
   /\ doc.eol = "lf" /\ ~BothFences(doc.body) /\ ~BothFences(read)) =>
    IF doc.block # "lat" THEN CheckFrontmatter
    ELSE /\ (Claims(doc.body) # Claims(read)) = (ProvenanceNote = "stale")
         /\ ProvenanceNote = "stale" => CheckStatus

\* The gate does what its line says or somebody is told ("enforcing nothing on them
\* while saying nothing about them is how a project ends up believing the gate is
\* on", readRequireModeFlag), a root index saved with CRLF excepted.  With it a
\* passing check leaves no document without a mode but the indexes, and it costs
\* nothing to documents that have one.
GateDoesWhatItSays ==
  /\ gate.value # Unset /\ gate.eol = "lf" =>
       RequireMode \/ CheckMode(RequireMode) \/ CheckFrontmatter
  /\ RequireMode /\ ~CheckMode(RequireMode) => doc.place.index \/ ModeOf \in Modes
  /\ CheckMode(TRUE) # CheckMode(FALSE) => ModeOf = Unset /\ ~doc.place.index

\* Both: what a document says of its review and its mode is what it is held to.
PolicyHolds == StaleReviewsShow /\ GateDoesWhatItSays
=============================================================================
