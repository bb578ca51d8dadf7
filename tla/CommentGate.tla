----------------------------- MODULE CommentGate -----------------------------
(***************************************************************************)
(* The comment convention around an agent's writes: the gate that refuses  *)
(* prose before the write and the reminder after it, which share one       *)
(* judgement of what a call writes (cli/comment-reminder.ts,               *)
(* cli/comment-guard.ts, and the tool hooks of cli/hook.ts and             *)
(* fork/antigravity-hook.ts).                                              *)
(*                                                                         *)
(* A file is a sequence of lines; of a comment line only its identity and  *)
(* whether it counts as prose matter: pointers, pragmas, opt-outs and      *)
(* decoration are other lines.                                             *)
(***************************************************************************)
EXTENDS Integers, Sequences, FiniteSets, FiniteSetsExt, Functions

CONSTANTS
    Prose,        \* comment lines that count
    OtherLines,   \* every other line
    MaxLines,     \* of a file and of what a call writes
    NoFile,       \* no file, no call
    MaxCalls, MaxRewrites

ASSUME GateAssumption ==
  /\ Prose \cap OtherLines = {}
  /\ {MaxLines, MaxCalls, MaxRewrites} \subseteq Nat

VARIABLES
    agent,      \* whose hooks run
    file,       \* the lines of the file, or NoFile
    call,       \* the call in progress, or NoFile
    pc,         \* "idle", "proposed", "allowed", "denied", "written"
    reminded,   \* the marker of this file in this session
    calls, rewrites

gateVars == <<agent, file, call, pc, reminded, calls, rewrites>>

\* Cursor's payloads reach the reminder without what they replace.
Agents == {"claude", "codex", "cursor", "antigravity"}
Gates == {"claude", "antigravity"}
Reminders == {"claude", "codex", "cursor"}

Threshold == 2
Texts(n) == UNION {[1..k -> Prose \cup OtherLines] : k \in 0..n}

-----------------------------------------------------------------------------
(* The judgement of a call: its fragments, each against what it replaces. *)

Occurrences(s, line) == Cardinality({i \in DOMAIN s : s[i] = line})

\* isCandidateCommentLine
IsProse(line) == line \in Prose

\* A line that its baseline holds often enough was already there.
Fresh(f) ==
  {i \in DOMAIN f.text :
     f.base = NoFile \/ Occurrences(SubSeq(f.text, 1, i), f.text[i]) > Occurrences(f.base, f.text[i])}

\* Maximal runs of adjacent comment lines.
ProseRuns(s) ==
  {r \in {i..j : i \in DOMAIN s, j \in DOMAIN s} \ {{}} :
     /\ \A i \in r : IsProse(s[i])
     /\ \A i \in {Min(r) - 1, Max(r) + 1} \cap DOMAIN s : ~IsProse(s[i])}

\* Defect: only new lines add up to a block.
FlaggedIncrements(f) == {r \in ProseRuns(f.text) : Cardinality(r \cap Fresh(f)) >= Threshold}

FlaggedRuns(f) ==
  {r \in ProseRuns(f.text) : Cardinality(r) >= Threshold /\ r \cap Fresh(f) # {}}

Isolated(f) == {i \in Fresh(f) : IsProse(f.text[i])} \ UNION FlaggedRuns(f)

\* judgeWrittenComments
Flagged(fragments) ==
  \/ \E k \in DOMAIN fragments : FlaggedRuns(fragments[k]) # {}
  \/ Cardinality({ki \in (DOMAIN fragments) \X (1..MaxLines) : ki[2] \in Isolated(fragments[ki[1]])})
       >= Threshold

\* Defect: after the write, what is on disk counts as replaced.
FragmentsOnDisk(c, phase) ==
  IF c.tool = "Write" THEN <<[text |-> c.new, base |-> IF phase = "before" THEN file ELSE c.new]>>
  ELSE [k \in DOMAIN c.hunks |-> [text |-> c.hunks[k].new, base |-> c.hunks[k].old]]

\* writtenFragments: a whole file against the disk, which is a baseline only
\* before the write; a hunk against the text it carries as replaced.
Fragments(c, phase) ==
  IF c.tool = "Write" THEN <<[text |-> c.new, base |-> IF phase = "before" THEN file ELSE NoFile]>>
  ELSE [k \in DOMAIN c.hunks |-> [text |-> c.hunks[k].new, base |-> c.hunks[k].old]]

\* handleCursorPostToolUse passes what is written as a whole file's content.
AsContent(c) ==
  IF c.tool = "Write" THEN Fragments(c, "after")
  ELSE [k \in DOMAIN c.hunks |-> [text |-> c.hunks[k].new, base |-> NoFile]]

-----------------------------------------------------------------------------
(* What an agent may call. *)

Spans(gap) == {ij \in (DOMAIN file) \X (DOMAIN file) : ij[1] + gap <= ij[2]}

Hunk(i, j, new) == [first |-> i, last |-> j, old |-> SubSeq(file, i, j), new |-> new]

Writes == {[tool |-> "Write", new |-> text] : text \in Texts(MaxLines) \ {<<>>}}

Edits ==
  IF file = NoFile THEN {}
  ELSE UNION {{[tool |-> "Edit", hunks |-> <<Hunk(span[1], span[2], new)>>] : new \in Texts(2)} :
                span \in Spans(0)}

MultiEdits ==
  IF file = NoFile THEN {}
  ELSE UNION {{[tool |-> "MultiEdit", hunks |-> <<Hunk(span[1], span[1], a), Hunk(span[2], span[2], b)>>] :
                 a \in Texts(1), b \in Texts(1)} :
                span \in Spans(1)}

\* The hunks apply where their text still stands; a call fails otherwise.
Applies(c) ==
  IF c.tool = "Write" THEN TRUE
  ELSE \A k \in DOMAIN c.hunks :
         LET h == c.hunks[k] IN h.last <= Len(file) /\ SubSeq(file, h.first, h.last) = h.old

Result(c) ==
  IF c.tool = "Write" THEN c.new
  ELSE LET h == c.hunks[1]
           g == c.hunks[Len(c.hunks)]
           rest == SubSeq(file, g.last + 1, Len(file))
       IN  SubSeq(file, 1, h.first - 1) \o h.new
             \o (IF Len(c.hunks) = 1 THEN <<>> ELSE SubSeq(file, h.last + 1, g.first - 1) \o g.new)
             \o rest

-----------------------------------------------------------------------------
GateInit ==
  /\ agent \in Agents
  /\ file \in (Texts(MaxLines) \ {<<>>}) \cup {NoFile}
  /\ call = NoFile /\ pc = "idle" /\ reminded = FALSE /\ calls = 0 /\ rewrites = 0

Propose ==
  /\ pc = "idle" /\ calls < MaxCalls /\ calls' = calls + 1
  /\ call' \in Writes \cup Edits \cup MultiEdits
  /\ pc' = "proposed"
  /\ UNCHANGED <<agent, file, reminded, rewrites>>

\* computeCommentBlock, where the agent has the gate.
PreToolUse ==
  /\ pc = "proposed"
  /\ pc' = IF agent \in Gates /\ Flagged(Fragments(call, "before")) THEN "denied" ELSE "allowed"
  /\ UNCHANGED <<agent, file, call, reminded, calls, rewrites>>

\* Somebody else writes the file between the hook and the tool.
Rewrite ==
  /\ pc = "allowed" /\ rewrites < MaxRewrites /\ rewrites' = rewrites + 1
  /\ file' \in Texts(1) \ {file, <<>>}
  /\ UNCHANGED <<agent, call, pc, reminded, calls>>

Tool ==
  /\ pc = "allowed"
  /\ \/ /\ Applies(call) /\ Len(Result(call)) \in 1..MaxLines
        /\ file' = Result(call) /\ pc' = "written"
     \/ /\ ~Applies(call)
        /\ pc' = "denied" /\ UNCHANGED file
  /\ UNCHANGED <<agent, call, reminded, calls, rewrites>>

\* computeCommentReminder: once for a file in a session.
PostToolUse ==
  /\ pc = "written"
  /\ LET fragments == IF agent = "cursor" THEN AsContent(call) ELSE Fragments(call, "after")
     IN  reminded' = (reminded \/ (agent \in Reminders /\ Flagged(fragments)))
  /\ pc' = "idle" /\ call' = NoFile
  /\ UNCHANGED <<agent, file, calls, rewrites>>

Drop ==
  /\ \/ pc = "denied"
     \/ pc = "allowed" /\ Applies(call) /\ Len(Result(call)) \notin 1..MaxLines
  /\ pc' = "idle" /\ call' = NoFile
  /\ UNCHANGED <<agent, file, reminded, calls, rewrites>>

GateNext == Propose \/ PreToolUse \/ Rewrite \/ Tool \/ PostToolUse \/ Drop

GateSpec == GateInit /\ [][GateNext]_gateVars

-----------------------------------------------------------------------------
\* A block of prose gets past the gate only out of its sight: if a written file
\* holds adjacent comment lines one of which is new to it, then an edit wrote
\* that line without the neighbour, or the file changed after the gate looked.
BlocksPassUnseen ==
  [][(agent \in Gates /\ pc = "allowed" /\ pc' = "written" /\ rewrites = 0) =>
       \A r \in ProseRuns(file') : \A i \in r :
         (Cardinality(r) >= Threshold /\ (file = NoFile \/ file'[i] \notin Range(file))) =>
           /\ call.tool # "Write"
           /\ \A k \in DOMAIN call.hunks : \A q \in ProseRuns(call.hunks[k].new) :
                Cardinality(q) = 1 \/ \A x \in q : call.hunks[k].new[x] # file'[i]]_gateVars

\* The two halves agree: whatever the gate would deny, the reminder would speak
\* of once it was written; an edit that repeats comments it replaces raises
\* neither; and only a call that adds a comment line to what it replaces is
\* denied at all.
HalvesAgree ==
  pc = "proposed" =>
    LET before == Flagged(Fragments(call, "before"))
        after == Flagged(Fragments(call, "after"))
    IN  /\ before => after
        /\ call.tool # "Write" => before = after
        /\ before => \E f \in Range(Fragments(call, "before")) : \E i \in DOMAIN f.text :
             IsProse(f.text[i]) /\ (f.base = NoFile \/ Occurrences(f.text, f.text[i]) > Occurrences(f.base, f.text[i]))

=============================================================================
