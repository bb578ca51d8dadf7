------------------------------ MODULE StopHook ------------------------------
(***************************************************************************)
(* The end of an agent's turn: the Stop hook holds the agent back once     *)
(* while the validators it runs report an error, or while the code changed *)
(* much and the vault hardly (handleStop, handleCursorStop and             *)
(* getStopStatus of cli/hook.ts, handleAntigravityStop of                  *)
(* fork/antigravity-hook.ts), beside `lat check` (checkAllCommand of       *)
(* cli/check.ts), which runs more validators.                              *)
(***************************************************************************)
EXTENDS Integers, FiniteSets

CONSTANTS
    Churns,       \* [code, vault : Nat], the changed lines since HEAD
    MaxChanges, MaxTurns

VARIABLES
    agent,
    failing,    \* the validators that report an error
    churn,      \* in Churns
    turn,       \* "works", "stops", "over"
    held,       \* stop_hook_active: the hook held this turn back already
    changes, turns

vars == <<agent, failing, churn, turn, held, changes, turns>>

Agents == {"claude", "codex", "cursor", "antigravity"}

\* checkAllCommand, without the readability warnings of diagrams.
Validators ==
  {"md", "links", "code", "index", "sections", "diagrams", "mode", "status",
   "frontmatter", "coverage"}

LatCheckPasses == failing = {}

\* getStopStatus
StopValidators == {"md", "code", "index", "sections", "mode"}

\* LATMD_RATIO is one in twenty.
NeedsSync ==
  /\ churn.code >= 5 /\ churn.vault < 50
  /\ churn.vault * 20 < churn.code

\* formatStopReason
HasReason == failing \cap StopValidators # {} \/ NeedsSync

-----------------------------------------------------------------------------
Init ==
  /\ agent \in Agents /\ failing = {} /\ churn \in Churns
  /\ turn = "works" /\ held = FALSE /\ changes = 0 /\ turns = 0

Break(v) ==
  /\ turn = "works" /\ changes < MaxChanges /\ changes' = changes + 1
  /\ v \notin failing /\ failing' = failing \cup {v}
  /\ UNCHANGED <<agent, churn, turn, held, turns>>

Mend ==
  /\ turn = "works" /\ failing # {} /\ failing' = {}
  /\ UNCHANGED <<agent, churn, turn, held, changes, turns>>

Edit ==
  /\ turn = "works" /\ changes < MaxChanges /\ changes' = changes + 1
  /\ churn' \in Churns \ {churn}
  /\ UNCHANGED <<agent, failing, turn, held, turns>>

TriesToStop ==
  /\ turn = "works" /\ turn' = "stops"
  /\ UNCHANGED <<agent, failing, churn, held, changes, turns>>

\* Cursor's hook has no second pass: it asks for a followup every time.
Stop ==
  /\ turn = "stops"
  /\ LET holds == HasReason /\ (held => agent = "cursor") IN
     /\ turn' = IF holds THEN "works" ELSE "over"
     /\ held' = (held \/ holds)
  /\ UNCHANGED <<agent, failing, churn, changes, turns>>

Prompt ==
  /\ turn = "over" /\ turns < MaxTurns /\ turns' = turns + 1
  /\ turn' = "works" /\ held' = FALSE
  /\ UNCHANGED <<agent, failing, churn, changes>>

Next == (\E v \in Validators : Break(v)) \/ Mend \/ Edit \/ TriesToStop \/ Stop \/ Prompt

Spec == Init /\ [][Next]_vars

-----------------------------------------------------------------------------
\* getStopStatus "must stay in step with checkAllCommand": a turn that the hook
\* let end at once is one whose tree `lat check` accepts.
StopStaysInStep == turn = "over" /\ ~held => LatCheckPasses

=============================================================================
