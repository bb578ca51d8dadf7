------------------------------- MODULE Install -------------------------------
(***************************************************************************)
(* `lat init`: one run after the other sets a project up, each a sequence  *)
(* of writes that may be cut short between any two, while the user edits   *)
(* what earlier runs wrote, upgrades the package and wipes the cache       *)
(* (src/cli/init.ts, src/cli/fork-instructions.ts, fork-scaffold.ts).      *)
(*                                                                         *)
(* A file is a sequence of pieces: the markers of a managed section, a     *)
(* template of some version ("lat" for upstream's, "fork" for the fork's), *)
(* and what the user wrote.  The hash of a text is the text.  Upstream's   *)
(* writes are one step, for writeProjectFile renames a complete file into  *)
(* place; the fork's own truncate the file first, and a run that is killed *)
(* there leaves it empty (CutWhileWriting).                                *)
(***************************************************************************)
EXTENDS Integers, Sequences, SequencesExt, FiniteSets

CONSTANTS
    Selections,      \* the sets of agents a user may check in the list
    Keys,            \* the models of the embedding keys that may be configured
    Trackable,       \* the paths init would ignore that may be checked in to git
    ModeCount,       \* the number of mode directories
    Versions,        \* package versions 1 .. Versions
    MaxRuns, MaxCuts, MaxEvents

ASSUME BoundsAssumption ==
  /\ MaxRuns \in Nat /\ MaxCuts \in Nat /\ MaxEvents \in Nat
  /\ Versions \in Nat \ {0} /\ ModeCount \in Nat \ {0}

\* A key is named for the hosted model it opens.
ASSUME KeysAssumption == Keys \cap {"none", "local"} = {}

Begin(channel) == <<"begin", channel>>
End(channel) == <<"end", channel>>
Template(channel, v) == <<channel, v>>   \* the channels are "lat" and "fork"
User == <<"user", 0>>
Mixed == <<"mixed", 0>>   \* a user's hook entry that also mentions lat
IsUsers(piece) == piece \in {User, Mixed}

\* The fork's skill beside the upstream one.
SkillFile(skill) ==
  CASE skill = ".claude/skills/lat-md" -> ".claude/skills/lat-md-conventions"
    [] skill = ".pi/skills/lat-md" -> ".pi/skills/lat-md-conventions"
    [] skill = ".agents/skills/lat-md" -> ".agents/skills/lat-md-conventions"
    [] skill = ".codex/skills/lat-md" -> ".codex/skills/lat-md-conventions"

VARIABLES
    files,      \* [path -> sequence of pieces], of the files that exist
    ignored,    \* the entries of .gitignore
    git,        \* [ignores: a repository or a .gitignore is there, tracked: paths checked in]
    version,    \* the version of the package that runs
    meta,       \* .cache/lat_init.json: [version, hashes]
    tree, gate, listed, dirs, declined,          \* lat.md and its require-mode
    pinned, index, key,                          \* the embedding backend
    tty, selected, todo, fresh, prompt,          \* the run
    runs, cuts, events,                          \* bounds
    answer,      \* history: what the user answered in the last step, if asked
    unrecorded,  \* history: what was written since its hash was last stored
    migrated,    \* history: sections made of a file without markers
    doubled,     \* history: files that came to hold two templates of one channel
    settled,     \* history: the agents of the last complete run, unless since ...
    by,          \* history: who last decided on require-mode
    cutOffer,    \* history: a run was cut while it carried out an accepted offer
    hosted       \* history: the user chose hosted embeddings with this key, and no run since
                 \* pinned the local model for want of reading the key or the index

lat == <<tree, gate, listed, dirs, declined>>
backend == <<pinned, index, key>>
project == <<files, ignored, git, version, meta>>
run == <<tty, selected, todo, fresh, prompt>>
bounds == <<runs, cuts, events>>
notes == <<unrecorded, migrated, doubled>>
modeNotes == <<by, cutOffer>>
history == <<answer, notes, settled, modeNotes, hosted>>
vars == <<project, lat, backend, run, bounds, history>>

Idle == todo = <<>>
NotAsked == <<>>
Nobody == {"nobody"}
Disturbed == {"disturbed"}

\* The pieces of a text that are among these.
Keep(text, pieces) ==
  LET kept == {i \in DOMAIN text : text[i] \in pieces}
  IN [k \in 1..Cardinality(kept) |-> text[CHOOSE i \in kept : Cardinality({j \in kept : j <= i}) = k]]

(***************************************************************************)
(* extractMarkerSection and extractForkBlock look for the first of each    *)
(* marker.  Section is undefined unless HasSection.                        *)
(***************************************************************************)
At(text, piece) == SelectInSeq(text, LAMBDA p : p = piece)
HasSection(text, c) == At(text, Begin(c)) > 0 /\ At(text, End(c)) > At(text, Begin(c))
Section(text, c) == SubSeq(text, At(text, Begin(c)) + 1, At(text, End(c)) - 1)
Wrap(body, c) == <<Begin(c)>> \o body \o <<End(c)>>

Spliced(text, body, c) ==
  IF HasSection(text, c)
  THEN SubSeq(text, 1, At(text, Begin(c)) - 1) \o Wrap(body, c)
         \o SubSeq(text, At(text, End(c)) + 1, Len(text))
  ELSE text \o Wrap(body, c)

Exists(path) == path \in DOMAIN files
WithFile(path, text) == [p \in DOMAIN files \cup {path} |-> IF p = path THEN text ELSE files[p]]
HashKey(path, c) == IF c = "fork" THEN <<path, "#lat-fork">> ELSE <<path, "">>
Stored(hash) == hash \in DOMAIN meta.hashes
\* Defect: a text without a recorded hash is taken for init's own.
RecordedUnlessWiped(hash, text) == Stored(hash) => meta.hashes[hash] = text
Recorded(hash, text) == Stored(hash) /\ meta.hashes[hash] = text
Each(keys, text) == [k \in keys |-> text]
Override(f, g) == [x \in DOMAIN f \cup DOMAIN g |-> IF x \in DOMAIN g THEN g[x] ELSE f[x]]

(***************************************************************************)
(* The plan of a run after the agents are chosen.  A step is what it does  *)
(* and the file it does it to; agents are set up in the order of initCmd.  *)
(***************************************************************************)
Step(op, path) == [op |-> op, path |-> path]
Skill(path) == Step("template", path)

SetupClaudeCode ==
  << Step("hooks", ".claude/settings.json"), Skill(".claude/skills/lat-md"), Step("ignore", ".claude"),
     Step("mcp", ".mcp.json"), Step("ignore", ".mcp.json") >>
SetupPi ==
  << Step("template", ".pi/extensions/lat.ts"), Skill(".pi/skills/lat-md"), Step("ignore", ".pi") >>
SetupCursor ==
  << Step("template", ".cursor/rules/lat.md"), Step("template", ".cursor/hooks.json"),
     Step("mcp", ".cursor/mcp.json"), Step("ignore", ".cursor"), Skill(".agents/skills/lat-md") >>
SetupCopilot ==
  << Step("section", ".github/copilot-instructions.md"), Step("mcp", ".vscode/mcp.json"),
     Skill(".agents/skills/lat-md") >>
SetupOpenCode ==
  << Step("template", ".opencode/plugins/lat.ts"), Skill(".agents/skills/lat-md"),
     Step("ignore", ".opencode") >>
SetupCodex ==
  << Step("hooks", ".codex/hooks.json"), Step("mcp", ".codex/config.toml"),
     Step("ignore", ".codex"), Skill(".agents/skills/lat-md"), Skill(".codex/skills/lat-md") >>
SetupAntigravity ==
  << Step("section", "GEMINI.md"), Step("merged", ".agents/hooks.json"),
     Skill(".agents/skills/lat-md"), Step("template", SkillFile(".agents/skills/lat-md")),
     Step("ignore", ".gemini"), Step("mcp", ".mcp.json"), Step("ignore", ".mcp.json") >>

Setup ==
  [ claude |-> SetupClaudeCode, pi |-> SetupPi, cursor |-> SetupCursor,
    copilot |-> SetupCopilot, opencode |-> SetupOpenCode, codex |-> SetupCodex,
    antigravity |-> SetupAntigravity ]

ASSUME AgentsAssumption == UNION Selections \subseteq DOMAIN Setup

When(condition, steps) == IF condition THEN steps ELSE <<>>

\* Only files that exist when their turn comes: they do already, or this plan makes them.
ForkSteps(plan, present) ==
  LET There(path) == path \in present \/ \E i \in DOMAIN plan : plan[i].path = path
      Block(path) == When(There(path), << Step("block", path) >>)
      Beside(skill) == When(There(skill) \/ There(SkillFile(skill)), << Step("conventions", skill) >>)
  IN Block("AGENTS.md") \o Block("GEMINI.md") \o Block(".github/copilot-instructions.md")
       \o Beside(".claude/skills/lat-md") \o Beside(".pi/skills/lat-md")
       \o Beside(".agents/skills/lat-md") \o Beside(".codex/skills/lat-md")

AgentPlan(sel, present) ==
  LET Chosen(agent) == When(agent \in sel, Setup[agent])
      plan == << Step("section", "AGENTS.md") >>
                \o Chosen("claude") \o Chosen("pi") \o Chosen("cursor") \o Chosen("copilot")
                \o Chosen("opencode") \o Chosen("codex") \o Chosen("antigravity")
  IN plan \o ForkSteps(plan, present) \o << Step("meta", "") >>

ScaffoldSteps == [i \in 1..ModeCount |-> Step("modeDir", "")] \o << Step("listModes", "") >>

-----------------------------------------------------------------------------
\* What a complete run of version 0 left for these agents.
SetUp(sel) ==
  LET plan == AgentPlan(sel, {})
      steps == {plan[i] : i \in DOMAIN plan}
      Left(op) == {step.path : step \in {s \in steps : s.op = op}}
      shared == Left("section")
      forks == Left("conventions")
      own == UNION {Left(op) : op \in {"template", "merged", "hooks", "mcp"}}
      texts == Override(Override(Each(own, <<Template("lat", 0)>>),
                                 Each({SkillFile(skill) : skill \in forks}, <<Template("fork", 0)>>)),
                        Each(shared, Wrap(<<Template("lat", 0)>>, "lat")
                                       \o Wrap(<<Template("fork", 0)>>, "fork")))
      whole == [h \in {HashKey(p, "lat") : p \in DOMAIN texts \ shared} |-> texts[h[1]]]
      sections == Each({HashKey(p, "lat") : p \in shared}, <<Template("lat", 0)>>)
      blocks == Each({HashKey(p, "fork") : p \in shared}, <<Template("fork", 0)>>)
  IN [files |-> texts, ignored |-> Left("ignore"),
      hashes |-> Override(Override(whole, sections), blocks)]

GitStates == {g \in [ignores : BOOLEAN, tracked : SUBSET Trackable] : g.tracked # {} => g.ignores}

Init ==
  /\ version = 1
  /\ \/ /\ tree \in BOOLEAN /\ files = << >> /\ ignored = {} /\ git \in GitStates
        /\ meta = [version |-> 0, hashes |-> << >>]
     \/ tree = TRUE /\ \E sel \in Selections \ {{}} :
          /\ files = SetUp(sel).files /\ ignored = SetUp(sel).ignored
          /\ meta = [version |-> 0, hashes |-> SetUp(sel).hashes]
          /\ git = [ignores |-> TRUE, tracked |-> {}]
     \/ \* set up before markers were introduced
        /\ tree = TRUE /\ ignored = {} /\ git = [ignores |-> TRUE, tracked |-> {}]
        /\ files = Each({"AGENTS.md"}, <<Template("lat", 0)>>)
        /\ meta = [version |-> 0, hashes |-> Each({HashKey("AGENTS.md", "lat")}, files["AGENTS.md"])]
  /\ gate \in IF tree THEN {"none", "unset"} ELSE {"none"}
  /\ listed = FALSE /\ dirs = 0 /\ declined = FALSE
  /\ pinned = FALSE /\ index = "none"
  /\ key \in IF tree THEN {"none"} ELSE Keys \cup {"none"}
  /\ tty = FALSE /\ selected = {} /\ todo = <<>> /\ fresh = << >> /\ prompt = NotAsked
  /\ runs = 0 /\ cuts = 0 /\ events = 0
  /\ answer = "none" /\ unrecorded = {} /\ migrated = {} /\ doubled = {} /\ settled = Nobody
  /\ by = "user" /\ cutOffer = FALSE /\ hosted = FALSE

(***************************************************************************)
(* initCmd up to the choice of the agents: the tree is created, and its    *)
(* mode directories, before anything else.                                 *)
(***************************************************************************)
StartRun ==
  /\ Idle /\ runs < MaxRuns /\ runs' = runs + 1
  /\ tty' \in BOOLEAN
  /\ todo' = (IF tree THEN <<>> ELSE << Step("mkdir", ""), Step("copy", "") >> \o ScaffoldSteps)
               \o << Step("ignore", "config.local.yaml"), Step("ignore", ".lat-build"),
                     Step("embeddings", ""), Step("agents", "") >>
  /\ settled' = IF settled = Disturbed THEN Nobody ELSE settled
  /\ answer' = "none"
  /\ UNCHANGED <<project, lat, backend, selected, fresh, prompt, cuts, events, notes, modeNotes,
                 hosted>>

Doing(op) == todo # <<>> /\ todo[1].op = op /\ todo' = Tail(todo)
Path == todo[1].path
Channel == IF todo[1].op = "block" THEN "fork" ELSE "lat"

CreateTree ==
  /\ \/ Doing("mkdir") /\ tree' = TRUE /\ by' = "creation" /\ UNCHANGED gate
     \/ Doing("copy") /\ gate' = "unset" /\ UNCHANGED <<tree, by>>
  /\ UNCHANGED <<project, listed, dirs, declined, backend, tty, selected, fresh, prompt, bounds,
                 answer, notes, settled, cutOffer, hosted>>

\* writeForkScaffold: the directories one by one, the flag and the listing last.
WriteForkScaffold ==
  /\ \/ /\ Doing("modeDir")
        /\ dirs' = IF dirs < ModeCount THEN dirs + 1 ELSE dirs
        /\ UNCHANGED <<gate, listed>>
     \/ Doing("listModes") /\ gate' = "on" /\ listed' = TRUE /\ UNCHANGED dirs
  /\ UNCHANGED <<project, tree, declined, backend, tty, selected, fresh, prompt, bounds,
                 answer, notes, settled, modeNotes, hosted>>

(***************************************************************************)
(* setupEmbeddingsForInit.  The key, or the model of the index, may fail   *)
(* to be read and then counts as missing.  With a key and a terminal the   *)
(* user chooses; otherwise a fresh or outdated setup is pinned to the      *)
(* local model unless the index and the key are of one hosted model.  An   *)
(* index that differs may be rebuilt at once; a key the provider then      *)
(* rejects leaves the local model, if the user agrees.                     *)
(***************************************************************************)
ConfigureDefault == meta.version < version
ExistingBackend(stored) ==
  IF pinned THEN "local" ELSE IF stored \in {"none", "local"} THEN stored ELSE "remote"
WorkingHosted(usable, stored) == ExistingBackend(stored) = "remote" /\ stored = usable

Reindexed(choice, stored) == index' = index \/ (tty /\ stored # "none" /\ index' = choice)

ChooseBackend(stored) ==
  \/ UNCHANGED <<pinned, index, hosted>>   \* the menu was left
  \/ pinned' = TRUE /\ hosted' = FALSE /\ Reindexed("local", stored)
  \/ pinned' = FALSE /\ hosted' = TRUE /\ Reindexed(key, stored)
  \/ stored \notin {"none", key} /\ pinned' = TRUE /\ hosted' = FALSE /\ index' \in {index, "local"}

SetupEmbeddings ==
  /\ Doing("embeddings")
  /\ \E usable \in {key, "none"}, stored \in {index, "none"} :
       IF usable # "none" /\ tty THEN ChooseBackend(stored)
       ELSE IF ConfigureDefault /\ ~WorkingHosted(usable, stored)
       THEN /\ pinned' = TRUE /\ Reindexed("local", stored)
            /\ hosted' = (hosted /\ usable = key /\ stored = index)
       ELSE /\ UNCHANGED <<pinned, hosted>>
            /\ IF pinned THEN Reindexed("local", stored) ELSE UNCHANGED index
  /\ UNCHANGED <<project, lat, key, tty, selected, fresh, prompt, bounds, answer, notes, settled,
                 modeNotes>>

\* Without a terminal the checklist is empty.
ChooseAgents ==
  /\ todo # <<>> /\ todo[1].op = "agents"
  /\ \E sel \in IF tty THEN Selections ELSE {{}} :
       /\ selected' = sel
       /\ todo' = << Step("offer", "") >> \o
                  IF sel = {} THEN << Step("meta", "") >> ELSE AgentPlan(sel, DOMAIN files)
       /\ settled' = IF settled = sel THEN settled ELSE Nobody
  /\ answer' = "none"
  /\ UNCHANGED <<project, lat, backend, tty, fresh, prompt, bounds, notes, modeNotes, hosted>>

\* offerRequireMode, for a tree that no run has gated.
OfferRequireMode ==
  /\ todo # <<>> /\ todo[1].op = "offer"
  /\ IF gate = "unset" /\ ~declined /\ tty
     THEN \/ /\ declined' = TRUE /\ todo' = Tail(todo) /\ UNCHANGED <<gate, by>>
          \/ /\ gate' = "on" /\ by' = "offer" /\ todo' = ScaffoldSteps \o Tail(todo)
             /\ UNCHANGED declined
     ELSE todo' = Tail(todo) /\ UNCHANGED <<gate, by, declined>>
  /\ UNCHANGED <<project, tree, listed, dirs, backend, tty, selected, fresh, prompt, bounds,
                 answer, notes, settled, cutOffer, hosted>>

-----------------------------------------------------------------------------
(***************************************************************************)
(* What the file-writing helpers have in common: a text is written at once *)
(* and its hash kept for the end of the run, or left with or without one,  *)
(* or the user is asked.  The text that was read is the one that is        *)
(* replaced, however long the question stays open.                         *)
(***************************************************************************)
Text == IF prompt = NotAsked THEN files[Path] ELSE prompt[1]
KeepHash(hash, text) == fresh' = Override(fresh, Each({hash}, text))
\* For the history: a file one of whose markers the user took is given a second section.
TwoOfAChannel(text) ==
  \E i, j \in DOMAIN text : i # j /\ text[i][1] = text[j][1] /\ text[i][1] \in {"lat", "fork"}
Writes(text, hash) ==
  /\ files' = WithFile(Path, text)
  /\ unrecorded' = unrecorded \cup {hash}
  /\ doubled' = IF TwoOfAChannel(text) THEN doubled \cup {Path} ELSE doubled
Leaves == UNCHANGED <<files, unrecorded, doubled>>
StepDone == todo' = Tail(todo) /\ prompt' = NotAsked
\* For the history: a section that had come to enclose pieces of the other takes them
\* out when it is written over.
Swallows ==
  /\ files' # files /\ Exists(Path) /\ HasSection(files[Path], Channel)
  /\ LET body == Section(files[Path], Channel) IN
       \E i \in DOMAIN body, c \in {"lat", "fork"} \ {Channel} :
         body[i] \in {Begin(c), End(c)} \/ body[i][1] = c
Untouched ==
  /\ settled' = IF settled = Disturbed \/ Swallows THEN Disturbed
               ELSE IF answer' = "yes" THEN Nobody ELSE settled
  /\ UNCHANGED <<ignored, git, version, meta, lat, backend, tty, selected, bounds, modeNotes, hosted>>

Put(text, hash, recorded) ==
  /\ StepDone /\ Writes(text, hash) /\ KeepHash(hash, recorded) /\ answer' = "none"
UpToDate(hash, text) == StepDone /\ Leaves /\ KeepHash(hash, text) /\ answer' = "none"
Ask == /\ prompt = NotAsked /\ prompt' = <<files[Path]>> /\ answer' = "asked"
       /\ Leaves /\ UNCHANGED <<todo, fresh>>
Answer(text, hash, recorded) ==
  /\ prompt # NotAsked /\ StepDone
  /\ \/ answer' = "yes" /\ Writes(text, hash) /\ KeepHash(hash, recorded)
     \/ answer' = "no" /\ Leaves /\ UNCHANGED fresh

\* appendTemplateSection
AppendTemplateSection ==
  LET body == <<Template("lat", version)>>
      hash == HashKey(Path, "lat")
      replaced == Spliced(Text, body, "lat")
  IN
  /\ todo # <<>> /\ todo[1].op = "section"
  /\ IF ~Exists(Path) THEN Put(Wrap(body, "lat"), hash, body) /\ UNCHANGED migrated
     ELSE IF HasSection(Text, "lat")
     THEN IF Section(Text, "lat") = body THEN UpToDate(hash, body) /\ UNCHANGED migrated
          ELSE IF Recorded(hash, Section(Text, "lat"))
          THEN Put(replaced, hash, body) /\ migrated' = migrated \ {Path}
          ELSE (Ask \/ Answer(replaced, hash, body)) /\ UNCHANGED migrated
     ELSE IF Recorded(hash, Text)
     THEN Put(Wrap(Text, "lat"), hash, Text) /\ migrated' = migrated \cup {Path}
     ELSE Put(replaced, hash, body) /\ UNCHANGED migrated
  /\ Untouched

\* writeTemplateFile
TemplateOf(path) ==
  <<Template(IF path = SkillFile(".agents/skills/lat-md") THEN "fork" ELSE "lat", version)>>

MergedHooks(path) ==
  IF ~Exists(path) THEN <<Template("lat", version)>>
  ELSE Keep(files[path], {User, Mixed}) \o <<Template("lat", version)>>

WriteTemplateFile ==
  LET body == IF todo[1].op = "merged" /\ prompt = NotAsked THEN MergedHooks(Path)
              ELSE IF todo[1].op = "merged"
              THEN Keep(prompt[1], {User, Mixed}) \o <<Template("lat", version)>>
              ELSE TemplateOf(Path)
      hash == HashKey(Path, "lat")
  IN
  /\ todo # <<>> /\ todo[1].op \in {"template", "merged"}
  /\ IF ~Exists(Path) THEN Put(body, hash, body)
     ELSE IF Text = body THEN UpToDate(hash, body)
     ELSE IF Recorded(hash, Text) THEN Put(body, hash, body)
     ELSE Ask \/ Answer(body, hash, body)
  /\ Untouched /\ UNCHANGED migrated

\* Defect: a block that exists is never brought up to date.
WriteForkBlockOnce ==
  LET body == <<Template("fork", version)>>
      hash == HashKey(Path, "fork")
  IN
  /\ todo # <<>> /\ todo[1].op = "block"
  /\ IF ~Exists(Path) THEN StepDone /\ Leaves /\ answer' = "none" /\ UNCHANGED fresh
     ELSE IF ~HasSection(Text, "fork") THEN Put(Spliced(Text, body, "fork"), hash, body)
     ELSE StepDone /\ Leaves /\ answer' = "none" /\ UNCHANGED fresh
  /\ Untouched /\ UNCHANGED migrated

\* writeForkInstructions asks only when it has a hash to compare with.
WriteForkBlock ==
  LET body == <<Template("fork", version)>>
      hash == HashKey(Path, "fork")
      replaced == Spliced(Text, body, "fork")
  IN
  /\ todo # <<>> /\ todo[1].op = "block"
  /\ IF ~Exists(Path) THEN StepDone /\ Leaves /\ answer' = "none" /\ UNCHANGED fresh
     ELSE IF ~HasSection(Text, "fork") THEN Put(replaced, hash, body)
     ELSE IF Section(Text, "fork") = body THEN UpToDate(hash, body)
     ELSE IF Stored(hash) /\ ~Recorded(hash, Section(Text, "fork"))
     THEN Ask \/ Answer(replaced, hash, body)
     ELSE Put(replaced, hash, body)
  /\ Untouched /\ UNCHANGED migrated

RootExists(skill) == Exists(skill) \/ Exists(SkillFile(skill))

WriteForkSkill ==
  LET body == <<Template("fork", version)>>
      path == SkillFile(Path)
      hash == HashKey(path, "lat")
      write == files' = WithFile(path, body) /\ unrecorded' = unrecorded \cup {hash} /\ UNCHANGED doubled
  IN
  /\ todo # <<>> /\ todo[1].op = "conventions"
  /\ IF ~RootExists(Path) THEN StepDone /\ Leaves /\ answer' = "none" /\ UNCHANGED fresh
     ELSE IF Exists(path) /\ files[path] = body THEN UpToDate(hash, body)
     ELSE IF Exists(path) /\ Stored(hash) /\ ~Recorded(hash, files[path])
     THEN /\ StepDone
          /\ \/ answer' = "yes" /\ write /\ KeepHash(hash, body)
             \/ answer' = "no" /\ Leaves /\ UNCHANGED fresh
     ELSE StepDone /\ write /\ KeepHash(hash, body) /\ answer' = "none"
  /\ Untouched /\ UNCHANGED migrated

\* Defect: old entries stay beside the fresh ones.
SyncByAppending ==
  /\ Doing("hooks")
  /\ files' = WithFile(Path, (IF Exists(Path) THEN files[Path] ELSE <<>>) \o <<Template("lat", version)>>)
  /\ answer' = "none"
  /\ Untouched /\ UNCHANGED <<fresh, prompt, notes>>

\* syncLatHooks: every entry that mentions lat goes, fresh ones are added.
SyncLatHooks ==
  /\ Doing("hooks")
  /\ files' = WithFile(Path,
       (IF Exists(Path) THEN Keep(files[Path], {User}) ELSE <<>>)
         \o <<Template("lat", version)>>)
  /\ answer' = "none"
  /\ Untouched /\ UNCHANGED <<fresh, prompt, notes>>

\* hasMcpServer, addMcpServer and the TOML variants for Codex
RegisterMcpServer ==
  /\ Doing("mcp")
  /\ files' = IF Exists(Path) /\ \E v \in 0..Versions : Contains(files[Path], Template("lat", v))
              THEN files
              ELSE WithFile(Path, (IF Exists(Path) THEN files[Path] ELSE <<>>)
                                    \o <<Template("lat", version)>>)
  /\ answer' = "none"
  /\ Untouched /\ UNCHANGED <<fresh, prompt, notes>>

\* ensureGitignored, which passes over what is checked in (where git ls-files does not
\* fail) and has nowhere to write without git; lat.md's own .gitignore is always written.
EnsureGitignored ==
  /\ Doing("ignore")
  /\ \E checked \in BOOLEAN :
       LET skipped == (checked /\ Path \in git.tracked) \/ ~git.ignores
       IN ignored' = IF Path # "config.local.yaml" /\ skipped THEN ignored ELSE ignored \cup {Path}
  /\ answer' = "none"
  /\ UNCHANGED <<files, git, version, meta, lat, backend, tty, selected, fresh, prompt, bounds, notes,
                 settled, modeNotes, hosted>>

\* writeInitMeta merges the hashes of this run into the stored ones.
WriteInitMeta ==
  /\ Doing("meta")
  /\ meta' = [version |-> version, hashes |-> Override(meta.hashes, fresh)]
  /\ unrecorded' = unrecorded \ DOMAIN fresh
  /\ settled' = IF settled = Disturbed THEN Nobody ELSE selected
  /\ selected' = {} /\ fresh' = << >> /\ tty' = FALSE /\ answer' = "none"
  /\ UNCHANGED <<files, ignored, git, version, lat, backend, prompt, bounds, migrated, doubled,
                 modeNotes, hosted>>

\* The run ends before its time.
Ends ==
  /\ ~Idle /\ cuts < MaxCuts /\ cuts' = cuts + 1
  /\ todo' = <<>> /\ prompt' = NotAsked /\ answer' = "none"
  /\ selected' = {} /\ fresh' = << >> /\ tty' = FALSE
  /\ cutOffer' = (cutOffer \/ (todo[1].op \in {"modeDir", "listModes"} /\ by = "offer"))
  /\ UNCHANGED <<ignored, git, version, meta, tree, dirs, declined, backend, runs, events,
                 migrated, doubled, by, hosted>>

\* Control-C, a kill, a menu left without a choice, or a configuration file that
\* cannot be parsed.
Cut == Ends /\ UNCHANGED <<files, gate, listed, unrecorded, settled>>

\* The fork's writes truncate the file before they fill it.
Truncates(path, hash) ==
  /\ files' = WithFile(path, <<>>) /\ unrecorded' = unrecorded \cup {hash}
  /\ UNCHANGED <<gate, listed>>
BlockIsDue ==
  /\ todo[1].op = "block" /\ Exists(Path)
  /\ HasSection(Text, "fork") =>
       /\ Section(Text, "fork") # <<Template("fork", version)>>
       /\ \/ prompt # NotAsked \/ ~Stored(HashKey(Path, "fork"))
          \/ Recorded(HashKey(Path, "fork"), Section(Text, "fork"))
SkillIsDue ==
  /\ todo[1].op = "conventions" /\ RootExists(Path)
  /\ Exists(SkillFile(Path)) => files[SkillFile(Path)] # <<Template("fork", version)>>
RootIndexIsDue ==
  \/ todo[1].op = "listModes" /\ ~(gate = "on" /\ listed)
  \/ todo[1].op = "offer" /\ gate = "unset" /\ ~declined /\ tty

\* A kill, or an error, between the two.  An emptied root index has no flag and no listing.
CutWhileWriting ==
  /\ Ends /\ settled' = Disturbed
  /\ \/ BlockIsDue /\ Truncates(Path, HashKey(Path, "fork"))
     \/ SkillIsDue /\ Truncates(SkillFile(Path), HashKey(SkillFile(Path), "lat"))
     \/ RootIndexIsDue /\ gate' = "unset" /\ listed' = FALSE /\ UNCHANGED <<files, unrecorded>>

-----------------------------------------------------------------------------
(***************************************************************************)
(* The user, between two runs or while a question is open.                 *)
(***************************************************************************)
Event ==
  /\ events < MaxEvents /\ events' = events + 1
  /\ Idle \/ prompt # NotAsked
  /\ answer' = "none"
  /\ UNCHANGED <<run, runs, cuts>>

\* In front, at the end, and at the start of each section.
Places(text) == {1, Len(text) + 1} \cup {i \in 2..Len(text) : text[i - 1][1] = "begin"}

EditFile ==
  /\ Event
  /\ \E path \in DOMAIN files : LET text == files[path] IN
       \E edited \in
            {InsertAt(text, i, User) : i \in Places(text)} \cup
            {RemoveAt(text, i) : i \in {j \in 1..Len(text) : text[j][1] \in {"begin", "end"}}} \cup
            (IF path \in {".claude/settings.json", ".codex/hooks.json"}
             THEN {Append(text, Mixed)} ELSE {}) :
         files' = [files EXCEPT ![path] = edited]
  /\ settled' = Disturbed
  /\ UNCHANGED <<ignored, git, version, meta, lat, backend, notes, modeNotes, hosted>>

Upgrade ==
  /\ Event /\ version < Versions /\ Idle /\ version' = version + 1
  /\ settled' = Disturbed
  /\ UNCHANGED <<files, ignored, git, meta, lat, backend, notes, modeNotes, hosted>>

\* The cache is not under version control: a fresh clone has none.
WipeCache ==
  /\ Event /\ Idle /\ meta' = [version |-> 0, hashes |-> << >>]
  /\ declined' = FALSE /\ index' = "none"
  /\ unrecorded' = unrecorded \cup DOMAIN meta.hashes /\ settled' = Disturbed
  /\ UNCHANGED <<files, ignored, git, version, tree, gate, listed, dirs, pinned, key, migrated,
                 doubled, modeNotes, hosted>>

SetGate ==
  /\ Event /\ Idle /\ tree /\ gate' \in {"unset", "on", "off", "bad"} \ {gate}
  /\ by' = "user"
  /\ UNCHANGED <<project, tree, listed, dirs, declined, backend, notes, settled, cutOffer, hosted>>

\* The user makes a repository, or checks paths in or out.
ChangeGit ==
  /\ Event /\ Idle /\ git' \in GitStates \ {git} /\ (git.ignores => git'.ignores)
  /\ settled' = Disturbed
  /\ UNCHANGED <<files, ignored, version, meta, lat, backend, notes, modeNotes, hosted>>

ChangeKey ==
  /\ Event /\ Idle /\ key' \in (Keys \cup {"none"}) \ {key} /\ hosted' = FALSE
  /\ UNCHANGED <<project, lat, pinned, index, notes, settled, modeNotes>>

\* reindexCommand: the backend is recorded before the new index is published,
\* which may fail.  A rejected key leaves the local model, if the user agrees.
Reindex ==
  /\ Event /\ Idle /\ tree
  /\ \E option \in {"local", "remote", "none"}, rejected \in BOOLEAN :
       LET local == option = "local" \/ (pinned /\ option # "remote") \/ key = "none"
           backendOf == IF local \/ rejected THEN "local" ELSE key
       IN /\ (option = "remote" => key # "none") /\ (rejected => ~local)
          /\ pinned' = (backendOf = "local")
          /\ index' \in {index, backendOf}
          /\ hosted' = IF option = "none" /\ ~rejected THEN hosted ELSE backendOf # "local"
  /\ UNCHANGED <<project, lat, key, notes, settled, modeNotes>>

Next ==
  \/ StartRun \/ CreateTree \/ WriteForkScaffold \/ SetupEmbeddings \/ ChooseAgents
  \/ OfferRequireMode \/ AppendTemplateSection \/ WriteTemplateFile \/ WriteForkBlock
  \/ WriteForkSkill \/ SyncLatHooks \/ RegisterMcpServer \/ EnsureGitignored \/ WriteInitMeta
  \/ Cut \/ CutWhileWriting \/ EditFile \/ Upgrade \/ WipeCache \/ SetGate \/ ChangeGit
  \/ ChangeKey \/ Reindex

Spec == Init /\ [][Next]_vars

-----------------------------------------------------------------------------
UsersIn(text) == Cardinality({i \in DOMAIN text : IsUsers(text[i])})
UsersOutside(text, c) ==
  UsersIn(text) - IF HasSection(text, c) THEN UsersIn(Section(text, c)) ELSE 0
RunStep == todo # <<>> /\ todo' # todo

(***************************************************************************)
(* A run takes text the user wrote out of a file only after a yes, and out *)
(* of a shared file only what stands inside the section asked about.  The  *)
(* code has four exceptions: a fork block or conventions skill without a   *)
(* stored hash is replaced unasked (a clone has no hashes), a hook entry   *)
(* of the user's that also mentions lat goes with lat's, what is typed     *)
(* while the question is open is overwritten by the text read before it,   *)
(* and a run killed in the middle of a write of the fork's leaves the file *)
(* empty, the user's text around the block included.                       *)
(***************************************************************************)
Lost(path) == UsersIn(files[path]) > UsersIn(files'[path])
MayLose(path) ==
  \/ /\ answer' = "yes"
     /\ \/ todo[1].op \in {"template", "merged", "conventions"}
        \/ UsersOutside(files'[path], Channel) = UsersOutside(files[path], Channel)
        \/ prompt # <<files[path]>>
  \/ todo[1].op = "block" /\ ~Stored(HashKey(path, "fork"))
  \/ todo[1].op = "conventions" /\ ~Stored(HashKey(path, "lat"))
  \/ todo[1].op = "hooks" /\ Contains(files[path], Mixed)
  \/ /\ todo' = <<>> /\ files'[path] = <<>>
     /\ path = IF todo[1].op = "block" THEN Path ELSE SkillFile(Path)
Spares == \A path \in DOMAIN files : Lost(path) => MayLose(path)
EditsSurvive == [][ RunStep => Spares ]_vars

(***************************************************************************)
(* A question is about the user's changes: init never asks about a text    *)
(* that is still a template it wrote itself, unless the run that wrote it  *)
(* did not live to record it or the cache was wiped since, or the file got *)
(* a second section after the user had taken a marker of the first.        *)
(***************************************************************************)
Pristine(body, c) == \E v \in 0..Versions : body = <<Template(c, v)>>
PristineIsNotAskedAbout ==
  answer = "asked" =>
    LET text == files[Path] IN
      \/ HashKey(Path, Channel) \in unrecorded \/ Path \in doubled
      \/ IF todo[1].op \in {"section", "block"}
         THEN ~Pristine(Section(text, Channel), Channel)
         ELSE ~Pristine(text, "lat") /\ ~Pristine(text, "fork")

(***************************************************************************)
(* "All setup steps are idempotent": a run that follows a complete one for *)
(* the same agents, with nothing in between but runs cut short, changes no *)
(* file it need not ask about.  Two cases are not: a file that was given   *)
(* its markers by the last run is brought up to date by the next, and a    *)
(* file with an end marker before its first begin marker is given another  *)
(* section each time.  A consent begins anew, and so does a section that   *)
(* takes the other's markers out with it.                                  *)
(***************************************************************************)
RerunsChangeNothing ==
  [][ RunStep /\ settled \notin {Nobody, Disturbed} /\ settled' = settled =>
        \/ files' = files
        \/ Path \in migrated
        \/ todo[1].op \in {"section", "block"} /\ ~HasSection(files'[Path], Channel) ]_vars

(***************************************************************************)
(* The version that is stamped is the one the project is set up for: every *)
(* file of the agents of that run holds the current template, or text the  *)
(* user kept, or was migrated or given a second section; of the hooks,     *)
(* lat's are there once and the user's are all there is beside them; what  *)
(* holds local paths is ignored, unless it is checked in to git or the     *)
(* project has neither a repository nor a .gitignore.                      *)
(***************************************************************************)
IgnoreIsDone(path) == ~git.ignores \/ path \in ignored \cup git.tracked
CurrentFor(step) ==
  LET path == step.path IN
  CASE step.op = "section" ->
         \/ path \in migrated \cup doubled \/ ~HasSection(files[path], "lat")
         \/ Section(files[path], "lat") = <<Template("lat", version)>>
         \/ ~Pristine(Section(files[path], "lat"), "lat") \/ HashKey(path, "lat") \in unrecorded
    [] step.op = "block" ->
         \/ ~Exists(path) \/ path \in doubled \/ ~HasSection(files[path], "fork")
         \/ Section(files[path], "fork") = <<Template("fork", version)>>
         \/ ~Pristine(Section(files[path], "fork"), "fork") \/ HashKey(path, "fork") \in unrecorded
    [] step.op \in {"template", "merged"} ->
         \/ UsersIn(files[path]) > 0 \/ HashKey(path, "lat") \in unrecorded \/ files[path] = TemplateOf(path)
    [] step.op = "hooks" ->
         files[path] = Keep(files[path], {User}) \o <<Template("lat", version)>>
    [] step.op = "mcp" -> \E v \in 0..Versions : Contains(files[path], Template("lat", v))
    [] step.op = "ignore" -> IgnoreIsDone(path)
    [] OTHER -> TRUE

StampMeansSetUp ==
  settled \notin {Nobody, Disturbed, {}} =>
    /\ meta.version = version
    /\ LET plan == AgentPlan(settled, DOMAIN files) IN \A i \in DOMAIN plan : CurrentFor(plan[i])

(***************************************************************************)
(* require-mode is on only in a tree that has the directories it asks for: *)
(* creation writes the flag last, so a run cut short leaves it off.  An    *)
(* accepted offer writes it first: cut short, it leaves a gate without the *)
(* directories, and no later run completes them.                           *)
(***************************************************************************)
GateHasItsDirectories ==
  gate = "on" /\ by # "user" /\ Idle => (dirs = ModeCount /\ listed) \/ cutOffer

(***************************************************************************)
(* A hosted backend the user chose, whose index and key agree, is not      *)
(* undone by any later run, whatever is upgraded, cut short or wiped: not  *)
(* by a run either that could read both.  One that could not read the key  *)
(* or the index takes the setup for a broken one and pins the local model. *)
(***************************************************************************)
WorkingHostedIsKept == hosted /\ index = key => ~pinned

\* What the setup has written it can account for: its own text, the version it
\* stamped, the gate and the backend.
SetupIsSound ==
  PristineIsNotAskedAbout /\ StampMeansSetUp /\ GateHasItsDirectories /\ WorkingHostedIsKept
=============================================================================
