-------------------------------- MODULE Parts --------------------------------
(***************************************************************************)
(* The components that share no state with any other, side by side: every  *)
(* behaviour is one of one of them.  Eight of them bring their own         *)
(* variables, which rest at one initial state while another part runs.     *)
(* The other variables are those of SourceSymbols, 0 in any other part.    *)
(***************************************************************************)
EXTENDS Integers, Sequences, FiniteSets, Editor, CodeScope, CodeRefs,
        CommentGate, DocumentPolicy, UpstreamGuard, SiteBuild, IndexFix

VARIABLES part, x1, x2, x3, x4, x5, x6, x7, x8, x9

places == <<x1, x2, x3, x4, x5, x6, x7, x8, x9>>

Free ==
  x1 = 0 /\ x2 = 0 /\ x3 = 0 /\ x4 = 0 /\ x5 = 0 /\ x6 = 0 /\ x7 = 0 /\ x8 = 0 /\ x9 = 0

-----------------------------------------------------------------------------
\* For IndexFix: two documents and one subdirectory, the index of the root written
\* by hand in the ways that markers, fences and bullets tell apart.
ByHand(name) == <<"item", name, "by hand">>
HandWrittenIndexes ==
  LET text == IndexLine("text")
      heading == IndexLine("head")
      fence == IndexLine("fence")
      begin == IndexLine("begin")
      end == IndexLine("end")
      away == IndexLine("away")
  IN {<<text, ByHand("a"), ByHand("old"), away, text, ByHand("b")>>,
      <<text, heading, text>>,
      <<text, fence, begin, ByHand("b"), end, fence, ByHand("a"), text>>,
      <<begin, fence, ByHand("a"), fence, end, away, ByHand("old"), end>>,
      <<begin, ByHand("a"), text>>,
      <<text, fence, ByHand("a")>>}
RunTitles == [a |-> {"A1", "Z1"}, b |-> {"B1"}, c |-> {"C1"}]
RunAlphabet == <<"a", "A1", "b", "B1", "c", "C1", "sub", "sub, summarised", "Z1">>

\* One file of two, two runs that ask, one change, one kill.
SourceSymbols == INSTANCE SourceSymbols WITH
  MaxChanges <- 1, MaxAsks <- 2, MaxKills <- 1,
  language <- x1, content <- x2, stored <- x3, job <- x4, parser <- x5, asks <- x6,
  changes <- x7, kills <- x8, since <- x9

\* For DocumentPolicy: a section of two lines, and a heading in an example within
\* an example.
PolicyBodies ==
  {<<Line("h1", "x"), Line("para", "x"), Line("steps", "")>>,
   <<Line("fence4", ""), Line("fence3", ""), Line("h1", "x")>>}

\* For CodeRefs: three files in two directories of three, listed by all, untracked,
\* or tracked but hidden.  A line has one reference, alone or after a quoted one and
\* an apostrophe.
File(tracked, hidden) ==
  [source |-> TRUE, tracked |-> tracked, ignored |-> FALSE, hidden |-> hidden, nested |-> FALSE]
ScannedKinds == {File(TRUE, FALSE), File(FALSE, FALSE), File(TRUE, TRUE)}
ScannedDirOf == [f |-> ".", g |-> "d", h |-> "d"]
ScannedSub == [dir \in {".", "d", "e"} |-> IF dir = "." THEN {"d", "e"} ELSE {}]
Bare == <<"@lat">>
Quoting == <<"tick", "@lat", "tick", "single", "@lat">>
ScannedMeans == [line \in {Bare, Quoting} |-> IF line = Bare THEN {1} ELSE {5}]

\* For SiteBuild: three documents, one of which is late, and one that may not be
\* there; two previews, sources and externals.  The worlds tell apart the orders in
\* which pages are found, what quotes an external page, and what is excluded.
SiteWorld(first, guide, readme, comments, hidden) ==
  [links |-> [p \in Names |->
     CASE p = "index" -> first [] p = "guide" -> guide [] p = "@/readme" -> readme
       [] p = "@/notes" -> {"@/readme", "x1"} [] p \in {"late", "x1"} -> {"x2"} [] OTHER -> {}],
   comments |-> comments, excluded |-> hidden]
SiteWorlds ==
  LET first == {"guide", "@/readme", "s1", "x1"}
      further == {"@/notes", "s2"}
      quoting == {"s1", "s2", "index", "x1"}
      commented == {<<"s1", "guide">>, <<"s1", "x1">>}
  IN {SiteWorld(first, {"logo", "x2"}, further, commented, {}),
      SiteWorld(first, {"logo", "x2"}, further, commented, {"s1"}),
      SiteWorld({"@/readme", "x1"}, quoting, {"logo"}, {}, {}),
      SiteWorld({"late", "s2"}, quoting, further, commented, {})}
SiteProjects == {SiteFiles \ {"late", "graph"}, SiteFiles \ {"late", "graph", "s2"}}

-----------------------------------------------------------------------------
\* What a component begins with while it is another's turn.
EditorRests == EditorInit /\ path = CHOOSE p \in Paths : TRUE
CodeScopeRests == CodeInit /\ excluded = {} /\ sources = [f \in Files |-> Absent]
CodeRefsRests ==
  /\ ScanInit /\ tools = {}
  /\ kind = [f \in ProjectFiles |-> File(TRUE, FALSE)]
  /\ lines = [f \in ProjectFiles |-> Bare]
CommentGateRests == GateInit /\ agent = "claude" /\ file = NoFile
DocumentPolicyRests ==
  /\ PolicyInit /\ gate.value = Unset
  /\ doc.place = [dir |-> "other", index |-> TRUE] /\ Len(doc.body) = 3 /\ doc.body[1][1] = "h1"
UpstreamGuardRests == GuardInit /\ head.tree = [p \in TreePaths |-> Missing]
SiteBuildRests ==
  /\ SiteInit /\ "s2" \in present
  /\ world = SiteWorld({"@/readme", "x1"}, {"s1", "s2", "index", "x1"}, {"logo"}, {}, {})

IndexFixRests ==
  /\ FixInit /\ documents = RootDocs /\ title = [a |-> "A1", b |-> "B1", c |-> "C1"]
  /\ \A d \in IndexDirs : index[d] = NoIndex

PartsInit ==
  /\ \/ part \in {"editor", "codeScope", "codeRefs", "commentGate", "documentPolicy", "upstreamGuard",
                 "siteBuild", "indexFix"}
        /\ Free
     \/ part = "sourceSymbols" /\ SourceSymbols!Init
  /\ IF part = "editor" THEN EditorInit ELSE EditorRests
  /\ IF part = "codeScope" THEN CodeInit ELSE CodeScopeRests
  /\ IF part = "codeRefs" THEN ScanInit ELSE CodeRefsRests
  /\ IF part = "commentGate" THEN GateInit ELSE CommentGateRests
  /\ IF part = "documentPolicy" THEN PolicyInit ELSE DocumentPolicyRests
  /\ IF part = "upstreamGuard" THEN GuardInit ELSE UpstreamGuardRests
  /\ IF part = "siteBuild" THEN SiteInit ELSE SiteBuildRests
  /\ IF part = "indexFix" THEN FixInit ELSE IndexFixRests

\* What the checks of documents and forks and the builds leave alone, and what the others do.
checks == <<policyVars, guardVars, siteVars, fixVars>>
others == <<editorVars, codeVars, scanVars, gateVars>>

EditorStep ==
  part = "editor" /\ EditorNext /\ UNCHANGED <<codeVars, scanVars, gateVars, checks, places>>
CodeScopeStep ==
  part = "codeScope" /\ CodeNext /\ UNCHANGED <<editorVars, scanVars, gateVars, checks, places>>
CodeRefsStep ==
  part = "codeRefs" /\ ScanNext /\ UNCHANGED <<editorVars, codeVars, gateVars, checks, places>>
CommentGateStep ==
  part = "commentGate" /\ GateNext /\ UNCHANGED <<editorVars, codeVars, scanVars, checks, places>>
DocumentPolicyStep ==
  part = "documentPolicy" /\ PolicyNext /\ UNCHANGED <<others, guardVars, siteVars, fixVars, places>>
UpstreamGuardStep ==
  part = "upstreamGuard" /\ GuardNext /\ UNCHANGED <<others, policyVars, siteVars, fixVars, places>>
SiteBuildStep ==
  part = "siteBuild" /\ SiteNext /\ UNCHANGED <<others, policyVars, guardVars, fixVars, places>>

IndexFixStep ==
  part = "indexFix" /\ FixNext /\ UNCHANGED <<others, policyVars, guardVars, siteVars, places>>
SourceSymbolsStep ==
  part = "sourceSymbols" /\ SourceSymbols!Next /\ UNCHANGED <<others, checks>>

PartsNext ==
  /\ \/ EditorStep \/ CodeScopeStep \/ CodeRefsStep \/ CommentGateStep
     \/ DocumentPolicyStep \/ UpstreamGuardStep \/ SiteBuildStep \/ IndexFixStep
     \/ SourceSymbolsStep
  /\ UNCHANGED part

partsVars == <<part, others, checks, places>>

PartsSpec == PartsInit /\ [][PartsNext]_partsVars

-----------------------------------------------------------------------------
\* source-parser.ts: the symbols are those of the file, however it is wrapped.
SymbolsAreSound == part = "sourceSymbols" => SourceSymbols!SymbolsAreSound
=============================================================================
