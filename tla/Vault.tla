-------------------------------- MODULE Vault --------------------------------
(***************************************************************************)
(* The documents of lat.md and what a reference in them means: section     *)
(* identities (lattice.ts), strict resolution and lenient lookup           *)
(* (lattice-model.ts) and the commands and pages that must agree on them:  *)
(* check, refs, section, expand, the view's links, back-references, graph. *)
(*                                                                         *)
(* A document is the sequence of its headings.  Heading texts and path     *)
(* parts are compared without case, as the code does; a text is a word     *)
(* followed by the numbers of its "-1" suffixes, so that an authored       *)
(* "cats-1" and a second "cats" can collide.  Heading i of a document is   *)
(* on line 2*i and a link that follows it on line 2*i + 1.                 *)
(***************************************************************************)
EXTENDS Integers, Sequences, FiniteSets, SequencesExt, FiniteSetsExt

CONSTANTS
  Order,      \* the paths a document may have, in the order files are listed
  Texts,      \* the heading texts
  Slug,       \* the GitHub slug of a word of a heading
  Targets,    \* references that authors write and users ask for
  SourceLike, \* file names with the extension of a source language
  RepositoryFiles, \* the regular files of the repository that are not documents
  Symbols,    \* [RepositoryFiles -> the symbols defined in it]
  None,       \* no section
  MaxHeadings, \* bound: headings of a document, [Paths -> Nat]
  MaxTotal     \* bound: headings of the vault

Paths == Range(Order)

Names == Seq(DOMAIN Slug \cup Range(Slug) \cup Nat)

Sections ==
  [file : Paths, depth : 1..2, levels : Seq([literal : Names, slug : Names])]

\* A text is a word and numbers, and no file is a document.
ASSUME VaultAssumption ==
  /\ Order \in Seq(Paths)
  /\ \A text \in Texts :
       text[1] \in DOMAIN Slug /\ Tail(text) \in Seq(Nat) /\ text = <<text[1]>> \o Tail(text)
  /\ RepositoryFiles \cap Paths = {}
  /\ None \notin Sections

VARIABLES
  docs,     \* [Paths -> Seq(headings)]; a document without headings is absent
  analysis  \* [Paths -> the sections of the document, in order]

vars == <<docs, analysis>>

\* The first of a sequence that is in S, or none.
FirstOf(seq, S) ==
  LET at == {i \in DOMAIN seq : seq[i] \in S}
  IN  IF at = {} THEN None ELSE seq[CHOOSE i \in at : \A j \in at : i <= j]

-----------------------------------------------------------------------------
(* Sections (parseSections).                                               *)

SlugOf(text) == <<Slug[text[1]]>> \o Tail(text)

\* Defect: a second heading of a name always gets "-1".
FreshOnce(text, used) == IF text \in used THEN Append(text, 1) ELSE text

\* The name itself, or the name with the least suffix that is not taken.
Fresh(text, used) ==
  LET Taken(n) == Append(text, n) \in used
  IN  IF text \notin used THEN text
      ELSE Append(text, CHOOSE n \in 1..(Cardinality(used) + 1) :
                          ~Taken(n) /\ \A m \in 1..(n - 1) : Taken(m))

\* A section's id is its file and the literal names of its levels.
Id(s) == <<s.file, [i \in DOMAIN s.levels |-> s.levels[i].literal]>>
Heads(s) == Id(s)[2]
IsRoot(s) == Len(s.levels) = 1

\* The heading above is the last one of a smaller depth.
AddSection(found, file, heading) ==
  LET above == {i \in DOMAIN found : found[i].depth < heading.depth}
      prefix == IF above = {} THEN <<>>
                ELSE found[CHOOSE i \in above : \A j \in above : j <= i].levels
      siblings == {s \in Range(found) : Front(s.levels) = prefix}
      level == [literal |-> Fresh(heading.text,
                                  {Last(s.levels).literal : s \in siblings}),
                slug |-> Fresh(SlugOf(heading.text),
                               {Last(s.levels).slug : s \in Range(found)})]
  IN  Append(found, [file |-> file, depth |-> heading.depth,
                     levels |-> Append(prefix, level)])

Parse(file, headings) ==
  LET upto[n \in 0..Len(headings)] ==
        IF n = 0 THEN <<>> ELSE AddSection(upto[n - 1], file, headings[n])
  IN  upto[Len(headings)]

SectionsOf(vault, file) == IF file \in Paths THEN vault[file] ELSE <<>>

SectionsIn(vault, file) == Range(SectionsOf(vault, file))
AllSections == UNION {SectionsIn(analysis, p) : p \in Paths}

IsLeaf(s) ==
  ~\E c \in Range(analysis[s.file]) :
      c.levels # s.levels /\ IsPrefix(s.levels, c.levels)

-----------------------------------------------------------------------------
(* Resolution (lattice-model.ts).                                          *)

\* The path is the stem below one directory or more.
EndsIn(path, stem) == stem # <<>> /\ stem # path /\ IsSuffix(stem, path)

\* buildFileIndex: the files with sections whose path ends in stem.
Stems(vault, stem) ==
  {p \in Paths : vault[p] # <<>> /\ EndsIn(p, stem)}

\* buildSectionSlugIndex: every level by its literal name or by its slug.
IsAlias(s, heads) ==
  /\ Len(heads) = Len(s.levels)
  /\ \A i \in DOMAIN heads :
       heads[i] \in {s.levels[i].literal, s.levels[i].slug}

\* resolveKnown, sectionFor: a literal id wins over an alias, the first alias
\* over the later ones.
Known(vault, file, heads) ==
  LET literal == {s \in SectionsIn(vault, file) : Heads(s) = heads}
      alias == {s \in SectionsIn(vault, file) : IsAlias(s, heads)}
  IN  FirstOf(SectionsOf(vault, file), IF literal # {} THEN literal ELSE alias)

\* resolveInFile: there, or below the first root heading that has it.
InFile(vault, file, heads) ==
  LET direct == Known(vault, file, heads)
      Below(root) == Known(vault, file, Heads(root) \o heads)
      roots == {s \in SectionsIn(vault, file) : IsRoot(s) /\ Below(s) # None}
  IN  IF direct # None THEN direct
      ELSE IF roots = {} THEN None
      ELSE Below(FirstOf(SectionsOf(vault, file), roots))

\* The files that a reference may be to, and those of them that have it.
FilesFor(vault, t) ==
  LET stems == Stems(vault, t.file) IN IF stems = {} THEN {t.file} ELSE stems
Valid(vault, t) == {f \in FilesFor(vault, t) : InFile(vault, f, t.heads) # None}

Resolved(s) == [section |-> s, ambiguous |-> {}, suggested |-> None]

\* Defect: of several files with the stem the first that has the section is
\* taken.
ResolveFirst(vault, t) ==
  LET direct == Known(vault, t.file, t.heads)
      valid == Valid(vault, t)
  IN  IF direct # None THEN Resolved(direct)
      ELSE IF valid = {} THEN Resolved(None)
      ELSE Resolved(InFile(vault, FirstOf(Order, valid), t.heads))

\* resolveRef
Resolve(vault, t) ==
  LET direct == Known(vault, t.file, t.heads)
      files == FilesFor(vault, t)
      valid == Valid(vault, t)
  IN  IF direct # None THEN Resolved(direct)
      ELSE IF \E f \in files : files = {f}
        THEN Resolved(InFile(vault, CHOOSE f \in files : TRUE, t.heads))
      ELSE [section |-> None, ambiguous |-> files,
            suggested |-> IF \E f \in valid : valid = {f}
                          THEN [file |-> CHOOSE f \in valid : TRUE, heads |-> t.heads]
                          ELSE None]

Meaning(t) == Resolve(analysis, t)

-----------------------------------------------------------------------------
(* Lenient lookup (findSections): the first of its matches, which is what *)
(* lat section, lat expand and lat refs take.                              *)

\* A query with a heading: the id or alias itself, or else in the first of the
\* files the stem names that has it, there or below a root heading.
PathMatch(t) ==
  LET direct == Known(analysis, t.file, t.heads)
      valid == Valid(analysis, t)
  IN  IF direct # None THEN direct
      ELSE IF valid = {} THEN None
      ELSE InFile(analysis, FirstOf(Order, valid), t.heads)

\* The first in the files in their order (flattenSections).
FirstInVault(S) ==
  LET having == {p \in Paths : SectionsIn(analysis, p) \cap S # {}}
  IN  IF having = {} THEN None ELSE FirstOf(analysis[FirstOf(Order, having)], S)

\* A bare name: the roots of the files it names, or else the sections whose
\* last heading it is, by its literal name if any has it.
NameMatch(name) ==
  LET files == {name} \cup Stems(analysis, name)
      named == {s \in AllSections : IsRoot(s) /\ s.file \in files}
      literally == {s \in AllSections : Last(s.levels).literal = name}
      slugged == {s \in AllSections : Last(s.levels).slug = name}
  IN  FirstInVault(IF named # {} THEN named
                   ELSE IF literally # {} THEN literally ELSE slugged)

Best(t) == IF t.heads # <<>> THEN PathMatch(t) ELSE NameMatch(t.file)

-----------------------------------------------------------------------------
(* The links of a document and who follows them.  A link stands after      *)
(* heading l.at of l.file.                                                 *)

TargetOf(s) == [file |-> s.file, heads |-> Heads(s)]
NamesSource(t) == Last(t.file) \in SourceLike
SymbolExists(t) == t.heads = <<>> \/ t.heads \in Symbols[t.file]

\* extractRefs: the section a link belongs to; none above the first heading.
From(l) == IF l.at = 0 THEN None ELSE SectionsOf(analysis, l.file)[l.at]

\* repositoryRefError: a file, or a symbol of a source file.
RepositoryLinkOk(t) ==
  /\ t.file \in RepositoryFiles
  /\ t.heads = <<>> \/ (NamesSource(t) /\ SymbolExists(t))

\* checkMd
CheckAccepts(t) ==
  LET r == Meaning(t)
  IN  r.ambiguous = {} /\ (r.section # None \/ RepositoryLinkOk(t))

\* findRefs: which section a query is about.
IsSourceQuery(t) == NamesSource(t) /\ t.file \in RepositoryFiles
Queried(t) == IF Meaning(t).section # None THEN Meaning(t).section ELSE Best(t)

SameSource(t, q) == t = q \/ (q.heads = <<>> /\ t.file = q.file)

\* The sections and the code mentions that lat refs lists for q.
MdRefs(q, links) ==
  {From(l) : l \in {k \in links :
     IF IsSourceQuery(q) THEN SameSource(k.target, q)
     ELSE Queried(q) # None /\ Meaning(k.target).section = Queried(q)}}
  \ {None}

CodeRefs(q, mentions) ==
  {m \in mentions :
     IF IsSourceQuery(q) THEN SameSource(m, q)
     ELSE Queried(q) # None /\ Meaning(m).section = Queried(q)}

\* checkCodeRefs: the sections that the code mentions; every leaf of a
\* document with require-code-mention must be one.
Mentioned(mentions) == {Meaning(m).section : m \in mentions}

LacksMention(s, mentions) == IsLeaf(s) /\ s \notin Mentioned(mentions)

\* Where a follower of the link ends up.
Section(s) == [to |-> "section", section |-> s]
Source(t) == [to |-> "source", target |-> t]
Nowhere == [to |-> "nowhere"]

\* getSection: what the link is listed as.
Outgoing(t) ==
  IF NamesSource(t) THEN IF t.file \in RepositoryFiles THEN Source(t) ELSE Nowhere
  ELSE IF Meaning(t).section # None THEN Section(Meaning(t).section)
  ELSE Nowhere

\* createMarkdownWikiLinkResolver: the page the link opens.
ViewLink(t) ==
  LET r == Meaning(t)
  IN  IF r.ambiguous # {} THEN Nowhere
      ELSE IF r.section # None THEN Section(r.section)
      ELSE IF NamesSource(t) /\ t.file \in RepositoryFiles /\ SymbolExists(t)
           THEN Source(t)
      ELSE Nowhere

\* buildViewGraph: the node its edge leads to.
GraphNode(t) ==
  IF NamesSource(t) THEN IF CheckAccepts(t) THEN Source(t) ELSE Nowhere
  ELSE IF Meaning(t).section # None THEN Section(Meaning(t).section)
  ELSE Nowhere

\* buildViewReferenceIndex: whether the link is shown where it leads.
ShownAtSection(l) == From(l) # None /\ Meaning(l.target).section # None
ShownAtSource(l) == From(l) # None /\ NamesSource(l.target)

\* linkedSection, CheckRunContext.headings: the section an anchor means, and
\* whether check accepts it.
AtAnchor(file, slug) ==
  FirstOf(SectionsOf(analysis, file),
          {s \in SectionsIn(analysis, file) : Last(s.levels).slug = slug})

-----------------------------------------------------------------------------
(* The author edits the vault, one file at a time; every command and every *)
(* refresh of the view analyses it anew (analyzeMarkdownProject).          *)

AnyHeading == [depth : 1..2, text : Texts]

Total == MapThenSumSet(LAMBDA p : Len(docs[p]), Paths)

Init ==
  /\ docs = [p \in Paths |-> <<>>]
  /\ analysis = [p \in Paths |-> <<>>]

Save(p, headings) ==
  /\ docs' = [docs EXCEPT ![p] = headings]
  /\ analysis' = [analysis EXCEPT ![p] = Parse(p, headings)]

CreateDocument(p) ==
  /\ docs[p] = <<>> /\ Total < MaxTotal
  /\ \E h \in AnyHeading : Save(p, <<h>>)

AddHeading(p) ==
  /\ docs[p] # <<>> /\ Len(docs[p]) < MaxHeadings[p] /\ Total < MaxTotal
  /\ \E h \in AnyHeading : Save(p, Append(docs[p], h))

DeleteDocument(p) == docs[p] # <<>> /\ Save(p, <<>>)

Next ==
  \E p \in Paths : CreateDocument(p) \/ AddHeading(p) \/ DeleteDocument(p)

Spec == Init /\ [][Next]_vars

-----------------------------------------------------------------------------
(* Properties.                                                             *)

\* A section has an id, and in its file an anchor, that no other section has,
\* whatever repeated and suffixed headings the author writes: an id and a link
\* to the anchor lead to it, and so does the alias made of anchors unless the
\* anchor is also written literally as a heading.
IdentitiesLeadBack ==
  \A s \in AllSections :
    /\ Meaning(TargetOf(s)).section = s
    /\ AtAnchor(s.file, Last(s.levels).slug) = s
    /\ LET slugs == [i \in DOMAIN s.levels |-> s.levels[i].slug]
           found == Known(analysis, s.file, slugs)
       IN  found = s \/ Last(found.levels).literal = Last(slugs)
    /\ \A r \in AllSections : Id(r) = Id(s) => r = s

\* The path of a document that another's ends in, as lat.md/lat.md/x does in
\* lat.md/x.  buildFileIndex leaves a file's own path to the exact match of an
\* id, so a link by such a path that is no id means the other document.
Shadowed(file) == file \in Paths /\ \E p \in Paths : EndsIn(p, file)

\* Strict and lenient resolution never disagree: what check takes a link for
\* is what lat section, lat expand and lat refs show for it.
StrictAndLenientAgree ==
  \A t \in Targets :
    Meaning(t).section # None /\ ~Shadowed(t.file) => Best(t) = Meaning(t).section

\* A link that check accepts is followed by every other reader, to the same
\* place.  The exception is a link whose file name looks like source code and
\* that means a section: lat section and the graph take it for source.
AcceptedLinksAreFollowed ==
  \A t \in {u \in Targets : CheckAccepts(u)} :
    LET s == Meaning(t).section
        link == [file |-> (CHOOSE f \in Paths : docs[f] # <<>>), at |-> 1,
                 target |-> t]
    IN  \/ AllSections = {}
        \/ /\ s # None
           /\ From(link) \in MdRefs(TargetOf(s), {link})
           /\ ShownAtSection(link) /\ ViewLink(t) = Section(s)
           /\ ~NamesSource(t) => Outgoing(t) = Section(s) /\ GraphNode(t) = Section(s)
        \/ /\ s = None /\ t.file \in RepositoryFiles
           /\ NamesSource(t) =>
                /\ From(link) \in MdRefs(t, {link})
                /\ ShownAtSource(link)
                /\ {ViewLink(t), Outgoing(t), GraphNode(t)} = {Source(t)}

\* A leaf that check does not report as unmentioned is one for which lat refs
\* lists the mention.
MentionsAreFound ==
  \A m \in Targets, s \in AllSections :
    IsLeaf(s) /\ ~LacksMention(s, {m}) => m \in CodeRefs(TargetOf(s), {m})

\* The link that check suggests for an ambiguous one is accepted, and means
\* what the only valid candidate means.
SuggestionsAreValid ==
  \A t \in Targets :
    LET r == Meaning(t)
    IN  r.suggested # None /\ ~Shadowed(r.suggested.file) =>
          /\ Meaning(r.suggested).section = InFile(analysis, r.suggested.file, t.heads)
          /\ CheckAccepts(r.suggested)
          /\ \A f \in r.ambiguous \ {r.suggested.file} :
               InFile(analysis, f, t.heads) = None

\* Whoever reads a link, by id, anchor, name or suggestion, strictly or not,
\* takes it for the same place.
LinksMeanTheSame ==
  /\ IdentitiesLeadBack /\ StrictAndLenientAgree /\ AcceptedLinksAreFollowed
  /\ MentionsAreFound /\ SuggestionsAreValid

\* A new document never redirects an accepted link to a section: the link
\* keeps its meaning or is reported as ambiguous.
NewDocumentsRedirectNothing ==
  [][\A p \in Paths : CreateDocument(p) =>
       \A t \in Targets :
         Meaning(t).section # None /\ ~Shadowed(t.file) =>
           \/ Meaning(t).section = Resolve(analysis', t).section
           \/ Resolve(analysis', t).ambiguous # {}]_vars
=============================================================================
