---------------------------- MODULE SourceSymbols ----------------------------
(***************************************************************************)
(* The symbols that source links name (packages/core/src/source-parser.ts):*)
(* what each language's extractor takes from a syntax tree, and how a      *)
(* command gets the symbols of a file from the promises of its run, from   *)
(* the parser cache on disk, or by parsing.                                *)
(*                                                                         *)
(* A syntax node has its grammar's type, the name of what it declares, the *)
(* name it is attached to (a receiver, an outer scope) and its children.   *)
(* Kinds, lines and signatures are left out.                               *)
(***************************************************************************)
EXTENDS Integers, Sequences, FiniteSets

CONSTANTS
    Absent,                \* the file does not exist
    MaxChanges, MaxAsks, MaxKills

VARIABLES
    language,   \* of file "a"
    content,    \* [SourceFiles -> a syntax tree, or Absent]
    stored,     \* .cache/parsed: [SourceFiles -> [text, symbols], text Absent if none]
    job,        \* SourceParserRuntime: [Users -> [SourceFiles -> resolveSourceSymbol]]
    parser,     \* the language each process's parser is set to
    asks, changes, kills,
    since       \* history: [Users -> contents of file "a" since the run began]

vars == <<language, content, stored, job, parser, asks, changes, kills, since>>

SourceFiles == {"a", "b"}
Users == {"check", "view"}

-----------------------------------------------------------------------------
(* Symbols. *)

Node(type, name, kids) == [type |-> type, name |-> name, of |-> "", kids |-> kids]
Leaf(type, name) == Node(type, name, <<>>)
Wrap(type, node) == Node(type, "", <<node>>)

OfOwner(owner, name) == {[owner |-> owner, name |-> name]}
Alone(name) == OfOwner("", name)
Both(owner, name) == Alone(name) \cup OfOwner(owner, name)

Each(nodes, Symbols(_)) == UNION {Symbols(nodes[i]) : i \in DOMAIN nodes}
NamesIn(nodes, types) == {nodes[i].name : i \in {j \in DOMAIN nodes : nodes[j].type \in types}}
Members(node, types) == UNION {OfOwner(node.name, name) : name \in NamesIn(node.kids, types)}

\* Only these are found inside an export; a generator function is not.
Exportable ==
  {"function_declaration", "class_declaration", "lexical_declaration",
   "type_alias_declaration", "interface_declaration", "abstract_class_declaration"}
TypeScript(doc) ==
  Each(doc, LAMBDA x :
    LET d == IF x.type = "export_statement" /\ x.kids[1].type \in Exportable THEN x.kids[1] ELSE x IN
    CASE d.type \in {"class_declaration", "abstract_class_declaration"} ->
           Alone(d.name) \cup Members(d, {"method_definition", "public_field_definition"})
      [] d.type \in Exportable \cup {"generator_function_declaration"} -> Alone(d.name)
      [] OTHER -> {})

Undecorated(x) == IF x.type = "decorated_definition" THEN x.kids[1] ELSE x
Python(doc) ==
  Each(doc, LAMBDA x :
    LET d == Undecorated(x) IN
    CASE d.type = "class_definition" ->
           Alone(d.name) \cup Members([d EXCEPT !.kids = [i \in DOMAIN @ |-> Undecorated(@[i])]],
                                      {"function_definition"})
      [] d.type \in {"function_definition", "assignment"} -> Alone(d.name)
      [] OTHER -> {})

\* A scoped name A::B brings its owner with it; rake names are in tasks and
\* namespaces.
RECURSIVE Ruby(_, _)
Ruby(doc, owner) ==
  Each(doc, LAMBDA x :
    LET outer == IF x.of # "" THEN x.of ELSE owner IN
    CASE x.type \in {"class", "module", "namespace"} -> Both(outer, x.name) \cup Ruby(x.kids, x.name)
      [] x.type \in {"method", "singleton_method", "task"} -> OfOwner(owner, x.name)
      [] x.type = "constant" -> Both(outer, x.name)
      [] OTHER -> {})

DartMembers(x) == Members(x, {"representation", "method_signature", "declaration", "enum_constant"})
Dart(doc) ==
  Each(doc, LAMBDA x :
    CASE x.type \in {"function_signature", "getter_signature", "setter_signature", "type_alias",
                     "initialized_identifier"} -> Alone(x.name)
      [] x.type \in {"class_definition", "mixin_declaration", "extension_declaration",
                     "enum_declaration", "extension_type_declaration"} ->
           Alone(x.name) \cup DartMembers(x)
      [] OTHER -> {})

\* An extension is a type's second scope and no second definition of it.
RECURSIVE Swift(_, _)
Swift(doc, owner) ==
  Each(doc, LAMBDA x :
    CASE x.type = "extension" -> Swift(x.kids, x.name)
      [] x.type \in {"class_declaration", "protocol_declaration"} ->
           Both(owner, x.name) \cup Swift(x.kids, x.name)
      [] x.type \in {"function_declaration", "typealias_declaration", "property_declaration",
                     "enum_entry"} -> OfOwner(owner, x.name)
      [] x.type = "init_declaration" /\ owner # "" -> OfOwner(owner, "init")
      [] OTHER -> {})

RECURSIVE Java(_, _)
Java(doc, owner) ==
  Each(doc, LAMBDA x :
    CASE x.type \in {"class_declaration", "interface_declaration", "enum_declaration",
                     "record_declaration"} ->
           Both(owner, x.name) \cup Members(x, {"formal_parameter"}) \cup Java(x.kids, x.name)
      [] owner # "" /\ x.type \in {"method_declaration", "constructor_declaration",
                                   "field_declaration", "enum_constant"} -> OfOwner(owner, x.name)
      [] owner # "" /\ x.type = "enum_body_declarations" -> Java(x.kids, owner)
      [] OTHER -> {})

\* Containers are walked whatever they stand in; function bodies are not.
RECURSIVE Php(_, _)
Php(doc, owner) ==
  Each(doc, LAMBDA x :
    CASE x.type \in {"class_declaration", "interface_declaration", "trait_declaration",
                     "enum_declaration"} -> Alone(x.name) \cup Php(x.kids, x.name)
      [] x.type = "function_definition" /\ owner = "" -> Alone(x.name)
      [] x.type \in {"method_declaration", "enum_case"} /\ owner # "" ->
           OfOwner(owner, x.name) \cup
           UNION {OfOwner(owner, n) : n \in NamesIn(x.kids, {"property_promotion_parameter"})}
      [] x.type \in {"const_declaration", "property_declaration"} -> OfOwner(owner, x.name)
      [] x.type \in {"namespace_definition", "if_statement"} -> Php(x.kids, owner)
      [] OTHER -> {})

Rust(doc) ==
  Each(doc, LAMBDA x :
    CASE x.type \in {"function_item", "struct_item", "enum_item", "trait_item", "const_item",
                     "static_item", "type_item"} -> Alone(x.name)
      [] x.type = "impl_item" -> Members(x, {"function_item"})
      [] OTHER -> {})

Go(doc) ==
  Each(doc, LAMBDA x :
    CASE x.type = "method_declaration" -> OfOwner(x.of, x.name)
      [] x.type \in {"function_declaration", "type_spec", "const_spec", "var_spec"} -> Alone(x.name)
      [] OTHER -> {})

\* Of a conditional only the first branch is read.
ThenBranch(x) ==
  SelectSeq(x.kids, LAMBDA k : k.type \notin {"preproc_else", "preproc_elif"})

\* An enumerator has both its names, a field only the one of its struct; in a
\* typedef the alias stands for the tag.
Enumerators(x, owner) ==
  UNION {Alone(n) \cup (IF owner = "" THEN {} ELSE OfOwner(owner, n)) :
           n \in NamesIn(x.kids, {"enumerator"})}
CFields(x, owner) == Members([x EXCEPT !.name = owner], {"field_declaration"})
RECURSIVE C(_)
C(doc) ==
  Each(doc, LAMBDA x :
    CASE x.type = "struct_specifier" -> Alone(x.name) \cup CFields(x, x.name)
      [] x.type = "enum_specifier" ->
           (IF x.name = "" THEN {} ELSE Alone(x.name)) \cup Enumerators(x, x.name)
      [] x.type = "type_definition" ->
           Alone(x.name) \cup
           Each(x.kids, LAMBDA k : CASE k.type = "enum_specifier" -> Enumerators(k, x.name)
                                     [] k.type = "struct_specifier" -> CFields(k, x.name)
                                     [] OTHER -> {})
      [] x.type \in {"function_definition", "declaration", "preproc_def"} -> Alone(x.name)
      [] x.type \in {"preproc_if", "linkage_specification"} -> C(ThenBranch(x))
      [] OTHER -> {})

\* symbolExtractors
Languages == {"ts", "py", "rb", "dart", "swift", "java", "php", "rs", "go", "c"}
Extract(lang, doc) ==
  CASE lang = "ts" -> TypeScript(doc)
    [] lang = "py" -> Python(doc)
    [] lang = "rb" -> Ruby(doc, "")
    [] lang = "dart" -> Dart(doc)
    [] lang = "swift" -> Swift(doc, "")
    [] lang = "java" -> Java(doc, "")
    [] lang = "php" -> Php(doc, "")
    [] lang = "rs" -> Rust(doc)
    [] lang = "go" -> Go(doc)
    [] lang = "c" -> C(doc)

-----------------------------------------------------------------------------
(* A node of each sort that an extractor tells apart. *)

Samples ==
  [ts |-> {Leaf("function_declaration", "f"), Leaf("generator_function_declaration", "g"),
           Leaf("lexical_declaration", "k"), Leaf("type_alias_declaration", "T"),
           Leaf("interface_declaration", "I"),
           Node("abstract_class_declaration", "A",
                <<Leaf("method_definition", "m"), Leaf("abstract_method_signature", "n")>>),
           Node("class_declaration", "C", <<Leaf("public_field_definition", "p")>>)},
   py |-> {Leaf("function_definition", "f"), Leaf("assignment", "k"), Leaf("if_statement", ""),
           Node("class_definition", "C",
                <<Leaf("function_definition", "m"),
                  Wrap("decorated_definition", Leaf("function_definition", "n")),
                  Leaf("class_definition", "Inner")>>)},
   rb |-> {Leaf("method", "f"), Leaf("constant", "K"), Leaf("task", "t"),
           [Leaf("constant", "K") EXCEPT !.of = "A"],
           Node("module", "A", <<Node("class", "B", <<Leaf("method", "m"), Leaf("constant", "K")>>)>>),
           [Node("class", "B", <<Leaf("singleton_method", "m")>>) EXCEPT !.of = "A"],
           Node("namespace", "n", <<Leaf("task", "t")>>)},
   dart |-> {Leaf("function_signature", "f"), Leaf("type_alias", "T"),
             Leaf("initialized_identifier", "k"),
             Node("class_definition", "C", <<Leaf("method_signature", "m"), Leaf("declaration", "p")>>),
             Node("enum_declaration", "E", <<Leaf("enum_constant", "e")>>),
             Node("extension_type_declaration", "X",
                  <<Leaf("representation", "r"), Leaf("method_signature", "m")>>)},
   swift |-> {Leaf("function_declaration", "f"), Leaf("property_declaration", "k"),
              Leaf("init_declaration", ""),
              Node("class_declaration", "C",
                   <<Leaf("init_declaration", ""), Leaf("function_declaration", "m"),
                     Node("class_declaration", "E", <<Leaf("enum_entry", "e")>>)>>),
              Node("extension", "C", <<Leaf("function_declaration", "n")>>)},
   java |-> {Node("class_declaration", "C",
                  <<Leaf("method_declaration", "m"), Leaf("field_declaration", "k"),
                    Node("interface_declaration", "I", <<Leaf("method_declaration", "n")>>)>>),
             Node("record_declaration", "R", <<Leaf("formal_parameter", "r")>>),
             Node("enum_declaration", "E",
                  <<Leaf("enum_constant", "e"),
                    Wrap("enum_body_declarations", Leaf("method_declaration", "m"))>>),
             Leaf("method_declaration", "m")},
   php |-> {Leaf("function_definition", "f"), Leaf("const_declaration", "K"),
            Leaf("enum_case", "e"),
            Node("class_declaration", "C",
                 <<Node("method_declaration", "__construct",
                        <<Leaf("property_promotion_parameter", "p")>>),
                   Leaf("property_declaration", "q"), Leaf("function_definition", "f")>>),
            Node("enum_declaration", "E", <<Leaf("enum_case", "e")>>),
            Wrap("namespace_definition", Leaf("interface_declaration", "I"))},
   rs |-> {Leaf("function_item", "f"), Leaf("const_item", "K"),
           Node("struct_item", "S", <<Leaf("field_declaration", "p")>>),
           Node("trait_item", "T", <<Leaf("function_signature_item", "m")>>),
           Node("impl_item", "S", <<Leaf("function_item", "m"), Leaf("const_item", "K")>>)},
   go |-> {Leaf("function_declaration", "f"), Leaf("type_spec", "T"), Leaf("const_spec", "K"),
           [Leaf("method_declaration", "m") EXCEPT !.of = "T"]},
   c |-> {Leaf("function_definition", "f"), Leaf("declaration", "k"), Leaf("preproc_def", "K"),
          Node("struct_specifier", "S", <<Leaf("field_declaration", "p")>>),
          Node("enum_specifier", "", <<Leaf("enumerator", "e")>>),
          Node("type_definition", "T",
               <<Node("struct_specifier", "S", <<Leaf("field_declaration", "p")>>)>>),
          Node("type_definition", "T", <<Node("enum_specifier", "E", <<Leaf("enumerator", "e")>>)>>),
          Node("preproc_if", "",
               <<Leaf("function_definition", "f"),
                 Wrap("preproc_else", Leaf("function_definition", "g"))>>)}]

\* What an author may put around declarations without moving their names.
Wrappers == [ts |-> {"export_statement"}, py |-> {"decorated_definition"},
             php |-> {"namespace_definition", "if_statement"},
             c |-> {"preproc_if", "linkage_specification"}]

Texts(lang) == {<<>>} \cup {<<node>> : node \in Samples[lang]}

-----------------------------------------------------------------------------
(* A run of the commands gets the symbols of the files its links name. *)

\* The other file of the tree, in a language of its own.
Beside == <<Leaf("function_declaration", "f"), Leaf("type_spec", "T")>>
LanguageOf(f) == IF f = "a" THEN language ELSE "go"

Idle == [pc |-> "idle", text |-> Absent, symbols |-> {}]

Init ==
  /\ language \in Languages \ {"go"}
  /\ content \in {[a |-> text, b |-> Beside] : text \in Texts(language)}
  /\ stored = [f \in SourceFiles |-> [text |-> Absent, symbols |-> {}]]
  /\ job = [u \in Users |-> [f \in SourceFiles |-> Idle]]
  /\ parser = [u \in Users |-> "none"]
  /\ asks = 0 /\ changes = 0 /\ kills = 0
  /\ since = [u \in Users |-> {content["a"]}]

Write ==
  /\ changes < MaxChanges
  /\ changes' = changes + 1
  /\ \E text \in {<<>>, Absent} :
       /\ content' = [content EXCEPT !["a"] = text]
       /\ since' = [u \in Users |-> since[u] \cup {text}]
  /\ UNCHANGED <<language, stored, job, parser, asks, kills>>

\* The check looks a file up in its runtime and joins what is there; a page
\* of the view has a runtime of its own for each request.
Ask(u, f) ==
  /\ asks < MaxAsks
  /\ asks' = asks + 1
  /\ u = "view" => f = "a"
  /\ job[u][f].pc \in (IF u = "view" THEN {"idle", "done"} ELSE {"idle"})
  /\ job' = [job EXCEPT ![u][f] = [Idle EXCEPT !.pc = "read"]]
  /\ since' = IF u = "view" THEN [since EXCEPT ![u] = {content["a"]}] ELSE since
  /\ UNCHANGED <<language, content, stored, parser, changes, kills>>

\* The runtime of the next check is empty.
NewRun ==
  /\ \A f \in SourceFiles : job["check"][f].pc \in {"idle", "done"}
  /\ \E f \in SourceFiles : job["check"][f].pc = "done"
  /\ job' = [job EXCEPT !["check"] = [f \in SourceFiles |-> Idle]]
  /\ since' = [since EXCEPT !["check"] = {content["a"]}]
  /\ UNCHANGED <<language, content, stored, parser, asks, changes, kills>>

Advance(u, f, pc, to) ==
  /\ job[u][f].pc = pc
  /\ job' = [job EXCEPT ![u][f] = to]
  /\ UNCHANGED <<language, content, asks, changes, kills, since>>

\* readFile, then the cache entry of the path.
Read(u, f) ==
  /\ Advance(u, f, "read",
             IF content[f] = Absent THEN [Idle EXCEPT !.pc = "done"]
             ELSE [Idle EXCEPT !.pc = "look", !.text = content[f]])
  /\ UNCHANGED <<stored, parser>>

Usable(f, text) == stored[f].text # Absent /\ stored[f].text = text

LookUp(u, f) ==
  LET j == job[u][f] IN
  /\ Advance(u, f, "look",
             IF Usable(f, j.text) THEN [j EXCEPT !.pc = "done", !.symbols = stored[f].symbols]
             ELSE [j EXCEPT !.pc = "load"])
  /\ UNCHANGED <<stored, parser>>

\* The grammar is awaited; setLanguage and parse are one turn.
LoadGrammar(u, f) ==
  /\ Advance(u, f, "load", [job[u][f] EXCEPT !.pc = "parse"])
  /\ UNCHANGED <<stored, parser>>

\* Defect: the language is set when the parser is made.
ParseAsMade(u, f) ==
  LET made == IF parser[u] = "none" THEN LanguageOf(f) ELSE parser[u] IN
  /\ Advance(u, f, "parse",
             [job[u][f] EXCEPT !.pc = "store", !.symbols = Extract(made, job[u][f].text)])
  /\ parser' = [parser EXCEPT ![u] = made]
  /\ UNCHANGED stored

Parse(u, f) ==
  /\ Advance(u, f, "parse",
             [job[u][f] EXCEPT !.pc = "store",
                               !.symbols = Extract(LanguageOf(f), job[u][f].text)])
  /\ parser' = [parser EXCEPT ![u] = LanguageOf(f)]
  /\ UNCHANGED stored

\* The entry is renamed into place, unless that fails; the answer stands.
Store(u, f) ==
  /\ Advance(u, f, "store", [job[u][f] EXCEPT !.pc = "done"])
  /\ \/ stored' = [stored EXCEPT ![f] = [text |-> job[u][f].text, symbols |-> job[u][f].symbols]]
     \/ stored' = stored
  /\ UNCHANGED parser

\* The process of one of them is killed.
Kill(u) ==
  /\ kills < MaxKills
  /\ kills' = kills + 1
  /\ job' = [job EXCEPT ![u] = [f \in SourceFiles |-> Idle]]
  /\ parser' = [parser EXCEPT ![u] = "none"]
  /\ since' = [since EXCEPT ![u] = {content["a"]}]
  /\ UNCHANGED <<language, content, stored, asks, changes>>

Steps(u, f) ==
  \/ Ask(u, f) \/ Read(u, f) \/ LookUp(u, f) \/ LoadGrammar(u, f) \/ Parse(u, f) \/ Store(u, f)

Next ==
  \/ Write \/ NewRun
  \/ \E u \in Users : Kill(u)
  \/ \E u \in Users, f \in SourceFiles : Steps(u, f)

Spec == Init /\ [][Next]_vars

-----------------------------------------------------------------------------
(* Properties. *)

\* What a run learns of a file are the symbols of one content that the file had
\* since the run began, whatever other runs left in the cache, whatever they
\* parse at the same time and whoever was killed (analyzeSourceSymbols).
ContentsSeen(u, f) == IF f = "a" THEN since[u] ELSE {Beside}
AnswersAreOfTheFile ==
  \A u \in Users, f \in SourceFiles :
    job[u][f].pc = "done" =>
      \E text \in ContentsSeen(u, f) :
        job[u][f].symbols = IF text = Absent THEN {} ELSE Extract(LanguageOf(f), text)

\* Exporting, decorating, guarding or linking a declaration leaves every link to
\* it and to its members valid, and adds none; the exported generator function
\* is the one that gets lost (extractTsSymbols).
WrappersAreTransparent ==
  LET text == content["a"] IN
  (text # Absent /\ language \in DOMAIN Wrappers) =>
    \A w \in Wrappers[language] :
      Extract(language, [i \in DOMAIN text |-> Wrap(w, text[i])]) =
        IF \E i \in DOMAIN text : text[i].type = "generator_function_declaration"
          THEN {} ELSE Extract(language, text)

\* Both: what is read is of the file, and what is found in it does not depend on
\* how its declarations are wrapped.
SymbolsAreSound == AnswersAreOfTheFile /\ WrappersAreTransparent
=============================================================================
