----------------------------- MODULE ImportGraph -----------------------------
(***************************************************************************)
(* From the import statements of a repository to its dependency graph:     *)
(* which file an import names (languages/typescript/resolver.py,           *)
(* languages/python/resolver.py), which files are looked at                *)
(* (analysis/analyzer.py) and which edges come out (analysis/graph.py).    *)
(*                                                                         *)
(* A path is the sequence of its segments and a segment is split at its    *)
(* dots: src/orders.service.ts is                                          *)
(*     << <<"src">>, <<"orders", "service", "ts">> >>.                     *)
(* A repository has path (its files in the order of their names; a file is *)
(* its number), skipped (files that are too big to be parsed), statements  *)
(* and roles (what the concepts say of each file).  A statement has the    *)
(* file it is in, level (0 when it does not start with a dot; "./" and a   *)
(* Python "." are 1, one more for each folder up), module (the rest, as a  *)
(* path) and names (what it takes from there).                             *)
(***************************************************************************)
EXTENDS Naturals, Sequences, FiniteSets, SequencesExt

(* The file at a path, if there is one. *)
At(repo, p) == {f \in DOMAIN repo.path : repo.path[f] = p}

(* The file at the first of these paths that exists. *)
FirstOf(repo, paths) ==
    LET found == {i \in DOMAIN paths : At(repo, paths[i]) # {}}
    IN  UNION {At(repo, paths[i]) : i \in {j \in found : \A k \in found : j <= k}}

WithExtension(p, extension) == Append(Front(p), Last(p) \o extension)

HasExtension(p, extensions) == Len(Last(p)) > 1 /\ Last(Last(p)) \in extensions

IsDeclaration(p) == Len(Last(p)) > 2 /\ Last(Front(Last(p))) = "d"

(* LanguageAdapter.owns: a declaration file (.d.ts) has no language. *)
IsTypeScript(p) == HasExtension(p, {"ts", "tsx", "mts", "cts"})
                   /\ ~ (IsDeclaration(p) /\ Last(Last(p)) = "ts")

IsPython(p) == HasExtension(p, {"py"})

(* A folder up is left for every level after the first; an import of a
   package, or one that leaves the repository or names its root, has no path. *)
Base(repo, s) ==
    LET folder == Front(repo.path[s.file])
    IN  IF s.level \notin 1 .. Len(folder) + 1 THEN <<>>
        ELSE SubSeq(folder, 1, Len(folder) + 1 - s.level) \o s.module

-----------------------------------------------------------------------------
(* TypeScript. *)

SourceExtensions == << <<"ts">>, <<"tsx">>, <<"mts">>, <<"cts">>, <<"d", "ts">>, <<"js">>,
                       <<"jsx">>, <<"mjs">>, <<"cjs">> >>

(* ESM style: "./x.js" may mean "./x.ts". *)
Rewritten(base) ==
    IF HasExtension(base, {"js", "jsx", "mjs", "cjs"})
    THEN LET stem == Append(Front(base), Front(Last(base)))
         IN  << WithExtension(stem, <<"ts">>), WithExtension(stem, <<"tsx">>) >>
    ELSE <<>>

Extended(base) ==
    [i \in DOMAIN SourceExtensions |-> WithExtension(base, SourceExtensions[i])]

Indexes(base) ==
    [i \in DOMAIN SourceExtensions |-> Append(base, <<"index">> \o SourceExtensions[i])]

Candidates(base) == <<base>> \o Rewritten(base) \o Extended(base) \o Indexes(base)

ResolveTypeScript(repo, s) ==
    IF Base(repo, s) = <<>> THEN {} ELSE FirstOf(repo, Candidates(Base(repo, s)))

-----------------------------------------------------------------------------
(* Python. *)

PackageFile(parts) == Append(parts, <<"__init__", "py">>)

(* _file_for *)
FileFor(repo, parts) ==
    IF parts = <<>> THEN {}
    ELSE FirstOf(repo, <<WithExtension(parts, <<"py">>), PackageFile(parts)>>)

(* The dotted name of a file, a package by its folder. *)
Dotted(p) ==
    LET pieces == Front(FlattenSeq(p))
    IN  IF pieces # <<>> /\ Last(pieces) = "__init__" THEN Front(pieces) ELSE pieces

(* _module_index: a file under src/ is known by its name without src, too. *)
ModuleNames(p) ==
    ({Dotted(p)} \cup IF Head(p) = <<"src">> THEN {Dotted(Tail(p))} ELSE {}) \ {<<>>}

(* Where two files have the same dotted name, the first one counts. *)
ModuleFile(repo, module) ==
    LET named == {f \in DOMAIN repo.path : /\ IsPython(repo.path[f])
                                           /\ FlattenSeq(module) \in ModuleNames(repo.path[f])}
    IN  {f \in named : \A g \in named : f <= g}

FileOf(repo, s, module) ==
    IF s.level = 0 THEN ModuleFile(repo, module) ELSE FileFor(repo, module)

PythonModule(repo, s) == IF s.level = 0 THEN s.module ELSE Base(repo, s)

(* A relative import that leaves the repository has no targets. *)
Leaves(repo, s) == s.level > Len(repo.path[s.file])

(* Mutated form: the module itself, and modules among the names only without it. *)
ResolvePythonModuleFirst(repo, s) ==
    LET module == PythonModule(repo, s)
    IN  IF Leaves(repo, s) THEN {}
        ELSE IF FileOf(repo, s, module) # {} THEN FileOf(repo, s, module)
        ELSE UNION {FileOf(repo, s, Append(module, <<n>>)) : n \in s.names}

(* Modules among the names; only when there are none, the module itself. *)
ResolvePython(repo, s) ==
    LET module     == PythonModule(repo, s)
        submodules == UNION {FileOf(repo, s, Append(module, <<n>>)) : n \in s.names}
    IN  IF Leaves(repo, s) THEN {}
        ELSE IF submodules # {} THEN submodules
        ELSE FileOf(repo, s, module)

-----------------------------------------------------------------------------
(* The analyzer and the graph. *)

Parsed(repo) ==
    {f \in DOMAIN repo.path : IsTypeScript(repo.path[f]) \/ IsPython(repo.path[f])}
        \ repo.skipped

ParsedStatements(repo) == {s \in repo.statements : s.file \in Parsed(repo)}

ResolveImport(repo, s) ==
    IF IsPython(repo.path[s.file]) THEN ResolvePython(repo, s) ELSE ResolveTypeScript(repo, s)

(* An import without targets is of an external package, or the analyzer warns. *)
LooksInternal(repo, s) ==
    \/ s.level > 0
    \/ /\ IsPython(repo.path[s.file])
       /\ \E f \in DOMAIN repo.path : /\ IsPython(repo.path[f])
                                      /\ \E name \in ModuleNames(repo.path[f]) :
                                            Head(name) = Head(FlattenSeq(s.module))

Warned(repo) ==
    {s \in ParsedStatements(repo) : ResolveImport(repo, s) = {} /\ LooksInternal(repo, s)}

(* <<importer, imported>>; a file that imports itself is no edge. *)
ImportEdges(repo) ==
    UNION {{s.file} \X (ResolveImport(repo, s) \ {s.file}) : s \in ParsedStatements(repo)}

(* Parsed files, and whatever they import, data and skipped files included. *)
GraphNodes(repo) == Parsed(repo) \cup {e[2] : e \in ImportEdges(repo)}

-----------------------------------------------------------------------------
(* What the languages themselves do with an import: the files it takes its  *)
(* names from.                                                              *)

(* TypeScript puts .ts before .js, and a file before a folder.  Declaration files are
   left out: they hold no code. *)
TypeScriptUses(repo, s) ==
    LET base == Base(repo, s)
    IN  IF s.level = 0 \/ s.level > Len(repo.path[s.file]) THEN {}
        ELSE IF base = <<>> THEN FirstOf(repo, << << <<"index", "ts">> >> >>)
        ELSE FirstOf(repo, Rewritten(base) \o SubSeq(Extended(base), 1, 2) \o <<base>>
                               \o SubSeq(Indexes(base), 1, 2))

(* Python takes every name from the submodule of that name, if there is one, and
   otherwise from the module itself. *)
PythonUses(repo, s) ==
    LET module       == PythonModule(repo, s)
        Submodule(n) == FileOf(repo, s, Append(module, <<n>>))
        Taken(n)     == IF Submodule(n) # {} THEN Submodule(n) ELSE FileOf(repo, s, module)
    IN  IF Leaves(repo, s) THEN {}
        ELSE IF s.names = {} THEN FileOf(repo, s, module)
        ELSE UNION {Taken(n) : n \in s.names}

Uses(repo, s) ==
    IF IsPython(repo.path[s.file]) THEN PythonUses(repo, s) ELSE TypeScriptUses(repo, s)

=============================================================================
