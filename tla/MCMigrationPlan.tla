--------------------------- MODULE MCMigrationPlan ---------------------------
(***************************************************************************)
(* Instances of MigrationPlan for TLC: import graphs over four TypeScript  *)
(* files with cycles of every length, one file of each kind of role, two   *)
(* Python repositories and one with files that are not parsed, and answers *)
(* with every kind of problem.                                             *)
(***************************************************************************)
EXTENDS MigrationPlan

Src(folder, name) == << <<"src">>, <<folder>>, name >>

Statement(file, level, module, names) ==
    [file |-> file, level |-> level, module |-> module, names |-> names]

(* A file, the index of its folder, and two more in another folder. *)
FourPaths == <<Src("app", <<"app", "ts">>), Src("app", <<"index", "ts">>),
               Src("orders", <<"orders", "service", "ts">>), Src("orders", <<"orders", "spec", "tsx">>)>>

(* How each of them is imported. *)
Spelled == << << <<"app">>, <<"app", "js">> >>, << <<"app">> >>,
              << <<"orders">>, <<"orders", "service">> >>, << <<"orders">>, <<"orders", "spec">> >> >>

(* Any imports but those between files 2 and 4; file 2 imports itself, too. *)
SomeImports ==
    {<<1, 2>>, <<2, 1>>, <<2, 3>>, <<3, 2>>, <<3, 1>>, <<1, 3>>, <<3, 4>>, <<4, 3>>, <<4, 1>>,
     <<1, 4>>}

Roles4 == <<{"entrypoint", "config"}, {"wiring"}, {"service", "model"}, {"test", "utility"}>>

GraphRepo(imported) ==
    [path |-> FourPaths, skipped |-> {}, roles |-> Roles4,
     statements |-> {Statement(i[1], 2, Spelled[i[2]], {}) : i \in imported \cup {<<2, 2>>}}]

(* Names that are not modules, packages with and without their modules, folders
   above and below, src as a root, and imports of nothing in the repository. *)
PythonRepo(mixed) ==
    [path |-> << << <<"app">>, <<"__init__", "py">> >>, << <<"app">>, <<"models", "py">> >>,
                 << <<"app">>, <<"routes">>, <<"orders", "py">> >>,
                 << <<"src">>, <<"lib">>, <<"util", "py">> >>, << <<"test_orders", "py">> >> >>,
     skipped |-> {},
     roles |-> << {"entrypoint"}, {"model"}, {"api"}, {}, {"test"} >>,
     statements |-> {
         Statement(1, 1, << <<"routes">> >>, {"orders"}), Statement(2, 0, << <<"lib">>, <<"util">> >>, {}),
         Statement(3, 2, <<>>, IF mixed THEN {"models", "create_app"} ELSE {"models"}),
         Statement(5, 1, <<>>, {"app"}), Statement(3, 4, << <<"app">> >>, {}),
         Statement(4, 0, << <<"fastapi">> >>, {"FastAPI"}), Statement(5, 0, << <<"app">> >>, {"create_app"}),
         Statement(5, 0, << <<"app">>, <<"gone">> >>, {})}]

(* A generated file beside its source and one beside a folder, a data file, a
   declaration file, a file that is too big, a folder and its index, and imports
   that lead nowhere. *)
MixedRepo ==
    [path |-> << << <<"data", "json">> >>, << <<"index", "ts">> >>, << <<"lib">>, <<"big", "ts">> >>,
                 << <<"lib">>, <<"index", "tsx">> >>, << <<"types", "d", "ts">> >>,
                 << <<"x", "js">> >>, << <<"x", "ts">> >>,
                 << <<"y", "js">> >>, << <<"y">>, <<"index", "ts">> >> >>,
     skipped |-> {3},
     roles |-> << {}, {"entrypoint"}, {}, {"service"}, {}, {}, {"schema"}, {}, {} >>,
     statements |-> {
         Statement(2, 1, << <<"lib">> >>, {}), Statement(2, 1, << <<"x", "js">> >>, {}),
         Statement(2, 0, << <<"express">> >>, {}), Statement(4, 1, << <<"big">> >>, {}),
         Statement(4, 2, << <<"data", "json">> >>, {}), Statement(4, 2, <<>>, {}),
         Statement(4, 3, << <<"x">> >>, {}), Statement(7, 1, << <<"types">> >>, {}),
         Statement(7, 1, << <<"lib">>, <<"gone">> >>, {}), Statement(3, 2, << <<"x">> >>, {}),
         Statement(7, 1, << <<"y">> >>, {})}]

SomeRepos ==
    {GraphRepo(imported) : imported \in SUBSET SomeImports}
    \cup {PythonRepo(TRUE), PythonRepo(FALSE), MixedRepo}

Mapping(a, b, c, d) == << <<1, a>>, <<2, b>>, <<3, c>>, <<4, d>> >>

Answer(files, risks) == [files |-> files, riskUnits |-> risks]

Good == Mapping("main", "none", "app", "tests")

SomeAnswers == {
    Answer(Good, {1}),
    Answer(Mapping("main", "app", "main", "tests"), {}),
    Answer(Good, {9}),
    Answer(SubSeq(Good, 1, 3), {}),
    Answer(Append(Good, <<3, "main">>), {}),
    Answer(Append(Good, <<7, "app">>), {}),
    Answer(Mapping("app", "none", "app", "tests"), {}),
    Answer(Mapping("main", "none", "tests", "tests"), {}),
    Answer(Mapping("main", "none", "none", "tests"), {}),
    Answer(Mapping("main", "none", "invalid", "tests"), {})}

=============================================================================
