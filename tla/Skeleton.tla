------------------------------ MODULE Skeleton ------------------------------
(***************************************************************************)
(* The FastAPI skeleton: what generate_skeleton renders from the concepts  *)
(* of a source app, what the rendered app answers, and the boot check.     *)
(*                                                                         *)
(* A target app has the declarations that the FastAPI and SQLAlchemy       *)
(* adapters read, and besides: `uses`, what the file of a declaration      *)
(* imports for it, each a file and a name; `main` and `models`, the files  *)
(* of routers and of tables that app/main.py imports; `database`, the file *)
(* that defines Base; `expected`, the routes of the smoke test; the        *)
(* packages that pyproject.toml `requires` and those that the app really   *)
(* `imports`.  The text of the files, types and defaults of columns,       *)
(* settings, stubs of services and the README are left out.                *)
(***************************************************************************)
EXTENDS Concepts

(* The files that app/main.py and the database go to, and those used where
   the plan names no target.  A plan may name them, too. *)
CONSTANTS AuthFile, DatabaseFile, MainFile, ModelsFile, RoutesFile, SchemasFile

(* app/auth/dependencies.py, app/database.py and so on, in this order. *)
ASSUME FilesAssumption ==
    /\ {AuthFile, DatabaseFile, MainFile, ModelsFile, RoutesFile, SchemasFile} \subseteq Nat
    /\ AuthFile < DatabaseFile /\ DatabaseFile < MainFile /\ MainFile < ModelsFile
    /\ ModelsFile < RoutesFile /\ RoutesFile < SchemasFile

TargetOf(targets, file, default) == IF file \in DOMAIN targets THEN targets[file] ELSE default

(* Python packages for the packages of the source; others are only noted. *)
Mapping == [nestjs |-> "fastapi", typeorm |-> "sqlalchemy", validator |-> "pydantic[email]"]

(* Names that are not their own snake case. *)
SnakeNames == [getCurrentUser |-> "get_current_user", userId |-> "user_id"]
Snake(name) == IF name \in DOMAIN SnakeNames THEN SnakeNames[name] ELSE name

(* The name of a handler must not hide a builtin. *)
PythonName(name) == IF name = "list" THEN "list_route" ELSE Snake(name)

-----------------------------------------------------------------------------
(* render_routes, render_auth *)

(* The place of a route in its file: routes keep the order of the source. *)
Place(routes, route) == 1 + Cardinality({other \in routes : Before(other, route)})

(* A name that is used already in the file gets an underscore more: a function
   is given by its name and the number of underscores behind it. *)
UniqueName(routes, route) ==
    LET name == PythonName(route.attributes.name)
        used == {r \in routes : Before(r, route) /\ PythonName(r.attributes.name) = name}
    IN  <<name, Cardinality(used)>>

Login == <<"get_current_user", 0>>

(* Mutated form: the login is asked for by the methods that write only. *)
DependsWriting(route) ==
    IF route.attributes.auth /\ route.attributes.method # "get" THEN {Login} ELSE {}

Depends(route) == IF route.attributes.auth THEN {Login} ELSE {}

(* The login goes where the first guard goes, if there is one.  `guards` has
   the files of the guards of the source, in the order of their names. *)
LoginFile(guards, targets) ==
    IF guards = <<>> THEN AuthFile ELSE TargetOf(targets, guards[1], AuthFile)

(* The request models of one class: a body has one if it has fields. *)
ModelsOf(concepts, class) == {n \in OfKind(concepts, "input_field") : n.attributes.class = class}

(* What the router imports for one handler: its body and the login. *)
Uses(route, concepts, guards, targets) ==
    {<<TargetOf(targets, n.file, SchemasFile), n.attributes.class>> :
        n \in ModelsOf(concepts, route.attributes.body)}
    \cup IF route.attributes.auth THEN {<<LoginFile(guards, targets), Login[1]>>} ELSE {}

Handler(routes, route, file, concepts, guards, targets) ==
    LET a == route.attributes
    IN  [file |-> file, line |-> Place(routes, route), name |-> UniqueName(routes, route),
         method |-> a.method, prefix |-> <<>>, path |-> a.path, status |-> a.status,
         depends |-> Depends(route), uses |-> Uses(route, concepts, guards, targets),
         body |-> IF ModelsOf(concepts, a.body) # {} THEN a.body ELSE None]

(* The routes of one target file. *)
RoutesOf(concepts, targets, file) ==
    {n \in OfKind(concepts, "route") : TargetOf(targets, n.file, RoutesFile) = file}

RouterFiles(concepts, targets) ==
    {TargetOf(targets, n.file, RoutesFile) : n \in OfKind(concepts, "route")}

RenderRoutes(concepts, guards, targets) ==
    UNION {LET routes == RoutesOf(concepts, targets, file)
           IN  {Handler(routes, n, file, concepts, guards, targets) : n \in routes} :
           file \in RouterFiles(concepts, targets)}

(* The login is the first function of its file. *)
RenderAuth(concepts, guards, targets) ==
    IF \E n \in OfKind(concepts, "route") : n.attributes.auth
    THEN {[file |-> LoginFile(guards, targets), line |-> 0, function |-> Login, status |-> status] :
             status \in {"401", "501"}}
    ELSE {}

Stubs(handlers) ==
    {[file |-> h.file, line |-> h.line, function |-> h.name, status |-> "501"] : h \in handlers}

-----------------------------------------------------------------------------
(* render_schemas *)

(* The first word that is among the constraints decides about the type. *)
TypeRules ==
    << <<"email", "EmailStr">>, <<"numeric_string", "str">>, <<"decimal", "Decimal">>,
       <<"int", "int">>, <<"number", "float">>, <<"boolean", "bool">>, <<"uuid", "UUID">>,
       <<"datetime", "datetime">>, <<"string", "str">> >>

PythonType(constraints) ==
    LET fitting == {i \in DOMAIN TypeRules : <<TypeRules[i][1], "">> \in constraints}
    IN  IF fitting = {} THEN "str" ELSE TypeRules[Min(fitting)][2]

Limits == [min_length |-> "min_length", max_length |-> "max_length", min |-> "ge", max |-> "le"]

(* Mutated form: a field that is not required gets no default. *)
FieldWithoutDefault(node, targets) ==
    LET a == node.attributes
    IN  [file |-> TargetOf(targets, node.file, SchemasFile), line |-> node.line,
         class |-> a.class, name |-> a.name, type |-> PythonType(a.constraints),
         optional |-> FALSE, default |-> FALSE,
         limits |-> {<<Limits[c[1]], c[2]>> : c \in {c \in a.constraints : c[1] \in DOMAIN Limits}},
         pattern |-> <<"numeric_string", "">> \in a.constraints]

Field(node, targets) ==
    LET a == node.attributes
    IN  [file |-> TargetOf(targets, node.file, SchemasFile), line |-> node.line,
         class |-> a.class, name |-> a.name, type |-> PythonType(a.constraints),
         optional |-> ~ a.required, default |-> ~ a.required,
         limits |-> {<<Limits[c[1]], c[2]>> : c \in {c \in a.constraints : c[1] \in DOMAIN Limits}},
         pattern |-> <<"numeric_string", "">> \in a.constraints]

-----------------------------------------------------------------------------
(* render_models *)

(* The column keeps its name, whatever the attribute is called. *)
Column(node, table, targets) ==
    LET a == node.attributes
        name == node.key[2]
    IN  [file |-> TargetOf(targets, table.file, ModelsFile), line |-> node.line,
         class |-> table.attributes.class, table |-> table.key[1],
         attribute |-> Snake(name),
         column |-> IF Snake(name) = name THEN None ELSE name,
         nullable |-> IF a.primary_key THEN None ELSE IF a.nullable THEN "true" ELSE "false",
         annotation |-> IF a.nullable /\ ~ a.primary_key THEN "T | None" ELSE "T",
         primary_key |-> a.primary_key, unique |-> a.unique, references |-> a.references]

ColumnsOf(concepts, table) == {n \in OfKind(concepts, "column") : n.key[1] = table.key[1]}

-----------------------------------------------------------------------------
(* generate_skeleton: the guards are known if NestJS is. *)
Generate(concepts, guards, packages, targets) ==
    LET handlers == RenderRoutes(concepts, guards, targets)
        tables == OfKind(concepts, "table")
        database == IF tables = {} THEN {} ELSE {DatabaseFile}
    IN  [handlers |-> handlers,
         raises   |-> RenderAuth(concepts, guards, targets) \cup Stubs(handlers),
         fields   |-> {Field(n, targets) : n \in OfKind(concepts, "input_field")},
         tables   |-> {[file |-> TargetOf(targets, t.file, ModelsFile), line |-> 0,
                        table |-> t.key[1], class |-> t.attributes.class,
                        uses |-> {<<DatabaseFile, "Base">>}] : t \in tables},
         columns  |-> UNION {{Column(n, t, targets) : n \in ColumnsOf(concepts, t)} : t \in tables},
         main     |-> RouterFiles(concepts, targets),
         models   |-> {TargetOf(targets, t.file, ModelsFile) : t \in tables},
         database |-> database,
         expected |-> {<<n.attributes.method, n.attributes.path>> : n \in OfKind(concepts, "route")},
         requires |-> {"fastapi"} \cup {Mapping[p] : p \in packages \cap DOMAIN Mapping},
         imports  |-> {"fastapi"}
                      \cup (IF tables = {} THEN {} ELSE {"sqlalchemy"})
                      \cup (IF \E n \in OfKind(concepts, "input_field") :
                                  PythonType(n.attributes.constraints) = "EmailStr"
                            THEN {"pydantic[email]"} ELSE {})]

Files(app) ==
    LET Of(part) == {d.file : d \in part}
    IN  Of(app.handlers) \cup Of(app.raises) \cup Of(app.fields) \cup Of(app.tables)
        \cup Of(app.columns) \cup app.database

(* write_skeleton with --force: what is not overwritten stays.  Every target of
   the plan is written, a module without code if nothing is rendered into it. *)
Overwritten(old, new, targets) ==
    LET rewritten == Files(new) \cup {MainFile} \cup {targets[f] : f \in DOMAIN targets}
        Kept(part) == {d \in part : d.file \notin rewritten}
    IN  [new EXCEPT !.handlers = @ \cup Kept(old.handlers), !.raises = @ \cup Kept(old.raises),
                    !.fields = @ \cup Kept(old.fields), !.tables = @ \cup Kept(old.tables),
                    !.columns = @ \cup Kept(old.columns),
                    !.database = @ \cup (old.database \ rewritten)]

-----------------------------------------------------------------------------
(* What FastAPI makes of the app. *)

Matches(pattern, path) ==
    /\ Len(pattern) = Len(path)
    /\ \A i \in DOMAIN path : pattern[i] \in Parameters \/ pattern[i] = path[i]

(* app/main.py includes the routers in the order of their files, so that the
   routes are tried in the order of files and lines. *)
Served(app) == {h \in app.handlers : h.file \in app.main}

(* The answer of one handler to a request without a token and with an empty body. *)
HandlerAnswer(app, handler) ==
    IF handler.depends # {} THEN "401"
    ELSE IF \E f \in app.fields : f.class = handler.body /\ ~ f.default THEN "422" ELSE "501"

Answer(app, method, path) ==
    LET fitting == {h \in Served(app) : Matches(h.path, path)}
        exact == {h \in fitting : h.method = method}
    IN  IF exact # {} THEN HandlerAnswer(app, First(exact))
        ELSE IF fitting # {} THEN "405" ELSE "404"

(* Which files import which: `from module import name`, always on top of the
   file, so that a name of a module that is still being loaded is missing.  The
   import of a table's file by app/main.py names the module, which is found. *)
Imports(app) ==
    (UNION {{<<d.file, use[1]>> : use \in d.uses} :
               d \in Served(app) \cup {t \in app.tables : t.file \in app.models}})
    \cup ({MainFile} \X (app.main \cup (app.models \ {MainFile})
                          \cup IF app.models = {} THEN {} ELSE {DatabaseFile}))

Circular(imports) ==
    \E files \in (SUBSET {i[1] : i \in imports}) \ {{}} :
        \A file \in files : \E other \in files : <<file, other>> \in imports

(* mypy, over every file: what is imported is there, and no file or class
   defines a name again that it has defined or imported. *)
Defines(app, use) ==
    \/ \E f \in app.fields : <<f.file, f.class>> = use
    \/ \E r \in app.raises : r.function = Login /\ <<r.file, Login[1]>> = use
    \/ \E file \in app.database : <<file, "Base">> = use

Taken(app, file) ==
    {<<"router", 0>>}
    \cup {name \in {Login} :
             \/ \E r \in app.raises : r.file = file /\ r.function = name /\ r.line = 0
             \/ \E h \in app.handlers : h.file = file /\ \E use \in h.uses : use[2] = name[1]}

Typechecks(app) ==
    /\ \A d \in app.handlers \cup app.tables : \A use \in d.uses : Defines(app, use)
    /\ \A h \in app.handlers : h.name \notin Taken(app, h.file)
    /\ \A t, other \in app.tables : t.file = other.file /\ t.class = other.class => t = other
    /\ \A t \in app.tables, f \in app.fields : t.file = f.file => t.class # f.class
    /\ \A c, other \in app.columns :
          <<c.file, c.class, c.attribute>> = <<other.file, other.class, other.attribute>> => c = other

(* SQLAlchemy, when the classes are loaded: every table has a primary key and a
   name of its own; and when app/main.py creates the tables on startup: a
   foreign key is to the column `id`, whatever the key of the table is. *)
Loaded(app, part) == {d \in part : d.file \in app.models}

TablesLoad(app) ==
    /\ \A t \in Loaded(app, app.tables) :
          \E c \in app.columns : c.file = t.file /\ c.class = t.class /\ c.primary_key
    /\ \A t, other \in Loaded(app, app.tables) : t.table = other.table => t = other

Starts(app) ==
    \A c \in Loaded(app, app.columns) : c.references # None =>
        \E d \in Loaded(app, app.columns) :
            d.table = c.references /\ (IF d.column = None THEN d.attribute ELSE d.column) = "id"

(* Install, build, typecheck and the smoke test.  A router has no method `all`. *)
Builds(app, installed) ==
    /\ \A h \in Served(app) : h.method \in RouteMethods
    /\ app.imports \subseteq installed
    /\ Typechecks(app)
    /\ ~ Circular(Imports(app))
    /\ TablesLoad(app)
    /\ app.expected \subseteq {<<h.method, h.path>> : h \in Served(app)}

-----------------------------------------------------------------------------
(* check_skeleton *)

OpenRouteOk == {"422", "501"}

Probe(route) == [i \in DOMAIN route.attributes.path |->
    IF route.attributes.path[i] \in Parameters THEN "1" ELSE route.attributes.path[i]]

(* The answers are kept by key. *)
ProbeAnswer(app, concepts, key) ==
    LET last == LastOf(OfKind(concepts, "route"), key)
    IN  Answer(app, last.attributes.method, Probe(last))

RouteOk(route, status) ==
    IF route.attributes.auth THEN status = "401" ELSE status \in OpenRouteOk

BootCheck(app, installed, concepts) ==
    /\ Builds(app, installed)
    /\ Starts(app)
    /\ \A n \in OfKind(concepts, "route") : RouteOk(n, ProbeAnswer(app, concepts, n.key))

=============================================================================
