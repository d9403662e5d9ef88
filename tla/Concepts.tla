------------------------------ MODULE Concepts ------------------------------
(***************************************************************************)
(* The canonical concept model: what the framework adapters read from a    *)
(* NestJS and TypeORM app, what they read from a FastAPI and SQLAlchemy    *)
(* app, and how the columns are checked against a real database.           *)
(*                                                                         *)
(* An app is given by its declarations, as tree-sitter delivers them:      *)
(* records with the file and the line.  Files are numbered in the order of *)
(* their paths.  A path of a route is a sequence of segments; keys are     *)
(* sequences of strings; a constraint is a word and its value, "" if it    *)
(* has none.  Environment variables and column types are left out.         *)
(***************************************************************************)
EXTENDS Integers, Sequences, SequencesExt, FiniteSetsExt

None == "none" (* an option, a body or a table name that is not given *)

Concept(kind, key, decl, attributes) ==
    [kind |-> kind, key |-> key, file |-> decl.file, line |-> decl.line, attributes |-> attributes]

Kinds == {"route", "input_field", "table", "column", "error"}

Before(a, b) == a.file < b.file \/ (a.file = b.file /\ a.line < b.line)

OfKind(nodes, kind) == {n \in nodes : n.kind = kind}

First(items) == CHOOSE n \in items : ~ \E other \in items : Before(other, n)
Latest(items) == CHOOSE n \in items : ~ \E other \in items : Before(n, other)

(* A dictionary from keys to concepts keeps the last one of a key. *)
LastOf(nodes, key) == Latest({n \in nodes : n.key = key})

(* Parameters of paths: as a source writes them, and as a target does. *)
Display == [p \in {":id", ":name"} |-> IF p = ":id" THEN "{id}" ELSE "{name}"]
Parameters == DOMAIN Display \cup {Display[p] : p \in DOMAIN Display}

CanonicalPath(path) == [i \in DOMAIN path |-> IF path[i] \in Parameters THEN "{}" ELSE path[i]]

DisplayPath(path) ==
    [i \in DOMAIN path |-> IF path[i] \in DOMAIN Display THEN Display[path[i]] ELSE path[i]]

RouteKey(method, path) == <<method>> \o CanonicalPath(path)
InputKey(route, field) == route \o <<"body", field>>
ColumnKey(table, column) == <<table, column>>
ErrorKey(status) == <<"HTTP", status>>

Plain(words) == {<<w, "">> : w \in words}

-----------------------------------------------------------------------------
(* NestJS *)

HttpMethods == {"get", "post", "put", "patch", "delete", "options", "head", "all"}

Validators ==
    [IsEmail |-> {"email", "string"}, IsString |-> {"string"}, IsInt |-> {"int"},
     IsNumber |-> {"number"}, IsNumberString |-> {"numeric_string"}, IsBoolean |-> {"boolean"},
     IsUUID |-> {"string", "uuid"}, IsDateString |-> {"datetime", "string"}]

ValueValidators ==
    [MinLength |-> "min_length", MaxLength |-> "max_length", Min |-> "min", Max |-> "max"]

(* The constraints of one decorator, which is a name and an argument. *)
ConstraintsOf(decorator) ==
    LET name == decorator[1]
    IN  IF name \in DOMAIN Validators THEN Plain(Validators[name])
        ELSE IF name \in DOMAIN ValueValidators
        THEN {<<ValueValidators[name], decorator[2]>>}
             \cup IF name \in {"MinLength", "MaxLength"} THEN Plain({"string"}) ELSE {}
        ELSE {}

(* all_classes: of the classes that share a name the last file's one is used. *)
DtoFields(app, dto) ==
    LET named == {f \in app.fields : f.dto = dto}
    IN  {f \in named : \A other \in named : other.file <= f.file}

Guarded(handler) == handler.classGuards \cup handler.guards # {}

(* Mutated form: the guards of the controller are not read. *)
NestRouteOwnGuards(handler) ==
    Concept("route", RouteKey(handler.method, handler.prefix \o handler.path), handler,
            [name   |-> handler.name,
             method |-> handler.method,
             path   |-> DisplayPath(handler.prefix \o handler.path),
             status |-> IF handler.code # None THEN handler.code
                        ELSE IF handler.method = "post" THEN "201" ELSE "200",
             auth   |-> handler.guards # {},
             body   |-> handler.body])

NestRoute(handler) ==
    Concept("route", RouteKey(handler.method, handler.prefix \o handler.path), handler,
            [name   |-> handler.name,
             method |-> handler.method,
             path   |-> DisplayPath(handler.prefix \o handler.path),
             status |-> IF handler.code # None THEN handler.code
                        ELSE IF handler.method = "post" THEN "201" ELSE "200",
             auth   |-> Guarded(handler),
             body   |-> handler.body])

NestInput(route, field) ==
    Concept("input_field", InputKey(route, field.name), field,
            [class       |-> field.dto,
             name        |-> field.name,
             constraints |-> UNION {ConstraintsOf(d) : d \in field.decorators},
             required    |-> ~ (field.optional \/ <<"IsOptional", "">> \in field.decorators)])

NestJs(app) ==
    LET handlers == {h \in ToSet(app.handlers) : h.method \in HttpMethods}
    IN  {NestRoute(h) : h \in handlers}
        \cup (UNION {{NestInput(NestRoute(h).key, f) : f \in DtoFields(app, h.body)} : h \in handlers})
        \cup {Concept("error", ErrorKey(t.status), t, [status |-> t.status]) : t \in {t \in app.throws : t.status # None}}

-----------------------------------------------------------------------------
(* TypeORM *)

Primary == {"PrimaryGeneratedColumn", "PrimaryColumn"}
Columns == Primary \cup {"Column", "CreateDateColumn", "UpdateDateColumn", "DeleteDateColumn",
                      "VersionColumn"}

TableName(member) == IF member.table = None THEN member.entity ELSE member.table

(* A column of its own, and a relation that owns a foreign key. *)
TypeOrmColumn(member) ==
    Concept("column",
            ColumnKey(TableName(member), IF member.column = None THEN member.name ELSE member.column),
            member,
            [nullable    |-> member.decorator \notin Primary /\ member.nullable = "true",
             unique      |-> member.unique,
             primary_key |-> member.decorator \in Primary,
             references  |-> None])

TypeOrmRelation(app, member) ==
    LET target == {m \in app.members : m.entity = member.target}
        column == IF member.column = None THEN member.name \o "Id" ELSE member.column
    IN  Concept("column", ColumnKey(TableName(member), column), member,
                [nullable    |-> member.nullable # "false",
                 unique      |-> FALSE,
                 primary_key |-> FALSE,
                 references  |-> IF target = {} THEN member.target
                                 ELSE TableName(CHOOSE m \in target : TRUE)])

(* Members with other decorators, OneToOne among them, have no column here. *)
TypeOrm(app) ==
    {Concept("table", <<TableName(m)>>, [file |-> m.file, line |-> 0], [class |-> m.entity]) :
        m \in app.members}
    \cup {TypeOrmColumn(m) : m \in {m \in app.members : m.decorator \in Columns}}
    \cup {TypeOrmRelation(app, m) : m \in {m \in app.members : m.decorator = "ManyToOne"}}

-----------------------------------------------------------------------------
(* FastAPI *)

RouteMethods == HttpMethods \ {"all"}

Types ==
    [str |-> {"string"}, EmailStr |-> {"email", "string"}, int |-> {"int"}, float |-> {"number"},
     Decimal |-> {"decimal"}, bool |-> {"boolean"}, UUID |-> {"string", "uuid"},
     datetime |-> {"datetime", "string"}]

FieldLimits == [min_length |-> "min_length", max_length |-> "max_length", ge |-> "min", le |-> "max"]

(* Functions that raise HTTP 401, by name. *)
AuthDependencies(app) == {r.function : r \in {r \in app.raises : r.status = "401"}}

FastApiRoute(app, handler) ==
    Concept("route", RouteKey(handler.method, handler.prefix \o handler.path), handler,
            [name   |-> handler.name,
             method |-> handler.method,
             path   |-> DisplayPath(handler.prefix \o handler.path),
             status |-> IF handler.status = None THEN "200" ELSE handler.status,
             auth   |-> handler.depends \cap AuthDependencies(app) # {},
             body   |-> handler.body])

FieldConstraints(field) ==
    (IF field.pattern
     THEN (Plain(Types[field.type]) \ Plain({"string"})) \cup Plain({"numeric_string"})
     ELSE Plain(Types[field.type]))
    \cup {<<FieldLimits[l[1]], l[2]>> : l \in field.limits}

FastApiInput(route, field) ==
    Concept("input_field", InputKey(route, field.name), field,
            [class       |-> field.class,
             name        |-> field.name,
             constraints |-> FieldConstraints(field),
             required    |-> ~ (field.optional \/ field.default)])

(* Every file of the repository is read, not only what the app imports. *)
FastApi(app) ==
    LET handlers == {h \in app.handlers : h.method \in RouteMethods}
    IN  {FastApiRoute(app, h) : h \in handlers}
        \cup (UNION {{FastApiInput(RouteKey(h.method, h.prefix \o h.path), f) :
                         f \in {f \in app.fields : f.class = h.body}} : h \in handlers})
        \cup {Concept("error", ErrorKey(r.status), r, [status |-> r.status]) : r \in app.raises}

-----------------------------------------------------------------------------
(* SQLAlchemy *)

(* `nullable` is the keyword; `annotation` is the T of Mapped[T], "T | None",
   or None for a plain Column(), which is nullable. *)
SqlAlchemyColumn(column) ==
    Concept("column",
            ColumnKey(column.table, IF column.column = None THEN column.attribute ELSE column.column),
            column,
            [nullable    |-> /\ ~ column.primary_key
                             /\ \/ column.nullable = "true"
                                \/ column.nullable = None /\ column.annotation # "T",
             unique      |-> column.unique,
             primary_key |-> column.primary_key,
             references  |-> column.references])

SqlAlchemy(app) ==
    {Concept("table", <<t.table>>, t, [class |-> t.class]) : t \in app.tables}
    \cup {SqlAlchemyColumn(c) : c \in app.columns}

-----------------------------------------------------------------------------
(* build_concept_model: every adapter of the language whose packages are
   dependencies reads every source file. *)
SourceConcepts(app) ==
    (IF "nestjs" \in app.packages THEN NestJs(app) ELSE {})
    \cup (IF "typeorm" \in app.packages THEN TypeOrm(app) ELSE {})

TargetConcepts(app) ==
    (IF "fastapi" \in app.requires THEN FastApi(app) ELSE {})
    \cup (IF "sqlalchemy" \in app.requires THEN SqlAlchemy(app) ELSE {})

(* check_against_runtime.  `schema` has the columns of the real database, a
   function from keys to nullability, and its constraints, each a type and a
   set of keys; one over several columns is left aside. *)
Facts(schema, key) ==
    [nullable    |-> schema.columns[key],
     unique      |-> <<"UNIQUE", {key}>> \in schema.constraints,
     primary_key |-> <<"PRIMARY KEY", {key}>> \in schema.constraints]

(* Mutated form: only the columns found in the code are looked up. *)
SchemaProblemsOneWay(nodes, schema) ==
    LET columns == OfKind(nodes, "column")
    IN  {n.key : n \in {n \in columns : n.key \notin DOMAIN schema.columns}}

SchemaProblems(nodes, schema) ==
    LET columns == OfKind(nodes, "column")
        static == {n.key : n \in columns}
        Agrees(key) == LET facts == Facts(schema, key)
                       IN  \A name \in DOMAIN facts :
                              LastOf(columns, key).attributes[name] = facts[name]
    IN  (static \ DOMAIN schema.columns)
        \cup (DOMAIN schema.columns \ static)
        \cup {key \in static \cap DOMAIN schema.columns : ~ Agrees(key)}

=============================================================================
