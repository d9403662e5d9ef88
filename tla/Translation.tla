---------------------------- MODULE Translation -----------------------------
(***************************************************************************)
(* The commands around a skeleton: `migrator skeleton`, with --force and   *)
(* --check, `migrator ledger` with waivers and `migrator concepts          *)
(* --schema`, run in any order while people change the source and the      *)
(* target between them.                                                    *)
(*                                                                         *)
(* A command writes or reads what is on the disk: the source, the target   *)
(* folder with its uv.lock, and the file of waivers.  Every command runs   *)
(* as one step; its exit code is kept until something changes.             *)
(***************************************************************************)
EXTENDS Skeleton, Ledger

CONSTANTS
    Apps,      (* source apps                                                 *)
    Targets,   (* the target files of plans: functions from source files      *)
    MaxChanges, (* how often somebody changes the source or the target        *)
    MaxWaivers (* how many keys are waived                                    *)

(* A source app: packages of its manifest; handlers in the order in which
   NestJS registers them; files of guards; DTO fields; members of entities;
   thrown exceptions. *)
ASSUME TranslationAssumption ==
    /\ \A app \in Apps :
       /\ app.handlers \in Seq(ToSet(app.handlers))
       /\ IsFiniteSet(app.members)
       /\ \A m \in app.members : m.unique \in BOOLEAN /\ (m.unique => m.decorator \in Columns)
       /\ \A d \in ToSet(app.handlers) \cup app.fields \cup app.members \cup app.throws :
             d.file \in Nat /\ d.line \in Nat
       /\ \A f \in app.fields : f.dto # None
       /\ \A h \in ToSet(app.handlers) :
             h.prefix \in Seq(ToSet(h.prefix)) /\ h.path \in Seq(ToSet(h.path))
       /\ \A n, m \in DOMAIN app.handlers : n # m =>
             <<app.handlers[n].file, app.handlers[n].line>> # <<app.handlers[m].file, app.handlers[m].line>>
    /\ \A targets \in Targets : \A f \in DOMAIN targets : targets[f] \in Nat
    /\ MaxChanges \in Nat /\ MaxWaivers \in Nat

VARIABLES
    source,  (* the source app                                                *)
    plan,    (* the targets of its plan                                       *)
    target,  (* the files of the target folder                                *)
    lock,    (* the packages of the target's uv.lock, {} if there is none     *)
    written, (* "new" or "over": nobody has changed anything since the skeleton *)
             (* was written into an empty folder, or over what was there      *)
    waivers, (* waived keys                                                   *)
    changes, (* how often somebody changed something                          *)
    boot,    (* how the last `skeleton --check` ended                         *)
    ledger,  (* rows of the last ledger, {} if it is outdated                 *)
    schema   (* how the last `concepts --schema` ended                        *)

disk == <<source, plan, target, lock, written, waivers, changes>>
results == <<boot, ledger, schema>>
vars == <<disk, results>>

SourceModel == SourceConcepts(source)

(* Guards are read by the adapter of NestJS, too. *)
GuardFiles(app) == IF "nestjs" \in app.packages THEN app.guards ELSE <<>>

EmptyFolder ==
    [handlers |-> {}, raises |-> {}, fields |-> {}, tables |-> {}, columns |-> {},
     main |-> {}, models |-> {}, database |-> {}, expected |-> {}, requires |-> {}, imports |-> {}]

Init ==
    /\ source \in Apps
    /\ plan \in Targets
    /\ target = EmptyFolder
    /\ lock = {}
    /\ written = "no"
    /\ waivers = {}
    /\ changes = 0
    /\ boot = "outdated" /\ ledger = {} /\ schema = "outdated"

Outdated == boot' = "outdated" /\ ledger' = {} /\ schema' = "outdated"

(* write_skeleton: without --force the folder must be empty. *)
WriteSkeleton ==
    LET new == Generate(SourceModel, GuardFiles(source), source.packages, plan)
    IN  /\ target' = IF target = EmptyFolder THEN new ELSE Overwritten(target, new, plan)
        /\ written' = IF target = EmptyFolder THEN "new" ELSE "over"
        /\ Outdated
        /\ UNCHANGED <<source, plan, lock, waivers, changes>>

NewSkeleton == target = EmptyFolder /\ WriteSkeleton
ForceSkeleton == target # EmptyFolder /\ WriteSkeleton

(* `uv sync`, or `uv sync --frozen` when there is a lock, which installs what
   the lock says; a lock made by the install is kept. *)
Installed == IF lock = {} THEN target.requires ELSE lock

(* `skeleton --check`: the second half of the command that has just written. *)
CheckSkeleton ==
    /\ written # "no"
    /\ boot = "outdated"
    /\ boot' = IF BootCheck(target, Installed, SourceModel) THEN "passed" ELSE "failed"
    /\ lock' = Installed
    /\ UNCHANGED <<source, plan, target, written, waivers, changes, ledger, schema>>

RunLedger ==
    /\ target # EmptyFolder
    /\ ledger = {}
    /\ ledger' = LedgerRows(SourceModel, TargetConcepts(target), waivers)
    /\ UNCHANGED <<disk, boot, schema>>

(* The database that TypeORM makes of the entities. *)
OwnsColumn(m) == m.decorator \in Columns \cup {"ManyToOne", "OneToOneJoin"}

RealColumn(m) ==
    ColumnKey(TableName(m), IF m.column # None THEN m.column
                            ELSE IF m.decorator \in Columns THEN m.name ELSE m.name \o "Id")

RealSchema ==
    LET owners == {m \in source.members : OwnsColumn(m)}
        keys == {RealColumn(m) : m \in owners}
        PrimaryOf(table) == {RealColumn(m) : m \in {m \in owners : /\ TableName(m) = table
                                                               /\ m.decorator \in Primary}}
        Nullable(m) == IF m.decorator \in Columns
                       THEN m.decorator \notin Primary /\ m.nullable = "true"
                       ELSE m.nullable # "false"
    IN  [columns |-> [k \in keys |-> \E m \in owners : RealColumn(m) = k /\ Nullable(m)],
         constraints |->
            {<<"PRIMARY KEY", PrimaryOf(TableName(m))>> : m \in {m \in owners : m.decorator \in Primary}}
            \cup {<<"UNIQUE", {RealColumn(m)}>> :
                    m \in {m \in owners : m.unique \/ m.decorator = "OneToOneJoin"}}]

CheckSchema ==
    /\ schema = "outdated"
    /\ schema' = IF SchemaProblems(SourceModel, RealSchema) = {} THEN "passed" ELSE "failed"
    /\ UNCHANGED <<disk, boot, ledger>>

-----------------------------------------------------------------------------
(* What people do between two commands. *)

Change ==
    /\ changes < MaxChanges
    /\ changes' = changes + 1
    /\ written' = "no"
    /\ Outdated

(* The source (before there is a target this would be another initial state). *)
ChangeSource ==
    /\ Change
    /\ target # EmptyFolder
    /\ source' \in Apps \ {source}
    /\ UNCHANGED <<plan, target, lock, waivers>>

(* The migration of a unit, or a person, changes a handler. *)
Edits(h) ==
    {{}, {[h EXCEPT !.depends = {}]}, {[h EXCEPT !.status = "202"]}}

ChangeTarget ==
    /\ Change
    /\ target # EmptyFolder
    /\ \E h \in target.handlers : \E edited \in Edits(h) :
          target' = [target EXCEPT !.handlers = (@ \ {h}) \cup edited]
    /\ UNCHANGED <<source, plan, lock, waivers>>

(* A person accepts a row that is neither mapped nor waived. *)
Waive ==
    /\ ledger # {}
    /\ Cardinality(waivers) < MaxWaivers
    /\ \E row \in ledger : row.status \in {"missing", "mismatch"} /\ waivers' = waivers \cup {row.key}
    /\ ledger' = {}
    /\ UNCHANGED <<source, plan, target, lock, written, changes, boot, schema>>

Next ==
    \/ NewSkeleton \/ ForceSkeleton \/ CheckSkeleton \/ RunLedger \/ CheckSchema
    \/ ChangeSource \/ ChangeTarget \/ Waive

Spec == Init /\ [][Next]_vars

-----------------------------------------------------------------------------
(* Properties. *)

Handlers == ToSet(source.handlers)
FullPath(h) == h.prefix \o h.path

(* The words of a field are those of one Python type.  A field without a
   validator, or with two types at once, is rendered as something else. *)
Describable(node) ==
    {c \in node.attributes.constraints : c[2] = ""} \in
        {Plain({"numeric_string"})} \cup {Plain(Types[type]) : type \in DOMAIN Types}

(* The two chains of code agree on what the ledger compares: what is rendered
   from the concepts of a NestJS app is read back from the FastAPI code with
   the same keys and attributes (routes.py, schemas.py, models.py against
   fastapi.py, sqlalchemy.py).  So the ledger of a fresh skeleton misses only
   the errors that the logic raises, and what FastAPI cannot express.  Of two
   things with one key only the first is compared, and the first of the source
   need not be the first of the target when the layout reorders the files. *)
SkeletonIsMapped ==
    written = "new" /\ ledger # {} =>
        \A row \in ledger :
            \/ row.status = "mapped"
            \/ row.kind = "error"
            \/ row.kind \in {"route", "input_field"} /\ row.key[1] = "all"
            \/ \E n, twin \in Group(SourceModel, row.kind, row.key) : n # twin
            \/ row.kind = "input_field" /\ ~ Describable(First(Group(SourceModel, row.kind, row.key)))

(* Paths somebody may ask for. *)
Asked == {Probe(NestRoute(h)) : h \in Handlers}

(* NestJS tries its handlers in the order of registration. *)
AskedFor(method, path) ==
    LET fitting == {i \in DOMAIN source.handlers :
                       /\ source.handlers[i].method = method
                       /\ Matches(DisplayPath(FullPath(source.handlers[i])), path)}
    IN  {source.handlers[i] : i \in fitting}

(* "auth is enforced, fails closed" (check.py): after a boot check that passed,
   a request that needs a login whatever handler of the source gets it is not
   answered without one.  (For apps without the segment "1" in a path: the probe
   of a route with parameters would be answered by that path's handler.  Nor is
   there a segment "{}": such a path has the key of one with a parameter.  And for apps
   whose manifest names NestJS: of another the check knows no route.) *)
FailsClosed ==
    boot = "passed" /\ "nestjs" \in source.packages =>
        \A path \in Asked : \A method \in RouteMethods :
            AskedFor(method, path) # {} /\ (\A h \in AskedFor(method, path) : Guarded(h))
                => Answer(target, method, path) = "401"

(* Two handlers can answer one request, and not in the same way. *)
Contested ==
    \E h, g \in Handlers : h # g /\ h.method = g.method /\ Guarded(h) # Guarded(g)
                           /\ Matches(DisplayPath(FullPath(h)), Probe(NestRoute(g)))

(* The plan puts what a file imports into the file itself, or into one that
   imports it back: Python does not load them.  The default layout, with a file
   of its own for every role, never does. *)
Tangled ==
    LET routers == RouterFiles(SourceModel, plan)
        schemas == {TargetOf(plan, n.file, SchemasFile) : n \in OfKind(SourceModel, "input_field")}
        tables == {TargetOf(plan, n.file, ModelsFile) : n \in OfKind(SourceModel, "table")}
        logins == {LoginFile(GuardFiles(source), plan) : n \in {n \in OfKind(SourceModel, "route") : n.attributes.auth}}
    IN  \/ routers \cap (schemas \cup logins \cup {DatabaseFile, MainFile}) # {}
        \/ MainFile \in schemas \cup logins
        \/ DatabaseFile \in tables

(* Names that a module or class would define twice. *)
Redefined ==
    LET tables == OfKind(SourceModel, "table")
        columns == OfKind(SourceModel, "column")
    IN  \/ \E h \in Handlers : PythonName(h.name) \in {Login[1], "router"}
        \/ \E t, other \in tables : t # other /\ (t.key = other.key \/ t.attributes.class = other.attributes.class)
        \/ \E t \in tables : ModelsOf(SourceModel, t.attributes.class) # {}
        \/ \E c, other \in columns : c # other /\ c.key[1] = other.key[1] /\ Snake(c.key[2]) = Snake(other.key[2])

(* A table without a primary key, or a foreign key to a table without `id`. *)
Unkeyed ==
    LET columns == OfKind(SourceModel, "column")
    IN  \/ \E t \in OfKind(SourceModel, "table") :
              ~ \E c \in columns : c.key[1] = t.key[1] /\ c.attributes.primary_key
        \/ \E c \in columns : /\ c.attributes.references # None
                             /\ ~ \E id \in columns : id.key = ColumnKey(c.attributes.references, "id")

(* "a skeleton that builds and boots": the check of a skeleton that nobody has
   changed passes, for every app and every layout of its files, also when it
   was written over an older one.  It cannot where two handlers contend for a
   path or a decorator has no counterpart; where the plan or the names of the
   source give modules that Python, mypy or SQLAlchemy refuse; where the
   uv.lock of the older skeleton lacks a package, or a file of it that stays
   behind imports what is no longer there. *)
SkeletonBoots ==
    written # "no" /\ boot # "outdated" =>
        \/ boot = "passed"
        \/ Contested
        \/ \E h \in Handlers : h.method = "all"
        \/ Tangled \/ Redefined \/ Unkeyed
        \/ ~ target.imports \subseteq Installed
        \/ written = "over" /\ ~ Typechecks(target)

(* "Generate a target skeleton that compiles and boots" (generate.py), without
   any exception: what it writes into an empty folder passes its boot check. *)
EverySkeletonBoots == written = "new" => boot # "failed"

(* What the source declares, whether or not its framework is detected. *)
Declares == NestJs(source) \cup TypeOrm(source)
Framework(node) == IF node.kind \in {"table", "column"} THEN "typeorm" ELSE "nestjs"

(* A ledger that is complete, exit code 0: every handler and every column of the source has
   its counterpart in the target with the same status, login and constraints,
   or a person has accepted its key.  Two items with one key are compared by
   their first occurrence only, and of a framework that is not among the
   dependencies of the source nothing is compared at all. *)
CompleteLedgerCovers ==
    ledger # {} /\ Complete(ledger) =>
        \A n \in Declares :
            \/ n.key \in waivers
            \/ Framework(n) \notin source.packages
            \/ \E twin \in SourceModel : twin # n /\ twin.kind = n.kind /\ twin.key = n.key
            \/ \E t \in TargetConcepts(target) :
                  /\ t.kind = n.kind /\ t.key = n.key
                  /\ \A a \in Compared[n.kind] : t.attributes[a] = n.attributes[a]

(* "The running app is the truth" (schema_check.py): the schema check passes
   exactly when the columns read from the code are those of the database; but
   it takes a composite primary key for a difference.  Two members of an entity
   that share a column, a @Column and the @JoinColumn of a relation, are one
   column of the database and two of the code, of which the last is compared:
   nothing is said of them. *)
SchemaCheckIsExact ==
    schema # "outdated" =>
        LET real == RealSchema
            read == OfKind(SourceModel, "column")
            owners == {m \in source.members : OwnsColumn(m)}
            shared == \E m, other \in owners : m # other /\ RealColumn(m) = RealColumn(other)
            same == /\ {n.key : n \in read} = DOMAIN real.columns
                    /\ \A n \in read : n.attributes.nullable = real.columns[n.key]
            composite == \E c \in real.constraints : Cardinality(c[2]) > 1
        IN  \/ shared
            \/ (schema = "passed") <=> (same /\ ~ composite)

=============================================================================
