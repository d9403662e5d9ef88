------------------------- MODULE Translation_proofs -------------------------
(***************************************************************************)
(* Theorems about Translation, for all source apps and layouts, and for    *)
(* any changes of the source and the target between two commands.          *)
(***************************************************************************)
EXTENDS Translation, FiniteSetTheorems, WellFoundedInduction, TLAPS

(* Declarations of a target app and concepts have a place in a file. *)
Located(d) == d.file \in Nat /\ d.line \in Nat

Declared(d) == {"file", "line"} \subseteq DOMAIN d /\ Located(d)

Declarations(app) ==
    app.handlers \cup app.raises \cup app.fields \cup app.tables \cup app.columns

TargetInv ==
    /\ source \in Apps /\ plan \in Targets
    /\ "handlers" \in DOMAIN target
    /\ \A d \in Declarations(target) : Declared(d)

(* A ledger that is still there is that of the files as they are now. *)
LedgerInv == ledger = {} \/ ledger = LedgerRows(SourceModel, TargetConcepts(target), waivers)

-----------------------------------------------------------------------------
(* Concepts and their places. *)

(* The image of a finite set is finite. *)
LEMMA ImageIsFinite ==
  ASSUME NEW S, IsFiniteSet(S), NEW f
  PROVE  IsFiniteSet({f[x] : x \in S})
<1> DEFINE T == {f[x] : x \in S}
           g == [x \in S |-> f[x]]
<1>1. g \in Surjection(S, T)
  BY DEF Surjection
<1> QED
  BY <1>1, FS_Surjection

(* Of concepts that have places, there is a first one. *)
LEMMA FirstIsOne ==
  ASSUME NEW S, S # {}, \A n \in S : Located(n)
  PROVE  First(S) \in S /\ \A other \in S : ~ Before(other, First(S))
<1> DEFINE R == OpToRel(<, Nat)
           Lex == LexPairOrdering(R, R, Nat, Nat)
           Pair(n) == <<n.file, n.line>>
           Pairs == {Pair(n) : n \in S}
<1>1. IsWellFoundedOn(Lex, Nat \X Nat)
  BY NatLessThanWellFounded, WFLexPairOrdering, Zenon
<1>2. Pairs \subseteq Nat \X Nat /\ Pairs # {}
  <2>1. \A n \in S : Pair(n) \in Nat \X Nat
    BY DEF Located
  <2> QED
    BY <2>1
<1>3. PICK p \in Pairs : \A q \in Pairs : ~ (<<q, p>> \in Lex)
  <2> HIDE DEF Lex, Pairs
  <2> QED
    BY <1>1, <1>2, WFMin, Zenon
<1>4. PICK n \in S : p = Pair(n)
  OBVIOUS
<1>5. ASSUME NEW other \in S, Before(other, n)
      PROVE  FALSE
  <2>1. Located(other) /\ Located(n)
    OBVIOUS
  <2>2. \A x \in Nat, y \in Nat : x < y => <<x, y>> \in R
    BY DEF OpToRel
  <2> HIDE DEF R
  <2>3. <<Pair(other), Pair(n)>> \in Lex
    BY <1>5, <2>1, <2>2 DEF Before, Located, LexPairOrdering
  <2>4. Pair(other) \in Pairs
    OBVIOUS
  <2> QED
    BY <1>3, <1>4, <2>3, <2>4
<1> QED
  BY <1>4, <1>5 DEF First

(* What the NestJS adapter reads. *)
LEMMA NestJsParts ==
  ASSUME NEW app, NEW n \in NestJs(app)
  PROVE  \/ \E h \in ToSet(app.handlers) : h.method \in HttpMethods /\ n = NestRoute(h)
         \/ \E h \in ToSet(app.handlers) : \E f \in DtoFields(app, h.body) :
               h.method \in HttpMethods /\ n = NestInput(NestRoute(h).key, f)
         \/ \E t \in app.throws : \E k, a : n = Concept("error", k, t, a)
<1> DEFINE handlers == {h \in ToSet(app.handlers) : h.method \in HttpMethods}
           Inputs(h) == {NestInput(NestRoute(h).key, f) : f \in DtoFields(app, h.body)}
           throws == {t \in app.throws : t.status # None}
           Error(t) == Concept("error", ErrorKey(t.status), t, [status |-> t.status])
           A == {NestRoute(h) : h \in handlers}
           B == UNION {Inputs(h) : h \in handlers}
           C == {Error(t) : t \in throws}
<1>1. NestJs(app) = A \cup B \cup C
  BY DEF NestJs
<1>2. CASE n \in A
  BY <1>2
<1>3. CASE n \in B
  <2>1. PICK h \in handlers : n \in Inputs(h)
    <3> HIDE DEF Inputs, handlers
    <3> QED
      BY <1>3
  <2> QED
    BY <2>1
<1>4. CASE n \in C
  <2>1. PICK t \in throws : n = Error(t)
    <3> HIDE DEF Error, throws
    <3> QED
      BY <1>4
  <2> QED
    BY <2>1
<1>5. n \in A \/ n \in B \/ n \in C
  <2> HIDE DEF A, B, C
  <2> QED
    BY <1>1
<1> HIDE DEF A, B, C
<1> QED
  BY <1>2, <1>3, <1>4, <1>5

(* What the FastAPI adapter reads. *)
LEMMA FastApiParts ==
  ASSUME NEW app, NEW n \in FastApi(app)
  PROVE  \/ \E h \in app.handlers : h.method \in RouteMethods /\ n = FastApiRoute(app, h)
         \/ \E h \in app.handlers : \E f \in app.fields :
               /\ h.method \in RouteMethods /\ f.class = h.body
               /\ n = FastApiInput(RouteKey(h.method, h.prefix \o h.path), f)
         \/ \E d \in app.raises : \E k, a : n = Concept("error", k, d, a)
<1> DEFINE handlers == {h \in app.handlers : h.method \in RouteMethods}
           Key(h) == RouteKey(h.method, h.prefix \o h.path)
           Inputs(h) == {FastApiInput(Key(h), f) : f \in {f \in app.fields : f.class = h.body}}
           Error(d) == Concept("error", ErrorKey(d.status), d, [status |-> d.status])
           A == {FastApiRoute(app, h) : h \in handlers}
           B == UNION {Inputs(h) : h \in handlers}
           C == {Error(d) : d \in app.raises}
<1>1. FastApi(app) = A \cup B \cup C
  BY DEF FastApi
<1>2. CASE n \in A
  BY <1>2
<1>3. CASE n \in B
  <2>1. PICK h \in handlers : n \in Inputs(h)
    <3> HIDE DEF Inputs, handlers
    <3> QED
      BY <1>3
  <2>2. PICK f \in app.fields : f.class = h.body /\ n = FastApiInput(Key(h), f)
    <3> HIDE DEF Key
    <3> QED
      BY <2>1
  <2>3. h \in app.handlers /\ h.method \in RouteMethods
    OBVIOUS
  <2> QED
    BY <2>2, <2>3
<1>4. CASE n \in C
  <2>1. PICK d \in app.raises : n = Error(d)
    <3> HIDE DEF Error
    <3> QED
      BY <1>4
  <2> QED
    BY <2>1
<1>5. n \in A \/ n \in B \/ n \in C
  <2> HIDE DEF A, B, C
  <2> QED
    BY <1>1
<1> HIDE DEF A, B, C
<1> QED
  BY <1>2, <1>3, <1>4, <1>5

(* Every concept of a source app has the place of its declaration. *)
LEMMA SourceIsLocated ==
  ASSUME NEW app \in Apps
  PROVE  \A n \in SourceConcepts(app) : Located(n)
<1>1. \A d \in ToSet(app.handlers) \cup app.fields \cup app.members \cup app.throws : Located(d)
  BY TranslationAssumption DEF Located
<1>2. \A kind, key, d, attributes : Located(d) => Located(Concept(kind, key, d, attributes))
  BY DEF Concept, Located
<1>3. \A n \in NestJs(app) : Located(n)
  <2>1. \A h \in ToSet(app.handlers) : Located(NestRoute(h))
    BY <1>1, <1>2 DEF NestRoute
  <2>2. \A r, b : \A f \in DtoFields(app, b) : Located(NestInput(r, f))
    BY <1>1, <1>2 DEF NestInput, DtoFields
  <2>3. \A t \in app.throws : \A k, a : Located(Concept("error", k, t, a))
    BY <1>1, <1>2
  <2> QED
    BY <2>1, <2>2, <2>3, NestJsParts
<1>4. \A n \in TypeOrm(app) : Located(n)
  <2>1. \A m \in app.members : Located(TypeOrmColumn(m)) /\ Located(TypeOrmRelation(app, m))
    BY <1>1, <1>2 DEF TypeOrmColumn, TypeOrmRelation
  <2>2. \A m \in app.members : \A key, attributes :
           Located(Concept("table", key, [file |-> m.file, line |-> 0], attributes))
    BY <1>1 DEF Concept, Located
  <2> QED
    BY <2>1, <2>2 DEF TypeOrm
<1> QED
  <2>1. SourceConcepts(app) \subseteq NestJs(app) \cup TypeOrm(app)
    BY DEF SourceConcepts
  <2> QED
    BY <1>3, <1>4, <2>1

(* So has every concept of a target app. *)
LEMMA TargetIsLocated ==
  ASSUME NEW app, \A d \in Declarations(app) : Declared(d)
  PROVE  \A n \in TargetConcepts(app) : Located(n)
<1>1. \A d \in Declarations(app) : Located(d)
  BY DEF Declared
<1>2. \A kind, key, d, attributes : Located(d) => Located(Concept(kind, key, d, attributes))
  BY DEF Concept, Located
<1>3. \A n \in FastApi(app) : Located(n)
  <2>1. \A h \in app.handlers : Located(FastApiRoute(app, h))
    BY <1>1, <1>2 DEF FastApiRoute, Declarations
  <2>2. \A r : \A f \in app.fields : Located(FastApiInput(r, f))
    BY <1>1, <1>2 DEF FastApiInput, Declarations
  <2>3. \A d \in app.raises : Located(d)
    BY <1>1 DEF Declarations
  <2>4. \A d \in app.raises : \A k, a : Located(Concept("error", k, d, a))
    BY <1>2, <2>3
  <2> QED
    BY <2>1, <2>2, <2>4, FastApiParts
<1>4. \A n \in SqlAlchemy(app) : Located(n)
  <2>1. \A c \in app.columns : Located(SqlAlchemyColumn(c))
    BY <1>1, <1>2 DEF SqlAlchemyColumn, Declarations
  <2>2. \A t \in app.tables : Located(t)
    BY <1>1 DEF Declarations
  <2>3. \A t \in app.tables : \A k, a : Located(Concept("table", k, t, a))
    BY <1>2, <2>2
  <2> QED
    BY <2>1, <2>3 DEF SqlAlchemy
<1> QED
  <2>1. TargetConcepts(app) \subseteq FastApi(app) \cup SqlAlchemy(app)
    BY DEF TargetConcepts
  <2> QED
    BY <1>3, <1>4, <2>1

(* An app has finitely many routes. *)
LEMMA RoutesAreFinite ==
  ASSUME NEW app \in Apps
  PROVE  IsFiniteSet(OfKind(SourceConcepts(app), "route"))
<1> DEFINE handlers == app.handlers
           Routes == {NestRoute(h) : h \in ToSet(handlers)}
<1>1. handlers \in Seq(ToSet(handlers))
  BY TranslationAssumption
<1>2. Len(handlers) \in Nat /\ DOMAIN handlers = 1 .. Len(handlers)
  BY <1>1
<1>3. IsFiniteSet(1 .. Len(handlers))
  BY <1>2, FS_Interval
<1>4. ToSet(handlers) = {handlers[i] : i \in 1 .. Len(handlers)}
  BY <1>2 DEF ToSet
<1>5. IsFiniteSet(ToSet(handlers))
  BY <1>3, <1>4, ImageIsFinite
<1>6. IsFiniteSet(Routes)
  <2> DEFINE f == [h \in ToSet(handlers) |-> NestRoute(h)]
  <2>1. Routes = {f[h] : h \in ToSet(handlers)}
    OBVIOUS
  <2> HIDE DEF f, Routes
  <2> QED
    BY <1>5, <2>1, ImageIsFinite
<1>7. OfKind(SourceConcepts(app), "route") \subseteq Routes
  <2>1. \A n \in NestJs(app) : n.kind = "route" => n \in Routes
    <3>1. \A r, f : NestInput(r, f).kind # "route"
      BY DEF NestInput, Concept
    <3>2. \A k, d, a : Concept("error", k, d, a).kind # "route"
      BY DEF Concept
    <3>3. \A h \in ToSet(handlers) : NestRoute(h) \in Routes
      OBVIOUS
    <3> HIDE DEF Routes
    <3> QED
      BY <3>1, <3>2, <3>3, NestJsParts
  <2>2. \A n \in TypeOrm(app) : n.kind # "route"
    BY DEF TypeOrm, TypeOrmColumn, TypeOrmRelation, Concept
  <2>3. SourceConcepts(app) \subseteq NestJs(app) \cup TypeOrm(app)
    BY DEF SourceConcepts
  <2> QED
    BY <2>1, <2>2, <2>3 DEF OfKind
<1> QED
  BY <1>6, <1>7, FS_Subset


-----------------------------------------------------------------------------
(* The target folder. *)

(* A file that a plan names, or the default, is a number. *)
LEMMA TargetsAreFiles ==
  ASSUME NEW targets \in Targets, NEW file, NEW default \in Nat
  PROVE  TargetOf(targets, file, default) \in Nat
  BY TranslationAssumption DEF TargetOf

(* What is generated has places. *)
LEMMA GeneratedIsDeclared ==
  ASSUME NEW app \in Apps, NEW targets \in Targets, NEW packages
  PROVE  LET new == Generate(SourceConcepts(app), GuardFiles(app), packages, targets)
         IN  "handlers" \in DOMAIN new /\ \A d \in Declarations(new) : Declared(d)
<1> DEFINE concepts == SourceConcepts(app)
           guards == GuardFiles(app)
           new == Generate(concepts, guards, packages, targets)
           handlers == RenderRoutes(concepts, guards, targets)
           tables == OfKind(concepts, "table")
<1>1. \A n \in concepts : Located(n)
  BY SourceIsLocated
<1>2. \A n : \A default \in Nat : TargetOf(targets, n.file, default) \in Nat
  BY TargetsAreFiles
<1>3. AuthFile \in Nat /\ ModelsFile \in Nat /\ RoutesFile \in Nat /\ SchemasFile \in Nat
  BY FilesAssumption
<1>4. /\ new.handlers = handlers
      /\ new.raises = RenderAuth(concepts, guards, targets) \cup Stubs(handlers)
      /\ new.fields = {Field(n, targets) : n \in OfKind(concepts, "input_field")}
      /\ new.tables = {[file |-> TargetOf(targets, t.file, ModelsFile), line |-> 0,
                        table |-> t.key[1], class |-> t.attributes.class,
                        uses |-> {<<DatabaseFile, "Base">>}] : t \in tables}
      /\ new.columns = UNION {{Column(n, t, targets) : n \in ColumnsOf(concepts, t)} : t \in tables}
      /\ "handlers" \in DOMAIN new
  BY DEF Generate
<1>5. ASSUME NEW h \in handlers
      PROVE  Declared(h)
  <2> DEFINE routes(file) == RoutesOf(concepts, targets, file)
             Rendered(file) == {Handler(routes(file), n, file, concepts, guards, targets) : n \in routes(file)}
  <2>1. handlers = UNION {Rendered(file) : file \in RouterFiles(concepts, targets)}
    BY DEF RenderRoutes
  <2>2. PICK file \in RouterFiles(concepts, targets) : h \in Rendered(file)
    <3> HIDE DEF Rendered, handlers
    <3> QED
      BY <2>1, <1>5
  <2>3. PICK n \in routes(file) : h = Handler(routes(file), n, file, concepts, guards, targets)
    <3> HIDE DEF routes
    <3> QED
      BY <2>2
  <2>4. file \in Nat
    BY <1>2, <1>3, <2>2 DEF RouterFiles
  <2>5. Place(routes(file), n) \in Nat
    <3> DEFINE earlier == {other \in routes(file) : Before(other, n)}
    <3>1. earlier \subseteq OfKind(concepts, "route")
      BY DEF RoutesOf
    <3>2. IsFiniteSet(earlier)
      BY <3>1, RoutesAreFinite, FS_Subset
    <3>3. Cardinality(earlier) \in Nat
      BY <3>2, FS_CardinalityType
    <3> QED
      BY <3>3 DEF Place
  <2> QED
    BY <2>3, <2>4, <2>5 DEF Handler, Declared, Located
<1>6. \A r \in RenderAuth(concepts, guards, targets) : Declared(r)
  <2>1. LoginFile(guards, targets) \in Nat
    BY <1>3, TargetsAreFiles DEF LoginFile
  <2> QED
    BY <2>1 DEF RenderAuth, Declared, Located
<1>7. \A r \in Stubs(handlers) : Declared(r)
  <2> HIDE DEF handlers
  <2> QED
    BY <1>5 DEF Stubs, Declared, Located
<1>8. \A n \in concepts : Declared(Field(n, targets))
  BY <1>1, <1>2, <1>3 DEF Field, Declared, Located
<1>9. \A t \in new.tables : Declared(t)
  BY <1>2, <1>3, <1>4 DEF Declared, Located
<1>10. \A n \in concepts : \A t : Declared(Column(n, t, targets))
  BY <1>1, <1>2, <1>3 DEF Column, Declared, Located
<1>11. \A f \in new.fields : Declared(f)
  <2> HIDE DEF concepts, new
  <2> QED
    BY <1>4, <1>8 DEF OfKind
<1>12. ASSUME NEW c \in new.columns
       PROVE  Declared(c)
  <2> DEFINE Rendered(t) == {Column(n, t, targets) : n \in ColumnsOf(concepts, t)}
  <2>1. new.columns = UNION {Rendered(t) : t \in tables}
    BY <1>4
  <2>2. PICK t \in tables : c \in Rendered(t)
    <3> HIDE DEF Rendered, tables, new
    <3> QED
      BY <2>1, <1>12
  <2>3. PICK n \in ColumnsOf(concepts, t) : c = Column(n, t, targets)
    BY <2>2
  <2>4. n \in concepts
    BY DEF ColumnsOf, OfKind
  <2> QED
    BY <1>10, <2>3, <2>4
<1> HIDE DEF new, handlers, concepts
<1>13. \A d \in Declarations(new) : Declared(d)
  BY <1>4, <1>5, <1>6, <1>7, <1>9, <1>11, <1>12 DEF Declarations
<1> QED
  BY <1>4, <1>13 DEF new, concepts

(* So has what a skeleton leaves in the folder. *)
LEMMA OverwrittenIsDeclared ==
  ASSUME NEW old, NEW app \in Apps, NEW targets \in Targets, NEW packages,
         \A d \in Declarations(old) : Declared(d)
  PROVE  LET new == Overwritten(old, Generate(SourceConcepts(app), GuardFiles(app), packages, targets), targets)
         IN  "handlers" \in DOMAIN new /\ \A d \in Declarations(new) : Declared(d)
<1> DEFINE new == Generate(SourceConcepts(app), GuardFiles(app), packages, targets)
           over == Overwritten(old, new, targets)
<1>1. "handlers" \in DOMAIN new /\ \A d \in Declarations(new) : Declared(d)
  BY GeneratedIsDeclared
<1>2. {"handlers", "raises", "fields", "tables", "columns"} \subseteq DOMAIN new
  BY DEF Generate
<1> HIDE DEF new
<1>3. /\ DOMAIN over = DOMAIN new
      /\ over.handlers \subseteq new.handlers \cup old.handlers
      /\ over.raises \subseteq new.raises \cup old.raises
      /\ over.fields \subseteq new.fields \cup old.fields
      /\ over.tables \subseteq new.tables \cup old.tables
      /\ over.columns \subseteq new.columns \cup old.columns
  BY <1>2 DEF Overwritten
<1> HIDE DEF over
<1>4. Declarations(over) \subseteq Declarations(new) \cup Declarations(old)
  BY <1>3 DEF Declarations
<1>5. "handlers" \in DOMAIN over /\ \A d \in Declarations(over) : Declared(d)
  BY <1>1, <1>3, <1>4
<1> QED
  BY <1>5 DEF over, new

(* A handler that was edited is where it was. *)
LEMMA EditedIsDeclared ==
  ASSUME NEW h, Declared(h), NEW edited \in Edits(h)
  PROVE  \A d \in edited : Declared(d)
  BY DEF Edits, Declared, Located

(* TargetInv and LedgerInv hold whatever commands are run and whatever is changed. *)
LEMMA TranslationInvariant == Spec => [](TargetInv /\ LedgerInv)
<1>1. Init => TargetInv /\ LedgerInv
  BY DEF Init, TargetInv, LedgerInv, EmptyFolder, Declarations
<1>2. TargetInv /\ LedgerInv /\ [Next]_vars => TargetInv' /\ LedgerInv'
  <2> SUFFICES ASSUME TargetInv, LedgerInv, [Next]_vars
               PROVE  TargetInv' /\ LedgerInv'
    OBVIOUS
  <2>1. CASE NewSkeleton \/ ForceSkeleton
    <3>1. UNCHANGED <<source, plan>> /\ ledger' = {}
      BY <2>1 DEF NewSkeleton, ForceSkeleton, WriteSkeleton, Outdated
    <3>2. \/ target' = Generate(SourceConcepts(source), GuardFiles(source), source.packages, plan)
          \/ target' = Overwritten(target, Generate(SourceConcepts(source), GuardFiles(source),
                                                   source.packages, plan), plan)
      BY <2>1 DEF NewSkeleton, ForceSkeleton, WriteSkeleton, SourceModel
    <3>3. "handlers" \in DOMAIN target' /\ \A d \in Declarations(target') : Declared(d)
      BY <3>2, GeneratedIsDeclared, OverwrittenIsDeclared DEF TargetInv
    <3> QED
      BY <3>1, <3>3 DEF TargetInv, LedgerInv
  <2>2. CASE CheckSkeleton \/ CheckSchema \/ UNCHANGED vars
    <3>1. UNCHANGED <<source, plan, target, waivers, ledger>>
      BY <2>2 DEF CheckSkeleton, CheckSchema, vars, disk, results
    <3> QED
      BY <3>1 DEF TargetInv, LedgerInv, SourceModel
  <2>3. CASE RunLedger
    <3>1. /\ UNCHANGED <<source, plan, target, waivers>>
          /\ ledger' = LedgerRows(SourceModel, TargetConcepts(target), waivers)
      BY <2>3 DEF RunLedger, disk
    <3> QED
      BY <3>1 DEF TargetInv, LedgerInv, SourceModel
  <2>4. CASE ChangeSource
    <3>1. UNCHANGED <<plan, target>> /\ source' \in Apps /\ ledger' = {}
      BY <2>4 DEF ChangeSource, Change, Outdated
    <3> QED
      BY <3>1 DEF TargetInv, LedgerInv
  <2>5. CASE ChangeTarget
    <3>1. UNCHANGED <<source, plan>> /\ ledger' = {}
      BY <2>5 DEF ChangeTarget, Change, Outdated
    <3>2. PICK h \in target.handlers : \E edited \in Edits(h) :
             target' = [target EXCEPT !.handlers = (@ \ {h}) \cup edited]
      BY <2>5 DEF ChangeTarget
    <3>3. PICK edited \in Edits(h) :
             target' = [target EXCEPT !.handlers = (@ \ {h}) \cup edited]
      BY <3>2
    <3>4. \A d \in edited : Declared(d)
      BY EditedIsDeclared DEF TargetInv, Declarations
    <3>5. /\ target'.handlers \subseteq target.handlers \cup edited
          /\ target'.raises = target.raises /\ target'.fields = target.fields
          /\ target'.tables = target.tables /\ target'.columns = target.columns
          /\ "handlers" \in DOMAIN target'
      BY <3>3 DEF TargetInv
    <3>6. Declarations(target') \subseteq Declarations(target) \cup edited
      BY <3>5 DEF Declarations
    <3>7. \A d \in Declarations(target') : Declared(d)
      BY <3>4, <3>6 DEF TargetInv
    <3> QED
      BY <3>1, <3>5, <3>7 DEF TargetInv, LedgerInv
  <2>6. CASE Waive
    <3>1. UNCHANGED <<source, plan, target>> /\ ledger' = {}
      BY <2>6 DEF Waive
    <3> QED
      BY <3>1 DEF TargetInv, LedgerInv
  <2> QED
    BY <2>1, <2>2, <2>3, <2>4, <2>5, <2>6 DEF Next
<1> QED
  BY <1>1, <1>2, PTL DEF Spec

-----------------------------------------------------------------------------
(* The schema check. *)

Owners == {m \in source.members : OwnsColumn(m)}

(* No two members of the source share a column. *)
OneMemberPerColumn ==
    \A m, other \in Owners : RealColumn(m) = RealColumn(other) => m = other

Read == OfKind(SourceModel, "column")

(* The primary key of a table has these columns. *)
PrimaryKey(table) ==
    {RealColumn(m) : m \in {m \in Owners : TableName(m) = table /\ m.decorator \in Primary}}

IsNullable(m) ==
    IF m.decorator \in Columns THEN m.decorator \notin Primary /\ m.nullable = "true"
                               ELSE m.nullable # "false"

(* What was read of a member. *)
ReadOf(m) == IF m.decorator \in Columns THEN TypeOrmColumn(m) ELSE TypeOrmRelation(source, m)
Readable ==
    {m \in source.members : "typeorm" \in source.packages /\ m.decorator \in Columns \cup {"ManyToOne"}}

(* The columns of a source app are those of its members. *)
LEMMA ReadColumns == Read = {ReadOf(m) : m \in Readable}
<1>1. "ManyToOne" \notin Columns
  BY DEF Columns, Primary
<1>2. \A n \in NestJs(source) : n.kind # "column"
  <2>1. \A h : NestRoute(h).kind # "column"
    BY DEF NestRoute, Concept
  <2>2. \A r, f : NestInput(r, f).kind # "column"
    BY DEF NestInput, Concept
  <2>3. \A d, k, a : Concept("error", k, d, a).kind # "column"
    BY DEF Concept
  <2> QED
    BY <2>1, <2>2, <2>3, NestJsParts
<1>3. /\ \A m : TypeOrmColumn(m).kind = "column" /\ TypeOrmRelation(source, m).kind = "column"
      /\ \A k, d, a : Concept("table", k, d, a).kind # "column"
  BY DEF TypeOrmColumn, TypeOrmRelation, Concept
<1>4. OfKind(TypeOrm(source), "column") =
         {TypeOrmColumn(m) : m \in {m \in source.members : m.decorator \in Columns}}
         \cup {TypeOrmRelation(source, m) : m \in {m \in source.members : m.decorator = "ManyToOne"}}
  BY <1>3 DEF OfKind, TypeOrm
<1>5. Read = IF "typeorm" \in source.packages THEN OfKind(TypeOrm(source), "column") ELSE {}
  BY <1>2 DEF Read, OfKind, SourceModel, SourceConcepts
<1>6. CASE "typeorm" \in source.packages
  BY <1>1, <1>4, <1>5, <1>6 DEF ReadOf, Readable
<1>7. CASE "typeorm" \notin source.packages
  BY <1>5, <1>7 DEF Readable
<1> QED
  BY <1>6, <1>7

(* A column has the key that it has in the database, and these attributes. *)
LEMMA ReadAttributes ==
  ASSUME NEW m \in Readable
  PROVE  /\ m \in Owners
         /\ ReadOf(m).key = RealColumn(m)
         /\ ReadOf(m).attributes.nullable = IsNullable(m)
         /\ ReadOf(m).attributes.unique = IF m.decorator \in Columns THEN m.unique ELSE FALSE
         /\ ReadOf(m).attributes.primary_key = (m.decorator \in Primary)
<1>1. Primary \subseteq Columns /\ "ManyToOne" \notin Columns
  BY DEF Columns, Primary
<1>2. m \in Owners
  BY DEF Owners, OwnsColumn, Readable
<1>3. CASE m.decorator \in Columns
  <2>1. ReadOf(m) = TypeOrmColumn(m)
    BY <1>3 DEF ReadOf
  <2>2. TypeOrmColumn(m).key = RealColumn(m)
    BY <1>3 DEF TypeOrmColumn, Concept, RealColumn
  <2>3. /\ TypeOrmColumn(m).attributes.nullable = (m.decorator \notin Primary /\ m.nullable = "true")
        /\ TypeOrmColumn(m).attributes.unique = m.unique
        /\ TypeOrmColumn(m).attributes.primary_key = (m.decorator \in Primary)
    BY DEF TypeOrmColumn, Concept
  <2>4. IsNullable(m) = (m.decorator \notin Primary /\ m.nullable = "true")
    BY <1>3 DEF IsNullable
  <2> QED
    BY <1>2, <1>3, <2>1, <2>2, <2>3, <2>4
<1>4. CASE m.decorator \notin Columns
  <2>1. ReadOf(m) = TypeOrmRelation(source, m)
    BY <1>4 DEF ReadOf
  <2>2. TypeOrmRelation(source, m).key = RealColumn(m)
    BY <1>4 DEF TypeOrmRelation, Concept, RealColumn
  <2>3. /\ TypeOrmRelation(source, m).attributes.nullable = (m.nullable # "false")
        /\ TypeOrmRelation(source, m).attributes.unique = FALSE
        /\ TypeOrmRelation(source, m).attributes.primary_key = FALSE
    BY DEF TypeOrmRelation, Concept
  <2>4. IsNullable(m) = (m.nullable # "false")
    BY <1>4 DEF IsNullable
  <2>5. FALSE = (m.decorator \in Primary)
    BY <1>1, <1>4
  <2>6. FALSE = IF m.decorator \in Columns THEN m.unique ELSE FALSE
    BY <1>4
  <2>7. /\ TypeOrmRelation(source, m).attributes.primary_key = (m.decorator \in Primary)
        /\ TypeOrmRelation(source, m).attributes.nullable = IsNullable(m)
    BY <2>3, <2>4, <2>5
  <2>8. TypeOrmRelation(source, m).attributes.unique
           = IF m.decorator \in Columns THEN m.unique ELSE FALSE
    BY <2>3, <2>6
  <2> QED
    BY <1>2, <2>1, <2>2, <2>7, <2>8
<1> QED
  BY <1>3, <1>4

(* The database in these terms. *)
LEMMA RealParts ==
  /\ DOMAIN RealSchema.columns = {RealColumn(m) : m \in Owners}
  /\ \A k \in DOMAIN RealSchema.columns :
        RealSchema.columns[k] = \E m \in Owners : RealColumn(m) = k /\ IsNullable(m)
  /\ \A ks : <<"PRIMARY KEY", ks>> \in RealSchema.constraints <=>
                \E m \in Owners : m.decorator \in Primary /\ ks = PrimaryKey(TableName(m))
  /\ \A ks : <<"UNIQUE", ks>> \in RealSchema.constraints <=>
                \E m \in Owners : (m.unique \/ m.decorator = "OneToOneJoin") /\ ks = {RealColumn(m)}
  /\ \A c \in RealSchema.constraints : \E m \in Owners :
        \/ m.decorator \in Primary /\ c[2] = PrimaryKey(TableName(m))
        \/ c[2] = {RealColumn(m)}
<1> DEFINE keys == {RealColumn(m) : m \in Owners}
           columns == [k \in keys |-> \E m \in Owners : RealColumn(m) = k /\ IsNullable(m)]
           primary == {<<"PRIMARY KEY", PrimaryKey(TableName(m))>> :
                         m \in {m \in Owners : m.decorator \in Primary}}
           unique == {<<"UNIQUE", {RealColumn(m)}>> :
                        m \in {m \in Owners : m.unique \/ m.decorator = "OneToOneJoin"}}
<1>1. RealSchema = [columns |-> columns, constraints |-> primary \cup unique]
  BY DEF RealSchema, Owners, PrimaryKey, IsNullable
<1>2. RealSchema.columns = columns /\ RealSchema.constraints = primary \cup unique
  BY <1>1
<1>3. DOMAIN columns = keys /\ \A k \in keys : columns[k] = \E m \in Owners : RealColumn(m) = k /\ IsNullable(m)
  OBVIOUS
<1>4. \A ks : <<"PRIMARY KEY", ks>> \in primary \cup unique <=>
                \E m \in Owners : m.decorator \in Primary /\ ks = PrimaryKey(TableName(m))
  OBVIOUS
<1>5. \A ks : <<"UNIQUE", ks>> \in primary \cup unique <=>
                \E m \in Owners : (m.unique \/ m.decorator = "OneToOneJoin") /\ ks = {RealColumn(m)}
  OBVIOUS
<1>6. \A c \in primary \cup unique : \E m \in Owners :
         \/ m.decorator \in Primary /\ c[2] = PrimaryKey(TableName(m))
         \/ c[2] = {RealColumn(m)}
  <2>1. ASSUME NEW c \in primary
        PROVE  \E m \in Owners : m.decorator \in Primary /\ c[2] = PrimaryKey(TableName(m))
    <3>1. PICK m \in Owners : m.decorator \in Primary /\ c = <<"PRIMARY KEY", PrimaryKey(TableName(m))>>
      OBVIOUS
    <3> QED
      BY <3>1
  <2>2. ASSUME NEW c \in unique
        PROVE  \E m \in Owners : c[2] = {RealColumn(m)}
    <3>1. PICK m \in Owners : c = <<"UNIQUE", {RealColumn(m)}>>
      OBVIOUS
    <3> QED
      BY <3>1
  <2> HIDE DEF primary, unique
  <2> QED
    BY <2>1, <2>2
<1> HIDE DEF columns, primary, unique, keys
<1>7. /\ DOMAIN RealSchema.columns = keys
      /\ \A k \in keys : RealSchema.columns[k] = \E m \in Owners : RealColumn(m) = k /\ IsNullable(m)
  BY <1>2, <1>3
<1> QED
  BY <1>2, <1>4, <1>5, <1>6, <1>7 DEF keys

(* Truth values that imply one another are one. *)
LEMMA SameTruth ==
  ASSUME NEW a \in BOOLEAN, NEW b \in BOOLEAN
  PROVE  (a = b) <=> (a <=> b)
  OBVIOUS

(* What the check compares of a column is right if no other member has it, but
   for a primary key of several columns, which it reads as none. *)
LEMMA OwnColumnAgrees ==
  ASSUME OneMemberPerColumn, source \in Apps, NEW m \in Readable
  PROVE  LET facts == Facts(RealSchema, RealColumn(m))
         IN  /\ RealColumn(m) \in DOMAIN RealSchema.columns
             /\ ReadOf(m).attributes.nullable = facts.nullable
             /\ ReadOf(m).attributes.unique = facts.unique
             /\ (ReadOf(m).attributes.primary_key = facts.primary_key)
                   <=> (m.decorator \in Primary => PrimaryKey(TableName(m)) = {RealColumn(m)})
<1> DEFINE key == RealColumn(m)
           facts == Facts(RealSchema, key)
<1>0. /\ facts.nullable = RealSchema.columns[key]
      /\ facts.unique = (<<"UNIQUE", {key}>> \in RealSchema.constraints)
      /\ facts.primary_key = (<<"PRIMARY KEY", {key}>> \in RealSchema.constraints)
  BY DEF Facts
<1>b. facts.unique \in BOOLEAN /\ facts.primary_key \in BOOLEAN
  BY DEF Facts
<1> HIDE DEF facts
<1>1. m \in Owners
  BY ReadAttributes
<1>2. \A other \in Owners : RealColumn(other) = key => other = m
  BY <1>1 DEF OneMemberPerColumn, Owners
<1>3. /\ m.unique => m.decorator \in Columns
      /\ m.unique \in BOOLEAN
      /\ m.decorator # "OneToOneJoin"
  BY TranslationAssumption DEF Readable, Columns, Primary
<1>4. key \in DOMAIN RealSchema.columns
  BY <1>1, RealParts
<1>5. ReadOf(m).attributes.nullable = facts.nullable
  <2>1. RealSchema.columns[key] = \E other \in Owners : RealColumn(other) = key /\ IsNullable(other)
    BY <1>4, RealParts
  <2>2. (\E other \in Owners : RealColumn(other) = key /\ IsNullable(other)) = IsNullable(m)
    <3>1. IsNullable(m) \in BOOLEAN
      BY DEF IsNullable
    <3>2. (\E other \in Owners : RealColumn(other) = key /\ IsNullable(other)) <=> IsNullable(m)
      BY <1>1, <1>2
    <3> QED
      BY <3>1, <3>2
  <2>3. ReadOf(m).attributes.nullable = IsNullable(m)
    BY ReadAttributes
  <2> QED
    BY <1>0, <2>1, <2>2, <2>3
<1>6. ReadOf(m).attributes.unique = facts.unique
  <2>1. facts.unique <=> m.unique
    <3>1. facts.unique <=> \E other \in Owners :
             (other.unique \/ other.decorator = "OneToOneJoin") /\ {key} = {RealColumn(other)}
      BY <1>0, RealParts
    <3>2. \A other \in Owners : {key} = {RealColumn(other)} <=> other = m
      BY <1>2
    <3> QED
      BY <1>1, <1>3, <3>1, <3>2
  <2>2. facts.unique = m.unique
    BY <1>b, <1>3, <2>1, SameTruth
  <2>3. ReadOf(m).attributes.unique = IF m.decorator \in Columns THEN m.unique ELSE FALSE
    BY ReadAttributes
  <2>4. m.decorator \notin Columns => m.unique = FALSE
    BY <1>3
  <2> QED
    BY <2>2, <2>3, <2>4
<1>7. facts.primary_key <=> m.decorator \in Primary /\ PrimaryKey(TableName(m)) = {key}
  <2>1. facts.primary_key <=> \E other \in Owners :
           other.decorator \in Primary /\ {key} = PrimaryKey(TableName(other))
    <3>1. facts.primary_key <=> <<"PRIMARY KEY", {key}>> \in RealSchema.constraints
      BY <1>0
    <3> QED
      BY <3>1, RealParts
  <2>2. ASSUME NEW other \in Owners, other.decorator \in Primary,
               {key} = PrimaryKey(TableName(other))
        PROVE  other = m
    <3>1. RealColumn(other) \in PrimaryKey(TableName(other))
      BY <2>2 DEF PrimaryKey
    <3> QED
      BY <1>2, <2>2, <3>1
  <2> QED
    BY <1>1, <2>1, <2>2
<1>8. (ReadOf(m).attributes.primary_key = facts.primary_key)
         <=> (m.decorator \in Primary => PrimaryKey(TableName(m)) = {key})
  <2>1. ReadOf(m).attributes.primary_key = (m.decorator \in Primary)
    BY ReadAttributes
  <2>2. (ReadOf(m).attributes.primary_key = facts.primary_key)
           <=> (m.decorator \in Primary <=> facts.primary_key)
    <3>1. ReadOf(m).attributes.primary_key \in BOOLEAN
      <4>1. TypeOrmColumn(m).attributes.primary_key \in BOOLEAN
        <5>1. TypeOrmColumn(m).attributes =
                 [nullable    |-> m.decorator \notin Primary /\ m.nullable = "true",
                  unique      |-> m.unique,
                  primary_key |-> m.decorator \in Primary,
                  references  |-> None]
          BY DEF TypeOrmColumn, Concept
        <5> QED
          BY <5>1
      <4>2. TypeOrmRelation(source, m).attributes.primary_key \in BOOLEAN
        BY DEF TypeOrmRelation, Concept
      <4>3. ReadOf(m) \in {TypeOrmColumn(m), TypeOrmRelation(source, m)}
        BY DEF ReadOf
      <4> QED
        BY <4>1, <4>2, <4>3
    <3>2. ReadOf(m).attributes.primary_key <=> m.decorator \in Primary
      BY <2>1
    <3> QED
      BY <1>b, <3>1, <3>2, SameTruth
  <2> QED
    BY <1>7, <2>2
<1> QED
  BY <1>4, <1>5, <1>6, <1>8 DEF facts

(* Of one column there is one concept, which is the last of its key. *)
LEMMA LastIsOwn ==
  ASSUME OneMemberPerColumn, source \in Apps, NEW n \in Read
  PROVE  LastOf(Read, n.key) = n
<1>1. PICK m \in Readable : n = ReadOf(m)
  BY ReadColumns
<1>2. ASSUME NEW other \in Read, other.key = n.key
      PROVE  other = n
  <2>1. PICK m2 \in Readable : other = ReadOf(m2)
    BY ReadColumns
  <2>2. RealColumn(m) = RealColumn(m2) /\ m \in Owners /\ m2 \in Owners
    BY <1>1, <1>2, <2>1, ReadAttributes
  <2>3. m = m2
    BY <2>2 DEF OneMemberPerColumn, Owners
  <2> QED
    BY <1>1, <2>1, <2>3
<1>3. n.file \in Nat /\ n.line \in Nat
  BY SourceIsLocated DEF Read, OfKind, SourceModel, Located
<1>4. ~ Before(n, n)
  BY <1>3 DEF Before
<1>5. {other \in Read : other.key = n.key} = {n}
  BY <1>2
<1> QED
  BY <1>4, <1>5 DEF LastOf, Latest

(* SchemaProblems in these terms. *)
LEMMA ProblemParts ==
  ASSUME OneMemberPerColumn, source \in Apps
  PROVE  SchemaProblems(SourceModel, RealSchema) = {} <=>
            /\ {n.key : n \in Read} = DOMAIN RealSchema.columns
            /\ \A n \in Read : \A name \in {"nullable", "unique", "primary_key"} :
                  n.attributes[name] = Facts(RealSchema, n.key)[name]
<1> DEFINE static == {n.key : n \in Read}
           real == DOMAIN RealSchema.columns
           names == {"nullable", "unique", "primary_key"}
           Agrees(n) == \A name \in names : n.attributes[name] = Facts(RealSchema, n.key)[name]
           KeyAgrees(key) == \A name \in DOMAIN Facts(RealSchema, key) :
                                LastOf(Read, key).attributes[name] = Facts(RealSchema, key)[name]
           differing == {key \in static \cap real : ~ KeyAgrees(key)}
<1>1. \A key : DOMAIN Facts(RealSchema, key) = names
  BY DEF Facts
<1>2. SchemaProblems(SourceModel, RealSchema) = (static \ real) \cup (real \ static) \cup differing
  BY DEF SchemaProblems, Read
<1>3. \A n \in Read : KeyAgrees(n.key) <=> Agrees(n)
  <2> SUFFICES ASSUME NEW n \in Read
               PROVE  KeyAgrees(n.key) <=> Agrees(n)
    OBVIOUS
  <2>1. LastOf(Read, n.key) = n /\ DOMAIN Facts(RealSchema, n.key) = names
    BY <1>1, LastIsOwn
  <2> QED
    BY <2>1
<1> HIDE DEF Agrees, KeyAgrees
<1>4. differing = {} <=> \A n \in Read : n.key \in real => Agrees(n)
  BY <1>3
<1>5. static = real => \A n \in Read : n.key \in real
  OBVIOUS
<1> HIDE DEF static, real, differing
<1>6. SchemaProblems(SourceModel, RealSchema) = {} <=> static = real /\ differing = {}
  BY <1>2
<1>7. SchemaProblems(SourceModel, RealSchema) = {} <=>
         static = real /\ \A n \in Read : Agrees(n)
  BY <1>4, <1>5, <1>6
<1> QED
  BY <1>7 DEF static, real, Agrees

(* Whether the code and the database have the same columns. *)
SameColumns ==
    /\ {n.key : n \in Read} = DOMAIN RealSchema.columns
    /\ \A n \in Read : n.attributes.nullable = RealSchema.columns[n.key]

(* A primary key over several columns. *)
CompositeKey == \E c \in RealSchema.constraints : Cardinality(c[2]) > 1

(* Only the constraints of primary keys may have several columns. *)
LEMMA CompositeIsPrimary ==
  ASSUME CompositeKey
  PROVE  \E m \in Owners : m.decorator \in Primary /\ Cardinality(PrimaryKey(TableName(m))) > 1
<1>1. PICK c \in RealSchema.constraints : Cardinality(c[2]) > 1
  BY DEF CompositeKey
<1>2. PICK m \in Owners : \/ m.decorator \in Primary /\ c[2] = PrimaryKey(TableName(m))
                          \/ c[2] = {RealColumn(m)}
  BY RealParts
<1>3. CASE m.decorator \in Primary /\ c[2] = PrimaryKey(TableName(m))
  BY <1>1, <1>3
<1>4. CASE c[2] = {RealColumn(m)}
  <2>1. Cardinality(c[2]) = 1
    BY <1>4, FS_Singleton
  <2> QED
    BY <1>1, <2>1
<1> QED
  BY <1>2, <1>3, <1>4

(* A verdict that is still there is that of the source as it is now. *)
SchemaInv ==
    schema # "outdated" =>
        schema = IF SchemaProblems(SourceModel, RealSchema) = {} THEN "passed" ELSE "failed"

LEMMA SchemaInvariant == Spec => []SchemaInv
<1>1. Init => SchemaInv
  BY DEF Init, SchemaInv
<1>2. ASSUME SchemaInv, [Next]_vars
      PROVE  SchemaInv'
  <2>1. schema' = "outdated" \/ UNCHANGED <<source, schema>> \/ CheckSchema
    BY <1>2 DEF Next, NewSkeleton, ForceSkeleton, WriteSkeleton, CheckSkeleton, RunLedger,
                ChangeSource, ChangeTarget, Change, Waive, Outdated, vars, disk, results
  <2>2. UNCHANGED source => /\ SourceModel' = SourceModel
                            /\ RealSchema' = RealSchema
    BY DEF SourceModel, RealSchema
  <2>3. CASE UNCHANGED <<source, schema>>
    BY <1>2, <2>2, <2>3 DEF SchemaInv
  <2>4. CASE CheckSchema
    BY <2>2, <2>4 DEF SchemaInv, CheckSchema, disk
  <2> QED
    BY <2>1, <2>3, <2>4 DEF SchemaInv
<1> QED
  BY <1>1, <1>2, PTL DEF Spec

(* The schema check tells the truth about every source app with one member to a
   column: it passes exactly when the columns read from the code are those of the
   database, with the same nullability, and no primary key has several columns
   (schema_check.py: "We never quietly trust the static side"). *)
THEOREM SchemaChecksAreExact == Spec => []SchemaCheckIsExact
<1>1. TargetInv /\ SchemaInv => SchemaCheckIsExact
  <2> SUFFICES ASSUME TargetInv, SchemaInv, schema # "outdated", OneMemberPerColumn
               PROVE  schema = "passed" <=> SameColumns /\ ~ CompositeKey
    BY DEF SchemaCheckIsExact, SameColumns, CompositeKey, Read, OneMemberPerColumn, Owners
  <2>0. source \in Apps
    BY DEF TargetInv
  <2>1. schema = "passed" <=> SchemaProblems(SourceModel, RealSchema) = {}
    BY DEF SchemaInv
  <2>2. CASE {n.key : n \in Read} # DOMAIN RealSchema.columns
    BY <2>0, <2>1, <2>2, ProblemParts DEF SameColumns
  <2>3. CASE {n.key : n \in Read} = DOMAIN RealSchema.columns
    <3> DEFINE OneKey(m) == m.decorator \in Primary => PrimaryKey(TableName(m)) = {RealColumn(m)}
    <3>1. ASSUME NEW m \in Readable
          PROVE  /\ ReadOf(m).attributes.nullable = RealSchema.columns[ReadOf(m).key]
                 /\ (\A name \in {"nullable", "unique", "primary_key"} :
                        ReadOf(m).attributes[name] = Facts(RealSchema, ReadOf(m).key)[name])
                    <=> OneKey(m)
      <4>1. ReadOf(m).key = RealColumn(m)
        BY ReadAttributes
      <4>2. /\ ReadOf(m).attributes.nullable = Facts(RealSchema, ReadOf(m).key).nullable
            /\ ReadOf(m).attributes.unique = Facts(RealSchema, ReadOf(m).key).unique
            /\ (ReadOf(m).attributes.primary_key = Facts(RealSchema, ReadOf(m).key).primary_key)
                  <=> OneKey(m)
        BY <2>0, <4>1, OwnColumnAgrees
      <4>3. Facts(RealSchema, ReadOf(m).key).nullable = RealSchema.columns[ReadOf(m).key]
        BY DEF Facts
      <4> QED
        BY <4>2, <4>3
    <3>2. SameColumns
      BY <2>3, <3>1, ReadColumns DEF SameColumns
    <3>3. SchemaProblems(SourceModel, RealSchema) = {} <=> \A m \in Readable : OneKey(m)
      BY <2>0, <2>3, <3>1, ReadColumns, ProblemParts
    <3>4. (\A m \in Readable : OneKey(m)) => ~ CompositeKey
      <4>0. Owners # {} => Readable # {}
        <5>1. \A m \in Owners : RealColumn(m) \in DOMAIN RealSchema.columns
          BY RealParts
        <5>2. DOMAIN RealSchema.columns # {} => Read # {}
          BY <2>3
        <5> QED
          BY <5>1, <5>2, ReadColumns
      <4>1. \A m \in Owners : m.decorator \in Primary => m \in Readable
        BY <4>0 DEF Owners, Readable, Columns
      <4>2. \A m : Cardinality({RealColumn(m)}) = 1
        BY FS_Singleton
      <4> QED
        BY <4>1, <4>2, CompositeIsPrimary
    <3>5. ASSUME NEW m \in Readable, ~ OneKey(m)
          PROVE  CompositeKey
      <4>1. /\ m \in Owners /\ m.decorator \in Primary
            /\ RealColumn(m) \in PrimaryKey(TableName(m))
            /\ PrimaryKey(TableName(m)) # {RealColumn(m)}
        BY <3>5, ReadAttributes DEF PrimaryKey
      <4>2. IsFiniteSet(PrimaryKey(TableName(m)))
        <5> DEFINE mine == {other \in Owners : /\ TableName(other) = TableName(m)
                                               /\ other.decorator \in Primary}
                   f == [other \in mine |-> RealColumn(other)]
        <5>1. IsFiniteSet(mine)
          BY <2>0, TranslationAssumption, FS_Subset DEF Owners
        <5>2. PrimaryKey(TableName(m)) = {f[other] : other \in mine}
          BY DEF PrimaryKey
        <5> HIDE DEF f, mine
        <5> QED
          BY <5>1, <5>2, ImageIsFinite
      <4>3. Cardinality(PrimaryKey(TableName(m))) > 1
        <5> DEFINE keys == PrimaryKey(TableName(m))
                   rest == keys \ {RealColumn(m)}
        <5>1. IsFiniteSet(rest) /\ Cardinality(rest) = Cardinality(keys) - 1
          BY <4>1, <4>2, FS_RemoveElement
        <5>2. rest # {}
          BY <4>1
        <5>3. Cardinality(rest) \in Nat /\ Cardinality(rest) # 0 /\ Cardinality(keys) \in Nat
          BY <4>2, <5>1, <5>2, FS_EmptySet, FS_CardinalityType
        <5> HIDE DEF keys, rest
        <5>4. Cardinality(keys) > 1
          BY <5>1, <5>3
        <5> QED
          BY <5>4 DEF keys
      <4>4. <<"PRIMARY KEY", PrimaryKey(TableName(m))>> \in RealSchema.constraints
        BY <4>1, RealParts
      <4> QED
        BY <4>3, <4>4 DEF CompositeKey
    <3> QED
      BY <2>1, <3>2, <3>3, <3>4, <3>5
  <2> QED
    BY <2>2, <2>3
<1> QED
  BY <1>1, TranslationInvariant, SchemaInvariant, PTL

-----------------------------------------------------------------------------
(* A ledger that is complete tells the truth about the files as they are now: for
   every source app, every concept of a framework that is among its dependencies
   is in the target with the same attributes, or its key was waived, or it shares
   its key with another one. *)
THEOREM CompleteLedgersCover == Spec => []CompleteLedgerCovers
<1>1. TargetInv /\ LedgerInv => CompleteLedgerCovers
  <2> SUFFICES ASSUME TargetInv, LedgerInv, ledger # {}, Complete(ledger),
                      NEW n \in Declares, n.key \notin waivers, Framework(n) \in source.packages,
                      ~ \E twin \in SourceModel : twin # n /\ twin.kind = n.kind /\ twin.key = n.key
               PROVE  \E t \in TargetConcepts(target) :
                         /\ t.kind = n.kind /\ t.key = n.key
                         /\ \A a \in Compared[n.kind] : t.attributes[a] = n.attributes[a]
    BY DEF CompleteLedgerCovers
  <2>0. n \in SourceModel
    <3>1. n \in NestJs(source) => n.kind \notin {"table", "column"}
      <4>1. \A h : NestRoute(h).kind = "route"
        BY DEF NestRoute, Concept
      <4>2. \A r, f : NestInput(r, f).kind = "input_field"
        BY DEF NestInput, Concept
      <4>3. \A k, d, a : Concept("error", k, d, a).kind = "error"
        BY DEF Concept
      <4> QED
        BY <4>1, <4>2, <4>3, NestJsParts
    <3>2. n \in TypeOrm(source) => n.kind \in {"table", "column"}
      BY DEF TypeOrm, TypeOrmColumn, TypeOrmRelation, Concept
    <3> QED
      BY <3>1, <3>2 DEF Declares, Framework, SourceModel, SourceConcepts
  <2> DEFINE mine == Group(SourceModel, n.kind, n.key)
             theirs == Group(TargetConcepts(target), n.kind, n.key)
             row == Row(n.kind, n.key, SourceModel, TargetConcepts(target), waivers)
  <2>1. row \in ledger
    <3> DEFINE id == <<n.kind, n.key>>
    <3>1. id \in {<<m.kind, m.key>> : m \in SourceModel}
      BY <2>0
    <3>2. row = Row(id[1], id[2], SourceModel, TargetConcepts(target), waivers)
      OBVIOUS
    <3> HIDE DEF id, row
    <3> QED
      BY <3>1, <3>2 DEF LedgerInv, LedgerRows
  <2>2. row.status \in {"mapped", "waived"}
    <3> HIDE DEF row
    <3> QED
      BY <2>1 DEF Complete
  <2>3. row.status = Status(mine, theirs)
    <3> HIDE DEF mine, theirs
    <3> QED
      BY DEF Row, mine, theirs
  <2>4. Status(mine, theirs) \in {"missing", "mapped", "mismatch"}
    BY DEF Status
  <2> HIDE DEF row, mine, theirs
  <2>5. Status(mine, theirs) = "mapped"
    BY <2>2, <2>3, <2>4
  <2>6. /\ theirs # {}
        /\ \A a \in Compared[First(mine).kind] :
              First(mine).attributes[a] = First(theirs).attributes[a]
    BY <2>5 DEF Status
  <2>7. mine = {n}
    BY <2>0 DEF mine, Group
  <2>8. First(mine) = n
    <3>1. Located(n)
      BY <2>0, SourceIsLocated DEF TargetInv, SourceModel
    <3>2. First(mine) \in mine
      BY <2>7, <3>1, FirstIsOne
    <3> QED
      BY <2>7, <3>2
  <2>9. First(theirs) \in theirs
    <3>1. \A t \in theirs : Located(t)
      BY TargetIsLocated DEF theirs, Group, TargetInv
    <3> QED
      BY <2>6, <3>1, FirstIsOne
  <2>10. /\ First(theirs) \in TargetConcepts(target)
         /\ First(theirs).kind = n.kind /\ First(theirs).key = n.key
    BY <2>9 DEF theirs, Group
  <2> QED
    BY <2>6, <2>8, <2>10
<1> QED
  BY <1>1, TranslationInvariant, PTL

-----------------------------------------------------------------------------
(* Order of places. *)

(* A part of a finite set that lacks a member is smaller. *)
LEMMA PartIsSmaller ==
  ASSUME NEW S, IsFiniteSet(S), NEW T \in SUBSET S, NEW x \in S, x \notin T
  PROVE  /\ IsFiniteSet(T)
         /\ Cardinality(T) \in Nat /\ Cardinality(S) \in Nat
         /\ Cardinality(T) < Cardinality(S)
<1>1. /\ IsFiniteSet(T) /\ Cardinality(T) <= Cardinality(S)
      /\ (Cardinality(S) = Cardinality(T) => S = T)
  BY FS_Subset
<1>2. Cardinality(T) \in Nat /\ Cardinality(S) \in Nat
  BY <1>1, FS_CardinalityType
<1>3. S # T
  OBVIOUS
<1> QED
  BY <1>1, <1>2, <1>3

(* The order of places is a strict one, and total but for things at one place. *)
LEMMA PlacesAreOrdered ==
  /\ \A a, b, c : Located(a) /\ Located(b) /\ Located(c) /\ Before(a, b) /\ Before(b, c) => Before(a, c)
  /\ \A a : Located(a) => ~ Before(a, a)
  /\ \A a, b : Located(a) /\ Located(b) /\ ~ Before(a, b) /\ ~ Before(b, a)
                  => a.file = b.file /\ a.line = b.line
  BY DEF Before, Located

(* What comes earlier has a smaller part of a finite set before it, and a
   larger one behind it. *)
LEMMA FewerBefore ==
  ASSUME NEW S, IsFiniteSet(S), \A n \in S : Located(n),
         NEW a \in S, NEW b \in S, Before(a, b)
  PROVE  /\ Cardinality({n \in S : Before(n, a)}) < Cardinality({n \in S : Before(n, b)})
         /\ Cardinality({n \in S : Before(b, n)}) < Cardinality({n \in S : Before(a, n)})
<1> DEFINE Earlier(x) == {n \in S : Before(n, x)}
           Later(x) == {n \in S : Before(x, n)}
<1>1. Earlier(a) \subseteq Earlier(b) /\ a \in Earlier(b) /\ a \notin Earlier(a)
  BY PlacesAreOrdered
<1>2. Later(b) \subseteq Later(a) /\ b \in Later(a) /\ b \notin Later(b)
  BY PlacesAreOrdered
<1>3. IsFiniteSet(Earlier(b)) /\ IsFiniteSet(Later(a))
  BY FS_Subset
<1> HIDE DEF Earlier, Later
<1>4. Cardinality(Earlier(a)) < Cardinality(Earlier(b))
  BY <1>1, <1>3, PartIsSmaller
<1>5. Cardinality(Later(b)) < Cardinality(Later(a))
  BY <1>2, <1>3, PartIsSmaller
<1> QED
  BY <1>4, <1>5 DEF Earlier, Later

(* Of finitely many things that have places there is a last one. *)
LEMMA LatestIsOne ==
  ASSUME NEW S, S # {}, IsFiniteSet(S), \A n \in S : Located(n)
  PROVE  Latest(S) \in S /\ \A other \in S : ~ Before(Latest(S), other)
<1> DEFINE R == OpToRel(<, Nat)
           Later(x) == {n \in S : Before(x, n)}
           Sizes == {Cardinality(Later(x)) : x \in S}
<1>1. \A x \in S : Cardinality(Later(x)) \in Nat
  BY FS_Subset, FS_CardinalityType
<1>2. Sizes \subseteq Nat /\ Sizes # {}
  <2> HIDE DEF Later
  <2> QED
    BY <1>1
<1>3. PICK size \in Sizes : \A other \in Sizes : ~ (<<other, size>> \in R)
  <2> HIDE DEF R, Sizes
  <2>1. IsWellFoundedOn(R, Nat)
    BY NatLessThanWellFounded DEF R
  <2> QED
    BY <1>2, <2>1, WFMin, Zenon
<1>4. PICK x \in S : size = Cardinality(Later(x))
  <2> HIDE DEF Later
  <2> QED
    BY DEF Sizes
<1>5. ASSUME NEW other \in S, Before(x, other)
      PROVE  FALSE
  <2>1. Cardinality(Later(other)) < Cardinality(Later(x))
    BY <1>5, FewerBefore
  <2>2. Cardinality(Later(other)) \in Sizes
    OBVIOUS
  <2> HIDE DEF Sizes, Later
  <2>3. \A m \in Nat, n \in Nat : m < n => <<m, n>> \in R
    BY DEF OpToRel
  <2>4. <<Cardinality(Later(other)), size>> \in R
    <3> HIDE DEF R
    <3> QED
      BY <1>1, <1>4, <2>1, <2>3
  <2> HIDE DEF R
  <2> QED
    BY <1>3, <2>2, <2>4
<1> QED
  BY <1>5 DEF Latest

-----------------------------------------------------------------------------
(* Routes and the handlers that are rendered from them. *)

Routes(app) == OfKind(SourceConcepts(app), "route")

Rendered(app, targets, n) ==
    LET file == TargetOf(targets, n.file, RoutesFile)
    IN  Handler(RoutesOf(SourceConcepts(app), targets, file), n, file,
                SourceConcepts(app), GuardFiles(app), targets)

(* The routes of a source app. *)
LEMMA RoutesAre ==
  ASSUME NEW app
  PROVE  /\ "nestjs" \in app.packages => \A h \in ToSet(app.handlers) :
               h.method \in HttpMethods => NestRoute(h) \in Routes(app)
         /\ \A n \in Routes(app) :
               /\ "nestjs" \in app.packages
               /\ \E h \in ToSet(app.handlers) : h.method \in HttpMethods /\ n = NestRoute(h)
<1>1. ASSUME "nestjs" \in app.packages, NEW h \in ToSet(app.handlers), h.method \in HttpMethods
      PROVE  NestRoute(h) \in Routes(app)
  <2>1. NestRoute(h) \in NestJs(app)
    BY <1>1 DEF NestJs
  <2>2. NestRoute(h).kind = "route"
    BY DEF NestRoute, Concept
  <2> QED
    BY <1>1, <2>1, <2>2 DEF Routes, OfKind, SourceConcepts
<1>2. ASSUME NEW n \in Routes(app)
      PROVE  /\ "nestjs" \in app.packages
             /\ \E h \in ToSet(app.handlers) : h.method \in HttpMethods /\ n = NestRoute(h)
  <2>1. n.kind = "route" /\ (("nestjs" \in app.packages /\ n \in NestJs(app)) \/ n \in TypeOrm(app))
    BY DEF Routes, OfKind, SourceConcepts
  <2>2. n \notin TypeOrm(app)
    BY <2>1 DEF TypeOrm, TypeOrmColumn, TypeOrmRelation, Concept
  <2>3. \A r, f : NestInput(r, f).kind # "route"
    BY DEF NestInput, Concept
  <2>4. \A k, d, a : Concept("error", k, d, a).kind # "route"
    BY DEF Concept
  <2> QED
    BY <2>1, <2>2, <2>3, <2>4, NestJsParts
<1> QED
  BY <1>1, <1>2

(* What a handler says of its route. *)
LEMMA RouteParts ==
  ASSUME NEW h
  PROVE  /\ NestRoute(h).kind = "route"
         /\ NestRoute(h).key = RouteKey(h.method, FullPath(h))
         /\ NestRoute(h).file = h.file /\ NestRoute(h).line = h.line
         /\ NestRoute(h).attributes.name = h.name
         /\ NestRoute(h).attributes.method = h.method
         /\ NestRoute(h).attributes.path = DisplayPath(FullPath(h))
         /\ NestRoute(h).attributes.auth = Guarded(h)
         /\ NestRoute(h).attributes.body = h.body
<1> DEFINE a == [name   |-> h.name,
                 method |-> h.method,
                 path   |-> DisplayPath(FullPath(h)),
                 status |-> IF h.code # None THEN h.code
                            ELSE IF h.method = "post" THEN "201" ELSE "200",
                 auth   |-> Guarded(h),
                 body   |-> h.body]
<1>1. NestRoute(h) = Concept("route", RouteKey(h.method, FullPath(h)), h, a)
  BY DEF NestRoute, FullPath
<1> HIDE DEF a
<1>2. /\ NestRoute(h).kind = "route"
      /\ NestRoute(h).key = RouteKey(h.method, FullPath(h))
      /\ NestRoute(h).file = h.file /\ NestRoute(h).line = h.line
      /\ NestRoute(h).attributes = a
  BY <1>1 DEF Concept
<1>3. /\ a.name = h.name /\ a.method = h.method /\ a.path = DisplayPath(FullPath(h))
      /\ a.auth = Guarded(h) /\ a.body = h.body
  BY DEF a
<1> QED
  BY <1>2, <1>3

(* Two routes are not at the same place. *)
LEMMA RoutesAreApart ==
  ASSUME NEW app \in Apps, NEW n \in Routes(app), NEW m \in Routes(app), n # m
  PROVE  Before(n, m) \/ Before(m, n)
<1>1. PICK h \in ToSet(app.handlers) : n = NestRoute(h)
  BY RoutesAre
<1>2. PICK g \in ToSet(app.handlers) : m = NestRoute(g)
  BY RoutesAre
<1>3. h # g
  BY <1>1, <1>2
<1>4. <<h.file, h.line>> # <<g.file, g.line>>
  <2>1. PICK i \in DOMAIN app.handlers : h = app.handlers[i]
    BY DEF ToSet
  <2>2. PICK j \in DOMAIN app.handlers : g = app.handlers[j]
    BY DEF ToSet
  <2>3. i # j
    BY <1>3, <2>1, <2>2
  <2> QED
    BY <2>1, <2>2, <2>3, TranslationAssumption
<1>5. ~ (n.file = m.file /\ n.line = m.line)
  BY <1>1, <1>2, <1>4, RouteParts
<1>6. Located(n) /\ Located(m)
  BY SourceIsLocated DEF Routes, OfKind
<1> QED
  BY <1>5, <1>6, PlacesAreOrdered

(* What is rendered from a route. *)
LEMMA RenderedParts ==
  ASSUME NEW app, NEW targets, NEW n
  PROVE  LET h == Rendered(app, targets, n)
             file == TargetOf(targets, n.file, RoutesFile)
             routes == RoutesOf(SourceConcepts(app), targets, file)
         IN  /\ h.file = file /\ h.line = Place(routes, n)
             /\ h.name = UniqueName(routes, n)
             /\ h.method = n.attributes.method /\ h.path = n.attributes.path
             /\ h.depends = Depends(n)
  BY DEF Rendered, Handler

(* The handlers of a skeleton. *)
LEMMA HandlersAre ==
  ASSUME NEW app, NEW targets
  PROVE  /\ \A n \in Routes(app) :
               Rendered(app, targets, n) \in RenderRoutes(SourceConcepts(app), GuardFiles(app), targets)
         /\ \A h \in RenderRoutes(SourceConcepts(app), GuardFiles(app), targets) :
               \E n \in Routes(app) : h = Rendered(app, targets, n)
<1> DEFINE concepts == SourceConcepts(app)
           routes(file) == RoutesOf(concepts, targets, file)
           guards == GuardFiles(app)
           Of(file) == {Handler(routes(file), n, file, concepts, guards, targets) : n \in routes(file)}
           files == RouterFiles(concepts, targets)
<1>1. RenderRoutes(concepts, guards, targets) = UNION {Of(file) : file \in files}
  BY DEF RenderRoutes
<1>2. ASSUME NEW n \in Routes(app)
      PROVE  Rendered(app, targets, n) \in RenderRoutes(concepts, guards, targets)
  <2> DEFINE file == TargetOf(targets, n.file, RoutesFile)
  <2>1. file \in files
    BY DEF RouterFiles, Routes
  <2>2. n \in routes(file)
    BY DEF RoutesOf, Routes
  <2>3. Rendered(app, targets, n) \in Of(file)
    <3> HIDE DEF routes
    <3> QED
      BY <2>2 DEF Rendered, routes
  <2> HIDE DEF Of, file, files
  <2> QED
    BY <1>1, <2>1, <2>3
<1>3. ASSUME NEW h \in RenderRoutes(concepts, guards, targets)
      PROVE  \E n \in Routes(app) : h = Rendered(app, targets, n)
  <2>1. PICK file \in files : h \in Of(file)
    <3> HIDE DEF Of, files
    <3> QED
      BY <1>1, <1>3
  <2>2. PICK n \in routes(file) : h = Handler(routes(file), n, file, concepts, guards, targets)
    <3> HIDE DEF routes
    <3> QED
      BY <2>1
  <2>3. n \in Routes(app) /\ TargetOf(targets, n.file, RoutesFile) = file
    BY DEF RoutesOf, Routes
  <2>4. h = Rendered(app, targets, n)
    BY <2>2, <2>3 DEF Rendered
  <2> QED
    BY <2>3, <2>4
<1> QED
  BY <1>2, <1>3

(* They are in the files of the routers, and have places there. *)
LEMMA RenderedIsPlaced ==
  ASSUME NEW app \in Apps, NEW targets \in Targets, NEW n \in Routes(app)
  PROVE  /\ Located(Rendered(app, targets, n))
         /\ Rendered(app, targets, n).file \in RouterFiles(SourceConcepts(app), targets)
<1> DEFINE file == TargetOf(targets, n.file, RoutesFile)
           routes == RoutesOf(SourceConcepts(app), targets, file)
           earlier == {other \in routes : Before(other, n)}
<1>1. file \in Nat
  BY TargetsAreFiles, FilesAssumption
<1>2. Place(routes, n) \in Nat
  <2>1. earlier \subseteq Routes(app)
    BY DEF RoutesOf, Routes
  <2>2. IsFiniteSet(earlier)
    BY <2>1, RoutesAreFinite, FS_Subset DEF Routes
  <2>3. Cardinality(earlier) \in Nat
    BY <2>2, FS_CardinalityType
  <2> QED
    BY <2>3 DEF Place
<1>3. file \in RouterFiles(SourceConcepts(app), targets)
  BY DEF RouterFiles, Routes
<1>4. Rendered(app, targets, n).file = file /\ Rendered(app, targets, n).line = Place(routes, n)
  BY RenderedParts
<1> QED
  BY <1>1, <1>2, <1>3, <1>4 DEF Located

(* Two handlers are not at the same place. *)
LEMMA HandlersAreApart ==
  ASSUME NEW app \in Apps, NEW targets \in Targets,
         NEW n \in Routes(app), NEW m \in Routes(app),
         ~ Before(Rendered(app, targets, n), Rendered(app, targets, m)),
         ~ Before(Rendered(app, targets, m), Rendered(app, targets, n))
  PROVE  n = m
<1> DEFINE file == TargetOf(targets, n.file, RoutesFile)
           routes == RoutesOf(SourceConcepts(app), targets, file)
           Size(x) == Cardinality({other \in routes : Before(other, x)})
<1>1. Located(Rendered(app, targets, n)) /\ Located(Rendered(app, targets, m))
  BY RenderedIsPlaced
<1>2. /\ Rendered(app, targets, n).file = Rendered(app, targets, m).file
      /\ Rendered(app, targets, n).line = Rendered(app, targets, m).line
  BY <1>1, PlacesAreOrdered
<1>3. TargetOf(targets, m.file, RoutesFile) = file
  BY <1>2, RenderedParts
<1>4. Place(routes, n) = Place(routes, m)
  BY <1>2, <1>3, RenderedParts
<1>5. n \in routes /\ m \in routes /\ routes \subseteq Routes(app)
  BY <1>3 DEF RoutesOf, Routes
<1>6. IsFiniteSet(routes)
  BY <1>5, RoutesAreFinite, FS_Subset DEF Routes
<1>7. \A x \in routes : Located(x)
  BY <1>5, SourceIsLocated DEF Routes, OfKind
<1>8. \A x \in routes : Size(x) \in Nat
  BY <1>6, FS_Subset, FS_CardinalityType
<1>9. Size(n) = Size(m)
  <2>1. 1 + Size(n) = 1 + Size(m)
    BY <1>4 DEF Place
  <2> HIDE DEF Size, routes
  <2> QED
    BY <1>5, <1>8, <2>1
<1>10. \A a \in routes : \A b \in routes : Before(a, b) => Size(a) < Size(b)
  <2> HIDE DEF routes
  <2> QED
    BY <1>6, <1>7, FewerBefore
<1> HIDE DEF Size, routes, file
<1>11. ~ Before(n, m) /\ ~ Before(m, n)
  BY <1>5, <1>8, <1>9, <1>10
<1> QED
  BY <1>11, RoutesAreApart

-----------------------------------------------------------------------------
(* Paths and the requests of the boot check. *)

(* No path of a source app has one of these for a segment: the check puts "1"
   for every parameter, and a key has "{}" there. *)
PlainSegments ==
    \A app \in Apps : \A h \in ToSet(app.handlers) : \A i \in DOMAIN FullPath(h) :
        FullPath(h)[i] \notin {"1", "{}"}

(* A function on 1 .. n is a sequence of length n. *)
LEMMA ListIs ==
  ASSUME NEW n \in Nat, NEW f, f = [i \in 1 .. n |-> f[i]]
  PROVE  f \in Seq({f[i] : i \in 1 .. n}) /\ Len(f) = n /\ DOMAIN f = 1 .. n
<1> DEFINE S == {f[i] : i \in 1 .. n}
<1>1. f \in [1 .. n -> S]
  OBVIOUS
<1> HIDE DEF S
<1>2. f \in Seq(S) /\ Len(f) = n
  BY <1>1
<1> QED
  BY <1>1, <1>2 DEF S

(* What the three forms of a path have at a segment of it. *)
LEMMA PathForms ==
  ASSUME NEW app \in Apps, NEW h \in ToSet(app.handlers)
  PROVE  LET p == FullPath(h)
             d == DisplayPath(p)
             c == CanonicalPath(p)
             probe == Probe(NestRoute(h))
             n == Len(p)
         IN  /\ n \in Nat /\ DOMAIN p = 1 .. n
             /\ Len(d) = n /\ DOMAIN d = 1 .. n
             /\ Len(c) = n /\ DOMAIN c = 1 .. n /\ c \in Seq({c[i] : i \in 1 .. n})
             /\ Len(probe) = n /\ DOMAIN probe = 1 .. n /\ probe = [i \in 1 .. n |-> probe[i]]
             /\ \A i \in 1 .. n :
                   /\ d[i] \in Parameters <=> p[i] \in Parameters
                   /\ p[i] \notin Parameters => d[i] = p[i]
                   /\ c[i] = IF p[i] \in Parameters THEN "{}" ELSE p[i]
                   /\ probe[i] = IF p[i] \in Parameters THEN "1" ELSE p[i]
<1> DEFINE p == FullPath(h)
           d == DisplayPath(p)
           c == CanonicalPath(p)
           probe == Probe(NestRoute(h))
           n == Len(p)
<1>1. n \in Nat /\ DOMAIN p = 1 .. n
  <2> DEFINE S == ToSet(h.prefix) \cup ToSet(h.path)
  <2>1. h.prefix \in Seq(ToSet(h.prefix)) /\ h.path \in Seq(ToSet(h.path))
    BY TranslationAssumption
  <2>2. h.prefix \in Seq(S) /\ h.path \in Seq(S)
    BY <2>1
  <2> HIDE DEF S
  <2>3. p \in Seq(S)
    BY <2>2 DEF FullPath
  <2> HIDE DEF p
  <2> QED
    BY <2>3
<1>2. d = [i \in 1 .. n |-> IF p[i] \in DOMAIN Display THEN Display[p[i]] ELSE p[i]]
  BY <1>1 DEF DisplayPath
<1>3. c = [i \in 1 .. n |-> IF p[i] \in Parameters THEN "{}" ELSE p[i]]
  BY <1>1 DEF CanonicalPath
<1>4. NestRoute(h).attributes.path = d
  BY RouteParts
<1> HIDE DEF d, c
<1>5. DOMAIN d = 1 .. n
  BY <1>2
<1>6. probe = [i \in 1 .. n |-> IF d[i] \in Parameters THEN "1" ELSE d[i]]
  BY <1>4, <1>5 DEF Probe
<1> HIDE DEF p, probe, n
<1>7. DOMAIN Display = {":id", ":name"} /\ Display[":id"] = "{id}" /\ Display[":name"] = "{name}"
  BY DEF Display
<1>8. Parameters = {":id", ":name", "{id}", "{name}"}
  BY <1>7 DEF Parameters
<1>9. ASSUME NEW i \in 1 .. n
      PROVE  /\ d[i] \in Parameters <=> p[i] \in Parameters
             /\ p[i] \notin Parameters => d[i] = p[i]
             /\ c[i] = IF p[i] \in Parameters THEN "{}" ELSE p[i]
             /\ probe[i] = IF p[i] \in Parameters THEN "1" ELSE p[i]
  <2>1. d[i] = IF p[i] \in DOMAIN Display THEN Display[p[i]] ELSE p[i]
    BY <1>2
  <2>2. /\ d[i] \in Parameters <=> p[i] \in Parameters
        /\ p[i] \notin Parameters => d[i] = p[i]
    BY <1>7, <1>8, <2>1
  <2>3. probe[i] = IF d[i] \in Parameters THEN "1" ELSE d[i]
    BY <1>6
  <2>4. c[i] = IF p[i] \in Parameters THEN "{}" ELSE p[i]
    BY <1>3
  <2> QED
    BY <2>2, <2>3, <2>4
<1>10. Len(d) = n /\ DOMAIN d = 1 .. n
  <2>1. d = [i \in 1 .. n |-> d[i]]
    BY <1>2
  <2> QED
    BY <1>1, <2>1, ListIs
<1>11. Len(c) = n /\ DOMAIN c = 1 .. n /\ c \in Seq({c[i] : i \in 1 .. n})
  <2>1. c = [i \in 1 .. n |-> c[i]]
    BY <1>3
  <2> QED
    BY <1>1, <2>1, ListIs
<1>12. Len(probe) = n /\ DOMAIN probe = 1 .. n /\ probe = [i \in 1 .. n |-> probe[i]]
  <2>1. probe = [i \in 1 .. n |-> probe[i]]
    BY <1>6
  <2> QED
    BY <1>1, <2>1, ListIs
<1> QED
  BY <1>1, <1>9, <1>10, <1>11, <1>12 DEF p, d, c, probe, n

(* Routes with one key are probed by one request. *)
LEMMA SameKeySameProbe ==
  ASSUME PlainSegments, NEW app \in Apps,
         NEW h \in ToSet(app.handlers), NEW g \in ToSet(app.handlers),
         NestRoute(h).key = NestRoute(g).key
  PROVE  h.method = g.method /\ Probe(NestRoute(h)) = Probe(NestRoute(g))
<1> DEFINE p == FullPath(h)
           q == FullPath(g)
           c == CanonicalPath(p)
           e == CanonicalPath(q)
           n == Len(p)
           C == {c[i] : i \in 1 .. n}
           E == {e[i] : i \in 1 .. Len(q)}
           S == C \cup E \cup {h.method, g.method}
<1>1. <<h.method>> \o c = <<g.method>> \o e
  BY RouteParts DEF RouteKey
<1>2. /\ n \in Nat /\ Len(c) = n /\ c \in Seq({c[i] : i \in 1 .. n})
      /\ \A i \in 1 .. n : c[i] = IF p[i] \in Parameters THEN "{}" ELSE p[i]
  BY PathForms
<1>3. /\ Len(q) \in Nat /\ Len(e) = Len(q) /\ e \in Seq({e[i] : i \in 1 .. Len(q)})
      /\ \A i \in 1 .. Len(q) : e[i] = IF q[i] \in Parameters THEN "{}" ELSE q[i]
  BY PathForms
<1>4. \A i \in 1 .. n : p[i] \notin {"1", "{}"}
  BY PathForms DEF PlainSegments
<1>5. \A i \in 1 .. Len(q) : q[i] \notin {"1", "{}"}
  BY PathForms DEF PlainSegments
<1>6. c \in Seq(S) /\ e \in Seq(S) /\ h.method \in S /\ g.method \in S
  <2>1. c \in Seq(C) /\ e \in Seq(E)
    BY <1>2, <1>3
  <2> HIDE DEF C, E, c, e
  <2> QED
    BY <2>1
<1> HIDE DEF S, c, e, p, q, n
<1>7. h.method = g.method /\ n = Len(q) /\ \A i \in 1 .. n : c[i] = e[i]
  <2> DEFINE x == <<h.method>> \o c
             y == <<g.method>> \o e
  <2>1. \A m \in S : \A s \in Seq(S) :
           /\ (<<m>> \o s)[1] = m /\ Len(<<m>> \o s) = 1 + Len(s)
           /\ \A i \in 1 .. Len(s) : (<<m>> \o s)[1 + i] = s[i]
    OBVIOUS
  <2>2. /\ x[1] = h.method /\ Len(x) = 1 + Len(c)
        /\ \A i \in 1 .. Len(c) : x[1 + i] = c[i]
    BY <1>6, <2>1
  <2>3. /\ y[1] = g.method /\ Len(y) = 1 + Len(e)
        /\ \A i \in 1 .. Len(e) : y[1 + i] = e[i]
    BY <1>6, <2>1
  <2>4. x = y
    BY <1>1
  <2> HIDE DEF x, y
  <2>5. Len(c) = n /\ Len(e) = Len(q) /\ n \in Nat /\ Len(q) \in Nat
    BY <1>2, <1>3
  <2>6. n = Len(q)
    <3>1. 1 + Len(c) = 1 + Len(e)
      BY <2>2, <2>3, <2>4
    <3> QED
      BY <2>5, <3>1
  <2>7. \A i \in 1 .. n : c[i] = e[i]
    BY <2>2, <2>3, <2>4, <2>5, <2>6
  <2> QED
    BY <2>2, <2>3, <2>4, <2>6, <2>7
<1>8. \A i \in 1 .. n : (p[i] \in Parameters <=> q[i] \in Parameters)
                        /\ (p[i] \notin Parameters => p[i] = q[i])
  BY <1>2, <1>3, <1>4, <1>5, <1>7
<1>9. Probe(NestRoute(h)) = [i \in 1 .. n |-> Probe(NestRoute(h))[i]]
      /\ \A i \in 1 .. n : Probe(NestRoute(h))[i] = IF p[i] \in Parameters THEN "1" ELSE p[i]
  BY PathForms DEF n, p
<1>10. Probe(NestRoute(g)) = [i \in 1 .. Len(q) |-> Probe(NestRoute(g))[i]]
       /\ \A i \in 1 .. Len(q) : Probe(NestRoute(g))[i] = IF q[i] \in Parameters THEN "1" ELSE q[i]
  BY PathForms DEF q
<1>11. \A i \in 1 .. n : Probe(NestRoute(h))[i] = Probe(NestRoute(g))[i]
  BY <1>7, <1>8, <1>9, <1>10
<1>12. Probe(NestRoute(h)) = Probe(NestRoute(g))
  BY <1>7, <1>9, <1>10, <1>11
<1> QED
  BY <1>7, <1>12

(* The probe of a route is answered by what the route answers too, and who
   answers the probe answers every request that the route answers. *)
LEMMA ProbeStandsForAll ==
  ASSUME PlainSegments, NEW app \in Apps,
         NEW h \in ToSet(app.handlers), NEW g \in ToSet(app.handlers)
  PROVE  /\ Matches(DisplayPath(FullPath(h)), Probe(NestRoute(h)))
         /\ \A path : /\ DOMAIN path = 1 .. Len(path)
                      /\ Matches(DisplayPath(FullPath(h)), path)
                      /\ Matches(DisplayPath(FullPath(g)), Probe(NestRoute(h)))
                      => Matches(DisplayPath(FullPath(g)), path)
<1> DEFINE p == FullPath(h)
           q == FullPath(g)
           d == DisplayPath(p)
           e == DisplayPath(q)
           probe == Probe(NestRoute(h))
<1>1. /\ Len(p) \in Nat /\ DOMAIN p = 1 .. Len(p)
      /\ Len(d) = Len(p) /\ Len(probe) = Len(p) /\ DOMAIN probe = 1 .. Len(p)
      /\ \A i \in 1 .. Len(p) : /\ d[i] \in Parameters <=> p[i] \in Parameters
                                /\ p[i] \notin Parameters => d[i] = p[i]
                                /\ probe[i] = IF p[i] \in Parameters THEN "1" ELSE p[i]
  BY PathForms
<1>2. /\ Len(q) \in Nat /\ DOMAIN q = 1 .. Len(q) /\ Len(e) = Len(q)
      /\ \A i \in 1 .. Len(q) : /\ e[i] \in Parameters <=> q[i] \in Parameters
                                /\ q[i] \notin Parameters => e[i] = q[i]
  BY PathForms
<1>3. \A i \in 1 .. Len(q) : q[i] # "1"
  BY <1>2 DEF PlainSegments
<1> HIDE DEF d, e, probe, p, q
<1>4. Matches(d, probe)
  BY <1>1 DEF Matches
<1>5. ASSUME NEW path, DOMAIN path = 1 .. Len(path), Matches(d, path), Matches(e, probe)
      PROVE  Matches(e, path)
  <2>1. Len(path) = Len(p) /\ \A i \in DOMAIN path : d[i] \in Parameters \/ d[i] = path[i]
    BY <1>1, <1>5 DEF Matches
  <2>2. Len(q) = Len(p) /\ \A i \in 1 .. Len(p) : e[i] \in Parameters \/ e[i] = probe[i]
    BY <1>1, <1>2, <1>5 DEF Matches
  <2>3. ASSUME NEW i \in DOMAIN path, e[i] \notin Parameters
        PROVE  e[i] = path[i]
    <3>1. i \in 1 .. Len(p)
      BY <1>5, <2>1
    <3>2. e[i] = probe[i] /\ e[i] = q[i]
      BY <1>2, <2>2, <2>3, <3>1
    <3>3. p[i] \notin Parameters
      BY <1>1, <1>3, <2>2, <3>1, <3>2
    <3> QED
      BY <1>1, <2>1, <3>1, <3>2, <3>3
  <2> QED
    BY <1>2, <2>1, <2>2, <2>3 DEF Matches
<1> QED
  BY <1>4, <1>5 DEF d, e, p, q, probe

-----------------------------------------------------------------------------
(* Skeletons that nobody has changed, and the boot check. *)

New == Generate(SourceModel, GuardFiles(source), source.packages, plan)

(* What was written and not changed since is what is generated now. *)
WrittenInv ==
    /\ written \in {"no", "new", "over"}
    /\ written = "new" => target = New
    /\ written = "over" => \E old : target = Overwritten(old, New, plan)

(* A boot check that is still there is that of the files as they are now. *)
BootInv ==
    boot # "outdated" =>
        /\ written # "no"
        /\ boot = IF BootCheck(target, Installed, SourceModel) THEN "passed" ELSE "failed"

LEMMA SkeletonInvariant == Spec => [](WrittenInv /\ BootInv)
<1>1. Init => WrittenInv /\ BootInv
  BY DEF Init, WrittenInv, BootInv
<1>2. WrittenInv /\ BootInv /\ [Next]_vars => WrittenInv' /\ BootInv'
  <2> SUFFICES ASSUME WrittenInv, BootInv, [Next]_vars
               PROVE  WrittenInv' /\ BootInv'
    OBVIOUS
  <2>1. CASE NewSkeleton \/ ForceSkeleton
    <3>1. /\ UNCHANGED <<source, plan>> /\ boot' = "outdated"
          /\ target' = IF target = EmptyFolder THEN New ELSE Overwritten(target, New, plan)
          /\ written' = IF target = EmptyFolder THEN "new" ELSE "over"
      BY <2>1 DEF NewSkeleton, ForceSkeleton, WriteSkeleton, Outdated, New
    <3>2. New' = New
      BY <3>1 DEF New, SourceModel
    <3> QED
      BY <3>1, <3>2 DEF WrittenInv, BootInv
  <2>2. CASE CheckSkeleton
    <3>1. /\ UNCHANGED <<source, plan, target, written>> /\ written # "no"
          /\ boot' = IF BootCheck(target, Installed, SourceModel) THEN "passed" ELSE "failed"
          /\ lock' = Installed
      BY <2>2 DEF CheckSkeleton
    <3>2. New' = New /\ SourceModel' = SourceModel
      BY <3>1 DEF New, SourceModel
    <3>3. Installed' = Installed
      BY <3>1 DEF Installed
    <3> QED
      BY <3>1, <3>2, <3>3 DEF WrittenInv, BootInv
  <2>3. CASE UNCHANGED <<source, plan, target, lock, written, boot>>
    <3>1. New' = New /\ SourceModel' = SourceModel /\ Installed' = Installed
      BY <2>3 DEF New, SourceModel, Installed
    <3> QED
      BY <2>3, <3>1 DEF WrittenInv, BootInv
  <2>4. CASE written' = "no" /\ boot' = "outdated"
    BY <2>4 DEF WrittenInv, BootInv
  <2>5. \/ NewSkeleton \/ ForceSkeleton \/ CheckSkeleton
        \/ UNCHANGED <<source, plan, target, lock, written, boot>>
        \/ written' = "no" /\ boot' = "outdated"
    BY DEF Next, RunLedger, CheckSchema, ChangeSource, ChangeTarget, Waive, Change, Outdated,
           vars, disk, results
  <2> QED
    BY <2>1, <2>2, <2>3, <2>4, <2>5
<1> QED
  BY <1>1, <1>2, PTL DEF Spec

(* What the skeleton consists of. *)
LEMMA NewParts ==
  /\ New.handlers = RenderRoutes(SourceModel, GuardFiles(source), plan)
  /\ New.main = RouterFiles(SourceModel, plan)
  /\ New.expected = {<<n.attributes.method, n.attributes.path>> : n \in OfKind(SourceModel, "route")}
  BY DEF New, Generate

(* Over what was there before, it is still there: only declarations in other
   files are left of the older one. *)
LEMMA WrittenParts ==
  ASSUME WrittenInv, written # "no"
  PROVE  /\ target.main = New.main /\ target.models = New.models /\ target.expected = New.expected
         /\ New.handlers \subseteq target.handlers
         /\ \A d \in target.handlers : d \in New.handlers \/ d.file \notin Files(New)
         /\ New.tables \subseteq target.tables
         /\ \A d \in target.tables : d \in New.tables \/ d.file \notin Files(New)
         /\ New.columns \subseteq target.columns
         /\ \A d \in target.columns : d \in New.columns \/ d.file \notin Files(New)
<1>1. CASE written = "new"
  BY <1>1 DEF WrittenInv
<1>2. CASE written = "over"
  <2>1. PICK old : target = Overwritten(old, New, plan)
    BY <1>2 DEF WrittenInv
  <2>2. {"handlers", "main", "models", "expected", "tables", "columns"} \subseteq DOMAIN New
    BY DEF New, Generate
  <2> DEFINE rewritten == Files(New) \cup {MainFile} \cup {plan[f] : f \in DOMAIN plan}
  <2>3. /\ target.main = New.main /\ target.models = New.models /\ target.expected = New.expected
        /\ target.handlers = New.handlers \cup {d \in old.handlers : d.file \notin rewritten}
        /\ target.tables = New.tables \cup {d \in old.tables : d.file \notin rewritten}
        /\ target.columns = New.columns \cup {d \in old.columns : d.file \notin rewritten}
    <3> HIDE DEF New
    <3> QED
      BY <2>1, <2>2 DEF Overwritten
  <2>4. \A file : file \notin rewritten => file \notin Files(New)
    OBVIOUS
  <2> HIDE DEF rewritten
  <2> QED
    BY <2>3, <2>4
<1> QED
  BY <1>1, <1>2 DEF WrittenInv

(* So its routers have the handlers that were generated, and no others. *)
LEMMA ServedIs ==
  ASSUME TargetInv, WrittenInv, written # "no"
  PROVE  /\ Served(target) = RenderRoutes(SourceModel, GuardFiles(source), plan)
         /\ target.expected = New.expected
<1> DEFINE handlers == RenderRoutes(SourceModel, GuardFiles(source), plan)
           files == RouterFiles(SourceModel, plan)
<1>1. \A h \in handlers : h.file \in files
  BY HandlersAre, RenderedIsPlaced DEF TargetInv, SourceModel
<1>2. files \subseteq {h.file : h \in handlers}
  <2> SUFFICES ASSUME NEW file \in files
               PROVE  \E h \in handlers : h.file = file
    OBVIOUS
  <2>1. PICK n \in Routes(source) : file = TargetOf(plan, n.file, RoutesFile)
    BY DEF RouterFiles, Routes, SourceModel
  <2>2. Rendered(source, plan, n) \in handlers /\ Rendered(source, plan, n).file = file
    BY <2>1, HandlersAre, RenderedParts DEF SourceModel
  <2> QED
    BY <2>2
<1>3. New.handlers = handlers /\ New.main = files
  BY NewParts
<1>4. files \subseteq Files(New)
  BY <1>2, <1>3 DEF Files
<1> HIDE DEF handlers, files
<1>5. /\ target.main = files /\ target.expected = New.expected
      /\ handlers \subseteq target.handlers
      /\ \A d \in target.handlers : d \in handlers \/ d.file \notin files
  BY <1>3, <1>4, WrittenParts
<1>6. Served(target) = handlers
  BY <1>1, <1>5 DEF Served
<1> QED
  BY <1>5, <1>6 DEF handlers

Exact(method, path) ==
    {h \in Served(target) : Matches(h.path, path) /\ h.method = method}

(* A request that some handler of the source gets is answered by the first of
   the handlers that are rendered from those who may get it. *)
LEMMA FirstAnswers ==
  ASSUME TargetInv, WrittenInv, written # "no", "nestjs" \in source.packages,
         NEW path, NEW h \in Handlers, h.method \in HttpMethods,
         Matches(DisplayPath(FullPath(h)), path)
  PROVE  \E g \in Handlers :
            /\ g.method = h.method /\ Matches(DisplayPath(FullPath(g)), path)
            /\ NestRoute(g) \in Routes(source)
            /\ LET first == Rendered(source, plan, NestRoute(g))
               IN  /\ first \in Exact(h.method, path)
                   /\ \A other \in Exact(h.method, path) : ~ Before(other, first)
                   /\ Answer(target, h.method, path) = HandlerAnswer(target, first)
<1> DEFINE exact == Exact(h.method, path)
<1>1. /\ source \in Apps /\ plan \in Targets
      /\ Served(target) = RenderRoutes(SourceConcepts(source), GuardFiles(source), plan)
  BY ServedIs DEF TargetInv, SourceModel
<1>2. NestRoute(h) \in Routes(source)
  BY RoutesAre DEF Handlers
<1>3. Rendered(source, plan, NestRoute(h)) \in exact
  <2>1. Rendered(source, plan, NestRoute(h)) \in Served(target)
    BY <1>1, <1>2, HandlersAre
  <2>2. /\ Rendered(source, plan, NestRoute(h)).method = h.method
        /\ Rendered(source, plan, NestRoute(h)).path = DisplayPath(FullPath(h))
    BY RenderedParts, RouteParts
  <2> QED
    BY <2>1, <2>2 DEF Exact
<1>4. \A r \in exact : Located(r)
  BY <1>1, HandlersAre, RenderedIsPlaced DEF Exact
<1>5. First(exact) \in exact /\ \A other \in exact : ~ Before(other, First(exact))
  <2> HIDE DEF exact
  <2> QED
    BY <1>3, <1>4, FirstIsOne
<1>6. PICK n \in Routes(source) : First(exact) = Rendered(source, plan, n)
  BY <1>1, <1>5, HandlersAre DEF Exact
<1>7. PICK g \in Handlers : n = NestRoute(g)
  BY RoutesAre DEF Handlers
<1>8. g.method = h.method /\ Matches(DisplayPath(FullPath(g)), path)
  <2>1. First(exact).method = h.method /\ Matches(First(exact).path, path)
    BY <1>5 DEF Exact
  <2>2. First(exact).method = g.method /\ First(exact).path = DisplayPath(FullPath(g))
    BY <1>6, <1>7, RenderedParts, RouteParts
  <2> QED
    BY <2>1, <2>2
<1>9. Answer(target, h.method, path) = HandlerAnswer(target, First(exact))
  <2> DEFINE fitting == {r \in Served(target) : Matches(r.path, path)}
             same == {r \in fitting : r.method = h.method}
  <2>1. same = exact
    BY DEF Exact
  <2>2. Answer(target, h.method, path) =
           IF same # {} THEN HandlerAnswer(target, First(same))
           ELSE IF fitting # {} THEN "405" ELSE "404"
    BY DEF Answer
  <2> HIDE DEF same, exact, fitting
  <2> QED
    BY <1>3, <2>1, <2>2
<1> HIDE DEF exact
<1> QED
  BY <1>5, <1>6, <1>7, <1>8, <1>9 DEF exact

(* The boot check asks for a route by the request of the last route with its
   key, which is the same one. *)
LEMMA ProbedByOwnRequest ==
  ASSUME PlainSegments, source \in Apps, NEW h \in Handlers, NestRoute(h) \in Routes(source)
  PROVE  ProbeAnswer(target, SourceModel, NestRoute(h).key)
            = Answer(target, h.method, Probe(NestRoute(h)))
<1> DEFINE key == NestRoute(h).key
           same == {n \in Routes(source) : n.key = key}
           last == Latest(same)
<1>1. same # {} /\ IsFiniteSet(same) /\ \A n \in same : Located(n)
  <2>1. same \subseteq Routes(source)
    OBVIOUS
  <2>2. IsFiniteSet(same)
    BY <2>1, RoutesAreFinite, FS_Subset DEF Routes
  <2>3. \A n \in same : Located(n)
    BY SourceIsLocated DEF Routes, OfKind
  <2> QED
    BY <2>2, <2>3
<1>2. last \in same
  <2> HIDE DEF same
  <2> QED
    BY <1>1, LatestIsOne
<1>3. PICK g \in Handlers : last = NestRoute(g)
  BY <1>2, RoutesAre DEF Handlers
<1>4. g.method = h.method /\ Probe(NestRoute(g)) = Probe(NestRoute(h))
  BY <1>2, <1>3, SameKeySameProbe DEF Handlers
<1>5. ProbeAnswer(target, SourceModel, key) = Answer(target, last.attributes.method, Probe(last))
  BY DEF ProbeAnswer, LastOf, Routes, SourceModel
<1>6. last.attributes.method = g.method
  BY <1>3, RouteParts
<1> HIDE DEF last, key
<1> QED
  BY <1>3, <1>4, <1>5, <1>6 DEF key

(* A guarded request that passed the check by the probe of its own route. *)
LEMMA GuardedAnswers401 ==
  ASSUME PlainSegments, TargetInv, WrittenInv, BootInv, boot = "passed",
         "nestjs" \in source.packages, NEW path \in Asked, NEW h \in Handlers, h.method \in RouteMethods,
         Matches(DisplayPath(FullPath(h)), path),
         \A g \in Handlers : g.method = h.method /\ Matches(DisplayPath(FullPath(g)), path)
                                => Guarded(g)
  PROVE  Answer(target, h.method, path) = "401"
<1> DEFINE Of(g) == Rendered(source, plan, NestRoute(g))
<1>1. source \in Apps /\ plan \in Targets /\ written # "no" /\ h.method \in HttpMethods
      /\ BootCheck(target, Installed, SourceModel)
  BY DEF TargetInv, BootInv, RouteMethods
<1>2. DOMAIN path = 1 .. Len(path)
  <2>1. PICK g \in Handlers : path = Probe(NestRoute(g))
    BY DEF Asked
  <2> QED
    BY <1>1, <2>1, PathForms DEF Handlers
<1>3. PICK g \in Handlers :
         /\ g.method = h.method /\ Matches(DisplayPath(FullPath(g)), path)
         /\ NestRoute(g) \in Routes(source)
         /\ Of(g) \in Exact(h.method, path)
         /\ \A other \in Exact(h.method, path) : ~ Before(other, Of(g))
         /\ Answer(target, h.method, path) = HandlerAnswer(target, Of(g))
  BY <1>1, FirstAnswers
<1> DEFINE probe == Probe(NestRoute(g))
<1>4. Answer(target, h.method, probe) = "401"
  <2>1. RouteOk(NestRoute(g), ProbeAnswer(target, SourceModel, NestRoute(g).key))
    BY <1>1, <1>3 DEF BootCheck, Routes, SourceModel
  <2>2. NestRoute(g).attributes.auth
    BY <1>3, RouteParts
  <2>3. ProbeAnswer(target, SourceModel, NestRoute(g).key) = "401"
    BY <2>1, <2>2 DEF RouteOk
  <2> QED
    BY <1>1, <1>3, <2>3, ProbedByOwnRequest
<1>5. Matches(DisplayPath(FullPath(g)), probe)
  BY <1>1, ProbeStandsForAll DEF Handlers
<1>6. PICK k \in Handlers :
         /\ k.method = h.method /\ Matches(DisplayPath(FullPath(k)), probe)
         /\ NestRoute(k) \in Routes(source)
         /\ Of(k) \in Exact(h.method, probe)
         /\ \A other \in Exact(h.method, probe) : ~ Before(other, Of(k))
         /\ Answer(target, h.method, probe) = HandlerAnswer(target, Of(k))
  <2> HIDE DEF probe
  <2>1. g.method \in HttpMethods
    BY <1>1, <1>3
  <2>2. \E k \in Handlers :
           /\ k.method = g.method /\ Matches(DisplayPath(FullPath(k)), probe)
           /\ NestRoute(k) \in Routes(source)
           /\ Of(k) \in Exact(g.method, probe)
           /\ \A other \in Exact(g.method, probe) : ~ Before(other, Of(k))
           /\ Answer(target, g.method, probe) = HandlerAnswer(target, Of(k))
    BY <1>1, <1>5, <2>1, FirstAnswers
  <2> HIDE DEF Of
  <2> QED
    BY <1>3, <2>2
<1>7. Matches(DisplayPath(FullPath(k)), path)
  BY <1>1, <1>2, <1>3, <1>6, ProbeStandsForAll DEF Handlers
<1>8. /\ Of(g).path = DisplayPath(FullPath(g)) /\ Of(g).method = h.method
      /\ Of(k).path = DisplayPath(FullPath(k)) /\ Of(k).method = h.method
  BY <1>3, <1>6, RenderedParts, RouteParts
<1>9. Of(g) \in Exact(h.method, probe) /\ Of(k) \in Exact(h.method, path)
  <2> HIDE DEF Of, probe
  <2> QED
    BY <1>3, <1>5, <1>6, <1>7, <1>8 DEF Exact
<1>10. ~ Before(Of(g), Of(k)) /\ ~ Before(Of(k), Of(g))
  BY <1>3, <1>6, <1>9
<1>11. NestRoute(g) = NestRoute(k)
  BY <1>1, <1>3, <1>6, <1>10, HandlersAreApart
<1> QED
  BY <1>3, <1>4, <1>6, <1>11

(* "auth is enforced, fails closed" (check.py): once the boot check has passed,
   a request that needs a login whatever handler of the source gets it is
   answered 401 without one, for every app, every layout of its files and
   whatever the skeleton was written over. *)
THEOREM BootCheckFailsClosed == PlainSegments => (Spec => []FailsClosed)
<1> SUFFICES ASSUME PlainSegments
             PROVE  Spec => []FailsClosed
  OBVIOUS
<1>1. TargetInv /\ WrittenInv /\ BootInv => FailsClosed
  <2> SUFFICES ASSUME TargetInv, WrittenInv, BootInv, boot = "passed",
                      "nestjs" \in source.packages, NEW path \in Asked, NEW method \in RouteMethods,
                      AskedFor(method, path) # {}, \A h \in AskedFor(method, path) : Guarded(h)
               PROVE  Answer(target, method, path) = "401"
    BY DEF FailsClosed
  <2>1. \A h : h \in AskedFor(method, path) <=>
           h \in Handlers /\ h.method = method /\ Matches(DisplayPath(FullPath(h)), path)
    BY DEF AskedFor, Handlers, ToSet
  <2>2. PICK h \in Handlers : h.method = method /\ Matches(DisplayPath(FullPath(h)), path)
    BY <2>1
  <2>3. \A g \in Handlers : g.method = h.method /\ Matches(DisplayPath(FullPath(g)), path)
                               => Guarded(g)
    BY <2>1, <2>2
  <2> QED
    BY <2>2, <2>3, GuardedAnswers401
<1> QED
  BY <1>1, TranslationInvariant, SkeletonInvariant, PTL

(* A handler that was generated refuses whoever is not logged in when its route
   needs a login, and otherwise lets everybody in. *)
LEMMA GeneratedAnswers ==
  ASSUME NEW g
  PROVE  HandlerAnswer(target, Rendered(source, plan, NestRoute(g)))
            \in IF Guarded(g) THEN {"401"} ELSE OpenRouteOk
<1> DEFINE handler == Rendered(source, plan, NestRoute(g))
<1>1. handler.depends = Depends(NestRoute(g))
  BY RenderedParts
<1>2. NestRoute(g).attributes.auth = Guarded(g)
  BY RouteParts
<1>3. handler.depends = IF Guarded(g) THEN {Login} ELSE {}
  BY <1>1, <1>2 DEF Depends
<1> HIDE DEF handler
<1>4. CASE Guarded(g)
  BY <1>3, <1>4 DEF HandlerAnswer, handler
<1>5. CASE ~ Guarded(g)
  BY <1>3, <1>5 DEF HandlerAnswer, OpenRouteOk, handler
<1> QED
  BY <1>4, <1>5

(* What a skeleton answers to the probe of a route is right, where no other
   handler contends for it. *)
LEMMA ProbesAreRight ==
  ASSUME PlainSegments, TargetInv, WrittenInv, written # "no", ~ Contested,
         NEW n \in Routes(source)
  PROVE  RouteOk(n, ProbeAnswer(target, SourceModel, n.key))
<1>1. source \in Apps
  BY DEF TargetInv
<1>2. PICK h \in Handlers : h.method \in HttpMethods /\ n = NestRoute(h) /\ "nestjs" \in source.packages
  BY RoutesAre DEF Handlers
<1>3. Matches(DisplayPath(FullPath(h)), Probe(n))
  BY <1>1, <1>2, ProbeStandsForAll DEF Handlers
<1>4. ProbeAnswer(target, SourceModel, n.key) = Answer(target, h.method, Probe(n))
  BY <1>1, <1>2, ProbedByOwnRequest
<1>5. PICK g \in Handlers :
         /\ g.method = h.method /\ Matches(DisplayPath(FullPath(g)), Probe(n))
         /\ NestRoute(g) \in Routes(source)
         /\ Answer(target, h.method, Probe(n)) = HandlerAnswer(target, Rendered(source, plan, NestRoute(g)))
  BY <1>2, <1>3, FirstAnswers
<1>6. Guarded(g) <=> Guarded(h)
  BY <1>2, <1>5 DEF Contested, Guarded
<1>7. ProbeAnswer(target, SourceModel, n.key) \in IF Guarded(h) THEN {"401"} ELSE OpenRouteOk
  BY <1>4, <1>5, <1>6, GeneratedAnswers
<1>8. n.attributes.auth = Guarded(h)
  BY <1>2, RouteParts
<1> QED
  BY <1>7, <1>8 DEF RouteOk

-----------------------------------------------------------------------------
(* Words and limits of a field. *)

(* The rules, one by one, and the types. *)
LEMMA TypeRulesAre ==
  /\ \A i : i \in DOMAIN TypeRules <=> i \in {1, 2, 3, 4, 5, 6, 7, 8, 9}
  /\ TypeRules[1] = <<"email", "EmailStr">> /\ TypeRules[2] = <<"numeric_string", "str">>
  /\ TypeRules[3] = <<"decimal", "Decimal">> /\ TypeRules[4] = <<"int", "int">>
  /\ TypeRules[5] = <<"number", "float">> /\ TypeRules[6] = <<"boolean", "bool">>
  /\ TypeRules[7] = <<"uuid", "UUID">> /\ TypeRules[8] = <<"datetime", "datetime">>
  /\ TypeRules[9] = <<"string", "str">>
  BY DEF TypeRules

LEMMA TypesAre ==
  /\ DOMAIN Types = {"str", "EmailStr", "int", "float", "Decimal", "bool", "UUID", "datetime"}
  /\ Types["str"] = {"string"} /\ Types["EmailStr"] = {"email", "string"}
  /\ Types["int"] = {"int"} /\ Types["float"] = {"number"} /\ Types["Decimal"] = {"decimal"}
  /\ Types["bool"] = {"boolean"} /\ Types["UUID"] = {"string", "uuid"}
  /\ Types["datetime"] = {"datetime", "string"}
  BY DEF Types

(* The least of some numbers is what Min says. *)
LEMMA MinIs ==
  ASSUME NEW S, NEW i \in S, \A j \in S : j \in Nat /\ i <= j
  PROVE  Min(S) = i
<1>1. Min(S) \in S /\ \A j \in S : Min(S) <= j
  BY DEF Min
<1> HIDE DEF Min
<1> QED
  BY <1>1

(* A rule fits if its word is among the constraints. *)
Fits(C, i) == <<TypeRules[i][1], "">> \in C

(* The first rule that fits decides about the type. *)
LEMMA PythonTypeFits ==
  ASSUME NEW C, NEW i \in DOMAIN TypeRules, Fits(C, i),
         \A j \in DOMAIN TypeRules : Fits(C, j) => i <= j
  PROVE  PythonType(C) = TypeRules[i][2]
<1> DEFINE fitting == {j \in DOMAIN TypeRules : <<TypeRules[j][1], "">> \in C}
<1>1. PythonType(C) = IF fitting = {} THEN "str" ELSE TypeRules[Min(fitting)][2]
  BY DEF PythonType
<1>2. \A j : j \in fitting <=> j \in DOMAIN TypeRules /\ Fits(C, j)
  BY DEF Fits
<1>3. \A j \in DOMAIN TypeRules : j \in Nat
  BY TypeRulesAre
<1> HIDE DEF fitting
<1>4. i \in fitting /\ \A j \in fitting : j \in Nat /\ i <= j
  BY <1>2, <1>3
<1>5. Min(fitting) = i
  BY <1>4, MinIs
<1> QED
  BY <1>1, <1>4, <1>5

(* The type that is rendered for the words of one type is that type. *)
LEMMA PythonTypeIs ==
  ASSUME NEW C, NEW W, \A w : <<w, "">> \in C <=> w \in W
  PROVE  /\ W = {"numeric_string"} => PythonType(C) = "str"
         /\ \A type \in DOMAIN Types : W = Types[type] => PythonType(C) = type
<1>1. \A i : Fits(C, i) <=> TypeRules[i][1] \in W
  BY DEF Fits
<1>2. /\ Fits(C, 1) <=> "email" \in W
      /\ Fits(C, 2) <=> "numeric_string" \in W
      /\ Fits(C, 3) <=> "decimal" \in W
      /\ Fits(C, 4) <=> "int" \in W
      /\ Fits(C, 5) <=> "number" \in W
      /\ Fits(C, 6) <=> "boolean" \in W
      /\ Fits(C, 7) <=> "uuid" \in W
      /\ Fits(C, 8) <=> "datetime" \in W
      /\ Fits(C, 9) <=> "string" \in W
  BY ONLY <1>1, TypeRulesAre
<1>3. \A i \in {1, 2, 3, 4, 5, 6, 7, 8, 9} :
         (Fits(C, i) /\ \A j \in {1, 2, 3, 4, 5, 6, 7, 8, 9} : Fits(C, j) => i <= j)
         => PythonType(C) = TypeRules[i][2]
  BY ONLY TypeRulesAre, PythonTypeFits
<1>4. CASE W = {"numeric_string"}
  <2>1. \A type \in DOMAIN Types : W # Types[type]
    BY <1>4, TypesAre
  <2>2. \A j \in {1, 2, 3, 4, 5, 6, 7, 8, 9} : Fits(C, j) => 2 <= j
    BY ONLY <1>2, <1>4
  <2>3. Fits(C, 2)
    BY <1>2, <1>4
  <2>4. PythonType(C) = TypeRules[2][2]
    BY ONLY <1>3, <2>2, <2>3
  <2> QED
    BY ONLY <2>1, <2>4, TypeRulesAre
<1>5. ASSUME NEW type \in DOMAIN Types, W = Types[type]
      PROVE  PythonType(C) = type
  <2>1. CASE type = "str"
    <3>1. Fits(C, 9) /\ \A j \in {1, 2, 3, 4, 5, 6, 7, 8, 9} : Fits(C, j) => 9 <= j
      BY ONLY <1>2, <1>5, <2>1, TypesAre
    <3> QED
      BY ONLY <1>3, <2>1, <3>1, TypeRulesAre
  <2>2. CASE type = "EmailStr"
    <3>1. Fits(C, 1) /\ \A j \in {1, 2, 3, 4, 5, 6, 7, 8, 9} : Fits(C, j) => 1 <= j
      BY ONLY <1>2, <1>5, <2>2, TypesAre
    <3> QED
      BY ONLY <1>3, <2>2, <3>1, TypeRulesAre
  <2>3. CASE type = "int"
    <3>1. Fits(C, 4) /\ \A j \in {1, 2, 3, 4, 5, 6, 7, 8, 9} : Fits(C, j) => 4 <= j
      BY ONLY <1>2, <1>5, <2>3, TypesAre
    <3> QED
      BY ONLY <1>3, <2>3, <3>1, TypeRulesAre
  <2>4. CASE type = "float"
    <3>1. Fits(C, 5) /\ \A j \in {1, 2, 3, 4, 5, 6, 7, 8, 9} : Fits(C, j) => 5 <= j
      BY ONLY <1>2, <1>5, <2>4, TypesAre
    <3> QED
      BY ONLY <1>3, <2>4, <3>1, TypeRulesAre
  <2>5. CASE type = "Decimal"
    <3>1. Fits(C, 3) /\ \A j \in {1, 2, 3, 4, 5, 6, 7, 8, 9} : Fits(C, j) => 3 <= j
      BY ONLY <1>2, <1>5, <2>5, TypesAre
    <3> QED
      BY ONLY <1>3, <2>5, <3>1, TypeRulesAre
  <2>6. CASE type = "bool"
    <3>1. Fits(C, 6) /\ \A j \in {1, 2, 3, 4, 5, 6, 7, 8, 9} : Fits(C, j) => 6 <= j
      BY ONLY <1>2, <1>5, <2>6, TypesAre
    <3> QED
      BY ONLY <1>3, <2>6, <3>1, TypeRulesAre
  <2>7. CASE type = "UUID"
    <3>1. Fits(C, 7) /\ \A j \in {1, 2, 3, 4, 5, 6, 7, 8, 9} : Fits(C, j) => 7 <= j
      BY ONLY <1>2, <1>5, <2>7, TypesAre
    <3> QED
      BY ONLY <1>3, <2>7, <3>1, TypeRulesAre
  <2>8. CASE type = "datetime"
    <3>1. Fits(C, 8) /\ \A j \in {1, 2, 3, 4, 5, 6, 7, 8, 9} : Fits(C, j) => 8 <= j
      BY ONLY <1>2, <1>5, <2>8, TypesAre
    <3> QED
      BY ONLY <1>3, <2>8, <3>1, TypeRulesAre
  <2> QED
    BY <2>1, <2>2, <2>3, <2>4, <2>5, <2>6, <2>7, <2>8, TypesAre
<1> QED
  BY ONLY <1>4, <1>5

(* A constraint is a word or a limit. *)
Constraint(c) == c = <<c[1], c[2]>> /\ (c[2] = "" \/ c[1] \in DOMAIN Limits)

LEMMA ConstraintsAre ==
  ASSUME NEW d
  PROVE  \A c \in ConstraintsOf(d) : Constraint(c)
<1>1. \A words : \A c \in Plain(words) : Constraint(c)
  <2> SUFFICES ASSUME NEW words, NEW c \in Plain(words)
               PROVE  Constraint(c)
    OBVIOUS
  <2>1. PICK w \in words : c = <<w, "">>
    BY DEF Plain
  <2> QED
    BY <2>1 DEF Constraint
<1>2. \A name \in DOMAIN ValueValidators : \A value : Constraint(<<ValueValidators[name], value>>)
  <2>1. \A name \in DOMAIN ValueValidators : ValueValidators[name] \in DOMAIN Limits
    BY DEF ValueValidators, Limits
  <2>2. \A word \in DOMAIN Limits : \A value : Constraint(<<word, value>>)
    BY DEF Constraint
  <2> QED
    BY <2>1, <2>2
<1> QED
  BY <1>1, <1>2 DEF ConstraintsOf

(* Limits are read back as they are rendered. *)
LEMMA LimitsReturn ==
  /\ DOMAIN Limits = {"min_length", "max_length", "min", "max"}
  /\ \A word \in DOMAIN Limits : FieldLimits[Limits[word]] = word
  BY DEF Limits, FieldLimits

(* What FastAPI code is read back to have the constraints that it was rendered
   from, if they are the words of one type and limits. *)
LEMMA ConstraintsReturn ==
  ASSUME NEW node, NEW targets, Describable(node),
         \A c \in node.attributes.constraints : Constraint(c)
  PROVE  FieldConstraints(Field(node, targets)) = node.attributes.constraints
<1> DEFINE C == node.attributes.constraints
           words == {c \in C : c[2] = ""}
           rest == {c \in C : c[2] # ""}
           field == Field(node, targets)
           back == {<<FieldLimits[l[1]], l[2]>> : l \in field.limits}
           typed == Plain(Types[field.type])
<1>1. /\ field.type = PythonType(C)
      /\ field.limits = {<<Limits[c[1]], c[2]>> : c \in {c \in C : c[1] \in DOMAIN Limits}}
      /\ field.pattern = (<<"numeric_string", "">> \in C)
  BY DEF Field
<1>2. FieldConstraints(field) =
         (IF field.pattern THEN (typed \ Plain({"string"})) \cup Plain({"numeric_string"}) ELSE typed)
         \cup back
  BY DEF FieldConstraints
<1> HIDE DEF field
<1>3. PICK W : words = Plain(W) /\ (W = {"numeric_string"} \/ \E type \in DOMAIN Types : W = Types[type])
  BY DEF Describable
<1>4. \A w : <<w, "">> \in C <=> w \in W
  <2>1. \A w : <<w, "">> \in C <=> <<w, "">> \in words
    OBVIOUS
  <2>2. \A w : <<w, "">> \in Plain(W) <=> w \in W
    BY DEF Plain
  <2> QED
    BY <1>3, <2>1, <2>2
<1>5. W \cap DOMAIN Limits = {}
  <2>1. \A type \in DOMAIN Types : Types[type] \cap DOMAIN Limits = {}
    BY LimitsReturn DEF Types
  <2> QED
    BY <1>3, <2>1, LimitsReturn
<1>6. {c \in C : c[1] \in DOMAIN Limits} = rest
  <2>1. \A c \in C : c[2] = "" => c[1] \in W
    BY <1>4 DEF Constraint
  <2>2. \A c \in C : c[2] # "" => c[1] \in DOMAIN Limits
    BY DEF Constraint
  <2> QED
    BY <1>5, <2>1, <2>2
<1>7. back = rest
  <2>1. field.limits = {<<Limits[c[1]], c[2]>> : c \in rest}
    BY <1>1, <1>6
  <2>2. \A c \in rest : c = <<FieldLimits[Limits[c[1]]], c[2]>>
    BY <1>6, LimitsReturn DEF Constraint
  <2>3. ASSUME NEW x \in back
        PROVE  x \in rest
    <3>1. PICK l \in field.limits : x = <<FieldLimits[l[1]], l[2]>>
      OBVIOUS
    <3>2. PICK c \in rest : l = <<Limits[c[1]], c[2]>>
      BY <2>1
    <3>3. l[1] = Limits[c[1]] /\ l[2] = c[2]
      BY <3>2
    <3> HIDE DEF rest
    <3> QED
      BY <2>2, <3>1, <3>3
  <2>4. ASSUME NEW c \in rest
        PROVE  c \in back
    <3> DEFINE l == <<Limits[c[1]], c[2]>>
    <3>1. l \in field.limits /\ l[1] = Limits[c[1]] /\ l[2] = c[2]
      BY <2>1
    <3> HIDE DEF l, rest
    <3>2. <<FieldLimits[l[1]], l[2]>> = c
      BY <2>2, <3>1
    <3> QED
      BY <3>1, <3>2
  <2> HIDE DEF back, rest
  <2> QED
    BY <2>3, <2>4
<1>8. (IF field.pattern THEN (typed \ Plain({"string"})) \cup Plain({"numeric_string"}) ELSE typed) = words
  <2>1. CASE W = {"numeric_string"}
    <3>1. field.pattern
      BY <1>1, <1>4, <2>1
    <3>2. field.type = "str"
      BY <1>1, <1>4, <2>1, PythonTypeIs
    <3>3. typed = Plain({"string"})
      BY <3>2 DEF Types
    <3> HIDE DEF typed, words
    <3> QED
      BY <1>3, <2>1, <3>1, <3>3
  <2>2. CASE \E type \in DOMAIN Types : W = Types[type]
    <3>1. PICK type \in DOMAIN Types : W = Types[type]
      BY <2>2
    <3>2. field.type = type
      BY <1>1, <1>4, <3>1, PythonTypeIs
    <3>3. "numeric_string" \notin Types[type]
      BY DEF Types
    <3>4. ~ field.pattern
      BY <1>1, <1>4, <3>1, <3>3
    <3> HIDE DEF words
    <3> QED
      BY <1>3, <3>1, <3>2, <3>4
  <2> QED
    BY <1>3, <2>1, <2>2
<1> HIDE DEF typed, back
<1>9. FieldConstraints(field) = words \cup rest
  BY <1>2, <1>7, <1>8
<1> QED
  BY <1>9 DEF field

-----------------------------------------------------------------------------
(* What the target adapters read, kind by kind. *)

Same(n, t) == \A a \in Compared[n.kind] : n.attributes[a] = t.attributes[a]

LEMMA ComparedIs ==
  /\ Compared["route"] = {"status", "auth"}
  /\ Compared["input_field"] = {"constraints", "required"}
  /\ Compared["table"] = {}
  /\ Compared["column"] = {"nullable", "unique", "primary_key", "references"}
  BY DEF Compared

(* A concept of the target is read by one of the two adapters. *)
LEMMA EitherRead ==
  ASSUME NEW app
  PROVE  /\ TargetConcepts(app) \subseteq FastApi(app) \cup SqlAlchemy(app)
         /\ "fastapi" \in app.requires => FastApi(app) \subseteq TargetConcepts(app)
         /\ "sqlalchemy" \in app.requires => SqlAlchemy(app) \subseteq TargetConcepts(app)
  BY DEF TargetConcepts

LEMMA RoutesRead ==
  ASSUME NEW app
  PROVE  /\ "fastapi" \in app.requires => \A h \in app.handlers : h.method \in RouteMethods =>
               FastApiRoute(app, h) \in TargetConcepts(app) /\ FastApiRoute(app, h).kind = "route"
         /\ \A t \in TargetConcepts(app) : t.kind = "route" =>
               \E h \in app.handlers : h.method \in RouteMethods /\ t = FastApiRoute(app, h)
<1>1. \A h \in app.handlers : h.method \in RouteMethods => FastApiRoute(app, h) \in FastApi(app)
  BY DEF FastApi
<1>2. \A h : FastApiRoute(app, h).kind = "route"
  BY DEF FastApiRoute, Concept
<1>3. \A t \in SqlAlchemy(app) : t.kind # "route"
  BY DEF SqlAlchemy, SqlAlchemyColumn, Concept
<1>4. \A r, f : FastApiInput(r, f).kind # "route"
  BY DEF FastApiInput, Concept
<1>5. \A d, k, a : Concept("error", k, d, a).kind # "route"
  BY DEF Concept
<1>6. ASSUME NEW t \in TargetConcepts(app), t.kind = "route"
      PROVE  \E h \in app.handlers : h.method \in RouteMethods /\ t = FastApiRoute(app, h)
  <2>1. t \in FastApi(app)
    BY <1>3, <1>6, EitherRead
  <2> QED
    BY <1>4, <1>5, <1>6, <2>1, FastApiParts
<1> QED
  BY <1>1, <1>2, <1>6, EitherRead

LEMMA InputsRead ==
  ASSUME NEW app
  PROVE  /\ "fastapi" \in app.requires => \A h \in app.handlers : \A f \in app.fields :
               h.method \in RouteMethods /\ f.class = h.body =>
                  FastApiInput(RouteKey(h.method, h.prefix \o h.path), f) \in TargetConcepts(app)
         /\ \A t \in TargetConcepts(app) : t.kind = "input_field" =>
               \E h \in app.handlers : \E f \in app.fields :
                  /\ h.method \in RouteMethods /\ f.class = h.body
                  /\ t = FastApiInput(RouteKey(h.method, h.prefix \o h.path), f)
<1>1. ASSUME NEW h \in app.handlers, NEW f \in app.fields, h.method \in RouteMethods, f.class = h.body
      PROVE  FastApiInput(RouteKey(h.method, h.prefix \o h.path), f) \in FastApi(app)
  <2> DEFINE handlers == {g \in app.handlers : g.method \in RouteMethods}
             Inputs(g) == {FastApiInput(RouteKey(g.method, g.prefix \o g.path), d) :
                             d \in {d \in app.fields : d.class = g.body}}
  <2>1. UNION {Inputs(g) : g \in handlers} \subseteq FastApi(app)
    BY DEF FastApi
  <2>2. FastApiInput(RouteKey(h.method, h.prefix \o h.path), f) \in Inputs(h)
    BY <1>1
  <2>3. h \in handlers
    BY <1>1
  <2> HIDE DEF Inputs, handlers
  <2> QED
    BY <2>1, <2>2, <2>3
<1>2. \A h : FastApiRoute(app, h).kind # "input_field"
  BY DEF FastApiRoute, Concept
<1>3. \A t \in SqlAlchemy(app) : t.kind # "input_field"
  BY DEF SqlAlchemy, SqlAlchemyColumn, Concept
<1>5. \A d, k, a : Concept("error", k, d, a).kind # "input_field"
  BY DEF Concept
<1>6. ASSUME NEW t \in TargetConcepts(app), t.kind = "input_field"
      PROVE  \E h \in app.handlers : \E f \in app.fields :
                /\ h.method \in RouteMethods /\ f.class = h.body
                /\ t = FastApiInput(RouteKey(h.method, h.prefix \o h.path), f)
  <2>1. t \in FastApi(app)
    BY <1>3, <1>6, EitherRead
  <2> QED
    BY <1>2, <1>5, <1>6, <2>1, FastApiParts
<1> QED
  BY <1>1, <1>6, EitherRead

LEMMA TablesRead ==
  ASSUME NEW app, "sqlalchemy" \in app.requires
  PROVE  \A t \in app.tables : \E c \in TargetConcepts(app) : c.kind = "table" /\ c.key = <<t.table>>
<1> SUFFICES ASSUME NEW t \in app.tables
             PROVE  \E c \in TargetConcepts(app) : c.kind = "table" /\ c.key = <<t.table>>
  OBVIOUS
<1> DEFINE c == Concept("table", <<t.table>>, t, [class |-> t.class])
<1>1. c \in TargetConcepts(app)
  BY EitherRead DEF SqlAlchemy
<1>2. c.kind = "table" /\ c.key = <<t.table>>
  BY DEF Concept
<1> QED
  BY <1>1, <1>2

LEMMA ColumnsRead ==
  ASSUME NEW app
  PROVE  /\ "sqlalchemy" \in app.requires => \A c \in app.columns :
               SqlAlchemyColumn(c) \in TargetConcepts(app) /\ SqlAlchemyColumn(c).kind = "column"
         /\ \A t \in TargetConcepts(app) : t.kind = "column" =>
               \E c \in app.columns : t = SqlAlchemyColumn(c)
<1>1. "sqlalchemy" \in app.requires =>
         \A c \in app.columns : SqlAlchemyColumn(c) \in TargetConcepts(app)
  BY EitherRead DEF SqlAlchemy
<1>2. \A c : SqlAlchemyColumn(c).kind = "column"
  BY DEF SqlAlchemyColumn, Concept
<1>3. \A h : FastApiRoute(app, h).kind # "column"
  BY DEF FastApiRoute, Concept
<1>4. \A r, f : FastApiInput(r, f).kind # "column"
  BY DEF FastApiInput, Concept
<1>5. \A d, k, a : Concept("error", k, d, a).kind # "column" /\ Concept("table", k, d, a).kind # "column"
  BY DEF Concept
<1>6. ASSUME NEW t \in TargetConcepts(app), t.kind = "column"
      PROVE  \E c \in app.columns : t = SqlAlchemyColumn(c)
  <2>1. t \in FastApi(app) \/ t \in SqlAlchemy(app)
    BY EitherRead
  <2>2. t \notin FastApi(app)
    BY <1>3, <1>4, <1>5, <1>6, FastApiParts
  <2> QED
    BY <1>5, <1>6, <2>1, <2>2 DEF SqlAlchemy
<1> QED
  BY <1>1, <1>2, <1>6

-----------------------------------------------------------------------------
(* What the source adapters read, kind by kind. *)

(* A concept of the source is read by one of the two adapters, if the packages
   of its framework are there. *)
LEMMA EitherDeclares ==
  ASSUME NEW app, NEW n \in SourceConcepts(app)
  PROVE  \/ "nestjs" \in app.packages /\ n \in NestJs(app)
         \/ "typeorm" \in app.packages /\ n \in TypeOrm(app)
  BY DEF SourceConcepts

LEMMA InputsAre ==
  ASSUME NEW app
  PROVE  /\ "nestjs" \in app.packages => \A h \in ToSet(app.handlers) : \A f \in DtoFields(app, h.body) :
               h.method \in HttpMethods =>
                  NestInput(NestRoute(h).key, f) \in SourceConcepts(app)
         /\ \A n \in SourceConcepts(app) : n.kind = "input_field" =>
               "nestjs" \in app.packages /\ \E h \in ToSet(app.handlers) : \E f \in DtoFields(app, h.body) :
                  h.method \in HttpMethods /\ n = NestInput(NestRoute(h).key, f)
<1>1. ASSUME NEW h \in ToSet(app.handlers), NEW f \in DtoFields(app, h.body), h.method \in HttpMethods
      PROVE  NestInput(NestRoute(h).key, f) \in NestJs(app)
  <2> DEFINE handlers == {g \in ToSet(app.handlers) : g.method \in HttpMethods}
             Inputs(g) == {NestInput(NestRoute(g).key, d) : d \in DtoFields(app, g.body)}
  <2>1. UNION {Inputs(g) : g \in handlers} \subseteq NestJs(app)
    BY DEF NestJs
  <2>2. NestInput(NestRoute(h).key, f) \in Inputs(h)
    OBVIOUS
  <2>3. h \in handlers
    BY <1>1
  <2> HIDE DEF Inputs, handlers
  <2> QED
    BY <2>1, <2>2, <2>3
<1>2. ASSUME NEW n \in SourceConcepts(app), n.kind = "input_field"
      PROVE  /\ "nestjs" \in app.packages
             /\ \E h \in ToSet(app.handlers) : \E f \in DtoFields(app, h.body) :
                   h.method \in HttpMethods /\ n = NestInput(NestRoute(h).key, f)
  <2>1. n \notin TypeOrm(app)
    BY <1>2 DEF TypeOrm, TypeOrmColumn, TypeOrmRelation, Concept
  <2>2. \A h : NestRoute(h).kind = "route"
    BY RouteParts
  <2>3. \A k, d, a : Concept("error", k, d, a).kind # "input_field"
    BY DEF Concept
  <2> QED
    BY <1>2, <2>1, <2>2, <2>3, NestJsParts, EitherDeclares
<1> QED
  BY <1>1, <1>2 DEF SourceConcepts

(* What a field of a DTO says of itself. *)
LEMMA InputParts ==
  ASSUME NEW r, NEW f
  PROVE  LET n == NestInput(r, f)
         IN  /\ n.kind = "input_field" /\ n.key = r \o <<"body", f.name>>
             /\ n.attributes.class = f.dto /\ n.attributes.name = f.name
             /\ n.attributes.constraints = UNION {ConstraintsOf(d) : d \in f.decorators}
             /\ n.attributes.required \in BOOLEAN
<1> DEFINE a == [class       |-> f.dto,
                 name        |-> f.name,
                 constraints |-> UNION {ConstraintsOf(d) : d \in f.decorators},
                 required    |-> ~ (f.optional \/ <<"IsOptional", "">> \in f.decorators)]
<1>1. NestInput(r, f) = Concept("input_field", r \o <<"body", f.name>>, f, a)
  BY DEF NestInput, InputKey
<1>2. /\ a.class = f.dto /\ a.name = f.name
      /\ a.constraints = UNION {ConstraintsOf(d) : d \in f.decorators}
      /\ a.required \in BOOLEAN
  OBVIOUS
<1> HIDE DEF a
<1> QED
  BY <1>1, <1>2 DEF Concept

(* They do not depend on the route. *)
LEMMA InputAttributes ==
  \A r, s, f : NestInput(r, f).attributes = NestInput(s, f).attributes
  BY DEF NestInput, Concept

LEMMA TablesAre ==
  ASSUME NEW app
  PROVE  /\ "typeorm" \in app.packages => \A m \in app.members : \E t \in SourceConcepts(app) :
               t.kind = "table" /\ t.key = <<TableName(m)>>
         /\ \A t \in SourceConcepts(app) : t.kind = "table" =>
               "typeorm" \in app.packages /\ \E name : t.key = <<name>>
<1> DEFINE Table(m) == Concept("table", <<TableName(m)>>, [file |-> m.file, line |-> 0], [class |-> m.entity])
<1>1. "typeorm" \in app.packages => \A m \in app.members : Table(m) \in SourceConcepts(app)
  BY DEF TypeOrm, SourceConcepts
<1>2. \A m : Table(m).kind = "table" /\ Table(m).key = <<TableName(m)>>
  BY DEF Concept
<1>3. ASSUME NEW t \in SourceConcepts(app), t.kind = "table"
      PROVE  "typeorm" \in app.packages /\ \E name : t.key = <<name>>
  <2>1. \A h : NestRoute(h).kind = "route"
    BY RouteParts
  <2>2. \A k, d, a : Concept("error", k, d, a).kind # "table"
    BY DEF Concept
  <2>3. \A r, f : NestInput(r, f).kind # "table"
    BY DEF NestInput, Concept
  <2>4. t \in TypeOrm(app) /\ "typeorm" \in app.packages
    BY <1>3, <2>1, <2>2, <2>3, NestJsParts, EitherDeclares
  <2>5. \A m : TypeOrmColumn(m).kind # "table" /\ TypeOrmRelation(app, m).kind # "table"
    BY DEF TypeOrmColumn, TypeOrmRelation, Concept
  <2>6. \E m \in app.members : t = Table(m)
    BY <1>3, <2>4, <2>5 DEF TypeOrm
  <2> HIDE DEF Table
  <2> QED
    BY <1>2, <2>4, <2>6
<1> HIDE DEF Table
<1> QED
  BY <1>1, <1>2, <1>3

LEMMA ColumnsAre ==
  ASSUME NEW app
  PROVE  \A n \in SourceConcepts(app) : n.kind = "column" =>
            /\ "typeorm" \in app.packages
            /\ \E m \in app.members : \E name : n.key = <<TableName(m), name>>
            /\ n.attributes.nullable \in BOOLEAN
            /\ n.attributes.nullable => ~ n.attributes.primary_key
<1> SUFFICES ASSUME NEW n \in SourceConcepts(app), n.kind = "column"
             PROVE  /\ "typeorm" \in app.packages
                    /\ \E m \in app.members : \E name : n.key = <<TableName(m), name>>
                    /\ n.attributes.nullable \in BOOLEAN
                    /\ n.attributes.nullable => ~ n.attributes.primary_key
  OBVIOUS
<1>1. \A h : NestRoute(h).kind = "route"
  BY RouteParts
<1>2. \A k, d, a : Concept("error", k, d, a).kind # "column" /\ Concept("table", k, d, a).kind # "column"
  BY DEF Concept
<1>3. \A r, f : NestInput(r, f).kind # "column"
  BY DEF NestInput, Concept
<1>4. n \in TypeOrm(app) /\ "typeorm" \in app.packages
  BY <1>1, <1>2, <1>3, NestJsParts, EitherDeclares
<1>5. \/ \E m \in app.members : n = TypeOrmColumn(m)
      \/ \E m \in app.members : n = TypeOrmRelation(app, m)
  BY <1>2, <1>4 DEF TypeOrm
<1>6. CASE \E m \in app.members : n = TypeOrmColumn(m)
  <2>1. PICK m \in app.members : n = TypeOrmColumn(m)
    BY <1>6
  <2>2. /\ \E name : n.key = <<TableName(m), name>>
        /\ n.attributes.nullable = (m.decorator \notin Primary /\ m.nullable = "true")
        /\ n.attributes.primary_key = (m.decorator \in Primary)
    BY <2>1 DEF TypeOrmColumn, Concept, ColumnKey
  <2> QED
    BY <1>4, <2>2
<1>7. CASE \E m \in app.members : n = TypeOrmRelation(app, m)
  <2>1. PICK m \in app.members : n = TypeOrmRelation(app, m)
    BY <1>7
  <2>2. /\ \E name : n.key = <<TableName(m), name>>
        /\ n.attributes.nullable = (m.nullable # "false")
        /\ n.attributes.primary_key = FALSE
    BY <2>1 DEF TypeOrmRelation, Concept, ColumnKey
  <2> QED
    BY <1>4, <2>2
<1> QED
  BY <1>4, <1>5, <1>6, <1>7

-----------------------------------------------------------------------------
(* What is rendered is read back, kind by kind. *)

(* No other concept has the kind and the key of this one. *)
Alone(n) == \A twin \in SourceModel : twin.kind = n.kind /\ twin.key = n.key => twin = n

Twins(n) == Group(TargetConcepts(New), n.kind, n.key)

ReadBack(n) == Twins(n) # {} /\ \A t \in Twins(n) : Same(n, t)

LEMMA NewContents ==
  /\ New.handlers = RenderRoutes(SourceModel, GuardFiles(source), plan)
  /\ RenderAuth(SourceModel, GuardFiles(source), plan) \subseteq New.raises
  /\ New.fields = {Field(n, plan) : n \in OfKind(SourceModel, "input_field")}
  /\ New.tables = {[file |-> TargetOf(plan, t.file, ModelsFile), line |-> 0, table |-> t.key[1],
                    class |-> t.attributes.class, uses |-> {<<DatabaseFile, "Base">>}] :
                      t \in OfKind(SourceModel, "table")}
  /\ New.columns = UNION {{Column(n, t, plan) : n \in ColumnsOf(SourceModel, t)} :
                             t \in OfKind(SourceModel, "table")}
  /\ New.models = {TargetOf(plan, t.file, ModelsFile) : t \in OfKind(SourceModel, "table")}
  /\ New.database = IF OfKind(SourceModel, "table") = {} THEN {} ELSE {DatabaseFile}
  /\ New.requires = {"fastapi"} \cup {Mapping[p] : p \in source.packages \cap DOMAIN Mapping}
  BY DEF New, Generate

(* Its columns are those of its tables. *)
LEMMA NewColumnsAre ==
  \A d : d \in New.columns <=>
     \E tb \in OfKind(SourceModel, "table") : \E m \in ColumnsOf(SourceModel, tb) :
        d = Column(m, tb, plan)
<1> DEFINE Of(tb) == {Column(m, tb, plan) : m \in ColumnsOf(SourceModel, tb)}
           tables == OfKind(SourceModel, "table")
<1>1. New.columns = UNION {Of(tb) : tb \in tables}
  BY NewContents
<1>2. \A d, tb : d \in Of(tb) <=> \E m \in ColumnsOf(SourceModel, tb) : d = Column(m, tb, plan)
  OBVIOUS
<1> HIDE DEF Of, tables
<1>3. \A d : d \in New.columns <=> \E tb \in tables : d \in Of(tb)
  BY <1>1
<1> QED
  BY <1>2, <1>3 DEF tables

(* The adapters of the target read it: its manifest names their packages. *)
LEMMA NewIsDetected ==
  /\ "fastapi" \in New.requires
  /\ "typeorm" \in source.packages => "sqlalchemy" \in New.requires
<1>1. "typeorm" \in DOMAIN Mapping /\ Mapping["typeorm"] = "sqlalchemy"
  BY DEF Mapping
<1> QED
  BY <1>1, NewContents

(* Tables. *)
LEMMA TablesAreReadBack ==
  ASSUME NEW n \in SourceModel, n.kind = "table"
  PROVE  ReadBack(n)
<1>1. PICK name : n.key = <<name>>
  BY TablesAre DEF SourceModel
<1>2. PICK d \in New.tables : d.table = name
  <2> DEFINE d == [file |-> TargetOf(plan, n.file, ModelsFile), line |-> 0, table |-> n.key[1],
                   class |-> n.attributes.class, uses |-> {<<DatabaseFile, "Base">>}]
  <2>1. n \in OfKind(SourceModel, "table")
    BY DEF OfKind
  <2>2. d \in New.tables
    BY <2>1, NewContents
  <2>3. d.table = name
    BY <1>1
  <2> QED
    BY <2>2, <2>3
<1>3. "sqlalchemy" \in New.requires
  BY TablesAre, NewIsDetected DEF SourceModel
<1>4. PICK c \in TargetConcepts(New) : c.kind = "table" /\ c.key = <<name>>
  BY <1>2, <1>3, TablesRead
<1> QED
  BY <1>1, <1>4, ComparedIs DEF ReadBack, Twins, Group, Same

(* A column, from the concept to the class and back. *)
LEMMA ColumnReturns ==
  ASSUME NEW n, NEW tb, NEW targets,
         n.attributes.nullable \in BOOLEAN,
         n.attributes.nullable => ~ n.attributes.primary_key
  PROVE  LET t == SqlAlchemyColumn(Column(n, tb, targets))
         IN  /\ t.key = <<tb.key[1], n.key[2]>>
             /\ \A a \in {"nullable", "unique", "primary_key", "references"} :
                   n.attributes[a] = t.attributes[a]
<1> DEFINE a == n.attributes
           name == n.key[2]
           c == Column(n, tb, targets)
           t == SqlAlchemyColumn(c)
<1>1. /\ c.table = tb.key[1]
      /\ c.attribute = Snake(name)
      /\ c.column = (IF Snake(name) = name THEN None ELSE name)
      /\ c.nullable = (IF a.primary_key THEN None ELSE IF a.nullable THEN "true" ELSE "false")
      /\ c.primary_key = a.primary_key /\ c.unique = a.unique /\ c.references = a.references
  BY DEF Column
<1> HIDE DEF c
<1>2. /\ t.key = <<c.table, IF c.column = None THEN c.attribute ELSE c.column>>
      /\ t.attributes.nullable = (/\ ~ c.primary_key
                                  /\ \/ c.nullable = "true"
                                     \/ c.nullable = None /\ c.annotation # "T")
      /\ t.attributes.unique = c.unique
      /\ t.attributes.primary_key = c.primary_key
      /\ t.attributes.references = c.references
  BY DEF SqlAlchemyColumn, Concept, ColumnKey
<1> HIDE DEF t
<1>3. Snake(name) # name => name # None
  BY DEF Snake, SnakeNames, None
<1>4. (IF c.column = None THEN c.attribute ELSE c.column) = name
  BY <1>1, <1>3
<1>5. t.attributes.nullable = n.attributes.nullable
  <2>1. CASE a.primary_key
    BY <1>1, <1>2, <2>1
  <2>2. CASE ~ a.primary_key
    BY <1>1, <1>2, <2>2 DEF None
  <2> QED
    BY <2>1, <2>2
<1>6. t.key = <<tb.key[1], name>>
  BY <1>1, <1>2, <1>4
<1> QED
  BY <1>1, <1>2, <1>5, <1>6 DEF c, t

LEMMA ColumnsAreReadBack ==
  ASSUME NEW n \in SourceModel, n.kind = "column", Alone(n)
  PROVE  ReadBack(n)
<1>1. ASSUME NEW m \in SourceModel, m.kind = "column", NEW tb, m.key[1] = tb.key[1]
      PROVE  /\ SqlAlchemyColumn(Column(m, tb, plan)).key = m.key
             /\ SqlAlchemyColumn(Column(m, tb, plan)).kind = "column"
             /\ \A a \in {"nullable", "unique", "primary_key", "references"} :
                   m.attributes[a] = SqlAlchemyColumn(Column(m, tb, plan)).attributes[a]
  <2>1. /\ \E x, name : m.key = <<x, name>>
        /\ m.attributes.nullable \in BOOLEAN
        /\ m.attributes.nullable => ~ m.attributes.primary_key
    BY <1>1, ColumnsAre DEF SourceModel
  <2>2. m.key = <<m.key[1], m.key[2]>>
    BY <2>1
  <2>3. SqlAlchemyColumn(Column(m, tb, plan)).kind = "column"
    BY DEF SqlAlchemyColumn, Concept
  <2> QED
    BY <1>1, <2>1, <2>2, <2>3, ColumnReturns
<1>2. \A d : d \in New.columns <=>
         \E tb \in OfKind(SourceModel, "table") : \E m \in ColumnsOf(SourceModel, tb) :
            d = Column(m, tb, plan)
  BY NewColumnsAre
<1>3. \A tb : \A m \in ColumnsOf(SourceModel, tb) :
         m \in SourceModel /\ m.kind = "column" /\ m.key[1] = tb.key[1]
  BY DEF ColumnsOf, OfKind
<1>4. PICK tb \in OfKind(SourceModel, "table") : n \in ColumnsOf(SourceModel, tb)
  <2>1. PICK m \in source.members : \E name : n.key = <<TableName(m), name>>
    BY ColumnsAre DEF SourceModel
  <2>2. PICK tb \in SourceModel : tb.kind = "table" /\ tb.key = <<TableName(m)>>
    BY ColumnsAre, TablesAre DEF SourceModel
  <2>3. n.key[1] = tb.key[1]
    BY <2>1, <2>2
  <2> QED
    BY <2>2, <2>3 DEF ColumnsOf, OfKind
<1>5. SqlAlchemyColumn(Column(n, tb, plan)) \in Twins(n)
  <2>1. "sqlalchemy" \in New.requires
    BY ColumnsAre, NewIsDetected DEF SourceModel
  <2> QED
    BY <1>1, <1>2, <1>3, <1>4, <2>1, ColumnsRead DEF Twins, Group
<1>6. ASSUME NEW t \in Twins(n)
      PROVE  Same(n, t)
  <2>1. t \in TargetConcepts(New) /\ t.kind = "column" /\ t.key = n.key
    BY DEF Twins, Group
  <2>2. PICK d \in New.columns : t = SqlAlchemyColumn(d)
    BY <2>1, ColumnsRead
  <2>3. PICK tb2 \in OfKind(SourceModel, "table") : \E m \in ColumnsOf(SourceModel, tb2) :
           d = Column(m, tb2, plan)
    BY <1>2
  <2>4. PICK m \in ColumnsOf(SourceModel, tb2) : d = Column(m, tb2, plan)
    BY <2>3
  <2>5. t.key = m.key /\ \A a \in {"nullable", "unique", "primary_key", "references"} :
           m.attributes[a] = t.attributes[a]
    BY <1>1, <1>3, <2>2, <2>4
  <2>6. m = n
    BY <1>3, <2>1, <2>5 DEF Alone
  <2> QED
    BY <2>5, <2>6, ComparedIs DEF Same
<1> QED
  BY <1>5, <1>6 DEF ReadBack

(* The path that is rendered has the key of the path that was read. *)
LEMMA KeyReturns ==
  ASSUME NEW app \in Apps, NEW h \in ToSet(app.handlers), NEW targets
  PROVE  LET r == Rendered(app, targets, NestRoute(h))
         IN  RouteKey(r.method, <<>> \o r.path) = NestRoute(h).key
<1> DEFINE p == FullPath(h)
           d == DisplayPath(p)
           c == CanonicalPath(p)
           n == Len(p)
           r == Rendered(app, targets, NestRoute(h))
<1>1. r.method = h.method /\ r.path = d
  BY RenderedParts, RouteParts
<1>2. /\ n \in Nat /\ DOMAIN p = 1 .. n
      /\ Len(d) = n /\ DOMAIN d = 1 .. n
      /\ \A i \in 1 .. n : /\ d[i] \in Parameters <=> p[i] \in Parameters
                           /\ p[i] \notin Parameters => d[i] = p[i]
  BY PathForms
<1>3. d = [i \in 1 .. n |-> IF p[i] \in DOMAIN Display THEN Display[p[i]] ELSE p[i]]
  BY <1>2 DEF DisplayPath
<1>4. <<>> \o d = d
  <2>1. d \in Seq({d[i] : i \in 1 .. n})
    <3> HIDE DEF d, n
    <3>1. d = [i \in 1 .. n |-> d[i]]
      BY <1>3
    <3> QED
      BY <1>2, <3>1, ListIs
  <2>2. \A S : \A s \in Seq(S) : <<>> \o s = s
    OBVIOUS
  <2> HIDE DEF d, n
  <2> QED
    BY <2>1, <2>2
<1>5. CanonicalPath(d) = c
  <2>1. CanonicalPath(d) = [i \in 1 .. n |-> IF d[i] \in Parameters THEN "{}" ELSE d[i]]
    <3> HIDE DEF d, n
    <3> QED
      BY <1>2 DEF CanonicalPath
  <2>2. c = [i \in 1 .. n |-> IF p[i] \in Parameters THEN "{}" ELSE p[i]]
    <3> HIDE DEF p, n
    <3> QED
      BY <1>2 DEF CanonicalPath
  <2> HIDE DEF c, d, p, n
  <2>3. \A i \in 1 .. n : (IF d[i] \in Parameters THEN "{}" ELSE d[i]) =
                          (IF p[i] \in Parameters THEN "{}" ELSE p[i])
    BY <1>2
  <2> QED
    BY <2>1, <2>2, <2>3
<1>6. RouteKey(r.method, <<>> \o r.path) = RouteKey(h.method, p)
  <2> HIDE DEF r, d, p
  <2> QED
    BY <1>1, <1>4, <1>5 DEF RouteKey
<1> QED
  BY <1>6, RouteParts

(* The method is the first part of a key. *)
LEMMA KeyStarts ==
  ASSUME NEW app \in Apps, NEW h \in ToSet(app.handlers)
  PROVE  /\ NestRoute(h).key[1] = h.method
         /\ \A f : NestInput(NestRoute(h).key, f).key[1] = h.method
<1> DEFINE c == CanonicalPath(FullPath(h))
           key == NestRoute(h).key
<1>1. \A S : \A s \in Seq(S) : \A x, y, z :
         (<<x>> \o s)[1] = x /\ ((<<x>> \o s) \o <<y, z>>)[1] = x
  <2> SUFFICES ASSUME NEW S, NEW s \in Seq(S), NEW x, NEW y, NEW z
               PROVE  (<<x>> \o s)[1] = x /\ ((<<x>> \o s) \o <<y, z>>)[1] = x
    OBVIOUS
  <2> DEFINE T == S \cup {x, y, z}
  <2>1. s \in Seq(T) /\ <<x>> \in Seq(T) /\ <<y, z>> \in Seq(T)
    OBVIOUS
  <2> HIDE DEF T
  <2>2. <<x>> \o s \in Seq(T) /\ Len(<<x>> \o s) >= 1 /\ (<<x>> \o s)[1] = x
    BY <2>1
  <2> DEFINE u == <<x>> \o s
             v == <<y, z>>
  <2> HIDE DEF u, v
  <2>3. u \in Seq(T) /\ v \in Seq(T) /\ Len(u) >= 1
    BY <2>1, <2>2 DEF u, v
  <2>4. (u \o v)[1] = u[1]
    BY <2>3
  <2> QED
    BY <2>2, <2>4 DEF u, v
<1>2. c \in Seq({c[i] : i \in 1 .. Len(FullPath(h))})
  BY PathForms
<1>3. key = <<h.method>> \o c
  BY RouteParts DEF RouteKey
<1>4. \A f : NestInput(key, f).key = key \o <<"body", f.name>>
  BY InputParts
<1> HIDE DEF c, key
<1>5. key[1] = h.method /\ \A f : (key \o <<"body", f.name>>)[1] = h.method
  BY <1>1, <1>2, <1>3
<1> QED
  BY <1>4, <1>5 DEF key

(* The rest of what is rendered from a route. *)
LEMMA RenderedRest ==
  ASSUME NEW app, NEW targets, NEW n
  PROVE  LET h == Rendered(app, targets, n)
         IN  /\ h.prefix = <<>> /\ h.status = n.attributes.status
             /\ h.body = IF ModelsOf(SourceConcepts(app), n.attributes.body) # {}
                         THEN n.attributes.body ELSE None
             /\ h.uses = Uses(n, SourceConcepts(app), GuardFiles(app), targets)
  BY DEF Rendered, Handler

(* The handlers of the skeleton have the keys of the routes they stand for. *)
LEMMA NewHandlersAre ==
  ASSUME source \in Apps
  PROVE  /\ "nestjs" \in source.packages => \A h \in Handlers : h.method \in HttpMethods =>
               Rendered(source, plan, NestRoute(h)) \in New.handlers
         /\ \A r \in New.handlers : \E h \in Handlers :
               h.method \in HttpMethods /\ r = Rendered(source, plan, NestRoute(h))
         /\ \A h \in Handlers :
               LET r == Rendered(source, plan, NestRoute(h))
               IN  /\ r.method = h.method
                   /\ RouteKey(r.method, r.prefix \o r.path) = NestRoute(h).key
<1>1. ASSUME "nestjs" \in source.packages, NEW h \in Handlers, h.method \in HttpMethods
      PROVE  Rendered(source, plan, NestRoute(h)) \in New.handlers
  BY <1>1, RoutesAre, HandlersAre, NewContents DEF Handlers, SourceModel
<1>2. ASSUME NEW r \in New.handlers
      PROVE  \E h \in Handlers : h.method \in HttpMethods /\ r = Rendered(source, plan, NestRoute(h))
  <2>1. PICK n \in Routes(source) : r = Rendered(source, plan, n)
    BY HandlersAre, NewContents DEF SourceModel
  <2>2. PICK h \in Handlers : h.method \in HttpMethods /\ n = NestRoute(h)
    BY RoutesAre DEF Handlers
  <2> QED
    BY <2>1, <2>2
<1>3. ASSUME NEW h \in Handlers
      PROVE  LET r == Rendered(source, plan, NestRoute(h))
             IN  /\ r.method = h.method
                 /\ RouteKey(r.method, r.prefix \o r.path) = NestRoute(h).key
  <2> DEFINE r == Rendered(source, plan, NestRoute(h))
  <2>1. r.method = h.method /\ r.prefix = <<>>
    BY RenderedParts, RenderedRest, RouteParts
  <2>2. RouteKey(r.method, <<>> \o r.path) = NestRoute(h).key
    BY KeyReturns DEF Handlers
  <2> HIDE DEF r
  <2>3. r.method = h.method /\ RouteKey(r.method, r.prefix \o r.path) = NestRoute(h).key
    BY <2>1, <2>2
  <2> QED
    BY <2>3 DEF r
<1> QED
  BY <1>1, <1>2, <1>3

(* A route keeps its status and its login. *)
LEMMA RouteReturns ==
  ASSUME "nestjs" \in source.packages, NEW h \in Handlers, h.method \in HttpMethods
  PROVE  LET n == NestRoute(h)
             t == FastApiRoute(New, Rendered(source, plan, n))
         IN  t.attributes.status = n.attributes.status /\ t.attributes.auth = n.attributes.auth
<1> DEFINE n == NestRoute(h)
           r == Rendered(source, plan, n)
           t == FastApiRoute(New, r)
<1>1. /\ r.status = n.attributes.status
      /\ r.depends = Depends(n)
  BY RenderedParts, RenderedRest
<1>2. n.attributes.auth = Guarded(h)
  BY RouteParts
<1>3. n.attributes.status = IF h.code # None THEN h.code
                            ELSE IF h.method = "post" THEN "201" ELSE "200"
  BY DEF NestRoute, Concept
<1>4. n \in OfKind(SourceModel, "route")
  BY RoutesAre DEF Handlers, Routes, SourceModel
<1> HIDE DEF n, r
<1>5. /\ t.attributes.status = IF r.status = None THEN "200" ELSE r.status
      /\ t.attributes.auth = (r.depends \cap AuthDependencies(New) # {})
  BY DEF FastApiRoute, Concept
<1> HIDE DEF t
<1>6. t.attributes.status = n.attributes.status
  BY <1>1, <1>3, <1>5 DEF None
<1>7. CASE n.attributes.auth
  <2>1. r.depends = {Login}
    BY <1>1, <1>7 DEF Depends
  <2> DEFINE login == [file |-> LoginFile(GuardFiles(source), plan), line |-> 0,
                       function |-> Login, status |-> "401"]
  <2>2. login \in New.raises
    <3>1. login \in RenderAuth(SourceModel, GuardFiles(source), plan)
      BY <1>4, <1>7 DEF RenderAuth
    <3> QED
      BY <3>1, NewContents
  <2>3. Login \in AuthDependencies(New)
    BY <2>2 DEF AuthDependencies
  <2>4. t.attributes.auth = TRUE
    BY <1>5, <2>1, <2>3
  <2>5. n.attributes.auth = TRUE
    BY <1>2, <1>7 DEF Guarded
  <2> QED
    BY <1>6, <2>4, <2>5 DEF n, r, t
<1>8. CASE ~ n.attributes.auth
  <2>1. r.depends = {}
    BY <1>1, <1>8 DEF Depends
  <2>2. t.attributes.auth = FALSE
    BY <1>5, <2>1
  <2>3. n.attributes.auth = FALSE
    BY <1>2, <1>8 DEF Guarded
  <2> QED
    BY <1>6, <2>2, <2>3 DEF n, r, t
<1> QED
  BY <1>7, <1>8

LEMMA RoutesAreReadBack ==
  ASSUME source \in Apps, NEW n \in SourceModel, n.kind = "route", n.key[1] # "all", Alone(n)
  PROVE  ReadBack(n)
<1>1. PICK h \in Handlers : h.method \in HttpMethods /\ n = NestRoute(h) /\ "nestjs" \in source.packages
  BY RoutesAre DEF Handlers, Routes, OfKind, SourceModel
<1>2. h.method \in RouteMethods
  BY <1>1, KeyStarts DEF RouteMethods, Handlers
<1>3. \A r : FastApiRoute(New, r).key = RouteKey(r.method, r.prefix \o r.path)
  BY DEF FastApiRoute, Concept
<1>4. FastApiRoute(New, Rendered(source, plan, n)) \in Twins(n)
  BY <1>1, <1>2, <1>3, NewHandlersAre, NewIsDetected, RoutesRead DEF Twins, Group
<1>5. ASSUME NEW t \in Twins(n)
      PROVE  Same(n, t)
  <2>1. t \in TargetConcepts(New) /\ t.kind = "route" /\ t.key = n.key
    BY DEF Twins, Group
  <2>2. PICK r \in New.handlers : t = FastApiRoute(New, r)
    BY <2>1, RoutesRead
  <2>3. PICK g \in Handlers : g.method \in HttpMethods /\ r = Rendered(source, plan, NestRoute(g))
    BY NewHandlersAre
  <2>4. t.key = NestRoute(g).key
    BY <1>3, <2>2, <2>3, NewHandlersAre
  <2>5. NestRoute(g) \in SourceModel /\ NestRoute(g).kind = "route"
    BY <1>1, <2>3, RoutesAre, RouteParts DEF Handlers, Routes, OfKind, SourceModel
  <2>6. NestRoute(g) = n
    BY <2>1, <2>4, <2>5 DEF Alone
  <2>7. t.attributes.status = n.attributes.status /\ t.attributes.auth = n.attributes.auth
    BY <1>1, <2>2, <2>3, <2>6, RouteReturns
  <2> QED
    BY <2>7, ComparedIs DEF Same
<1> QED
  BY <1>4, <1>5 DEF ReadBack

(* A field of a DTO keeps its constraints and whether it is required. *)
LEMMA FieldReturns ==
  ASSUME NEW r, NEW s, NEW f, NEW targets, Describable(NestInput(r, f))
  PROVE  LET n == NestInput(r, f)
             t == FastApiInput(s, Field(n, targets))
         IN  t.attributes.constraints = n.attributes.constraints
             /\ t.attributes.required = n.attributes.required
<1> DEFINE n == NestInput(r, f)
           d == Field(n, targets)
           t == FastApiInput(s, d)
<1>1. n.attributes.constraints = UNION {ConstraintsOf(e) : e \in f.decorators}
      /\ n.attributes.required \in BOOLEAN
  BY InputParts
<1>2. Describable(n)
  OBVIOUS
<1> HIDE DEF n
<1>3. \A c \in n.attributes.constraints : Constraint(c)
  BY <1>1, ConstraintsAre
<1>4. FieldConstraints(d) = n.attributes.constraints
  BY <1>2, <1>3, ConstraintsReturn
<1>5. d.optional = ~ n.attributes.required /\ d.default = ~ n.attributes.required
  BY DEF Field
<1> HIDE DEF d
<1>6. /\ t.attributes.constraints = FieldConstraints(d)
      /\ t.attributes.required = ~ (d.optional \/ d.default)
  BY DEF FastApiInput, Concept
<1> HIDE DEF t
<1>7. t.attributes.required = n.attributes.required
  BY <1>1, <1>5, <1>6
<1> QED
  BY <1>4, <1>6, <1>7 DEF n, d, t

LEMMA InputsAreReadBack ==
  ASSUME source \in Apps, NEW n \in SourceModel, n.kind = "input_field", n.key[1] # "all",
         Alone(n), Describable(n)
  PROVE  ReadBack(n)
<1>0. ASSUME NEW m \in SourceModel, m.kind = "input_field"
      PROVE  /\ "nestjs" \in source.packages
             /\ \E k \in Handlers : \E e \in DtoFields(source, k.body) :
                   k.method \in HttpMethods /\ m = NestInput(NestRoute(k).key, e)
  BY ONLY <1>0, InputsAre DEF SourceModel, Handlers
<1>1. PICK h \in Handlers : \E f \in DtoFields(source, h.body) :
         h.method \in HttpMethods /\ n = NestInput(NestRoute(h).key, f)
  BY <1>0
<1>2. PICK f \in DtoFields(source, h.body) :
         h.method \in HttpMethods /\ n = NestInput(NestRoute(h).key, f)
  BY <1>1
<1>3. h.method \in RouteMethods
  BY <1>2, KeyStarts DEF RouteMethods, Handlers
<1>4. \A g : \A e \in DtoFields(source, g) : e \in source.fields /\ e.dto = g
  BY DEF DtoFields
<1>5. f.dto = h.body /\ f.dto # None
  BY <1>4, TranslationAssumption
<1>6. \A m : m \in OfKind(SourceModel, "input_field") <=> m \in SourceModel /\ m.kind = "input_field"
  BY DEF OfKind
<1>7. \A g \in Handlers :
         Rendered(source, plan, NestRoute(g)).body =
            IF ModelsOf(SourceModel, g.body) # {} THEN g.body ELSE None
  BY RenderedRest, RouteParts DEF SourceModel
<1>8. \A m \in SourceModel : m.kind = "input_field" => ModelsOf(SourceModel, m.attributes.class) # {}
  BY <1>6 DEF ModelsOf
<1>9. \A s, d : FastApiInput(s, d).kind = "input_field" /\ FastApiInput(s, d).key = s \o <<"body", d.name>>
  BY DEF FastApiInput, InputKey, Concept
<1>10. \A m : Field(m, plan).class = m.attributes.class /\ Field(m, plan).name = m.attributes.name
  BY DEF Field
<1>11. \A s, e : NestInput(s, e).attributes.class = e.dto /\ NestInput(s, e).attributes.name = e.name
  BY DEF NestInput, Concept
<1>12. Twins(n) # {}
  <2> DEFINE r == Rendered(source, plan, NestRoute(h))
             d == Field(n, plan)
             s == RouteKey(r.method, r.prefix \o r.path)
  <2>1. r \in New.handlers /\ r.method = h.method /\ s = NestRoute(h).key
    BY <1>0, <1>2, NewHandlersAre
  <2>2. r.body = h.body
    BY <1>2, <1>5, <1>7, <1>8, InputParts
  <2>3. d \in New.fields
    BY <1>6, NewContents
  <2>4. d.class = h.body /\ d.name = f.name
    <3>1. n.attributes.class = f.dto /\ n.attributes.name = f.name
      BY <1>2, <1>11
    <3>2. d.class = n.attributes.class /\ d.name = n.attributes.name
      BY <1>10
    <3> HIDE DEF d
    <3> QED
      BY <1>5, <3>1, <3>2
  <2>5. n.key = NestRoute(h).key \o <<"body", f.name>>
    BY <1>2, InputParts
  <2> HIDE DEF r, d
  <2>6. FastApiInput(s, d) \in TargetConcepts(New)
    BY <1>3, <2>1, <2>2, <2>3, <2>4, NewIsDetected, InputsRead
  <2>7. FastApiInput(s, d).kind = n.kind /\ FastApiInput(s, d).key = n.key
    BY <1>9, <2>1, <2>4, <2>5
  <2> QED
    BY <2>6, <2>7 DEF Twins, Group
<1>13. ASSUME NEW t \in Twins(n)
       PROVE  Same(n, t)
  <2>1. t \in TargetConcepts(New) /\ t.kind = "input_field" /\ t.key = n.key
    BY DEF Twins, Group
  <2>2. PICK r \in New.handlers : \E d \in New.fields :
           d.class = r.body /\ t = FastApiInput(RouteKey(r.method, r.prefix \o r.path), d)
    BY <2>1, InputsRead
  <2>3. PICK d \in New.fields :
           d.class = r.body /\ t = FastApiInput(RouteKey(r.method, r.prefix \o r.path), d)
    BY <2>2
  <2>4. PICK g \in Handlers : g.method \in HttpMethods /\ r = Rendered(source, plan, NestRoute(g))
    BY NewHandlersAre
  <2>5. PICK m \in SourceModel : m.kind = "input_field" /\ d = Field(m, plan)
    BY <1>6, NewContents
  <2>6. PICK k \in Handlers : \E e \in DtoFields(source, k.body) : m = NestInput(NestRoute(k).key, e)
    BY <1>0, <2>5
  <2>7. PICK e \in DtoFields(source, k.body) : m = NestInput(NestRoute(k).key, e)
    BY <2>6
  <2>8. e.dto = k.body /\ e.dto # None
    BY <1>4, TranslationAssumption
  <2>9. d.class = e.dto /\ d.name = e.name
    <3>1. m.attributes.class = e.dto /\ m.attributes.name = e.name
      BY <2>7, <1>11
    <3>2. d.class = m.attributes.class /\ d.name = m.attributes.name
      BY <1>10, <2>5
    <3> QED
      BY <3>1, <3>2
  <2>10. g.body = e.dto
    BY <1>7, <2>3, <2>4, <2>8, <2>9
  <2>11. e \in DtoFields(source, g.body)
    BY <2>8, <2>10
  <2> DEFINE own == NestInput(NestRoute(g).key, e)
  <2>12. own \in SourceModel /\ own.kind = "input_field" /\ own.key = NestRoute(g).key \o <<"body", e.name>>
    <3>1. own \in SourceModel
      BY ONLY <1>0, <2>4, <2>5, <2>11, InputsAre DEF SourceModel, Handlers, own
    <3>2. own.kind = "input_field" /\ own.key = NestRoute(g).key \o <<"body", e.name>>
      BY ONLY InputParts DEF own
    <3> QED
      BY ONLY <3>1, <3>2
  <2>13. t.key = NestRoute(g).key \o <<"body", e.name>>
    BY <1>9, <2>3, <2>4, <2>9, NewHandlersAre
  <2>14. own = n
    BY <2>1, <2>12, <2>13 DEF Alone
  <2>15. m.attributes = n.attributes
    BY <2>7, <2>14, InputAttributes
  <2>16. Describable(m)
    BY <2>15 DEF Describable
  <2> DEFINE s == RouteKey(r.method, r.prefix \o r.path)
  <2>17. t = FastApiInput(s, Field(m, plan))
    BY <2>3, <2>5
  <2> HIDE DEF s, own
  <2>18. /\ t.attributes.constraints = m.attributes.constraints
         /\ t.attributes.required = m.attributes.required
    BY <2>7, <2>16, <2>17, FieldReturns
  <2> QED
    BY <2>15, <2>18, ComparedIs DEF Same
<1> QED
  BY <1>12, <1>13 DEF ReadBack

(* The two chains of code agree: for every app and every layout of its files, the
   ledger of a fresh skeleton says of every route, field, table and column that it
   is mapped, but for the cases that SkeletonIsMapped names.  There is no
   precondition on the paths. *)
THEOREM FreshSkeletonsAreMapped == Spec => []SkeletonIsMapped
<1>1. TargetInv /\ LedgerInv /\ WrittenInv => SkeletonIsMapped
  <2> SUFFICES ASSUME TargetInv, LedgerInv, WrittenInv, written = "new", ledger # {},
                      NEW row \in ledger,
                      row.kind # "error",
                      ~ (row.kind \in {"route", "input_field"} /\ row.key[1] = "all"),
                      ~ \E n, twin \in Group(SourceModel, row.kind, row.key) : n # twin,
                      ~ (/\ row.kind = "input_field"
                         /\ ~ Describable(First(Group(SourceModel, row.kind, row.key))))
               PROVE  row.status = "mapped"
    BY DEF SkeletonIsMapped
  <2>1. target = New /\ ledger = LedgerRows(SourceModel, TargetConcepts(New), waivers)
    BY DEF WrittenInv, LedgerInv
  <2>2. PICK n \in SourceModel : row = Row(n.kind, n.key, SourceModel, TargetConcepts(New), waivers)
    <3> DEFINE ids == {<<m.kind, m.key>> : m \in SourceModel}
    <3>1. PICK id \in ids : row = Row(id[1], id[2], SourceModel, TargetConcepts(New), waivers)
      <4> HIDE DEF ids
      <4> QED
        BY <2>1 DEF LedgerRows, ids
    <3>2. PICK m \in SourceModel : id = <<m.kind, m.key>>
      OBVIOUS
    <3>3. id[1] = m.kind /\ id[2] = m.key
      BY <3>2
    <3> HIDE DEF ids
    <3> QED
      BY <3>1, <3>3
  <2> DEFINE mine == Group(SourceModel, n.kind, n.key)
             status == Status(mine, Twins(n))
  <2>3. /\ row.kind = n.kind /\ row.key = n.key
        /\ row.status = IF status \in {"missing", "mismatch"} /\ n.key \in waivers
                        THEN "waived" ELSE status
    BY <2>2 DEF Row, Twins
  <2>4. \A m : m \in mine <=> m \in SourceModel /\ m.kind = n.kind /\ m.key = n.key
    BY DEF Group
  <2>5. \A twin \in mine : twin = n
    <3>1. \A x, y \in mine : x = y
      BY <2>3
    <3> QED
      BY <2>4, <3>1
  <2>6. Alone(n) /\ mine = {n}
    BY <2>4, <2>5 DEF Alone
  <2>7. First(mine) = n
    <3> HIDE DEF mine
    <3>1. Located(n)
      BY SourceIsLocated DEF TargetInv, SourceModel
    <3>2. First(mine) \in mine
      BY <2>6, <3>1, FirstIsOne
    <3> QED
      BY <2>6, <3>2
  <2>8. n.kind \in {"route", "input_field", "table", "column", "error"}
    <3>1. \A h : NestRoute(h).kind = "route"
      BY RouteParts
    <3>2. \A r, f : NestInput(r, f).kind = "input_field"
      BY InputParts
    <3>3. \A k, d, a : Concept("error", k, d, a).kind = "error" /\ Concept("table", k, d, a).kind = "table"
      BY DEF Concept
    <3>4. \A m : TypeOrmColumn(m).kind = "column" /\ TypeOrmRelation(source, m).kind = "column"
      BY DEF TypeOrmColumn, TypeOrmRelation, Concept
    <3>5. n \in NestJs(source) \/ n \in TypeOrm(source)
      BY EitherDeclares DEF SourceModel
    <3>6. n \in TypeOrm(source) => n.kind \in {"table", "column"}
      <4> DEFINE Table(m) == Concept("table", <<TableName(m)>>, [file |-> m.file, line |-> 0],
                                     [class |-> m.entity])
      <4>1. TypeOrm(source) =
               {Table(m) : m \in source.members}
               \cup {TypeOrmColumn(m) : m \in {m \in source.members : m.decorator \in Columns}}
               \cup {TypeOrmRelation(source, m) : m \in {m \in source.members : m.decorator = "ManyToOne"}}
        BY DEF TypeOrm
      <4>2. \A m : Table(m).kind = "table"
        BY <3>3
      <4> HIDE DEF Table
      <4> QED
        BY <3>4, <4>1, <4>2
    <3> QED
      BY <3>1, <3>2, <3>3, <3>5, <3>6, NestJsParts
  <2>9. ReadBack(n)
    <3>1. n.kind = "input_field" => Describable(n)
      BY <2>3, <2>7
    <3>2. n.kind \in {"route", "input_field"} => n.key[1] # "all"
      BY <2>3
    <3>3. n.kind # "error" /\ source \in Apps
      BY <2>3 DEF TargetInv
    <3> QED
      BY <2>6, <2>8, <3>1, <3>2, <3>3,
         RoutesAreReadBack, InputsAreReadBack, TablesAreReadBack, ColumnsAreReadBack
  <2>10. \A t \in Twins(n) : t \in TargetConcepts(New)
    BY DEF Twins, Group
  <2> HIDE DEF mine
  <2>11. First(Twins(n)) \in Twins(n)
    <3>1. \A t \in Twins(n) : Located(t)
      BY <2>1, <2>10, TargetIsLocated DEF TargetInv
    <3> QED
      BY <2>9, <3>1, FirstIsOne DEF ReadBack
  <2>12. status = "mapped"
    BY <2>7, <2>9, <2>11 DEF Status, ReadBack, Same
  <2> HIDE DEF status
  <2> QED
    BY <2>3, <2>12
<1> QED
  BY <1>1, TranslationInvariant, SkeletonInvariant, PTL

-----------------------------------------------------------------------------
(* Skeletons that boot. *)

Inputs == OfKind(SourceModel, "input_field")
Tables == OfKind(SourceModel, "table")
TableOf(t) == [file |-> TargetOf(plan, t.file, ModelsFile), line |-> 0, table |-> t.key[1],
               class |-> t.attributes.class, uses |-> {<<DatabaseFile, "Base">>}]

(* The files of a skeleton. *)
Routers == RouterFiles(SourceModel, plan)
SchemaFiles == {TargetOf(plan, n.file, SchemasFile) : n \in Inputs}
TableFiles == {TargetOf(plan, t.file, ModelsFile) : t \in Tables}
LoginFiles == {LoginFile(GuardFiles(source), plan) : n \in {n \in Routes(source) : n.attributes.auth}}

(* Of the files of tables, app/main.py imports those that were generated, and
   nothing else is in them. *)
LEMMA LoadedIs ==
  ASSUME WrittenInv, written # "no"
  PROVE  /\ target.models = TableFiles
         /\ \A t \in Tables : TableOf(t) \in target.tables /\ TableOf(t).file \in target.models
         /\ \A d \in target.tables : d.file \in target.models => \E t \in Tables : d = TableOf(t)
         /\ \A d \in target.columns : d.file \in target.models => d \in New.columns
         /\ New.columns \subseteq target.columns
<1>1. New.tables = {TableOf(t) : t \in Tables} /\ New.models = TableFiles
  BY NewContents DEF TableOf, Tables, TableFiles
<1>2. \A t \in Tables : TableOf(t).file = TargetOf(plan, t.file, ModelsFile)
  BY DEF TableOf
<1>3. TableFiles \subseteq Files(New)
  <2>1. TableFiles \subseteq {d.file : d \in New.tables}
    BY <1>1, <1>2 DEF TableFiles
  <2> QED
    BY <2>1 DEF Files
<1>4. /\ target.models = New.models /\ New.tables \subseteq target.tables
      /\ \A d \in target.tables : d \in New.tables \/ d.file \notin Files(New)
      /\ New.columns \subseteq target.columns
      /\ \A d \in target.columns : d \in New.columns \/ d.file \notin Files(New)
  BY WrittenParts
<1>5. \A t \in Tables : TableOf(t).file \in TableFiles
  BY <1>2 DEF TableFiles
<1> HIDE DEF New
<1> QED
  BY <1>1, <1>3, <1>4, <1>5

(* What a handler imports is its request models and the login. *)
LEMMA UsesAre ==
  ASSUME NEW n \in Routes(source)
  PROVE  \A use \in Uses(n, SourceModel, GuardFiles(source), plan) :
            \/ \E m \in Inputs : /\ m.attributes.class = n.attributes.body
                                 /\ use = <<TargetOf(plan, m.file, SchemasFile), m.attributes.class>>
            \/ n.attributes.auth /\ use = <<LoginFile(GuardFiles(source), plan), Login[1]>>
  BY DEF Uses, ModelsOf, Inputs

(* The imports of a skeleton, file by file. *)
LEMMA ImportsAre ==
  ASSUME TargetInv, WrittenInv, written # "no", NEW edge \in Imports(target)
  PROVE  \/ edge[1] \in Routers /\ edge[2] \in SchemaFiles \cup LoginFiles
         \/ edge[1] \in TableFiles /\ edge[2] = DatabaseFile
         \/ /\ edge[1] = MainFile
            /\ edge[2] \in Routers \cup (TableFiles \ {MainFile}) \cup {DatabaseFile}
<1> DEFINE importing == Served(target) \cup {t \in target.tables : t.file \in target.models}
           Of(d) == {<<d.file, use[1]>> : use \in d.uses}
           main == {MainFile} \X (target.main \cup (target.models \ {MainFile})
                                   \cup IF target.models = {} THEN {} ELSE {DatabaseFile})
<1>1. Imports(target) = (UNION {Of(d) : d \in importing}) \cup main
  BY DEF Imports
<1>2. target.models = TableFiles /\ target.main = Routers
  BY LoadedIs, WrittenParts, NewParts DEF Routers
<1>3. CASE edge \in main
  BY <1>2, <1>3
<1>4. ASSUME NEW d \in importing, edge \in Of(d)
      PROVE  \/ edge[1] \in Routers /\ edge[2] \in SchemaFiles \cup LoginFiles
             \/ edge[1] \in TableFiles /\ edge[2] = DatabaseFile
  <2>1. PICK use \in d.uses : edge[1] = d.file /\ edge[2] = use[1]
    BY <1>4
  <2>2. CASE d \in Served(target)
    <3>1. PICK n \in Routes(source) : d = Rendered(source, plan, n)
      BY <2>2, ServedIs, HandlersAre DEF SourceModel
    <3>2. d.file \in Routers
      BY <3>1, RenderedIsPlaced DEF TargetInv, Routers, SourceModel
    <3>3. use \in Uses(n, SourceModel, GuardFiles(source), plan)
      BY <2>1, <3>1, RenderedRest DEF SourceModel
    <3>4. CASE \E m \in Inputs : use = <<TargetOf(plan, m.file, SchemasFile), m.attributes.class>>
      BY <2>1, <3>2, <3>4 DEF SchemaFiles
    <3>5. CASE n.attributes.auth /\ use = <<LoginFile(GuardFiles(source), plan), Login[1]>>
      BY <2>1, <3>2, <3>5 DEF LoginFiles
    <3> QED
      BY <3>3, <3>4, <3>5, UsesAre
  <2>3. CASE d \in target.tables /\ d.file \in target.models
    <3>1. PICK t \in Tables : d = TableOf(t)
      BY <2>3, LoadedIs
    <3>2. use = <<DatabaseFile, "Base">>
      BY <2>1, <3>1 DEF TableOf
    <3> QED
      BY <1>2, <2>1, <2>3, <3>2
  <2> QED
    BY <2>2, <2>3
<1>5. edge \in main \/ \E d \in importing : edge \in Of(d)
  <2> HIDE DEF importing, Of, main
  <2>1. edge \in (UNION {Of(d) : d \in importing}) \cup main
    BY <1>1
  <2> QED
    BY <2>1
<1> HIDE DEF importing, Of, main
<1> QED
  BY <1>3, <1>4, <1>5

(* Where the plan does not tangle the files, there is no circle of imports: main
   imports routers and tables, routers import schemas and logins, and these
   import no file of the app but the database. *)
LEMMA NoCircle ==
  ASSUME TargetInv, WrittenInv, written # "no", ~ Tangled
  PROVE  ~ Circular(Imports(target))
<1>1. /\ Routers \cap (SchemaFiles \cup LoginFiles \cup {DatabaseFile, MainFile}) = {}
      /\ MainFile \notin SchemaFiles \cup LoginFiles
      /\ DatabaseFile \notin TableFiles
  BY DEF Tangled, Routers, SchemaFiles, LoginFiles, TableFiles, Inputs, Tables, Routes, SourceModel
<1>2. DatabaseFile # MainFile
  BY FilesAssumption
<1> SUFFICES ASSUME Circular(Imports(target))
             PROVE  FALSE
  OBVIOUS
<1> DEFINE all == {edge[1] : edge \in Imports(target)}
           Round(S) == \A file \in S : \E other \in S : <<file, other>> \in Imports(target)
<1>0. PICK files : files # {} /\ Round(files)
  <2>1. PICK S \in (SUBSET all) \ {{}} : Round(S)
    BY Zenon DEF Circular
  <2>2. S # {}
    BY <2>1
  <2> QED
    BY <2>1, <2>2
<1> HIDE DEF all
<1>3. \A file, other : <<file, other>> \in Imports(target) =>
         \/ file \in Routers /\ other \in SchemaFiles \cup LoginFiles
         \/ file \in TableFiles /\ other = DatabaseFile
         \/ file = MainFile /\ other \in Routers \cup (TableFiles \ {MainFile}) \cup {DatabaseFile}
  BY ImportsAre
<1>4. DatabaseFile \notin files
  BY <1>0, <1>1, <1>2, <1>3
<1>5. ASSUME NEW file \in files
      PROVE  file \notin SchemaFiles \cup LoginFiles
  <2>1. PICK other \in files : <<file, other>> \in Imports(target)
    BY <1>0
  <2>2. file \in Routers \/ file = MainFile
    BY <1>3, <1>4, <2>1
  <2> QED
    BY <1>1, <2>2
<1>6. \A file \in files : file = MainFile
  BY <1>0, <1>3, <1>4, <1>5
<1> QED
  BY <1>0, <1>1, <1>2, <1>3, <1>6

(* Two tables that are rendered as one class are one. *)
LEMMA ClassesAreApart ==
  ASSUME ~ Redefined, NEW t \in Tables, NEW other \in Tables,
         t.key = other.key \/ t.attributes.class = other.attributes.class
  PROVE  t = other
  BY DEF Redefined, Tables

(* mypy finds every imported name in a fresh skeleton, and none that is defined
   twice, if the source has no such names. *)
LEMMA FreshSkeletonTypechecks ==
  ASSUME TargetInv, WrittenInv, written = "new", ~ Redefined
  PROVE  Typechecks(target)
<1>0. target = New /\ source \in Apps
  BY DEF WrittenInv, TargetInv
<1>1. ASSUME NEW d \in New.handlers, NEW use \in d.uses
      PROVE  Defines(New, use)
  <2>1. PICK n \in Routes(source) : d = Rendered(source, plan, n)
    BY HandlersAre, NewContents DEF SourceModel
  <2>2. use \in Uses(n, SourceModel, GuardFiles(source), plan)
    BY <2>1, RenderedRest DEF SourceModel
  <2>3. CASE \E m \in Inputs : use = <<TargetOf(plan, m.file, SchemasFile), m.attributes.class>>
    <3>1. PICK m \in Inputs : use = <<TargetOf(plan, m.file, SchemasFile), m.attributes.class>>
      BY <2>3
    <3>2. Field(m, plan) \in New.fields
      BY NewContents DEF Inputs
    <3>3. <<Field(m, plan).file, Field(m, plan).class>> = use
      BY <3>1 DEF Field
    <3> QED
      BY <3>2, <3>3 DEF Defines
  <2>4. CASE n.attributes.auth /\ use = <<LoginFile(GuardFiles(source), plan), Login[1]>>
    <3> DEFINE login == [file |-> LoginFile(GuardFiles(source), plan), line |-> 0,
                         function |-> Login, status |-> "401"]
    <3>1. login \in RenderAuth(SourceModel, GuardFiles(source), plan)
      BY <2>4 DEF RenderAuth, Routes, SourceModel
    <3>2. login \in New.raises
      BY <3>1, NewContents
    <3>3. login.function = Login /\ <<login.file, Login[1]>> = use
      BY <2>4
    <3> HIDE DEF login
    <3> QED
      BY <3>2, <3>3 DEF Defines
  <2> QED
    BY <2>2, <2>3, <2>4, UsesAre
<1>2. ASSUME NEW d \in New.tables, NEW use \in d.uses
      PROVE  Defines(New, use)
  <2>1. PICK t \in Tables : d = TableOf(t)
    BY NewContents DEF TableOf, Tables
  <2>2. use = <<DatabaseFile, "Base">>
    BY <2>1 DEF TableOf
  <2>3. New.database = {DatabaseFile}
    BY <2>1, NewContents DEF Tables
  <2> QED
    BY <2>2, <2>3 DEF Defines
<1>3. ASSUME NEW d \in New.handlers
      PROVE  d.name \notin Taken(New, d.file)
  <2>1. PICK n \in Routes(source) : d = Rendered(source, plan, n)
    BY HandlersAre, NewContents DEF SourceModel
  <2>2. PICK h \in Handlers : n = NestRoute(h)
    BY RoutesAre DEF Handlers
  <2>3. d.name[1] = PythonName(h.name)
    <3>1. \A routes : UniqueName(routes, n)[1] = PythonName(n.attributes.name)
      BY DEF UniqueName
    <3> QED
      BY <2>1, <2>2, <3>1, RenderedParts, RouteParts
  <2>4. PythonName(h.name) \notin {Login[1], "router"}
    BY DEF Redefined
  <2>5. \A name \in Taken(New, d.file) : name[1] \in {Login[1], "router"}
    BY DEF Taken
  <2> QED
    BY <2>3, <2>4, <2>5
<1>4. \A d \in New.tables : \E t \in Tables : d = TableOf(t)
  BY NewContents DEF TableOf, Tables
<1>5. ASSUME NEW d \in New.tables, NEW e \in New.tables, d.class = e.class
      PROVE  d = e
  <2>1. PICK t \in Tables : d = TableOf(t)
    BY <1>4
  <2>2. PICK other \in Tables : e = TableOf(other)
    BY <1>4
  <2>3. t.attributes.class = other.attributes.class
    BY <1>5, <2>1, <2>2 DEF TableOf
  <2> QED
    BY <2>1, <2>2, <2>3, ClassesAreApart
<1>6. ASSUME NEW d \in New.tables, NEW f \in New.fields, d.class = f.class
      PROVE  FALSE
  <2>1. PICK t \in Tables : d = TableOf(t)
    BY <1>4
  <2>2. PICK m \in Inputs : f = Field(m, plan)
    BY NewContents DEF Inputs
  <2>3. m.attributes.class = t.attributes.class
    BY <1>6, <2>1, <2>2 DEF TableOf, Field
  <2> QED
    BY <2>3 DEF Redefined, ModelsOf, Inputs, Tables
<1>7. ASSUME NEW c \in New.columns, NEW e \in New.columns,
             c.class = e.class, c.attribute = e.attribute
      PROVE  c = e
  <2>1. PICK t \in Tables : \E n \in ColumnsOf(SourceModel, t) : c = Column(n, t, plan)
    BY NewColumnsAre DEF Tables
  <2>2. PICK n \in ColumnsOf(SourceModel, t) : c = Column(n, t, plan)
    BY <2>1
  <2>3. PICK other \in Tables : \E m \in ColumnsOf(SourceModel, other) : e = Column(m, other, plan)
    BY NewColumnsAre DEF Tables
  <2>4. PICK m \in ColumnsOf(SourceModel, other) : e = Column(m, other, plan)
    BY <2>3
  <2>5. /\ t.attributes.class = other.attributes.class
        /\ Snake(n.key[2]) = Snake(m.key[2])
    BY <1>7, <2>2, <2>4 DEF Column
  <2>6. t = other
    BY <2>5, ClassesAreApart
  <2>7. /\ n \in OfKind(SourceModel, "column") /\ m \in OfKind(SourceModel, "column")
        /\ n.key[1] = m.key[1]
    BY <2>6 DEF ColumnsOf
  <2>8. n = m
    BY <2>5, <2>7 DEF Redefined
  <2> QED
    BY <2>2, <2>4, <2>6, <2>8
<1> HIDE DEF New
<1> QED
  BY <1>0, <1>1, <1>2, <1>3, <1>5, <1>6, <1>7 DEF Typechecks

(* The tables of a skeleton are loaded and created, if those of the source have
   primary keys and are referred to by columns called `id`. *)
LEMMA SkeletonTablesLoad ==
  ASSUME WrittenInv, written # "no", ~ Redefined, ~ Unkeyed
  PROVE  TablesLoad(target) /\ Starts(target)
<1>1. ASSUME NEW d \in target.tables, d.file \in target.models
      PROVE  \E c \in target.columns : c.file = d.file /\ c.class = d.class /\ c.primary_key
  <2>1. PICK t \in Tables : d = TableOf(t)
    BY <1>1, LoadedIs
  <2>2. PICK n \in OfKind(SourceModel, "column") : n.key[1] = t.key[1] /\ n.attributes.primary_key
    BY DEF Unkeyed, Tables
  <2>3. Column(n, t, plan) \in New.columns
    BY <2>2, NewColumnsAre DEF ColumnsOf, Tables
  <2>4. LET c == Column(n, t, plan)
        IN  c.file = d.file /\ c.class = d.class /\ c.primary_key
    BY <2>1, <2>2 DEF Column, TableOf
  <2> QED
    BY <2>3, <2>4, LoadedIs
<1>2. ASSUME NEW d \in target.tables, NEW e \in target.tables,
             d.file \in target.models, e.file \in target.models, d.table = e.table
      PROVE  d = e
  <2>1. PICK t \in Tables : d = TableOf(t)
    BY <1>2, LoadedIs
  <2>2. PICK other \in Tables : e = TableOf(other)
    BY <1>2, LoadedIs
  <2>3. t.key[1] = other.key[1]
    BY <1>2, <2>1, <2>2 DEF TableOf
  <2>4. (\E name : t.key = <<name>>) /\ \E name : other.key = <<name>>
    BY TablesAre DEF Tables, OfKind, SourceModel
  <2>5. t.key = other.key
    BY <2>3, <2>4
  <2> QED
    BY <2>1, <2>2, <2>5, ClassesAreApart
<1>3. ASSUME NEW c \in target.columns, c.file \in target.models, c.references # None
      PROVE  \E d \in target.columns :
                /\ d.file \in target.models /\ d.table = c.references
                /\ (IF d.column = None THEN d.attribute ELSE d.column) = "id"
  <2>1. PICK t \in Tables : \E n \in ColumnsOf(SourceModel, t) : c = Column(n, t, plan)
    BY <1>3, LoadedIs, NewColumnsAre DEF Tables
  <2>2. PICK n \in ColumnsOf(SourceModel, t) : c = Column(n, t, plan)
    BY <2>1
  <2>3. n.attributes.references = c.references
    BY <2>2 DEF Column
  <2>4. PICK id \in OfKind(SourceModel, "column") : id.key = ColumnKey(c.references, "id")
    BY <1>3, <2>2, <2>3 DEF Unkeyed, ColumnsOf
  <2>5. id.key[1] = c.references /\ id.key[2] = "id"
    BY <2>4 DEF ColumnKey
  <2>6. PICK other \in Tables : other.key[1] = c.references
    <3>1. PICK m \in source.members : \E name : id.key = <<TableName(m), name>>
      BY ColumnsAre DEF OfKind, SourceModel
    <3>2. PICK tb \in SourceModel : tb.kind = "table" /\ tb.key = <<TableName(m)>>
      BY ColumnsAre, TablesAre DEF OfKind, SourceModel
    <3> QED
      BY <2>5, <3>1, <3>2 DEF Tables, OfKind
  <2> DEFINE d == Column(id, other, plan)
  <2>7. d \in New.columns
    BY <2>5, <2>6, NewColumnsAre DEF ColumnsOf, Tables
  <2>8. Snake("id") = "id"
    BY DEF Snake, SnakeNames
  <2>9. /\ d.file = TableOf(other).file /\ d.table = c.references
        /\ d.attribute = "id" /\ d.column = None
    BY <2>5, <2>6, <2>8 DEF Column, TableOf
  <2> HIDE DEF d
  <2> QED
    BY <2>7, <2>9, LoadedIs
<1> QED
  BY <1>1, <1>2, <1>3 DEF TablesLoad, Starts, Loaded

(* "Generate a target skeleton that compiles and boots" (generate.py): whoever
   generates a skeleton for whatever app and layout, over whatever was there, gets
   one that is installed, imported, type-checked, served and answered by its own
   check, but for the reasons that SkeletonBoots names. *)
THEOREM FreshSkeletonsBoot == PlainSegments => (Spec => []SkeletonBoots)
<1> SUFFICES ASSUME PlainSegments
             PROVE  Spec => []SkeletonBoots
  OBVIOUS
<1>1. TargetInv /\ WrittenInv /\ BootInv => SkeletonBoots
  <2> SUFFICES ASSUME TargetInv, WrittenInv, BootInv, written # "no", boot # "outdated", ~ Contested,
                      ~ \E h \in Handlers : h.method = "all",
                      ~ Tangled, ~ Redefined, ~ Unkeyed,
                      target.imports \subseteq Installed,
                      ~ (written = "over" /\ ~ Typechecks(target))
               PROVE  boot = "passed"
    BY DEF SkeletonBoots
  <2>1. /\ Served(target) = RenderRoutes(SourceConcepts(source), GuardFiles(source), plan)
        /\ target.expected = {<<n.attributes.method, n.attributes.path>> : n \in Routes(source)}
    BY ServedIs, NewParts DEF SourceModel, Routes
  <2>2. ASSUME NEW r \in Served(target)
        PROVE  r.method \in RouteMethods
    <3>1. PICK n \in Routes(source) : r = Rendered(source, plan, n)
      BY <2>1, HandlersAre
    <3>2. PICK h \in Handlers : h.method \in HttpMethods /\ n = NestRoute(h)
      BY RoutesAre DEF Handlers
    <3>3. r.method = h.method
      BY <3>1, <3>2, RenderedParts, RouteParts
    <3> QED
      BY <3>2, <3>3 DEF RouteMethods
  <2>3. ASSUME NEW n \in Routes(source)
        PROVE  \E r \in Served(target) : <<n.attributes.method, n.attributes.path>> = <<r.method, r.path>>
    BY <2>1, HandlersAre, RenderedParts
  <2>4. target.expected \subseteq {<<r.method, r.path>> : r \in Served(target)}
    BY <2>1, <2>3
  <2>5. Typechecks(target)
    BY FreshSkeletonTypechecks DEF WrittenInv
  <2>6. ~ Circular(Imports(target)) /\ TablesLoad(target) /\ Starts(target)
    BY NoCircle, SkeletonTablesLoad
  <2>7. Builds(target, Installed)
    BY <2>2, <2>4, <2>5, <2>6 DEF Builds
  <2>8. BootCheck(target, Installed, SourceModel)
    BY <2>6, <2>7, ProbesAreRight DEF BootCheck, Routes, SourceModel
  <2> QED
    BY <2>8 DEF BootInv
<1> QED
  BY <1>1, TranslationInvariant, SkeletonInvariant, PTL

=============================================================================
