------------------------------ MODULE Recorder ------------------------------
(***************************************************************************)
(* Recording a baseline: baseline/recorder.py plays every scenario against *)
(* the running app and writes down, for every request, the answer and what *)
(* changed in the database; create_baseline does so several times with the *)
(* same app, applies the approved rules, compares the runs and proposes    *)
(* rules for what differs.                                                 *)
(*                                                                         *)
(* The app is another process: it may still write after it has answered.   *)
(* A request is a member of Kinds.  A row is a pair of its table and its   *)
(* id; the rows of the log have no ids and are all alike.                  *)
(***************************************************************************)
EXTENDS TraceCompare, Bags

CONSTANT
    Cases (* what may be recorded: records of a suite (a sequence of          *)
          (* scenarios, which are sequences of requests), approved rules and  *)
          (* the number of --runs                                             *)

(* Requests to which the app does not always give the same answer: status and body. *)
Varying ==
    [clock |-> {[status |-> 200, body |-> Dict([at |-> Leaf(t)])] : t \in Times},
     pause |-> {[status |-> 200, body |-> Dict([at |-> Leaf(t)])] : t \in Times \cup {Null}},
     tags  |-> {[status |-> 200, body |-> List([n \in 1 .. len |-> Leaf(Text("tag"))])] : len \in 1 .. 2},
     maybe |-> {[status |-> 200, body |-> Dict(d)] : d \in {<<>>, [extra |-> Leaf(Text("x"))]}},
     flaky |-> {[status |-> s, body |-> Leaf(Null)] : s \in {200, 500}}]

Kinds == {"create", "remove", "log", "queue", "read", "table"} \cup DOMAIN Varying

ASSUME RecorderAssumption ==
    \A case \in Cases :
        /\ case.suite \in Seq(Seq(Kinds) \ {<<>>})
        /\ \A path \in DOMAIN case.rules : case.rules[path] \in Actions
        /\ case.runs \in Nat

VARIABLES
    case,     (* the suite, the rules and the number of runs                  *)
    pc,       (* next step of the recorder                                    *)
    scenario, (* position in the suite                                        *)
    number,   (* position in the scenario                                     *)
    db,       (* bag of rows                                                  *)
    tables,   (* tables of the database                                       *)
    lastId,   (* the id sequence of the items                                 *)
    queued,   (* writes the app has accepted and not done yet                 *)
    response, (* the last answer                                              *)
    first,    (* snapshot at the start of the scenario                        *)
    before,   (* latest snapshot                                              *)
    steps,    (* observations of this scenario                                *)
    traces,   (* traces of this run                                           *)
    seen,     (* the finished runs, before the rules are applied              *)
    allRuns,  (* the finished runs                                            *)
    schemas,  (* schema at the start of every run                             *)
    proposed, (* proposed rules                                               *)
    status    (* BaselineStatus; "none" while recording, "raised" after an    *)
              (* exception that create_baseline does not catch                *)

appVars == <<db, tables, lastId, queued>>
playVars == <<scenario, number, response, first, before, steps, traces>>
resultVars == <<seen, allRuns, schemas, proposed, status>>
vars == <<case, pc, appVars, playVars, resultVars>>

suite == case.suite

Item(id) == <<"items", id>>
LogRow == <<"log", 0>>

One(row) == SetToBag({row})

Copies(row, bag) == IF BagIn(row, bag) THEN bag[row] ELSE 0

Ids == {id \in 1 .. lastId : BagIn(Item(id), db)}

Init ==
    /\ case \in Cases
    /\ pc = "run"
    /\ scenario = 1 /\ number = 1
    /\ db = EmptyBag /\ tables = {"items", "log"} /\ lastId = 0 /\ queued = 0
    /\ response = [status |-> 200, body |-> Leaf(Null)]
    /\ first = EmptyBag /\ before = EmptyBag
    /\ steps = <<>> /\ traces = <<>>
    /\ seen = <<>> /\ allRuns = <<>> /\ schemas = <<>>
    /\ proposed = <<>>
    /\ status = "none"

Goto(from, to) == pc = from /\ pc' = to

-----------------------------------------------------------------------------
(* record_schema, record_scenario *)

(* The schema at the start of a run, ordered by table. *)
Schema ==
    LET names == IF "extra" \in tables THEN <<"extra", "items", "log">> ELSE <<"items", "log">>
    IN  Dict([columns |-> List([n \in DOMAIN names |-> Leaf(Text(names[n]))]),
              constraints |-> List(<<>>)])

StartRun ==
    /\ pc = "run"
    /\ pc' = IF Len(allRuns) = case.runs THEN "compare"
             ELSE IF suite = <<>> THEN "end" ELSE "reset"
    /\ schemas' = IF Len(allRuns) = case.runs THEN schemas ELSE Append(schemas, Schema)
    /\ scenario' = 1
    /\ traces' = <<>>
    /\ UNCHANGED <<case, appVars, number, response, first, before, steps,
                   seen, allRuns, proposed, status>>

(* Mutated form: TRUNCATE without RESTART IDENTITY. *)
ResetRows ==
    /\ Goto("reset", "snapshot")
    /\ db' = EmptyBag
    /\ UNCHANGED <<case, tables, lastId, queued, playVars, resultVars>>

(* TRUNCATE ... RESTART IDENTITY, one statement.  What the app still has to
   write is not in the tables yet. *)
Reset ==
    /\ Goto("reset", "snapshot")
    /\ db' = EmptyBag
    /\ lastId' = 0
    /\ UNCHANGED <<case, tables, queued, playVars, resultVars>>

FirstSnapshot ==
    /\ Goto("snapshot", "request")
    /\ first' = db
    /\ before' = db
    /\ steps' = <<>>
    /\ number' = 1
    /\ UNCHANGED <<case, appVars, scenario, response, traces, resultVars>>

(* The app answers a request. *)
Answers(code, value) == response' = [status |-> code, body |-> value]

AppCreate ==
    /\ lastId' = lastId + 1
    /\ db' = db (+) One(Item(lastId')) (+) One(LogRow)
    /\ Answers(201, Dict([id |-> Leaf(Number(lastId'))]))
    /\ UNCHANGED <<tables, queued>>

AppRemove ==
    /\ IF Ids = {}
       THEN Answers(404, Leaf(Null)) /\ UNCHANGED db
       ELSE Answers(204, Leaf(Null)) /\ db' = db (-) One(Item(Min(Ids)))
    /\ UNCHANGED <<tables, lastId, queued>>

AppLog ==
    /\ db' = db (+) One(LogRow)
    /\ Answers(200, Leaf(Null))
    /\ UNCHANGED <<tables, lastId, queued>>

(* It answers at once, and writes later. *)
AppQueue ==
    /\ queued' = queued + 1
    /\ Answers(202, Leaf(Null))
    /\ UNCHANGED <<db, tables, lastId>>

AppRead ==
    /\ Answers(200, Leaf(Number(Cardinality(Ids) + Copies(LogRow, db))))
    /\ UNCHANGED appVars

(* It creates a table when it needs it for the first time. *)
AppTable ==
    /\ tables' = tables \cup {"extra"}
    /\ Answers(200, Leaf(Null))
    /\ UNCHANGED <<db, lastId, queued>>

(* The answer is not the same every time. *)
AppVaries(kind) ==
    /\ response' \in Varying[kind]
    /\ UNCHANGED appVars

Answer(kind) ==
    \/ kind = "create" /\ AppCreate
    \/ kind = "remove" /\ AppRemove
    \/ kind = "log" /\ AppLog
    \/ kind = "queue" /\ AppQueue
    \/ kind = "read" /\ AppRead
    \/ kind = "table" /\ AppTable
    \/ kind \in DOMAIN Varying /\ AppVaries(kind)

Request ==
    /\ Goto("request", "observe")
    /\ Answer(suite[scenario][number])
    /\ UNCHANGED <<case, scenario, number, first, before, steps, traces, resultVars>>

(* diff_snapshots: Counters are bags. *)
Diff(old, new) == [answer |-> response, added |-> new (-) old, removed |-> old (-) new]

(* Mutated form: every step is compared with the first snapshot. *)
ObserveFromFirst ==
    /\ Goto("observe", "next")
    /\ steps' = Append(steps, Diff(before, db))
    /\ UNCHANGED <<case, appVars, scenario, number, response, first, before, traces, resultVars>>

(* The snapshot after the request, and what has changed since the last one. *)
Observe ==
    /\ Goto("observe", "next")
    /\ steps' = Append(steps, Diff(before, db))
    /\ before' = db
    /\ UNCHANGED <<case, appVars, scenario, number, response, first, traces, resultVars>>

NextStep ==
    /\ Goto("next", "request")
    /\ number < Len(suite[scenario])
    /\ number' = number + 1
    /\ UNCHANGED <<case, appVars, scenario, response, first, before, steps, traces, resultVars>>

NextScenario ==
    /\ pc = "next"
    /\ number = Len(suite[scenario])
    /\ traces' = Append(traces, steps)
    /\ scenario' = scenario + 1
    /\ pc' = IF scenario < Len(suite) THEN "reset" ELSE "end"
    /\ UNCHANGED <<case, appVars, number, response, first, before, steps, resultVars>>

(* The app does what it has put off, at any time. *)
LateWrite ==
    /\ pc # "done"
    /\ queued > 0
    /\ queued' = queued - 1
    /\ db' = db (+) One(LogRow)
    /\ UNCHANGED <<case, pc, tables, lastId, playVars, resultVars>>

-----------------------------------------------------------------------------
(* create_baseline *)

(* The rows of a table in a bag, ordered by id. *)
RowList(bag, table) ==
    LET last == Max({0} \cup {row[2] : row \in {row \in BagToSet(bag) : row[1] = table}})
    IN  FlattenSeq([n \in 1 .. last + 1 |->
            [c \in 1 .. Copies(<<table, n - 1>>, bag) |-> Dict([id |-> Leaf(Number(n - 1))])]])

(* An observation as a tree: only tables that changed are in `db`. *)
Observation(step) ==
    LET changed == {row[1] : row \in BagToSet(step.added) \cup BagToSet(step.removed)}
        Change(t) == Dict([added |-> List(RowList(step.added, t)),
                           removed |-> List(RowList(step.removed, t))])
    IN  Dict([status |-> Leaf(Number(step.answer.status)),
              body   |-> step.answer.body,
              db     |-> Dict([t \in changed |-> Change(t)])])

(* A run as one sequence of observations. *)
Observations(run) == FlattenSeq([s \in DOMAIN run |-> [n \in DOMAIN run[s] |-> Observation(run[s][n])]])

NormalizeRun(observations, rules) == [n \in DOMAIN observations |-> Normalize(observations[n], rules)]

(* Observation.model_validate: the status must still be a number. *)
StatusIsReplaced == <<"status">> \in DOMAIN case.rules /\ case.rules[<<"status">>] = "ignore"

(* An exception that is not a RuntimeError or an HTTPError. *)
Raise ==
    /\ pc' = "done"
    /\ status' = "raised"
    /\ UNCHANGED <<case, appVars, playVars, seen, allRuns, schemas, proposed>>

EndRun ==
    /\ pc = "end"
    /\ LET observations == Observations(traces)
       IN  IF StatusIsReplaced /\ observations # <<>>
           THEN Raise
           ELSE /\ seen' = Append(seen, observations)
                /\ allRuns' = Append(allRuns, NormalizeRun(observations, case.rules))
                /\ pc' = "run"
                /\ UNCHANGED <<case, appVars, playVars, schemas, proposed, status>>

(* Everything that is compared with the first run, in this order: the schema
   of a run and then its steps. *)
Pairs(runs, shapes) ==
    FlattenSeq([i \in 1 .. Len(runs) - 1 |->
        << <<shapes[1], shapes[i + 1]>> >>
        \o [n \in DOMAIN runs[1] |-> <<runs[1][n], runs[i + 1][n]>>]])

Differ(pairs) == \E n \in DOMAIN pairs : Differences(pairs[n][1], pairs[n][2]) # {}

(* --runs 0 leaves no run to take the traces from: all_runs[0]. *)
Compare ==
    /\ pc = "compare"
    /\ IF allRuns = <<>>
       THEN Raise
       ELSE LET pairs == Pairs(allRuns, schemas)
            IN  /\ pc' = "done"
                /\ status' = IF Differ(pairs) THEN "unstable" ELSE "stable"
                /\ proposed' = ProposeRules(pairs)
                /\ UNCHANGED <<case, appVars, playVars, seen, allRuns, schemas>>

(* A request or a query fails: the app is gone, or slower than the timeout.
   Nothing that was recorded is kept. *)
Fail ==
    /\ pc \in {"run", "reset", "snapshot", "request", "observe"}
    /\ Len(allRuns) < case.runs
    /\ pc' = "done"
    /\ status' = "failed"
    /\ traces' = <<>> /\ seen' = <<>> /\ allRuns' = <<>> /\ schemas' = <<>>
    /\ UNCHANGED <<case, appVars, scenario, number, response, first, before, steps, proposed>>

Next ==
    \/ StartRun \/ Reset \/ FirstSnapshot \/ Request \/ Observe
    \/ NextStep \/ NextScenario \/ EndRun \/ Compare \/ Fail
    \/ LateWrite

Spec == Init /\ [][Next]_vars

-----------------------------------------------------------------------------
(* Properties. *)

UsesOf(kinds) == \E s \in DOMAIN suite : \E n \in DOMAIN suite[s] : suite[s][n] \in kinds

(* What the changes that were recorded make of a snapshot. *)
Replay(snapshot, observations) ==
    LET rows[n \in 0 .. Len(observations)] ==
            IF n = 0 THEN snapshot
            ELSE (rows[n - 1] (-) observations[n].removed) (+) observations[n].added
    IN  rows[Len(observations)]

(* No change between the first and the last snapshot of a scenario is lost or
   counted twice, whenever it happened: replaying the recorded changes on the
   first snapshot gives the last one (diff_snapshots, before = after). *)
EffectsAddUp == pc \in {"request", "observe", "next"} => before = Replay(first, steps)

(* An app that is deterministic, writes before it answers and creates its
   tables when it starts is never called unstable: scenarios and runs leave
   nothing behind for each other, although they share one app and one
   database (record_scenario, Postgres.reset). *)
DeterministicIsStable ==
    ~ UsesOf({"queue", "table"} \cup DOMAIN Varying) => status # "unstable"

RuleAllows(rules, a, b, p) ==
    /\ IsLeaf(a, p) /\ IsLeaf(b, p)
    /\ PathOf(p) \in DOMAIN rules
    /\ rules[PathOf(p)] = "timestamp" => LooksLikeTimestamp(a, p) /\ LooksLikeTimestamp(b, p)

(* "We never hide a surprise" (normalize.py): when the runs are called stable,
   what was really seen differs in single values only, each at a path for
   which a human approved a rule, and under a "timestamp" rule only where both
   values are times. *)
NothingHidden ==
    status = "stable" =>
        \A i \in DOMAIN seen :
            /\ schemas[i] = schemas[1]
            /\ \A n \in DOMAIN seen[1] :
                  \A p \in Differences(seen[1][n], seen[i][n]) :
                      RuleAllows(case.rules, seen[1][n], seen[i][n], p)

(* A rule can replace a value.  It cannot replace a list or an object, a key
   that is missing in one run, or anything of the schema. *)
OutOfReach(a, b, p) == ~ (IsLeaf(a, p) /\ IsLeaf(b, p))

(* The rules once every proposed one is approved. *)
Approved ==
    [path \in DOMAIN proposed \cup DOMAIN case.rules |->
        IF path \in DOMAIN proposed THEN proposed[path] ELSE case.rules[path]]

(* What a human gets from approving every proposed rule ("Anything still
   unstable ... needs a human-approved rule", docs/architecture.md): the same
   runs then differ only where no rule can help, or where a path had two times
   in the first pair that differs and something else in a later one. *)
ApprovedRulesSettle ==
    status = "unstable" =>
        \A i \in DOMAIN seen : \A n \in DOMAIN seen[1] :
            LET again == Normalize(seen[1][n], Approved)
                other == Normalize(seen[i][n], Approved)
            IN  \A p \in Differences(again, other) :
                    \/ OutOfReach(again, other, p)
                    \/ /\ Approved[PathOf(p)] = "timestamp"
                       /\ \E j \in DOMAIN seen : \E m \in DOMAIN seen[1] :
                          \E q \in Differences(seen[1][m], seen[j][m]) :
                             /\ PathOf(q) = PathOf(p)
                             /\ LooksLikeTimestamp(seen[1][m], q)
                             /\ LooksLikeTimestamp(seen[j][m], q)

=============================================================================
