---------------------------- MODULE MigrationPlan ----------------------------
(***************************************************************************)
(* From a repository to its migration plan: analysis/analyzer.py finds the *)
(* imports (ImportGraph), analysis/graph.py groups and orders the files,   *)
(* planning/units.py makes a unit of every group, planning/planner.py gives every file a target,   *)
(* by convention or, when planning/llm_mapping.py accepts its answer, by   *)
(* the LLM.                                                                *)
(*                                                                         *)
(* Files are numbers in the order of their names.  Targets are told apart  *)
(* as far as validate_mapping does: no target, app/main.py, another file   *)
(* under app/, a file under tests/, or a path that is not valid.           *)
(***************************************************************************)
EXTENDS ImportGraph

CONSTANTS
    Repos,   (* the repositories, as ImportGraph describes them; roles is the
                set of roles that its concepts give each file                 *)
    Asking,  (* values of "an LLM is asked for the mapping"                   *)
    Answers  (* what it may answer                                            *)

(* When a file has several roles, the first one of ROLE_ORDER wins. *)
RoleOrder == <<"test", "entrypoint", "api", "model", "schema", "guard", "service",
               "wiring", "config", "utility">>

Roles == {RoleOrder[i] : i \in DOMAIN RoleOrder}

Targets == {"none", "main", "app", "tests", "invalid"}

ASSUME PlanAssumption ==
    /\ \A repo \in Repos :
          /\ Len(repo.path) \in Nat /\ DOMAIN repo.path = 1 .. Len(repo.path)
          /\ repo.roles \in [DOMAIN repo.path -> SUBSET Roles]
          /\ repo.skipped \subseteq DOMAIN repo.path
          /\ \A s \in repo.statements : s.file \in DOMAIN repo.path /\ s.level \in Nat
          /\ \A f, g \in DOMAIN repo.path : repo.path[f] = repo.path[g] => f = g
    /\ Asking \subseteq BOOLEAN
    /\ Answers \subseteq [files : Seq(Nat \X Targets), riskUnits : SUBSET Nat]

VARIABLES
    repo,     (* the repository                                               *)
    nodes,    (* files in the graph                                           *)
    edges,    (* <<importer, imported>>, for every import that was resolved   *)
    asking,   (* an LLM client was given                                      *)
    pc,       (* next step                                                    *)
    groups,   (* strongly connected components                                *)
    order,    (* migration_order: groups of files                             *)
    unitOf,   (* file -> number of its unit, 0 for none yet                   *)
    depends,  (* unit -> the units it depends on                              *)
    target,   (* file -> target                                               *)
    attempt,  (* how often the LLM was asked                                  *)
    answer,   (* its last answer                                              *)
    mappedBy  (* "convention" or "llm"                                        *)

source == <<repo, nodes, edges>>

vars == <<source, groups, asking, pc, order, unitOf, depends, target, attempt, answer,
          mappedBy>>

Files == DOMAIN repo.path

Points == {"graph", "order", "units", "layout", "ask", "validate", "check", "done", "raised"}

NoAnswer == [files |-> <<>>, riskUnits |-> {}]

TypeOK ==
    /\ repo \in Repos
    /\ nodes \subseteq Files
    /\ edges \subseteq nodes \X nodes
    /\ groups \subseteq SUBSET Files
    /\ asking \in BOOLEAN
    /\ pc \in Points
    /\ order \in Seq(SUBSET Files)
    /\ unitOf \in [Files -> 0 .. Len(order)]
    /\ depends \in Seq(SUBSET Nat)
    /\ target \in [Files -> Targets]
    /\ attempt \in 0 .. 2
    /\ answer \in Answers \cup {NoAnswer}
    /\ mappedBy \in {"convention", "llm"}

(* The repository was analyzed: files that cannot be read are left out, and are
   nodes of the graph only when others import them. *)
Init ==
    /\ repo \in Repos
    /\ nodes = GraphNodes(repo)
    /\ edges = ImportEdges(repo)
    /\ asking \in Asking
    /\ pc = "graph"
    /\ groups = {}
    /\ order = <<>>
    /\ unitOf = [f \in Files |-> 0]
    /\ depends = <<>>
    /\ target = [f \in Files |-> "none"]
    /\ attempt = 0
    /\ answer = NoAnswer
    /\ mappedBy = "convention"

Goto(from, to) == pc = from /\ pc' = to

-----------------------------------------------------------------------------
Dependencies(f) == {g \in nodes : <<f, g>> \in edges}

Closed(S) == \A f \in S : Dependencies(f) \subseteq S

Reaches(f, g) == \A S \in SUBSET nodes : f \in S /\ Closed(S) => g \in S

(* Strongly connected components: files that need each other. *)
Group(f) == {g \in nodes : Reaches(f, g) /\ Reaches(g, f)}

(* Mutated form: weakly connected components, the direction is forgotten. *)
CondenseWeakly ==
    /\ Goto("graph", "order")
    /\ groups' = {{g \in nodes : \A S \in SUBSET nodes :
                       f \in S /\ Closed(S) /\ Closed(nodes \ S) => g \in S} : f \in nodes}
    /\ UNCHANGED <<source, asking, order, unitOf, depends, target, attempt, answer, mappedBy>>

Condense ==
    /\ Goto("graph", "order")
    /\ groups' = {Group(f) : f \in nodes}
    /\ UNCHANGED <<source, asking, order, unitOf, depends, target, attempt, answer, mappedBy>>

Placed == UNION {order[i] : i \in DOMAIN order}

Waiting == {group \in groups : group \cap Placed = {}}

(* Mutated form: the files are ordered one by one, not as a group. *)
ReadyOneByOne == {group \in Waiting : \A f \in group : Dependencies(f) \subseteq Placed}

(* A group is ready when everything it imports is in an earlier group. *)
Ready == {group \in Waiting : \A f \in group : Dependencies(f) \subseteq Placed \cup group}

First(group) == CHOOSE f \in group : \A g \in group : f <= g

(* lexicographical_topological_sort: of all groups that are ready, the one
   whose first file comes first. *)
PlaceGroup ==
    /\ pc = "order"
    /\ \E group \in Ready :
          /\ \A other \in Ready : First(group) <= First(other)
          /\ order' = Append(order, group)
    /\ UNCHANGED <<source, groups, asking, pc, unitOf, depends, target, attempt, answer,
                   mappedBy>>

Ordered ==
    /\ Goto("order", "units")
    /\ Waiting = {}
    /\ UNCHANGED <<source, groups, asking, order, unitOf, depends, target, attempt, answer,
                   mappedBy>>

-----------------------------------------------------------------------------
(* build_units *)

(* A dependency that has no unit yet is left out. *)
BuildUnit ==
    /\ pc = "units"
    /\ Len(depends) < Len(order)
    /\ LET number == Len(depends) + 1
           group  == order[number]
       IN  /\ unitOf' = [f \in Files |-> IF f \in group THEN number ELSE unitOf[f]]
           /\ depends' = Append(depends,
                  {unitOf'[g] : g \in UNION {Dependencies(f) : f \in group}} \ {0, number})
    /\ UNCHANGED <<source, groups, asking, pc, order, target, attempt, answer, mappedBy>>

UnitsBuilt ==
    /\ Goto("units", "layout")
    /\ Len(depends) = Len(order)
    /\ UNCHANGED <<source, groups, asking, order, unitOf, depends, target, attempt, answer,
                   mappedBy>>

Role(f) ==
    IF repo.roles[f] = {} THEN "utility"
    ELSE RoleOrder[CHOOSE i \in DOMAIN RoleOrder :
             /\ RoleOrder[i] \in repo.roles[f]
             /\ \A j \in 1 .. i - 1 : RoleOrder[j] \notin repo.roles[f]]

(* fastapi_target *)
Convention(role) ==
    CASE role = "wiring" -> "none"
      [] role = "entrypoint" -> "main"
      [] role = "test" -> "tests"
      [] OTHER -> "app"

Layout ==
    /\ Goto("layout", IF asking THEN "ask" ELSE "check")
    /\ target' = [f \in Files |-> Convention(Role(f))]
    /\ UNCHANGED <<source, groups, asking, order, unitOf, depends, attempt, answer, mappedBy>>

-----------------------------------------------------------------------------
(* llm_mapping *)

Ask ==
    /\ Goto("ask", "validate")
    /\ answer' \in Answers
    /\ attempt' = attempt + 1
    /\ UNCHANGED <<source, groups, asking, order, unitOf, depends, target, mappedBy>>

(* LLMError: the convention stays. *)
AskFails ==
    /\ Goto("ask", "check")
    /\ attempt' = attempt + 1
    /\ UNCHANGED <<source, groups, asking, order, unitOf, depends, target, answer, mappedBy>>

Sources == {answer.files[i][1] : i \in DOMAIN answer.files}

(* Every source file once, and no other. *)
ValidFiles ==
    /\ Sources = nodes
    /\ Len(answer.files) = Cardinality(Sources)

ValidTarget(role, t) ==
    /\ t # "invalid"
    /\ t = "none" => role = "wiring"
    /\ role = "entrypoint" /\ t # "none" => t = "main"
    /\ t # "none" => (role = "test" <=> t = "tests")

(* Mutated form: only the shape of a path is looked at. *)
ValidShapes ==
    /\ ValidFiles
    /\ \A i \in DOMAIN answer.files : answer.files[i][2] # "invalid"
    /\ answer.riskUnits \subseteq 1 .. Len(depends)

(* validate_mapping finds no problem. *)
Valid ==
    /\ ValidFiles
    /\ \A i \in DOMAIN answer.files :
          ValidTarget(Role(answer.files[i][1]), answer.files[i][2])
    /\ answer.riskUnits \subseteq 1 .. Len(depends)

Adopt ==
    /\ Goto("validate", "check")
    /\ Valid
    /\ target' = [f \in Files |-> answer.files[CHOOSE i \in DOMAIN answer.files :
                                                  answer.files[i][1] = f][2]]
    /\ mappedBy' = "llm"
    /\ UNCHANGED <<source, groups, asking, order, unitOf, depends, attempt, answer>>

(* One retry, then the convention stays. *)
Reject ==
    /\ Goto("validate", IF attempt < 2 THEN "ask" ELSE "check")
    /\ ~ Valid
    /\ UNCHANGED <<source, groups, asking, order, unitOf, depends, target, attempt, answer,
                   mappedBy>>

(* check_order: a unit that comes before one it depends on is an error. *)
CheckOrder ==
    /\ Goto("check", IF \A u \in DOMAIN depends : depends[u] \subseteq 1 .. u - 1
                     THEN "done" ELSE "raised")
    /\ UNCHANGED <<source, groups, asking, order, unitOf, depends, target, attempt, answer,
                   mappedBy>>

Next ==
    \/ Condense \/ PlaceGroup \/ Ordered
    \/ BuildUnit \/ UnitsBuilt \/ Layout
    \/ Ask \/ AskFails \/ Adopt \/ Reject
    \/ CheckOrder

Spec == Init /\ [][Next]_vars /\ WF_vars(Next)

-----------------------------------------------------------------------------
(* Properties. *)

ComesBefore(f, g) ==
    unitOf[f] # unitOf[g] => unitOf[f] \in 1 .. unitOf[g] - 1 /\ unitOf[f] \in depends[unitOf[g]]

(* TypeScript: the file of that very name hides one that tsc looks for before it, or
   one with an extension that tsc does not look for hides a folder. *)
Hidden(s) ==
    LET base   == Base(repo, s)
        before == FirstOf(repo, Rewritten(base) \o SubSeq(Extended(base), 1, 2))
    IN  /\ base # <<>>
        /\ \/ At(repo, base) # {} /\ before # {}
           \/ /\ At(repo, base) = {} /\ before = {}
              /\ \E i \in 3 .. Len(SourceExtensions) : At(repo, Extended(base)[i]) # {}

(* Three kinds of import lose what they use, without a warning.  Python: `from app
   import models, create_app` with app/models.py is an import of app/models.py
   only, and not of app/__init__.py that defines create_app.  TypeScript: "./x.js"
   is the generated x.js when that lies beside x.ts, and "./x" is x.js rather than
   the folder x with its index.ts. *)
Lost(s) ==
    IF IsPython(repo.path[s.file])
    THEN IF \E n \in s.names : FileOf(repo, s, Append(PythonModule(repo, s), <<n>>)) # {}
         THEN FileOf(repo, s, PythonModule(repo, s)) ELSE {}
    ELSE IF Hidden(s) THEN Uses(repo, s) ELSE {}

(* units.py: "nothing is migrated before the things it uses": the file that an
   import takes its names from, in its language, is in the same unit or in an
   earlier one, and then depends_on names that unit; or the analyzer warned of the
   import (architecture.md: "No silent failure"); or it is one of the three above. *)
DependenciesFirst ==
    pc = "done" =>
        \A s \in ParsedStatements(repo) \ Warned(repo) :
            \A f \in Uses(repo, s) \ Lost(s) : ComesBefore(f, s.file)

(* Files are in one unit exactly when they need each other (units.py: "one
   strongly connected group"), and no file is left out. *)
UnitsAreCycles ==
    pc = "done" =>
        /\ \A f \in nodes : unitOf[f] # 0
        /\ \A f, g \in nodes : unitOf[f] = unitOf[g] <=> g \in Group(f)

(* Whoever made the mapping, every file has a target that its role allows; only
   module wiring has none (llm_mapping.py: the "answer is checked by code"). *)
EveryFileHasItsTarget ==
    pc \in {"check", "done"} => \A f \in nodes : ValidTarget(Role(f), target[f])

(* planner.py: a wrong order "means a bug in our code".  There is always a plan:
   the order never gets stuck on a cycle, and refused answers come to an end. *)
PlanIsMade == <>(pc = "done")

=============================================================================
