------------------------------ MODULE Workspace ------------------------------
(***************************************************************************)
(* The throwaway copy of a repository in which the sandbox works           *)
(* (sandbox/workspace.py, repository/local.py), and the two commands that  *)
(* use one copy for many rounds:                                           *)
(*   "baseline"  builds and records the source app, then tests mutants of  *)
(*               its files one after the other (baseline/mutation.py);     *)
(*   "migrate"   installs the target once, then makes the copy match the   *)
(*               target before every check (migration/checker.py).         *)
(*                                                                         *)
(* A file is a sequence of syntax nodes, which is what mutation.py changes.*)
(* Containers may write into the copy at any time a program runs in it.    *)
(***************************************************************************)
EXTENDS Integers, Sequences, FiniteSets

CONSTANTS
    Paths,      (* every path that matters                                    *)
    Ignored,    (* ... with a part in IGNORED_DIRS (dist, .venv, coverage)    *)
    Links,      (* ... that are symlinks in the repository                    *)
    Secret,     (* ... whose last part is in SECRET_FILES                     *)
    SourceFiles, (* sequence of the source files, in the order of their names *)
    Installed,  (* the folder of installed dependencies, an ignored one       *)
    Littered,   (* paths that programs in the container write                 *)
    Repos,      (* the repositories there may be: path -> file                *)
    Versions,   (* what the migration may put into a target file              *)
    Picks,      (* values of --mutants                                        *)
    MaxChanges  (* bound: changes of the target in one run                    *)

Absent == <<>>

Source == {SourceFiles[i] : i \in DOMAIN SourceFiles}

ASSUME WorkspaceAssumption ==
    /\ Ignored \cup Links \cup Secret \cup Source \cup Littered \subseteq Paths
    /\ SourceFiles \in Seq(Paths)
    /\ Source \cap (Ignored \cup Links \cup Secret \cup Littered) = {}
    /\ Installed \in Ignored /\ Installed \notin Littered
    /\ MaxChanges \in Nat /\ Picks \subseteq Nat

Nodes == [type : STRING, text : STRING, parent : STRING]

Swaps == {<<"===", "!==">>, <<"!==", "===">>, <<"==", "!=">>, <<"!=", "==">>,
          <<"<", ">=">>, <<">=", "<">>, <<">", "<=">>, <<"<=", ">">>,
          <<"&&", "||">>, <<"||", "&&">>, <<"and", "or">>, <<"or", "and">>,
          <<"+", "-">>, <<"-", "+">>}

(* Files are syntax trees.  An operator is an anonymous node of tree-sitter: its
   type is its text. *)
ASSUME FilesAssumption ==
    /\ Repos \subseteq [Paths -> Seq(Nodes)]
    /\ \A repo \in Repos : \A f \in Source : \A i \in DOMAIN repo[f] :
          \A swap \in Swaps : repo[f][i].type = swap[1] => repo[f][i].text = swap[1]

VARIABLES
    user,    (* the command                                                   *)
    pick,    (* --mutants                                                     *)
    root,    (* the repository, or the target                                 *)
    copy,    (* the workspace                                                 *)
    linked,  (* ... and its paths that a program made symlinks                *)
    opened,  (* the source files as they were copied                          *)
    dist,    (* the source files that the built app was compiled from         *)
    pc,      (* next step                                                     *)
    todo,    (* mutants still to be tested                                    *)
    kept,    (* bytes of the file of the current mutant, kept for later       *)
    ran,     (* [mutant, outcome, code] of the mutants so far                 *)
    changes  (* changes of the target, see MaxChanges                         *)

vars == <<user, pick, root, copy, linked, opened, dist, pc, todo, kept, ran, changes>>

Points == {"open", "install", "build", "record", "find", "mutant", "rebuild", "test",
           "put_back", "idle", "suite", "over"}

Outcomes == {"killed", "survived", "invalid"}

TypeOK ==
    /\ user \in {"baseline", "migrate"} /\ pick \in Picks
    /\ DOMAIN root = Paths /\ DOMAIN copy = Paths /\ linked \subseteq Littered
    /\ pc \in Points
    /\ \A i \in DOMAIN ran : ran[i].outcome \in Outcomes
    /\ pc \in {"mutant", "rebuild", "test", "put_back"} => user = "baseline"
    /\ pc \in {"rebuild", "test", "put_back"} => todo # <<>>
    /\ changes \in 0 .. MaxChanges

Init ==
    /\ user \in {"baseline", "migrate"}
    /\ pick \in Picks
    /\ root \in Repos
    /\ copy = [p \in Paths |-> Absent]
    /\ linked = {}
    /\ opened = copy
    /\ dist = copy
    /\ pc = "open"
    /\ todo = <<>>
    /\ kept = Absent
    /\ ran = <<>>
    /\ changes = 0

Goto(from, to) == pc = from /\ pc' = to

-----------------------------------------------------------------------------
(* The copy. *)

(* LocalRepository.files of a tree and of the paths that are symlinks in it *)
Files(tree, links) == {p \in Paths \ (Ignored \cup links) : tree[p] # Absent}

Code(tree) == [p \in Source |-> tree[p]]

(* Workspace.__enter__ *)
Open ==
    /\ Goto("open", "install")
    /\ copy' = [p \in Paths |-> IF p \in Files(root, Links) \ Secret THEN root[p] ELSE Absent]
    /\ opened' = copy'
    /\ UNCHANGED <<user, pick, root, linked, dist, todo, kept, ran, changes>>

Installation == <<[type |-> "package", text |-> "package", parent |-> "none"]>>
Litter == <<[type |-> "artifact", text |-> "artifact", parent |-> "none"]>>

(* What a container leaves behind in a tree: nothing, a file of its own, or a
   symlink to a place outside of the copy. *)
WritesInto(tree) ==
    \/ copy' = tree /\ UNCHANGED linked
    \/ \E p \in Littered :
          /\ copy' = [tree EXCEPT ![p] = Litter]
          /\ linked' \in {linked \ {p}, linked \cup {p}}

(* The only step with the network on. *)
Install ==
    /\ Goto("install", IF user = "baseline" THEN "build" ELSE "idle")
    /\ WritesInto([copy EXCEPT ![Installed] = Installation])
    /\ UNCHANGED <<user, pick, root, opened, dist, todo, kept, ran, changes>>

(* __exit__: the copy is deleted, whatever it holds.  A failed build, an app
   that fails, an error of Docker or a Ctrl-C end the command here. *)
Leave ==
    /\ pc \in Points \ {"put_back", "over"}
    /\ pc' = "over"
    /\ copy' = [p \in Paths |-> Absent]
    /\ linked' = {}
    /\ UNCHANGED <<user, pick, root, opened, dist, todo, kept, ran, changes>>

-----------------------------------------------------------------------------
(* The mutants of a file. *)

OperatorParents == {"binary_expression", "comparison_operator", "boolean_operator",
                    "binary_operator"}

BooleanSwaps == {<<"true", "false">>, <<"false", "true">>,
                 <<"True", "False">>, <<"False", "True">>}

(* _mutant_for: the replacements of a node, none or one. *)
Replacements(node) ==
    IF node.type \in {"true", "false"}
    THEN {swap[2] : swap \in {s \in BooleanSwaps : s[1] = node.text}}
    ELSE {swap[2] : swap \in {s \in Swaps : s[1] = node.type /\ node.parent \in OperatorParents}}

(* find_mutants *)
MutantsAt(tree, f, i) ==
    {[file |-> f, at |-> i, text |-> text] : text \in Replacements(tree[f][i])}

Mutants(tree) == UNION {UNION {MutantsAt(tree, f, i) : i \in DOMAIN tree[f]} : f \in Source}

Before(m, n) ==
    LET place(f) == CHOOSE i \in DOMAIN SourceFiles : SourceFiles[i] = f
    IN  place(m.file) < place(n.file) \/ (m.file = n.file /\ m.at < n.at)

(* pick_mutants: a sample, sorted by file and place. *)
Samples(mutants) ==
    LET count == IF pick < Cardinality(mutants) THEN pick ELSE Cardinality(mutants)
    IN  {chosen \in [1 .. count -> mutants] :
            \A i, j \in 1 .. count : i < j => Before(chosen[i], chosen[j])}

Mutated(tree, m) ==
    [tree EXCEPT ![m.file] =
        IF m.at \in DOMAIN @ THEN [@ EXCEPT ![m.at].text = m.text] ELSE @]

-----------------------------------------------------------------------------
(* migrator baseline *)

(* The build compiles the source files into an ignored folder; a failed one may
   leave anything of it. *)
Build ==
    /\ Goto("build", "record")
    /\ dist' = Code(copy)
    /\ WritesInto(copy)
    /\ UNCHANGED <<user, pick, root, opened, todo, kept, ran, changes>>

(* The app runs and is recorded; mutants are for stable baselines only. *)
Record ==
    /\ Goto("record", "find")
    /\ pick > 0
    /\ WritesInto(copy)
    /\ UNCHANGED <<user, pick, root, opened, dist, todo, kept, ran, changes>>

Find ==
    /\ Goto("find", "mutant")
    /\ todo' \in Samples(Mutants(copy))
    /\ UNCHANGED <<user, pick, root, linked, copy, opened, dist, kept, ran, changes>>

(* _apply *)
Apply ==
    /\ Goto("mutant", "rebuild")
    /\ todo # <<>>
    /\ kept' = copy[Head(todo).file]
    /\ copy' = Mutated(copy, Head(todo))
    /\ UNCHANGED <<user, pick, root, linked, opened, dist, todo, ran, changes>>

Result(outcome) ==
    ran' = Append(ran, [mutant |-> Head(todo), outcome |-> outcome, code |-> dist'])

Rebuild ==
    /\ Goto("rebuild", "test")
    /\ dist' = Code(copy)
    /\ WritesInto(copy)
    /\ UNCHANGED <<user, pick, root, opened, todo, kept, ran, changes>>

DoesNotBuild ==
    /\ Goto("rebuild", "put_back")
    /\ dist' \in {dist, Code(copy)}
    /\ Result("invalid")
    /\ WritesInto(copy)
    /\ UNCHANGED <<user, pick, root, opened, todo, kept, changes>>

(* The app fails, or answers differently, or nobody notices. *)
Test ==
    /\ Goto("test", "put_back")
    /\ UNCHANGED dist
    /\ \E outcome \in {"killed", "survived"} : Result(outcome)
    /\ WritesInto(copy)
    /\ UNCHANGED <<user, pick, root, opened, todo, kept, changes>>

(* Mutated form: only mutants that were tested are undone. *)
PutBackTested ==
    /\ Goto("put_back", "mutant")
    /\ copy' = IF ran[Len(ran)].outcome = "invalid" THEN copy
               ELSE [copy EXCEPT ![Head(todo).file] = kept]
    /\ todo' = Tail(todo)
    /\ UNCHANGED <<user, pick, root, linked, opened, dist, kept, ran, changes>>

(* The finally clause of run_mutation_testing. *)
PutBack ==
    /\ Goto("put_back", "mutant")
    /\ copy' = [copy EXCEPT ![Head(todo).file] = kept]
    /\ todo' = Tail(todo)
    /\ UNCHANGED <<user, pick, root, linked, opened, dist, kept, ran, changes>>

-----------------------------------------------------------------------------
(* migrator migrate *)

(* Between two checks the migration writes answers and restores files. *)
ChangeTarget ==
    /\ user = "migrate" /\ pc = "idle"
    /\ changes < MaxChanges
    /\ changes' = changes + 1
    /\ \E p \in Paths \ (Links \cup {Installed}), file \in Versions \cup {Absent} :
          root' = [root EXCEPT ![p] = file]
    /\ UNCHANGED <<user, pick, copy, linked, opened, dist, pc, todo, kept, ran>>

(* Mutated form: files that the target no longer has are not removed. *)
SyncOnlyCopies ==
    /\ Goto("idle", "suite")
    /\ user = "migrate"
    /\ copy' = [p \in Paths |-> IF p \in Files(root, Links) THEN root[p] ELSE copy[p]]
    /\ UNCHANGED <<user, pick, root, linked, opened, dist, todo, kept, ran, changes>>

(* _sync: first the files that the target does not have, then every file it has,
   written through a symlink where there is one.  (Where the write fails, the
   command ends: Leave.) *)
Sync ==
    /\ Goto("idle", "suite")
    /\ user = "migrate"
    /\ copy' = [p \in Paths |->
                  CASE p \in Files(root, Links) -> root[p]
                    [] p \in Files(copy, linked) \ Files(root, Links) -> Absent
                    [] OTHER -> copy[p]]
    /\ UNCHANGED <<user, pick, root, linked, opened, dist, todo, kept, ran, changes>>

Suite ==
    /\ Goto("suite", "idle")
    /\ WritesInto(copy)
    /\ UNCHANGED <<user, pick, root, opened, dist, todo, kept, ran, changes>>

Next ==
    \/ Open \/ Install \/ Leave
    \/ Build \/ Record \/ Find \/ Apply \/ Rebuild \/ DoesNotBuild \/ Test \/ PutBack
    \/ ChangeTarget \/ Sync \/ Suite

Spec == Init /\ [][Next]_vars

-----------------------------------------------------------------------------
(* Properties. *)

(* A verdict on a mutant is about an app that was built from the source files
   with this change and no other, whatever was tested before it
   (run_mutation_testing puts every file back, _test_mutant builds again). *)
OneMutantAtATime ==
    \A i \in DOMAIN ran : ran[i].outcome # "invalid" =>
        /\ ran[i].code = Code(Mutated(opened, ran[i].mutant))
        /\ ran[i].code # Code(opened)

(* When the suite runs, every path outside of the ignored folders is as in the
   target, so that nothing of an earlier attempt or of an earlier suite is
   judged, but for a symlink where the target has nothing: files() does not list
   symlinks, _sync leaves them.  And what was installed at the start is still
   there, although the target may have a folder of that name. *)
CheckJudgesTarget ==
    pc = "suite" =>
        /\ \A p \in Paths \ (Ignored \cup Links) :
              copy[p] = root[p] \/ (p \in linked /\ root[p] = Absent)
        /\ copy[Installed] = Installation

(* checker.py: "Make the workspace match the target repo (installed .venv is
   kept)": a file of the target is what is tested, also where one of its folders
   has an ignored name, such as app/coverage. *)
CheckJudgesEverything ==
    pc = "suite" =>
        \A p \in Paths \ (Links \cup {Installed}) : root[p] # Absent => copy[p] = root[p]

=============================================================================
