--------------------------- MODULE MigrationPolicy ---------------------------
(***************************************************************************)
(* migration/policy.py: which files of the target repository a unit may    *)
(* write, which answers of the LLM are refused before anything is written, *)
(* and when the files on disk count as a finished unit.                    *)
(*                                                                         *)
(* A file is one of the Paths.  Its text is reduced to what the rules and  *)
(* the test suite can tell apart:                                          *)
(*   "absent"  there is no such file                                       *)
(*   "stub"    compiles, but holds a stub marker (or, in a test file, no   *)
(*             test with an assert)                                        *)
(*   "good"    finished, and the suite passes with it                      *)
(*   "bad"     finished, but the build, the type check or a test fails     *)
(*   "invalid" (in an answer only) does not compile or skips its tests     *)
(***************************************************************************)
EXTENDS Naturals, FiniteSets

CONSTANTS
    N,          (* number of units; unit n of the plan has the id "u<n>"      *)
    Paths,      (* files of the target repository that some unit may write    *)
    AppPaths,   (* the ones under app/; the others are under tests/           *)
    Protected,  (* files no unit may write, policy.py PROTECTED               *)
    Target,     (* unit -> target files the plan gives its sources            *)
    OwnTest,    (* unit -> tests/generated/test_<unit>.py                     *)
    TestUnits   (* units all of whose source files are tests                  *)

Units == 1 .. N

ASSUME PlanAssumption ==
    /\ N \in Nat
    /\ AppPaths \subseteq Paths
    /\ Target \in [Units -> SUBSET Paths]
    /\ OwnTest \in [Units -> Paths \ AppPaths]
    /\ TestUnits \subseteq Units

Contents == {"absent", "stub", "good", "bad"}
Trees == [Paths -> Contents]

(* What the LLM may send back: full contents for some of the files. *)
AllAnswers == UNION {[S -> {"stub", "good", "bad", "invalid"}] : S \in SUBSET Paths}
NoFiles == [p \in {} |-> "stub"]

Allowed(u) ==
    (Target[u] \cup (IF u \in TestUnits THEN {} ELSE {OwnTest[u]})) \ Protected

(* No two units may write the same file.  The convention layout does not
   guarantee it: two services of one folder both become app/<folder>/service.py. *)
Disjoint == \A u, v \in Units : u # v => Allowed(u) \cap Allowed(v) = {}

(* Mutated form: the path rule is forgotten. *)
CheckChangeAnyPath(u, files) ==
    /\ DOMAIN files # {}
    /\ \A p \in DOMAIN files : files[p] # "invalid"

(* check_change reports no problem. *)
CheckChange(u, files) ==
    /\ DOMAIN files # {}
    /\ DOMAIN files \subseteq Allowed(u)
    /\ \A p \in DOMAIN files : files[p] # "invalid"

TestFiles(u) == IF u \in TestUnits THEN Target[u] ELSE {OwnTest[u]}

(* check_done reports no problem.  The text of a file the unit may not write,
   or that does not exist, reads as "": no stub marker, but no test either. *)
CheckDone(u, tree) ==
    /\ \A p \in Target[u] \cap AppPaths : p \in Allowed(u) => tree[p] # "stub"
    /\ \A p \in TestFiles(u) : p \in Allowed(u) /\ tree[p] \in {"good", "bad"}

(* What "green" promises about one unit: no stub, real tests, nothing that
   fails the suite. *)
Finished(u, tree) ==
    /\ CheckDone(u, tree)
    /\ \A p \in Allowed(u) : tree[p] # "bad"

=============================================================================
