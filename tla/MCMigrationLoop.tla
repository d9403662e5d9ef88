--------------------------- MODULE MCMigrationLoop ---------------------------
(***************************************************************************)
(* Instances of MigrationLoop for TLC: two plans, the answers the LLM may  *)
(* give in each, and the sets of steps before which a run may be stopped.  *)
(***************************************************************************)
EXTENDS MigrationLoop, TLC

(* Four units whose targets meet: units 2 and 3 both become parts of
   app/services.py, unit 3 also contains the protected app/database.py, unit 1
   has no target at all and unit 4 is a test unit. *)
SharedPaths == {"users", "services", "database", "test1", "test2", "test3", "ported"}
SharedApp == {"users", "services", "database"}
SharedTarget == <<{}, {"users", "services"}, {"services", "database"}, {"ported"}>>
SharedOwnTest == <<"test1", "test2", "test3", "test3">>
SharedSkeleton ==
    [p \in SharedPaths |->
        CASE p = "database" -> "good"
          [] p \in {"users", "services", "ported"} -> "stub"
          [] OTHER -> "absent"]

SharedAnswers == {
    "users" :> "good" @@ "services" :> "good" @@ "test2" :> "good",
    "users" :> "good" @@ "test2" :> "good",
    "users" :> "bad" @@ "services" :> "good" @@ "test2" :> "good",
    "services" :> "good" @@ "test3" :> "good",
    "services" :> "bad" @@ "test3" :> "good",
    "services" :> "stub" @@ "test3" :> "good",
    "database" :> "bad" @@ "services" :> "good" @@ "test3" :> "good",
    "ported" :> "good", "ported" :> "bad", "ported" :> "invalid", NoFiles}

SharedSelections == {{}, {3}, {1, 2, 4}}

(* Two units with a file and a test each. *)
PairPaths == {"users", "orders", "database", "test1", "test2"}
PairApp == {"users", "orders", "database"}
PairTarget == <<{"users", "database"}, {"orders"}>>
PairOwnTest == <<"test1", "test2">>
PairSkeleton ==
    [p \in PairPaths |->
        CASE p = "database" -> "good"
          [] p \in {"users", "orders"} -> "stub"
          [] OTHER -> "absent"]

PairAnswers == {
    "users" :> "good" @@ "test1" :> "good",
    "users" :> "bad" @@ "test1" :> "good",
    "users" :> "stub" @@ "test1" :> "stub",
    "database" :> "good" @@ "users" :> "good" @@ "test1" :> "good",
    "database" :> "bad" @@ "users" :> "good" @@ "test1" :> "good",
    "orders" :> "good" @@ "test2" :> "good",
    "orders" :> "bad" @@ "test2" :> "good"}

PairSelections == {{}, {2}}
EveryUnit == {{}}

DatabaseProtected == {"database"}
NoPoints == {}
BeforeFirstAdd == {"first_add"}
RunPoints == Points \ {"init", "first_add", "first_commit"}

=============================================================================
