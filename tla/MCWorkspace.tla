----------------------------- MODULE MCWorkspace -----------------------------
(***************************************************************************)
(* An instance of Workspace for TLC: two source files with operators that  *)
(* can and cannot be swapped, an .env file, a symlink, a compiled file, a  *)
(* target file in a folder named coverage, and a report that suites write. *)
(***************************************************************************)
EXTENDS Workspace

SomePaths == {"a", "b", ".env", "link", "dist", ".venv", "coverage", "report"}

SomeFiles == <<"a", "b">>

Node(type, parent) == [type |-> type, text |-> type, parent |-> parent]

FileA == <<Node("<", "binary_expression"), Node("<", "type_arguments"), Node("+", "binary_expression")>>
FileB == <<[type |-> "true", text |-> "True", parent |-> "argument"]>>
Other == <<Node("comment", "none")>>

Repo(env, link) ==
    [p \in SomePaths |->
        CASE p = "a" -> FileA [] p = "b" -> FileB
          [] p = ".env" -> env [] p = "link" -> link
          [] p = ".venv" -> Other
          [] OTHER -> Absent]

SomeVersions == {Other, FileB}

SomeRepos == {Repo(Absent, Other), Repo(Other, Absent)}

=============================================================================
