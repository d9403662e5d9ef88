-------------------------- MODULE MigrationHistory --------------------------
(***************************************************************************)
(* What the history of the target repository promises to the person who    *)
(* reviews it, with no process, no attempts and no working tree: every     *)
(* commit settles at most one unit, only a unit that becomes green changes *)
(* code, it changes only its own files, and the suite passes with every    *)
(* commit.  MigrationLoop implements this as long as nobody stops it in    *)
(* the middle of an attempt.                                               *)
(***************************************************************************)
EXTENDS MigrationPolicy

CONSTANT Skeleton

VARIABLES
    files,   (* the files of the last commit                                  *)
    status   (* unit -> its status in the last commit                         *)

historyVars == <<files, status>>

Init ==
    /\ files = Skeleton
    /\ status = [u \in Units |-> "pending"]

NothingToMigrate == {u \in Units : Target[u] = {}}

(* Units without a target file are skipped on the way, without a commit of
   their own. *)
Settle(settled, outcome) ==
    \E S \in SUBSET NothingToMigrate :
        status' = [u \in Units |-> CASE u \in settled -> outcome
                                     [] u \in S -> "skipped"
                                     [] OTHER -> status[u]]

Unsettled(u) == Target[u] # {} /\ status[u] \in {"pending", "blocked"}

CommitGreen(u) ==
    /\ Unsettled(u)
    /\ Settle({u}, "green")
    /\ \A p \in Paths : files'[p] # files[p] => p \in Allowed(u)
    /\ \A p \in Paths : files'[p] # "bad"
    /\ Finished(u, files')

CommitBlocked(u) ==
    /\ Unsettled(u)
    /\ Settle({u}, "blocked")
    /\ UNCHANGED files

CommitState ==
    /\ Settle({}, "skipped")
    /\ UNCHANGED files

Next == CommitState \/ \E u \in Units : CommitGreen(u) \/ CommitBlocked(u)

Spec == Init /\ [][Next]_historyVars

=============================================================================
