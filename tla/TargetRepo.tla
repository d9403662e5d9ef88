----------------------------- MODULE TargetRepo -----------------------------
(***************************************************************************)
(* migration/gitrepo.py and MigrationState.load/save of migration/models.py*)
(* : what is on disk in the target repository.  It survives the process.   *)
(*                                                                         *)
(* The index matters only through the set of paths it holds: a commit is   *)
(* always preceded by `git add -A` with nothing written in between, so it  *)
(* records the working tree, but `git ls-files` also sees what a stopped   *)
(* run staged and never committed.                                         *)
(***************************************************************************)
EXTENDS MigrationPolicy

CONSTANTS
    MaxAttempts,  (* --max-attempts; also bounds the recorded attempts         *)
    Skeleton      (* the files as `migrator skeleton` leaves them: a stub or,  *)
                  (* for routes and models, complete; no unit has a test yet   *)

ASSUME RepoAssumption ==
    /\ MaxAttempts \in Nat
    /\ Skeleton \in [Paths -> {"absent", "stub", "good"}]
    /\ \A p \in Paths : Skeleton[p] = "absent" <=> ~ \E u \in Units : p \in Target[u]

VARIABLES
    repo,     (* .git exists                                                 *)
    tracked,  (* the paths in the git index                                  *)
    head,     (* last commit of the branch: its files and its state.json     *)
    work,     (* the working tree                                            *)
    saved,    (* .migrator/state.json                                        *)
    torn,     (* ... was truncated and not written again                     *)
    reports   (* units with a file .migrator/blocked/<unit>.md               *)

diskVars == <<repo, tracked, head, work, saved, torn, reports>>

Statuses == {"pending", "green", "blocked", "skipped"}

(* UnitState: `tries` is the length of its list of attempts, `commit` says
   whether a commit id is recorded. *)
UnitStates == [status : Statuses, tries : 0 .. MaxAttempts, commit : BOOLEAN]
FreshUnit == [status |-> "pending", tries |-> 0, commit |-> FALSE]
FreshState == [u \in Units |-> FreshUnit]

Commits == [exists : BOOLEAN, files : Trees, state : [Units -> UnitStates]]
NoTree == [p \in Paths |-> "absent"]
NoCommit == [exists |-> FALSE, files |-> NoTree, state |-> FreshState]

DiskTypeOK ==
    /\ repo \in BOOLEAN
    /\ tracked \in SUBSET Paths
    /\ head \in Commits
    /\ work \in Trees
    /\ saved \in [Units -> UnitStates]
    /\ torn \in BOOLEAN
    /\ reports \in SUBSET Units

DiskInit ==
    /\ repo = FALSE
    /\ tracked = {}
    /\ head = NoCommit
    /\ work = Skeleton
    /\ saved = FreshState
    /\ torn = FALSE
    /\ reports = {}

(* ensure(): git init, when there is no .git folder. *)
GitInit ==
    /\ repo' = TRUE
    /\ UNCHANGED <<tracked, head, work, saved, torn, reports>>

(* commit(): first `git add -A`, ... *)
GitAdd ==
    /\ tracked' = {p \in Paths : work[p] # "absent"}
    /\ UNCHANGED <<repo, head, work, saved, torn, reports>>

(* ... then `git commit`, which is left out when nothing differs from HEAD. *)
GitCommit ==
    /\ head' = [exists |-> TRUE, files |-> work, state |-> saved]
    /\ UNCHANGED <<repo, tracked, work, saved, torn, reports>>

(* restore() of one path: `git checkout HEAD -- path` when git tracks it, which
   fails when HEAD does not have it; otherwise the file is deleted. *)
CanRestore(p) == p \in tracked => head.files[p] # "absent"

RestoredFile(p) == IF p \in tracked THEN head.files[p] ELSE "absent"

(* Mutated form: new files are left where they are. *)
RestoreTrackedOnly(p) ==
    /\ work' = [work EXCEPT ![p] = IF p \in tracked THEN head.files[p] ELSE @]
    /\ UNCHANGED <<repo, tracked, head, saved, torn, reports>>

Restore(p) ==
    /\ work' = [work EXCEPT ![p] = RestoredFile(p)]
    /\ UNCHANGED <<repo, tracked, head, saved, torn, reports>>

(* Mutated form: a file is staged as soon as it is written. *)
WriteFileStaged(p, content) ==
    /\ work' = [work EXCEPT ![p] = content]
    /\ tracked' = tracked \cup {p}
    /\ UNCHANGED <<repo, head, saved, torn, reports>>

WriteFile(p, content) ==
    /\ work' = [work EXCEPT ![p] = content]
    /\ UNCHANGED <<repo, tracked, head, saved, torn, reports>>

(* MigrationState.save(): write_text truncates the file, then writes it. *)
SaveState(state) ==
    /\ saved' = state
    /\ torn' = FALSE
    /\ UNCHANGED <<repo, tracked, head, work, reports>>

WriteReport(u) ==
    /\ reports' = reports \cup {u}
    /\ UNCHANGED <<repo, tracked, head, work, saved, torn>>

=============================================================================
