---------------------------- MODULE MigrationLoop ----------------------------
(***************************************************************************)
(* `migrator migrate`: migration/loop.py over the target repository.       *)
(*                                                                         *)
(* One process walks the units in plan order.  For each unit it asks the   *)
(* LLM, checks the answer, writes it, lets the sandbox judge the working   *)
(* tree, and commits or tries again; after MaxAttempts it blocks the unit. *)
(* Every write to the disk is a step of its own, because the process may   *)
(* be stopped between any two of them and started again later.  The LLM    *)
(* and the sandbox are the environment: any answer, any failure.           *)
(***************************************************************************)
EXTENDS TargetRepo

CONSTANTS
    Answers,     (* the answers the LLM may give                              *)
    Selections,  (* values of --units; {} stands for "all units"              *)
    MaxCrashes,  (* bound: how many times the process is stopped midway       *)
    CrashPoints, (* bound: the steps before which it may be stopped           *)
    MayTear      (* bound: a stop may hit write_text of state.json halfway    *)

VARIABLES
    pc,       (* the next step of the process; "idle" when there is none      *)
    cur,      (* position in the plan                                         *)
    mem,      (* MigrationState in memory                                     *)
    answer,   (* files of the LLM's last usable answer                        *)
    todo,     (* paths the current restore or write has still to do           *)
    only,     (* --units of this run                                          *)
    raised,   (* the last run died of an error in git or in state.json        *)
    crashes   (* how often the process was stopped, see MaxCrashes, and       *)
              (* whether it ever was between the two steps of a commit        *)

procVars == <<pc, cur, mem, answer, todo, only, raised>>
vars == <<diskVars, procVars, crashes>>

(* Steps whose action is a state.save(). *)
SavePoints == {"skip", "failed", "green", "stamp", "blocked"}

Points == SavePoints \cup
    {"init", "first_add", "first_commit", "load", "open", "pick", "ask",
     "restore", "write", "check", "green_add", "green_commit", "unwind",
     "report", "blocked_add", "blocked_commit", "end_commit"}

(* Between `git add -A` and `git commit`. *)
CommitPoints == {"first_commit", "green_commit", "blocked_commit", "end_commit"}

ASSUME LoopAssumption ==
    /\ Answers \subseteq AllAnswers
    /\ Selections \subseteq SUBSET Units
    /\ MaxCrashes \in Nat
    /\ CrashPoints \subseteq Points
    /\ MayTear \in BOOLEAN

TypeOK ==
    /\ DiskTypeOK
    /\ pc \in Points \cup {"idle"}
    /\ cur \in 0 .. N + 1
    /\ mem \in [Units -> UnitStates]
    /\ answer \in AllAnswers
    /\ todo \in SUBSET Paths
    /\ only \in SUBSET Units
    /\ raised \in BOOLEAN
    /\ crashes \in [count : 0 .. MaxCrashes, inCommit : BOOLEAN]

Init ==
    /\ DiskInit
    /\ pc = "idle"
    /\ cur = 0
    /\ mem = FreshState
    /\ answer = NoFiles
    /\ todo = {}
    /\ only = {}
    /\ raised = FALSE
    /\ crashes = [count |-> 0, inCommit |-> FALSE]

Goto(from, to) == pc = from /\ pc' = to

(* The process ends and forgets everything that is not on disk. *)
Exit(error) ==
    /\ pc' = "idle"
    /\ cur' = 0
    /\ mem' = FreshState
    /\ answer' = NoFiles
    /\ todo' = {}
    /\ only' = {}
    /\ raised' = error

-----------------------------------------------------------------------------
(* run_migration: git history, saved state, sandbox, then the units.  *)

Start ==
    /\ Goto("idle", IF repo THEN "load" ELSE "init")
    /\ only' \in Selections
    /\ raised' = FALSE
    /\ UNCHANGED <<diskVars, cur, mem, answer, todo, crashes>>

EnsureInit ==
    /\ Goto("init", "first_add")
    /\ GitInit
    /\ UNCHANGED <<cur, mem, answer, todo, only, raised, crashes>>

EnsureAdd ==
    /\ Goto("first_add", "first_commit")
    /\ GitAdd
    /\ UNCHANGED <<cur, mem, answer, todo, only, raised, crashes>>

EnsureCommit ==
    /\ Goto("first_commit", "load")
    /\ GitCommit
    /\ UNCHANGED <<cur, mem, answer, todo, only, raised, crashes>>

(* A truncated state.json does not validate, and the run ends there. *)
Load ==
    \/ /\ ~ torn
       /\ Goto("load", "open")
       /\ mem' = saved
       /\ UNCHANGED <<diskVars, cur, answer, todo, only, raised, crashes>>
    \/ /\ torn
       /\ pc = "load"
       /\ Exit(TRUE)
       /\ UNCHANGED <<diskVars, crashes>>

(* SandboxChecker(...): install the target's dependencies in its workspace. *)
OpenChecker ==
    /\ Goto("open", "pick")
    /\ cur' = 1
    /\ UNCHANGED <<diskVars, mem, answer, todo, only, raised, crashes>>

OpenFails ==
    /\ pc = "open"
    /\ Exit(FALSE)
    /\ UNCHANGED <<diskVars, crashes>>

Selected(u) == only = {} \/ u \in only

(* Mutated form: a green unit is done again. *)
SettledSkippedOnly(u) == mem[u].status = "skipped"

Settled(u) == mem[u].status \in {"green", "skipped"}

PassOver ==
    /\ pc = "pick"
    /\ cur \in Units
    /\ ~ Selected(cur) \/ Settled(cur)
    /\ cur' = cur + 1
    /\ UNCHANGED <<diskVars, pc, mem, answer, todo, only, raised, crashes>>

SkipUnit ==
    /\ Goto("pick", "skip")
    /\ cur \in Units
    /\ Selected(cur) /\ ~ Settled(cur)
    /\ Target[cur] = {}
    /\ mem' = [mem EXCEPT ![cur].status = "skipped"]
    /\ UNCHANGED <<diskVars, cur, answer, todo, only, raised, crashes>>

SaveSkipped ==
    /\ Goto("skip", "pick")
    /\ SaveState(mem)
    /\ cur' = cur + 1
    /\ UNCHANGED <<mem, answer, todo, only, raised, crashes>>

(* Mutated form: the last attempt is left out. *)
NextAttemptOneLess(tries) ==
    IF tries + 1 < MaxAttempts
    THEN pc' = "ask" /\ todo' = {}
    ELSE pc' = "unwind" /\ todo' = Allowed(cur)

(* Mutated form: the unit's files stay as the last attempt left them. *)
NextAttemptNoUnwind(tries) ==
    /\ todo' = {}
    /\ pc' = IF tries < MaxAttempts THEN "ask" ELSE "unwind"

(* With --max-attempts 0 the unit is blocked without a single attempt. *)
NextAttempt(tries) ==
    IF tries < MaxAttempts
    THEN pc' = "ask" /\ todo' = {}
    ELSE pc' = "unwind" /\ todo' = Allowed(cur)

(* Mutated form: the attempts of an earlier run still count. *)
StartUnitKeepTries ==
    /\ pc = "pick"
    /\ cur \in Units
    /\ Selected(cur) /\ ~ Settled(cur)
    /\ Target[cur] # {}
    /\ NextAttempt(0)
    /\ UNCHANGED <<diskVars, cur, mem, answer, only, raised, crashes>>

StartUnit ==
    /\ pc = "pick"
    /\ cur \in Units
    /\ Selected(cur) /\ ~ Settled(cur)
    /\ Target[cur] # {}
    /\ mem' = [mem EXCEPT ![cur].tries = 0]
    /\ NextAttempt(0)
    /\ UNCHANGED <<diskVars, cur, answer, only, raised, crashes>>

EndAdd ==
    /\ Goto("pick", "end_commit")
    /\ cur = N + 1
    /\ GitAdd
    /\ UNCHANGED <<cur, mem, answer, todo, only, raised, crashes>>

(* Mutated form: only green and blocked units are committed. *)
EndCommitNothing ==
    /\ pc = "end_commit"
    /\ Exit(FALSE)
    /\ UNCHANGED <<diskVars, crashes>>

EndCommit ==
    /\ pc = "end_commit"
    /\ GitCommit
    /\ Exit(FALSE)
    /\ UNCHANGED crashes

-----------------------------------------------------------------------------
(* _migrate_unit and _try_change: one attempt.  An attempt is on the list
   before the LLM is asked. *)

(* Mutated form: the attempt is not put on the list. *)
OneMoreTryUncounted == mem' = mem

OneMoreTry == mem' = [mem EXCEPT ![cur].tries = @ + 1]

(* llm.structured raises LLMError. *)
AskFails ==
    /\ Goto("ask", "failed")
    /\ OneMoreTry
    /\ UNCHANGED <<diskVars, cur, answer, todo, only, raised, crashes>>

(* check_change comes first: a refused answer leaves the files as they are. *)
AskRefused ==
    /\ Goto("ask", "failed")
    /\ \E a \in Answers : ~ CheckChange(cur, a)
    /\ OneMoreTry
    /\ UNCHANGED <<diskVars, cur, answer, todo, only, raised, crashes>>

(* Mutated form: the answer is written over what the last attempt left. *)
AskAcceptedNoRestore ==
    /\ Goto("ask", "restore")
    /\ \E a \in Answers : CheckChange(cur, a) /\ answer' = a
    /\ OneMoreTry
    /\ todo' = {}
    /\ UNCHANGED <<diskVars, cur, only, raised, crashes>>

AskAccepted ==
    /\ Goto("ask", "restore")
    /\ \E a \in Answers : CheckChange(cur, a) /\ answer' = a
    /\ OneMoreTry
    /\ todo' = Allowed(cur)
    /\ UNCHANGED <<diskVars, cur, only, raised, crashes>>

(* GitRepo.restore, for an attempt ("restore") or for a unit given up
   ("unwind").  A failing `git checkout` ends the run. *)
RestorePath ==
    /\ pc \in {"restore", "unwind"}
    /\ \E p \in todo :
          \/ /\ CanRestore(p)
             /\ Restore(p)
             /\ todo' = todo \ {p}
             /\ UNCHANGED <<pc, cur, mem, answer, only, raised>>
          \/ /\ ~ CanRestore(p)
             /\ Exit(TRUE)
             /\ UNCHANGED diskVars
    /\ UNCHANGED crashes

Restored ==
    /\ Goto("restore", "write")
    /\ todo = {}
    /\ todo' = DOMAIN answer
    /\ UNCHANGED <<diskVars, cur, mem, answer, only, raised, crashes>>

WriteAnswer ==
    /\ pc = "write"
    /\ \E p \in todo : WriteFile(p, answer[p]) /\ todo' = todo \ {p}
    /\ UNCHANGED <<pc, cur, mem, answer, only, raised, crashes>>

(* Mutated form: nobody looks for stubs and missing tests. *)
WrittenUnchecked ==
    /\ Goto("write", "check")
    /\ todo = {}
    /\ UNCHANGED <<diskVars, cur, mem, answer, todo, only, raised, crashes>>

Written ==
    /\ pc = "write"
    /\ todo = {}
    /\ pc' = IF CheckDone(cur, work) THEN "check" ELSE "failed"
    /\ UNCHANGED <<diskVars, cur, mem, answer, todo, only, raised, crashes>>

(* The sandbox builds and tests a copy of the working tree. *)
SuitePasses == \A p \in Paths : work[p] # "bad"

(* Mutated form: the answer of the sandbox is not looked at. *)
CheckGreenAlways ==
    /\ Goto("check", "green")
    /\ mem' = [mem EXCEPT ![cur].status = "green"]
    /\ UNCHANGED <<diskVars, cur, answer, todo, only, raised, crashes>>

CheckGreen ==
    /\ Goto("check", "green")
    /\ SuitePasses
    /\ mem' = [mem EXCEPT ![cur].status = "green"]
    /\ UNCHANGED <<diskVars, cur, answer, todo, only, raised, crashes>>

(* A sound tree may fail too: a timeout, or the memory limit. *)
CheckRed ==
    /\ Goto("check", "failed")
    /\ UNCHANGED <<diskVars, cur, mem, answer, todo, only, raised, crashes>>

SaveFailed ==
    /\ pc = "failed"
    /\ SaveState(mem)
    /\ NextAttempt(mem[cur].tries)
    /\ UNCHANGED <<cur, mem, answer, only, raised, crashes>>

-----------------------------------------------------------------------------
(* The end of a unit: green, or blocked.  *)

(* Mutated form: the commit comes first, the status is saved after it. *)
SaveGreenLate ==
    /\ Goto("green", "green_add")
    /\ UNCHANGED <<diskVars, cur, mem, answer, todo, only, raised, crashes>>

SaveGreen ==
    /\ Goto("green", "green_add")
    /\ SaveState(mem)
    /\ UNCHANGED <<cur, mem, answer, todo, only, raised, crashes>>

GreenAdd ==
    /\ Goto("green_add", "green_commit")
    /\ GitAdd
    /\ UNCHANGED <<cur, mem, answer, todo, only, raised, crashes>>

GreenCommit ==
    /\ Goto("green_commit", "stamp")
    /\ GitCommit
    /\ mem' = [mem EXCEPT ![cur].commit = TRUE]
    /\ UNCHANGED <<cur, answer, todo, only, raised, crashes>>

(* The commit id is saved, and reaches git with the next commit. *)
SaveStamp ==
    /\ Goto("stamp", "pick")
    /\ SaveState(mem)
    /\ cur' = cur + 1
    /\ UNCHANGED <<mem, answer, todo, only, raised, crashes>>

(* Mutated form: the state is saved before the report is written. *)
GiveUpSavesFirst ==
    /\ Goto("unwind", "report")
    /\ todo = {}
    /\ mem' = [mem EXCEPT ![cur].status = "blocked"]
    /\ SaveState(mem')
    /\ UNCHANGED <<cur, answer, todo, only, raised, crashes>>

GiveUp ==
    /\ Goto("unwind", "report")
    /\ todo = {}
    /\ mem' = [mem EXCEPT ![cur].status = "blocked"]
    /\ UNCHANGED <<diskVars, cur, answer, todo, only, raised, crashes>>

Report ==
    /\ Goto("report", "blocked")
    /\ WriteReport(cur)
    /\ UNCHANGED <<cur, mem, answer, todo, only, raised, crashes>>

SaveBlocked ==
    /\ Goto("blocked", "blocked_add")
    /\ SaveState(mem)
    /\ UNCHANGED <<cur, mem, answer, todo, only, raised, crashes>>

BlockedAdd ==
    /\ Goto("blocked_add", "blocked_commit")
    /\ GitAdd
    /\ UNCHANGED <<cur, mem, answer, todo, only, raised, crashes>>

BlockedCommit ==
    /\ Goto("blocked_commit", "pick")
    /\ GitCommit
    /\ cur' = cur + 1
    /\ UNCHANGED <<mem, answer, todo, only, raised, crashes>>

-----------------------------------------------------------------------------
(* The process is killed, interrupted, or dies of an exception nobody catches
   (docker gone, disk full, a source file that is not text).  A stop inside
   write_text of state.json leaves a truncated file. *)
Crash ==
    /\ pc \in CrashPoints
    /\ crashes.count < MaxCrashes
    /\ crashes' = [count |-> crashes.count + 1,
                   inCommit |-> crashes.inCommit \/ pc \in CommitPoints]
    /\ Exit(FALSE)
    /\ \/ torn' = torn
       \/ MayTear /\ pc \in SavePoints /\ torn' = TRUE
    /\ UNCHANGED <<repo, tracked, head, work, saved, reports>>

RunStep == EnsureInit \/ EnsureAdd \/ EnsureCommit \/ Load \/ OpenChecker
           \/ OpenFails \/ PassOver \/ SkipUnit \/ SaveSkipped \/ StartUnit
           \/ EndAdd \/ EndCommit

AttemptStep == AskFails \/ AskRefused \/ AskAccepted \/ RestorePath \/ Restored
               \/ WriteAnswer \/ Written \/ CheckGreen \/ CheckRed \/ SaveFailed

OutcomeStep == SaveGreen \/ GreenAdd \/ GreenCommit \/ SaveStamp
               \/ GiveUp \/ Report \/ SaveBlocked \/ BlockedAdd \/ BlockedCommit

Step == RunStep \/ AttemptStep \/ OutcomeStep

Next == Start \/ Step \/ Crash

Spec == Init /\ [][Next]_vars

(* The process goes on while it lives: the loop is sequential, the LLM client
   and the sandbox both have timeouts. *)
FairSpec == Spec /\ WF_vars(Step)

(* ... and somebody starts it again whenever it has stopped, until the sandbox
   lets it begin. *)
ResumedSpec == FairSpec /\ WF_vars(Start) /\ SF_vars(OpenChecker)

-----------------------------------------------------------------------------
(* Properties.  The ones marked [clean] are about runs nobody stops midway:
   they describe what the loop does by itself.  The others hold whatever
   happens. *)

CommittedGreen(u) == head.exists /\ head.state[u].status = "green"

(* A unit that git records as green has its finished code in the same commit,
   whatever later units, retries and stopped runs did to the files
   (loop.py: commit only after check_done and the suite). *)
GreenCommitHasCode == \A u \in Units : CommittedGreen(u) => Finished(u, head.files)

(* [clean] No commit breaks the build or a test, blocked units included
   (loop.py: a failed attempt is restored before anything else is committed). *)
HeadPassesSuite == \A p \in Paths : head.files[p] # "bad"

(* [clean] Code that differs from the skeleton belongs to a unit that the same
   commit calls green (gitrepo.py: "one commit per green unit"). *)
OnlyGreenCodeCommitted ==
    head.exists =>
        \A p \in Paths : head.files[p] # Skeleton[p] =>
            \E u \in Units : p \in Allowed(u) /\ CommittedGreen(u)

(* [clean] The sandbox judges the last commit plus this answer and nothing of
   earlier attempts (loop.py: "start each attempt from the committed state"). *)
AttemptOnCommittedTree ==
    pc = "check" =>
        work = [p \in Paths |->
                  IF p \in DOMAIN answer THEN answer[p] ELSE head.files[p]]

(* [clean] Between two units, and when a unit has been given up, the working
   tree is the last commit: no remains of failed attempts, no file lost
   (_restore_unit). *)
NothingLeftBehind ==
    pc \in {"pick", "report", "end_commit"} => work = head.files

(* No unit is recorded as blocked without its report for the human who has to
   fix it (_block writes the report before it saves the state). *)
BlockedHasReport == \A u \in Units : saved[u].status = "blocked" => u \in reports

(* [clean] A unit is blocked only after all its attempts: a retry starts from
   zero, and the state in git is never one of a half-done retry. *)
BlockedAfterAllAttempts ==
    \A u \in Units : head.state[u].status = "blocked" => head.state[u].tries = MaxAttempts

(* The files that judge the work keep their contents through every attempt,
   restore and resume (policy.py PROTECTED). *)
ProtectedUntouched == \A p \in Protected \cap Paths : work[p] = Skeleton[p]

(* Work that was accepted is never thrown away: state.json never takes a green
   unit back, in this run or a resumed one (run_migration passes it over). *)
GreenIsFinal ==
    [][\A u \in Units : saved[u].status = "green" => saved'[u].status = "green"]_vars

(* [clean] The last commit evolves as MigrationHistory promises. *)
History == INSTANCE MigrationHistory WITH
    files <- IF head.exists THEN head.files ELSE Skeleton,
    status <- [u \in Units |-> head.state[u].status]

ImplementsHistory == History!Spec

(* A run comes to its end: the attempts are counted, no answer or failure
   keeps it in the loop (range(1, max_attempts + 1)). *)
RunEnds == pc # "idle" ~> pc = "idle"

(* A unit that was stopped after save(GREEN) and before its commit is passed
   over by the next run, and still reaches git with a later commit of it,
   unless a run ends with an error of git or of a truncated state.json. *)
GreenReachesGit ==
    \A u \in Units : saved[u].status = "green" ~> (CommittedGreen(u) \/ raised)

(* models.py says of GREEN "migrated, build and all tests pass, committed":
   when no process runs, a unit green in state.json is green in git. *)
GreenIsCommitted ==
    pc = "idle" => \A u \in Units : saved[u].status = "green" => CommittedGreen(u)

(* loop.py: "a stopped run can be resumed".  However often it was stopped, no
   later run dies of what it left, since git can restore every file it is asked
   to, unless a stop truncated state.json or came between a `git add -A` and its
   `git commit`: only such an index has files the last commit does not have. *)
StoppedRunResumes == raised => torn \/ crashes.inCommit

(* The report says "Files were restored to the last commit": a unit that is
   given up has every file of the skeleton again. *)
RestoredWhenBlocked ==
    pc = "report" => \A p \in Paths : Skeleton[p] # "absent" => work[p] # "absent"

=============================================================================
