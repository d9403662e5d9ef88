------------------------ MODULE MigrationLoop_proofs ------------------------
(***************************************************************************)
(* Theorems about MigrationLoop, for every plan, every set of answers and  *)
(* any number of stops.                                                    *)
(***************************************************************************)
EXTENDS MigrationLoop, TLAPS

(* Where cur is a unit of the plan. *)
UnitPoints == SavePoints \cup
    {"ask", "restore", "write", "check", "green_add", "green_commit",
     "unwind", "report", "blocked_add", "blocked_commit"}

AtUnit == pc \in UnitPoints => cur \in Units

BelowLimit == pc = "ask" => mem[cur].tries < MaxAttempts

AcceptedAnswer == pc \in {"restore", "write"} => CheckChange(cur, answer)

TodoIsOwn ==
    /\ pc \in {"restore", "unwind"} => todo \subseteq Allowed(cur)
    /\ pc = "write" => todo \subseteq DOMAIN answer

(* TypeOK made inductive: an attempt is only started below the limit, and
   only files of an accepted answer are written. *)
TypeInv == TypeOK /\ AtUnit /\ BelowLimit /\ AcceptedAnswer /\ TodoIsOwn

-----------------------------------------------------------------------------
(* A unit only writes files of the target repository (allowed_paths). *)
LEMMA AllowedArePaths == \A u \in Units : Allowed(u) \subseteq Paths
  BY PlanAssumption DEF Allowed

(* An answer gives some of the files a content (UnitChange). *)
LEMMA AnswerContents ==
  \A a \in AllAnswers : \A p \in DOMAIN a :
      p \in Paths /\ a[p] \in {"stub", "good", "bad", "invalid"}
  BY DEF AllAnswers

(* The answer before the first one has no files. *)
LEMMA NoFilesIsAnswer == NoFiles \in AllAnswers
<1>1. NoFiles \in [{} -> {"stub", "good", "bad", "invalid"}]
  BY DEF NoFiles
<1>2. {} \in SUBSET Paths
  OBVIOUS
<1> QED
  BY <1>1, <1>2 DEF AllAnswers

(* The process that ends leaves every variable of the process typed. *)
LEMMA ExitTyped ==
  ASSUME NEW error \in BOOLEAN, Exit(error)
  PROVE  /\ pc' = "idle" /\ cur' \in 0 .. N + 1
         /\ mem' \in [Units -> UnitStates]
         /\ answer' \in AllAnswers
         /\ todo' \in SUBSET Paths
         /\ only' \in SUBSET Units
         /\ raised' \in BOOLEAN
  BY NoFilesIsAnswer, PlanAssumption, RepoAssumption
  DEF Exit, FreshState, FreshUnit, UnitStates, Statuses

-----------------------------------------------------------------------------
(* Every operation on the target repository leaves well-formed files, commits
   and states (gitrepo.py, MigrationState.save). *)
LEMMA DiskUnchangedTyped ==
  ASSUME DiskTypeOK, UNCHANGED diskVars
  PROVE  DiskTypeOK'
  BY DEF DiskTypeOK, diskVars

(* git init, git add -A and git commit. *)
LEMMA GitTyped ==
  ASSUME DiskTypeOK, GitInit \/ GitAdd \/ GitCommit
  PROVE  DiskTypeOK'
<1>1. CASE GitInit
  BY <1>1 DEF DiskTypeOK, GitInit
<1>2. CASE GitAdd
  BY <1>2 DEF DiskTypeOK, GitAdd
<1>3. CASE GitCommit
  <2>1. [exists |-> TRUE, files |-> work, state |-> saved] \in Commits
    BY DEF DiskTypeOK, Commits
  <2> QED
    BY <1>3, <2>1 DEF DiskTypeOK, GitCommit
<1> QED
  BY <1>1, <1>2, <1>3

(* restore() of one path. *)
LEMMA RestoreTyped ==
  ASSUME DiskTypeOK, NEW p \in Paths, Restore(p)
  PROVE  DiskTypeOK'
<1>1. RestoredFile(p) \in Contents
  BY DEF RestoredFile, DiskTypeOK, Commits, Trees, Contents
<1> QED
  BY <1>1 DEF DiskTypeOK, Restore, Trees

(* One file of an answer. *)
LEMMA WriteTyped ==
  ASSUME DiskTypeOK, NEW p \in Paths, NEW c \in Contents, WriteFile(p, c)
  PROVE  DiskTypeOK'
  BY DEF DiskTypeOK, WriteFile, Trees

(* MigrationState.save. *)
LEMMA SaveTyped ==
  ASSUME DiskTypeOK, NEW s \in [Units -> UnitStates], SaveState(s)
  PROVE  DiskTypeOK'
  BY DEF DiskTypeOK, SaveState

(* The report of a unit that is given up. *)
LEMMA ReportTyped ==
  ASSUME DiskTypeOK, NEW u \in Units, WriteReport(u)
  PROVE  DiskTypeOK'
  BY DEF DiskTypeOK, WriteReport

(* Assignments to a UnitState keep the state of the migration well-formed. *)
LEMMA MemTyped ==
  ASSUME mem \in [Units -> UnitStates], NEW u \in Units
  PROVE  /\ \A s \in Statuses : [mem EXCEPT ![u].status = s] \in [Units -> UnitStates]
         /\ \A n \in 0 .. MaxAttempts : [mem EXCEPT ![u].tries = n] \in [Units -> UnitStates]
         /\ [mem EXCEPT ![u].commit = TRUE] \in [Units -> UnitStates]
  BY DEF UnitStates

(* Starting one more attempt below the limit. *)
LEMMA OneMoreTryTyped ==
  ASSUME mem \in [Units -> UnitStates], cur \in Units,
         mem[cur].tries < MaxAttempts, OneMoreTry
  PROVE  mem' \in [Units -> UnitStates]
<1>1. mem[cur].tries + 1 \in 0 .. MaxAttempts
  BY RepoAssumption DEF UnitStates
<1> QED
  BY <1>1, MemTyped DEF OneMoreTry

(* TypeInv is inductive. *)
LEMMA TypeInvInductive ==
  ASSUME TypeInv, [Next]_vars
  PROVE  TypeInv'
<1> USE DEF TypeInv, TypeOK, AtUnit, BelowLimit, AcceptedAnswer, TodoIsOwn, UnitPoints,
            Points, SavePoints, Goto
<1>1. CASE Start
  <2>1. DiskTypeOK'
    BY <1>1, DiskUnchangedTyped DEF Start
  <2>2. QED
    BY <1>1, <2>1, LoopAssumption DEF Start
<1>2. CASE EnsureInit
  <2>1. DiskTypeOK'
    BY <1>2, GitTyped DEF EnsureInit
  <2>2. QED
    BY <1>2, <2>1 DEF EnsureInit
<1>3. CASE EnsureAdd
  <2>1. DiskTypeOK'
    BY <1>3, GitTyped DEF EnsureAdd
  <2>2. QED
    BY <1>3, <2>1 DEF EnsureAdd
<1>4. CASE EnsureCommit
  <2>1. DiskTypeOK'
    BY <1>4, GitTyped DEF EnsureCommit
  <2>2. QED
    BY <1>4, <2>1 DEF EnsureCommit
<1>5. CASE Load
  <2>1. DiskTypeOK'
    BY <1>5, DiskUnchangedTyped DEF Load
  <2>2. QED
    BY <1>5, <2>1, ExitTyped DEF Load, DiskTypeOK
<1>6. CASE OpenChecker
  <2>1. DiskTypeOK'
    BY <1>6, DiskUnchangedTyped DEF OpenChecker
  <2>2. QED
    BY <1>6, <2>1, PlanAssumption DEF OpenChecker
<1>7. CASE OpenFails
  <2>1. DiskTypeOK'
    BY <1>7, DiskUnchangedTyped DEF OpenFails
  <2>2. QED
    BY <1>7, <2>1, ExitTyped DEF OpenFails
<1>8. CASE PassOver
  <2>1. DiskTypeOK'
    BY <1>8, DiskUnchangedTyped DEF PassOver
  <2>2. QED
    BY <1>8, <2>1, PlanAssumption DEF PassOver, Units
<1>9. CASE SkipUnit
  <2>1. DiskTypeOK'
    BY <1>9, DiskUnchangedTyped DEF SkipUnit
  <2>2. QED
    BY <1>9, <2>1, MemTyped DEF SkipUnit, Statuses
<1>10. CASE SaveSkipped
  <2>1. DiskTypeOK'
    BY <1>10, SaveTyped DEF SaveSkipped
  <2>2. QED
    BY <1>10, <2>1, PlanAssumption DEF SaveSkipped, Units
<1>11. CASE StartUnit
  <2>1. DiskTypeOK'
    BY <1>11, DiskUnchangedTyped DEF StartUnit
  <2>2. mem' \in [Units -> UnitStates] /\ mem'[cur].tries = 0
    BY <1>11, MemTyped, RepoAssumption DEF StartUnit, UnitStates
  <2>3. todo' \in SUBSET Paths
    BY <1>11, AllowedArePaths DEF StartUnit, NextAttempt
  <2> QED
    BY <1>11, <2>1, <2>2, <2>3 DEF StartUnit, NextAttempt
<1>12. CASE EndAdd
  <2>1. DiskTypeOK'
    BY <1>12, GitTyped DEF EndAdd
  <2>2. QED
    BY <1>12, <2>1 DEF EndAdd
<1>13. CASE EndCommit
  <2>1. DiskTypeOK'
    BY <1>13, GitTyped DEF EndCommit
  <2>2. QED
    BY <1>13, <2>1, ExitTyped DEF EndCommit
<1>14. CASE AskFails
  <2>1. DiskTypeOK'
    BY <1>14, DiskUnchangedTyped DEF AskFails
  <2>2. QED
    BY <1>14, <2>1, OneMoreTryTyped DEF AskFails
<1>15. CASE AskRefused
  <2>1. DiskTypeOK'
    BY <1>15, DiskUnchangedTyped DEF AskRefused
  <2>2. QED
    BY <1>15, <2>1, OneMoreTryTyped DEF AskRefused
<1>16. CASE AskAccepted
  <2>1. DiskTypeOK'
    BY <1>16, DiskUnchangedTyped DEF AskAccepted
  <2>2. mem' \in [Units -> UnitStates]
    BY <1>16, OneMoreTryTyped DEF AskAccepted
  <2>3. answer' \in AllAnswers /\ CheckChange(cur, answer')
    BY <1>16, LoopAssumption DEF AskAccepted
  <2>4. todo' \in SUBSET Paths
    BY <1>16, AllowedArePaths DEF AskAccepted
  <2> QED
    BY <1>16, <2>1, <2>2, <2>3, <2>4 DEF AskAccepted
<1>17. CASE RestorePath
  <2>1. DiskTypeOK'
    BY <1>17, RestoreTyped, DiskUnchangedTyped, AllowedArePaths DEF RestorePath
  <2>2. QED
    BY <1>17, <2>1, ExitTyped DEF RestorePath
<1>18. CASE Restored
  <2>1. DiskTypeOK'
    BY <1>18, DiskUnchangedTyped DEF Restored
  <2>2. DOMAIN answer \in SUBSET Paths
    BY AnswerContents
  <2> QED
    BY <1>18, <2>1, <2>2 DEF Restored
<1>19. CASE WriteAnswer
  <2>1. DiskTypeOK'
    <3>1. PICK p \in todo : WriteFile(p, answer[p])
      BY <1>19 DEF WriteAnswer
    <3>2. p \in Paths /\ answer[p] \in Contents
      BY <1>19, AnswerContents DEF WriteAnswer, CheckChange, Contents
    <3> QED
      BY <3>1, <3>2, WriteTyped
  <2>2. QED
    BY <1>19, <2>1 DEF WriteAnswer
<1>20. CASE Written
  <2>1. DiskTypeOK'
    BY <1>20, DiskUnchangedTyped DEF Written
  <2>2. QED
    BY <1>20, <2>1 DEF Written
<1>21. CASE CheckGreen
  <2>1. DiskTypeOK'
    BY <1>21, DiskUnchangedTyped DEF CheckGreen
  <2>2. QED
    BY <1>21, <2>1, MemTyped DEF CheckGreen, Statuses
<1>22. CASE CheckRed
  <2>1. DiskTypeOK'
    BY <1>22, DiskUnchangedTyped DEF CheckRed
  <2>2. QED
    BY <1>22, <2>1 DEF CheckRed
<1>23. CASE SaveFailed
  <2>1. DiskTypeOK'
    BY <1>23, SaveTyped DEF SaveFailed
  <2>2. todo' \in SUBSET Paths
    BY <1>23, AllowedArePaths DEF SaveFailed, NextAttempt
  <2> QED
    BY <1>23, <2>1, <2>2 DEF SaveFailed, NextAttempt
<1>24. CASE SaveGreen
  <2>1. DiskTypeOK'
    BY <1>24, SaveTyped DEF SaveGreen
  <2>2. QED
    BY <1>24, <2>1 DEF SaveGreen
<1>25. CASE GreenAdd
  <2>1. DiskTypeOK'
    BY <1>25, GitTyped DEF GreenAdd
  <2>2. QED
    BY <1>25, <2>1 DEF GreenAdd
<1>26. CASE GreenCommit
  <2>1. DiskTypeOK'
    BY <1>26, GitTyped DEF GreenCommit
  <2>2. QED
    BY <1>26, <2>1, MemTyped DEF GreenCommit
<1>27. CASE SaveStamp
  <2>1. DiskTypeOK'
    BY <1>27, SaveTyped DEF SaveStamp
  <2>2. QED
    BY <1>27, <2>1, PlanAssumption DEF SaveStamp, Units
<1>28. CASE GiveUp
  <2>1. DiskTypeOK'
    BY <1>28, DiskUnchangedTyped DEF GiveUp
  <2>2. QED
    BY <1>28, <2>1, MemTyped DEF GiveUp, Statuses
<1>29. CASE Report
  <2>1. DiskTypeOK'
    BY <1>29, ReportTyped DEF Report
  <2>2. QED
    BY <1>29, <2>1 DEF Report
<1>30. CASE SaveBlocked
  <2>1. DiskTypeOK'
    BY <1>30, SaveTyped DEF SaveBlocked
  <2>2. QED
    BY <1>30, <2>1 DEF SaveBlocked
<1>31. CASE BlockedAdd
  <2>1. DiskTypeOK'
    BY <1>31, GitTyped DEF BlockedAdd
  <2>2. QED
    BY <1>31, <2>1 DEF BlockedAdd
<1>32. CASE BlockedCommit
  <2>1. DiskTypeOK'
    BY <1>32, GitTyped DEF BlockedCommit
  <2>2. QED
    BY <1>32, <2>1, PlanAssumption DEF BlockedCommit, Units
<1>33. CASE Crash
  <2>1. DiskTypeOK'
    BY <1>33 DEF Crash, DiskTypeOK
  <2>2. crashes' \in [count : 0 .. MaxCrashes, inCommit : BOOLEAN]
    BY <1>33, LoopAssumption DEF Crash, TypeInv, TypeOK
  <2> QED
    BY <1>33, <2>1, <2>2, ExitTyped DEF Crash
<1>34. CASE UNCHANGED vars
  BY <1>34, DiskUnchangedTyped DEF vars, procVars
<1> QED
  BY <1>1, <1>2, <1>3, <1>4, <1>5, <1>6, <1>7, <1>8, <1>9, <1>10, <1>11, <1>12,
     <1>13, <1>14, <1>15, <1>16, <1>17, <1>18, <1>19, <1>20, <1>21, <1>22, <1>23, <1>24,
     <1>25, <1>26, <1>27, <1>28, <1>29, <1>30, <1>31, <1>32, <1>33, <1>34
  DEF Next, Step, RunStep, AttemptStep, OutcomeStep

(* The state before the first run is typed. *)
LEMMA InitTyped == Init => TypeInv
<1> SUFFICES ASSUME Init PROVE TypeInv
  OBVIOUS
<1>1. FreshState \in [Units -> UnitStates]
  BY RepoAssumption DEF FreshState, FreshUnit, UnitStates, Statuses
<1>2. Skeleton \in Trees /\ NoTree \in Trees
  BY RepoAssumption DEF Trees, NoTree, Contents
<1>3. NoCommit \in Commits
  BY <1>1, <1>2 DEF NoCommit, Commits
<1>4. DiskTypeOK
  BY <1>1, <1>2, <1>3 DEF Init, DiskInit, DiskTypeOK
<1>5. mem \in [Units -> UnitStates] /\ answer \in AllAnswers
      /\ crashes \in [count : 0 .. MaxCrashes, inCommit : BOOLEAN]
      /\ cur \in 0 .. N + 1 /\ only \in SUBSET Units /\ todo \in SUBSET Paths
  BY <1>1, NoFilesIsAnswer, PlanAssumption, LoopAssumption DEF Init
<1>6. pc = "idle" /\ raised \in BOOLEAN
  BY DEF Init
<1>7. TypeOK
  BY <1>4, <1>5, <1>6 DEF TypeOK
<1> QED
  BY <1>6, <1>7
  DEF TypeInv, AtUnit, BelowLimit, AcceptedAnswer, TodoIsOwn, UnitPoints, SavePoints

(* Every variable keeps its type, for every plan and every number of stops:
   in particular the attempts never exceed --max-attempts, and no file outside
   the plan is ever written. *)
THEOREM TypeCorrect == Spec => []TypeOK
<1>1. TypeInv => TypeOK
  BY DEF TypeInv
<1> QED
  BY <1>1, InitTyped, TypeInvInductive, PTL DEF Spec

-----------------------------------------------------------------------------
(* Where the process has read state.json. *)
Loaded == pc \notin {"idle", "init", "first_add", "first_commit", "load"}

(* Where cur is being attempted and not settled. *)
AttemptPoints == {"ask", "restore", "write", "check", "failed", "unwind"}

(* What the process knows agrees with what is on disk: it never forgets a green
   unit, it does not attempt one, and it owes at most the report of the unit it
   is just giving up. *)
MemoryInv ==
    /\ Loaded => \A u \in Units : saved[u].status = "green" => mem[u].status = "green"
    /\ pc \in AttemptPoints => mem[cur].status # "green"
    /\ BlockedHasReport
    /\ Loaded => \A u \in Units :
           mem[u].status = "blocked" => u \in reports \/ (pc = "report" /\ u = cur)

(* MemoryInv is inductive. *)
LEMMA MemoryInvInductive ==
  ASSUME TypeInv, MemoryInv, [Next]_vars
  PROVE  MemoryInv'
<1> USE DEF MemoryInv, BlockedHasReport, Loaded, AttemptPoints, Goto
<1>0. cur \in 0 .. N + 1 /\ mem \in [Units -> UnitStates] /\ saved \in [Units -> UnitStates]
      /\ (pc \in UnitPoints => cur \in Units)
  BY DEF TypeInv, TypeOK, DiskTypeOK, AtUnit
<1>1. CASE Start
  BY <1>0, <1>1 DEF Start, diskVars
<1>2. CASE EnsureInit
  BY <1>0, <1>2 DEF EnsureInit, GitInit
<1>3. CASE EnsureAdd
  BY <1>0, <1>3 DEF EnsureAdd, GitAdd
<1>4. CASE EnsureCommit
  BY <1>0, <1>4 DEF EnsureCommit, GitCommit
<1>5. CASE Load
  BY <1>0, <1>5 DEF Load, Exit, diskVars
<1>6. CASE OpenChecker
  BY <1>0, <1>6 DEF OpenChecker, diskVars
<1>7. CASE OpenFails
  BY <1>0, <1>7 DEF OpenFails, Exit, diskVars
<1>8. CASE PassOver
  BY <1>0, <1>8 DEF PassOver, diskVars
<1>9. CASE SkipUnit
  BY <1>0, <1>9 DEF SkipUnit, Settled, UnitStates, diskVars
<1>10. CASE SaveSkipped
  BY <1>0, <1>10 DEF SaveSkipped, SaveState
<1>11. CASE StartUnit
  BY <1>0, <1>11 DEF StartUnit, NextAttempt, Settled, UnitStates, diskVars
<1>12. CASE EndAdd
  BY <1>0, <1>12 DEF EndAdd, GitAdd
<1>13. CASE EndCommit
  BY <1>0, <1>13 DEF EndCommit, GitCommit, Exit
<1>14. CASE AskFails
  BY <1>0, <1>14 DEF AskFails, OneMoreTry, UnitStates, diskVars
<1>15. CASE AskRefused
  BY <1>0, <1>15 DEF AskRefused, OneMoreTry, UnitStates, diskVars
<1>16. CASE AskAccepted
  BY <1>0, <1>16 DEF AskAccepted, OneMoreTry, UnitStates, diskVars
<1>17. CASE RestorePath
  BY <1>0, <1>17 DEF RestorePath, Restore, Exit, diskVars
<1>18. CASE Restored
  BY <1>0, <1>18 DEF Restored, diskVars
<1>19. CASE WriteAnswer
  BY <1>0, <1>19 DEF WriteAnswer, WriteFile
<1>20. CASE Written
  BY <1>0, <1>20 DEF Written, diskVars
<1>21. CASE CheckGreen
  BY <1>0, <1>21 DEF CheckGreen, UnitStates, diskVars
<1>22. CASE CheckRed
  BY <1>0, <1>22 DEF CheckRed, diskVars
<1>23. CASE SaveFailed
  BY <1>0, <1>23 DEF SaveFailed, SaveState, NextAttempt, UnitPoints, SavePoints
<1>24. CASE SaveGreen
  BY <1>0, <1>24 DEF SaveGreen, SaveState
<1>25. CASE GreenAdd
  BY <1>0, <1>25 DEF GreenAdd, GitAdd
<1>26. CASE GreenCommit
  BY <1>0, <1>26 DEF GreenCommit, GitCommit, UnitStates
<1>27. CASE SaveStamp
  BY <1>0, <1>27 DEF SaveStamp, SaveState
<1>28. CASE GiveUp
  BY <1>0, <1>28 DEF GiveUp, UnitStates, diskVars
<1>29. CASE Report
  BY <1>0, <1>29 DEF Report, WriteReport, UnitPoints
<1>30. CASE SaveBlocked
  BY <1>0, <1>30 DEF SaveBlocked, SaveState
<1>31. CASE BlockedAdd
  BY <1>0, <1>31 DEF BlockedAdd, GitAdd
<1>32. CASE BlockedCommit
  BY <1>0, <1>32 DEF BlockedCommit, GitCommit
<1>33. CASE Crash
  BY <1>0, <1>33 DEF Crash, Exit
<1>34. CASE UNCHANGED vars
  BY <1>34 DEF vars, procVars, diskVars
<1> QED
  BY <1>1, <1>2, <1>3, <1>4, <1>5, <1>6, <1>7, <1>8, <1>9, <1>10, <1>11, <1>12,
     <1>13, <1>14, <1>15, <1>16, <1>17, <1>18, <1>19, <1>20, <1>21, <1>22, <1>23, <1>24,
     <1>25, <1>26, <1>27, <1>28, <1>29, <1>30, <1>31, <1>32, <1>33, <1>34
  DEF Next, Step, RunStep, AttemptStep, OutcomeStep

(* The invariant of every run, stopped or not. *)
LEMMA RunInv == Spec => [](TypeInv /\ MemoryInv)
<1>1. Init => TypeInv /\ MemoryInv
  <2>1. Init => MemoryInv
    BY DEF Init, DiskInit, MemoryInv, BlockedHasReport, Loaded, AttemptPoints,
           FreshState, FreshUnit
  <2> QED
    BY <2>1, InitTyped
<1>2. TypeInv /\ MemoryInv /\ [Next]_vars => (TypeInv /\ MemoryInv)'
  BY TypeInvInductive, MemoryInvInductive
<1> QED
  BY <1>1, <1>2, PTL DEF Spec

(* BlockedHasReport: a stopped run leaves no blocked unit without its report,
   because _block writes the report before it saves the state. *)
THEOREM EveryBlockedHasReport == Spec => []BlockedHasReport
<1>1. MemoryInv => BlockedHasReport
  BY DEF MemoryInv
<1> QED
  BY <1>1, RunInv, PTL

(* Only SaveState changes state.json, and it writes what the process knows. *)
LEMMA SavedStep ==
  ASSUME TypeInv, [Next]_vars
  PROVE  saved' = saved \/ (Loaded /\ saved' = mem)
<1> USE DEF Goto, Loaded, diskVars, GitInit, GitAdd, GitCommit, Restore, WriteFile,
            SaveState, WriteReport
<1>1. CASE Start \/ RunStep
  BY <1>1 DEF Start, RunStep, EnsureInit, EnsureAdd, EnsureCommit, Load, OpenChecker,
              OpenFails, PassOver, SkipUnit, SaveSkipped, StartUnit, EndAdd, EndCommit
<1>2. CASE AttemptStep
  BY <1>2 DEF AttemptStep, AskFails, AskRefused, AskAccepted, RestorePath, Restored,
              WriteAnswer, Written, CheckGreen, CheckRed, SaveFailed
<1>3. CASE OutcomeStep
  BY <1>3 DEF OutcomeStep, SaveGreen, GreenAdd, GreenCommit, SaveStamp, GiveUp, Report,
              SaveBlocked, BlockedAdd, BlockedCommit
<1>4. CASE Crash
  BY <1>4 DEF Crash
<1>5. CASE UNCHANGED vars
  BY <1>5 DEF vars
<1> QED
  BY <1>1, <1>2, <1>3, <1>4, <1>5 DEF Next, Step

(* GreenIsFinal: no run, resumed run or retry takes a green unit back. *)
THEOREM GreenStaysGreen == Spec => GreenIsFinal
<1>1. TypeInv /\ MemoryInv /\ [Next]_vars
      => [\A u \in Units : saved[u].status = "green" => saved'[u].status = "green"]_vars
  BY SavedStep DEF MemoryInv
<1> QED
  BY <1>1, RunInv, PTL DEF Spec, GreenIsFinal

-----------------------------------------------------------------------------
(* A step writes at most one file, and that file is the current unit's own. *)
LEMMA WorkStep ==
  ASSUME TypeInv, [Next]_vars
  PROVE  work' = work \/ \E p \in Allowed(cur) : \E c : work' = [work EXCEPT ![p] = c]
<1> USE DEF Goto, diskVars, GitInit, GitAdd, GitCommit, SaveState, WriteReport
<1>1. CASE Start \/ RunStep
  BY <1>1 DEF Start, RunStep, EnsureInit, EnsureAdd, EnsureCommit, Load, OpenChecker,
              OpenFails, PassOver, SkipUnit, SaveSkipped, StartUnit, EndAdd, EndCommit
<1>2. CASE RestorePath
  BY <1>2 DEF RestorePath, Restore, TypeInv, TodoIsOwn
<1>3. CASE WriteAnswer
  BY <1>3 DEF WriteAnswer, WriteFile, TypeInv, TodoIsOwn, AcceptedAnswer, CheckChange
<1>4. CASE AttemptStep /\ ~ RestorePath /\ ~ WriteAnswer
  BY <1>4 DEF AttemptStep, AskFails, AskRefused, AskAccepted, Restored, Written,
              CheckGreen, CheckRed, SaveFailed
<1>5. CASE OutcomeStep
  BY <1>5 DEF OutcomeStep, SaveGreen, GreenAdd, GreenCommit, SaveStamp, GiveUp, Report,
              SaveBlocked, BlockedAdd, BlockedCommit
<1>6. CASE Crash
  BY <1>6 DEF Crash
<1>7. CASE UNCHANGED vars
  BY <1>7 DEF vars
<1> QED
  BY <1>1, <1>2, <1>3, <1>4, <1>5, <1>6, <1>7 DEF Next, Step

(* ProtectedUntouched: whatever the LLM answers and wherever the process is
   stopped, the files that judge the work keep the skeleton's contents. *)
THEOREM ProtectedStayUntouched == Spec => []ProtectedUntouched
<1>1. Init => ProtectedUntouched
  BY DEF Init, DiskInit, ProtectedUntouched
<1>2. TypeInv /\ ProtectedUntouched /\ [Next]_vars => ProtectedUntouched'
  <2> SUFFICES ASSUME TypeInv, ProtectedUntouched, [Next]_vars,
                      NEW p \in Protected \cap Paths
               PROVE  work'[p] = Skeleton[p]
    BY DEF ProtectedUntouched
  <2>1. work \in Trees /\ work[p] = Skeleton[p] /\ p \notin Allowed(cur)
    BY DEF TypeInv, TypeOK, DiskTypeOK, ProtectedUntouched, Allowed
  <2> QED
    BY <2>1, WorkStep DEF Trees
<1> QED
  BY <1>1, <1>2, RunInv, PTL DEF Spec

-----------------------------------------------------------------------------
(* Whether a unit is finished depends on the unit's own files only. *)
LEMMA FinishedIsLocal ==
  ASSUME NEW u, NEW t1, NEW t2, \A p \in Allowed(u) : t1[p] = t2[p], Finished(u, t1)
  PROVE  Finished(u, t2)
  BY DEF Finished, CheckDone

(* Writing a file of one unit leaves every other unit as finished as it was. *)
LEMMA OtherUnitsKept ==
  ASSUME Disjoint, work \in Trees, NEW u \in Units, NEW v \in Units, u # v,
         NEW p \in Allowed(v), NEW c,
         work' = [work EXCEPT ![p] = c], Finished(u, work)
  PROVE  Finished(u, work')
<1>1. \A q \in Allowed(u) : q \in Paths /\ q # p
  BY AllowedArePaths DEF Disjoint
<1>2. \A q \in Allowed(u) : work[q] = work'[q]
  BY <1>1 DEF Trees
<1> QED
  BY <1>2, FinishedIsLocal

(* Green units are finished in the working tree and in git; the unit being
   attempted is not green, so its half-written files do no harm. *)
FinishedInv ==
    /\ \A u \in Units : saved[u].status = "green" => Finished(u, work)
    /\ Loaded => \A u \in Units : mem[u].status = "green" => Finished(u, work)
    /\ pc = "check" => CheckDone(cur, work)
    /\ GreenCommitHasCode

(* The two actions that write files. *)
LEMMA FinishedInvWrite ==
  ASSUME Disjoint, TypeInv, MemoryInv, FinishedInv,
         NEW p \in Allowed(cur), NEW c, work' = [work EXCEPT ![p] = c],
         pc \in AttemptPoints, UNCHANGED <<saved, mem, head, pc, cur>>, pc # "check"
  PROVE  FinishedInv'
<1>1. work \in Trees /\ cur \in Units
  BY DEF TypeInv, TypeOK, DiskTypeOK, AtUnit, AttemptPoints, UnitPoints, SavePoints
<1>2. \A u \in Units : mem[u].status = "green" => u # cur /\ Finished(u, work)
  BY DEF MemoryInv, FinishedInv, AttemptPoints, Loaded
<1>3. \A u \in Units : mem[u].status = "green" => Finished(u, work')
  BY <1>1, <1>2, OtherUnitsKept
<1>4. \A u \in Units : saved[u].status = "green" => mem[u].status = "green"
  BY DEF MemoryInv, AttemptPoints, Loaded
<1> QED
  BY <1>3, <1>4 DEF FinishedInv, GreenCommitHasCode, CommittedGreen

(* The ends of a run keep the files, state.json and git as they are. *)
LEMMA FinishedInvExit ==
  ASSUME FinishedInv, NEW error, Exit(error), UNCHANGED <<saved, head, work>>
  PROVE  FinishedInv'
  BY DEF FinishedInv, GreenCommitHasCode, CommittedGreen, Exit, Loaded

(* A commit records the working tree and state.json. *)
LEMMA FinishedInvCommit ==
  ASSUME FinishedInv, GitCommit
  PROVE  GreenCommitHasCode' /\ UNCHANGED <<saved, work>>
  BY DEF FinishedInv, GreenCommitHasCode, CommittedGreen, GitCommit

(* FinishedInv is inductive. *)
LEMMA FinishedInvInductive ==
  ASSUME Disjoint, TypeInv, MemoryInv, FinishedInv, [Next]_vars
  PROVE  FinishedInv'
<1> USE DEF Goto, Loaded, GreenCommitHasCode, CommittedGreen
<1>0. cur \in 0 .. N + 1 /\ mem \in [Units -> UnitStates] /\ saved \in [Units -> UnitStates]
      /\ work \in Trees /\ (pc \in UnitPoints => cur \in Units)
  BY DEF TypeInv, TypeOK, DiskTypeOK, AtUnit
<1>1. CASE Start
  BY <1>0, <1>1 DEF Start, diskVars, FinishedInv
<1>2. CASE EnsureInit
  BY <1>0, <1>2 DEF EnsureInit, GitInit, FinishedInv
<1>3. CASE EnsureAdd
  BY <1>0, <1>3 DEF EnsureAdd, GitAdd, FinishedInv
<1>4. CASE EnsureCommit
  BY <1>4, FinishedInvCommit DEF EnsureCommit, FinishedInv
<1>5. CASE Load
  BY <1>0, <1>5 DEF Load, Exit, diskVars, FinishedInv
<1>6. CASE OpenChecker
  BY <1>0, <1>6 DEF OpenChecker, diskVars, FinishedInv
<1>7. CASE OpenFails
  BY <1>7, FinishedInvExit DEF OpenFails, diskVars
<1>8. CASE PassOver
  BY <1>0, <1>8 DEF PassOver, diskVars, FinishedInv
<1>9. CASE SkipUnit
  BY <1>0, <1>9 DEF SkipUnit, UnitStates, diskVars, FinishedInv
<1>10. CASE SaveSkipped
  BY <1>0, <1>10 DEF SaveSkipped, SaveState, FinishedInv
<1>11. CASE StartUnit
  BY <1>0, <1>11 DEF StartUnit, NextAttempt, UnitStates, diskVars, FinishedInv
<1>12. CASE EndAdd
  BY <1>0, <1>12 DEF EndAdd, GitAdd, FinishedInv
<1>13. CASE EndCommit
  BY <1>13, FinishedInvCommit DEF EndCommit, Exit, FinishedInv
<1>14. CASE AskFails
  BY <1>0, <1>14 DEF AskFails, OneMoreTry, UnitStates, diskVars, FinishedInv
<1>15. CASE AskRefused
  BY <1>0, <1>15 DEF AskRefused, OneMoreTry, UnitStates, diskVars, FinishedInv
<1>16. CASE AskAccepted
  BY <1>0, <1>16 DEF AskAccepted, OneMoreTry, UnitStates, diskVars, FinishedInv
<1>17. CASE RestorePath
  <2>1. CASE \E p \in todo : Restore(p) /\ UNCHANGED <<pc, cur, mem>>
    BY <1>17, <2>1, FinishedInvWrite DEF RestorePath, Restore, TypeInv, TodoIsOwn, AttemptPoints
  <2>2. CASE Exit(TRUE) /\ UNCHANGED diskVars
    BY <2>2, FinishedInvExit DEF diskVars
  <2> QED
    BY <1>17, <2>1, <2>2 DEF RestorePath
<1>18. CASE Restored
  BY <1>0, <1>18 DEF Restored, diskVars, FinishedInv
<1>19. CASE WriteAnswer
  <2>1. DOMAIN answer \subseteq Allowed(cur)
    BY <1>19 DEF WriteAnswer, TypeInv, AcceptedAnswer, CheckChange
  <2> QED
    BY <1>19, <2>1, FinishedInvWrite DEF WriteAnswer, WriteFile, TypeInv, TodoIsOwn, AttemptPoints
<1>20. CASE Written
  BY <1>0, <1>20 DEF Written, diskVars, FinishedInv
<1>21. CASE CheckGreen
  <2>1. Finished(cur, work)
    BY <1>0, <1>21, AllowedArePaths
    DEF CheckGreen, FinishedInv, Finished, SuitePasses, UnitPoints
  <2> QED
    BY <1>0, <1>21, <2>1 DEF CheckGreen, diskVars, UnitStates, FinishedInv
<1>22. CASE CheckRed
  BY <1>0, <1>22 DEF CheckRed, diskVars, FinishedInv
<1>23. CASE SaveFailed
  BY <1>0, <1>23 DEF SaveFailed, SaveState, NextAttempt, UnitPoints, SavePoints, FinishedInv
<1>24. CASE SaveGreen
  BY <1>0, <1>24 DEF SaveGreen, SaveState, FinishedInv
<1>25. CASE GreenAdd
  BY <1>0, <1>25 DEF GreenAdd, GitAdd, FinishedInv
<1>26. CASE GreenCommit
  BY <1>0, <1>26, FinishedInvCommit DEF GreenCommit, FinishedInv, UnitStates
<1>27. CASE SaveStamp
  BY <1>0, <1>27 DEF SaveStamp, SaveState, FinishedInv
<1>28. CASE GiveUp
  BY <1>0, <1>28 DEF GiveUp, UnitStates, diskVars, FinishedInv
<1>29. CASE Report
  BY <1>0, <1>29 DEF Report, WriteReport, UnitPoints, FinishedInv
<1>30. CASE SaveBlocked
  BY <1>0, <1>30 DEF SaveBlocked, SaveState, FinishedInv
<1>31. CASE BlockedAdd
  BY <1>0, <1>31 DEF BlockedAdd, GitAdd, FinishedInv
<1>32. CASE BlockedCommit
  BY <1>32, FinishedInvCommit DEF BlockedCommit, FinishedInv
<1>33. CASE Crash
  BY <1>33, FinishedInvExit DEF Crash
<1>34. CASE UNCHANGED vars
  BY <1>34 DEF vars, procVars, diskVars, FinishedInv
<1> QED
  BY <1>1, <1>2, <1>3, <1>4, <1>5, <1>6, <1>7, <1>8, <1>9, <1>10, <1>11, <1>12,
     <1>13, <1>14, <1>15, <1>16, <1>17, <1>18, <1>19, <1>20, <1>21, <1>22, <1>23, <1>24,
     <1>25, <1>26, <1>27, <1>28, <1>29, <1>30, <1>31, <1>32, <1>33, <1>34
  DEF Next, Step, RunStep, AttemptStep, OutcomeStep

(* GreenCommitHasCode: when no two units share a file, every commit that calls a
   unit green holds its finished code, whatever else happens to the process. *)
THEOREM GreenCommitsHaveCode == Disjoint => (Spec => []GreenCommitHasCode)
<1> SUFFICES ASSUME Disjoint PROVE Spec => []GreenCommitHasCode
  OBVIOUS
<1>1. Init => FinishedInv
  BY DEF Init, DiskInit, FinishedInv, Loaded, FreshState, FreshUnit, NoCommit,
         GreenCommitHasCode, CommittedGreen
<1>2. TypeInv /\ MemoryInv /\ FinishedInv /\ [Next]_vars => FinishedInv'
  BY FinishedInvInductive
<1>3. FinishedInv => GreenCommitHasCode
  BY DEF FinishedInv
<1> QED
  BY <1>1, <1>2, <1>3, RunInv, PTL DEF Spec

-----------------------------------------------------------------------------
(* When no run is stopped midway: for every plan (units may share files), every
   set of answers and every number of runs, git, state.json and the working tree
   agree at every step, and the last commit evolves as MigrationHistory promises. *)

Present(tree) == {p \in Paths : tree[p] # "absent"}

(* The first run has not made its first commit yet. *)
BeforeHistory ==
    pc \in {"init", "first_add", "first_commit"} \/ (pc = "idle" /\ ~ repo)

(* Before the first commit there is the skeleton and nothing else; after it, git
   tracks what the last commit has, but between the two steps of a commit. *)
GitInv ==
    /\ head.exists <=> ~ BeforeHistory
    /\ repo <=> pc \notin {"idle", "init"} \/ head.exists
    /\ BeforeHistory => head = NoCommit /\ work = Skeleton /\ saved = FreshState
    /\ head.exists => tracked = Present(IF pc = "green_commit" THEN work ELSE head.files)
    /\ pc = "first_commit" => tracked = Present(work)
    /\ ~ torn
    /\ ~ raised

(* Between the units, and while a unit is being given up. *)
RestPoints == {"idle", "load", "open", "pick", "skip", "stamp", "report", "blocked",
               "blocked_add", "blocked_commit", "end_commit"}

(* An attempt that has been written and is judged or accepted. *)
WrittenPoints == {"check", "green", "green_add", "green_commit"}

(* The working tree is the last commit, but for the files of the attempt that is
   under way; each step of the attempt knows which ones. *)
TreeInv ==
    /\ head.exists /\ pc \in RestPoints => work = head.files
    /\ pc \in {"ask", "failed"} =>
          \A p \in Paths : work[p] # head.files[p] => p \in Allowed(cur)
    /\ pc \in {"restore", "unwind"} =>
          \A p \in Paths : work[p] # head.files[p] => p \in todo
    /\ pc = "write" =>
          \A p \in Paths :
              work[p] = IF p \in DOMAIN answer \ todo THEN answer[p] ELSE head.files[p]
    /\ pc \in WrittenPoints =>
          /\ CheckChange(cur, answer)
          /\ work = [p \in Paths |-> IF p \in DOMAIN answer THEN answer[p] ELSE head.files[p]]

(* Where the unit's outcome is in memory, and where it is in state.json, but not
   in git. *)
DecidedPoints == {"green", "green_add", "green_commit", "report", "blocked",
                  "blocked_add", "blocked_commit"}
SavedPoints == {"green_add", "green_commit", "blocked_add", "blocked_commit"}

Skippable(u, state) == Target[u] = {} /\ state[u].status = "skipped"

(* Memory, state.json and git call every unit the same, but for units without a
   target and the unit whose outcome is on its way to git; that one was not
   settled before, and nothing but its outcome is decided meanwhile. *)
StatusInv ==
    /\ \A u \in Units :
          \/ saved[u].status = head.state[u].status
          \/ Skippable(u, saved)
          \/ pc \in SavedPoints /\ u = cur
    /\ Loaded =>
          \A u \in Units :
              \/ mem[u].status = head.state[u].status
              \/ Skippable(u, mem)
              \/ pc \in DecidedPoints /\ u = cur
    /\ pc \in UnitPoints \ {"skip", "stamp"} =>
          Target[cur] # {} /\ head.state[cur].status \in {"pending", "blocked"}
    /\ \A u \in Units : CommittedGreen(u) => saved[u].status = "green"
    /\ pc \in SavedPoints => saved = mem
    /\ pc \in {"green", "green_add", "green_commit"} => mem[cur].status = "green"
    /\ pc \in {"report", "blocked", "blocked_add", "blocked_commit"} =>
          mem[cur].status = "blocked"

(* What was accepted is finished and passes the suite; so does every commit, and
   its code is the skeleton's or a green unit's. *)
CodeInv ==
    /\ pc = "check" => CheckDone(cur, work)
    /\ pc \in {"green", "green_add", "green_commit"} => SuitePasses /\ CheckDone(cur, work)
    /\ HeadPassesSuite
    /\ OnlyGreenCodeCommitted

(* While a unit is retried it may be called blocked with fewer attempts, in
   memory until the unit has an outcome, in state.json until that is saved. *)
TriesInv ==
    /\ pc \in {"unwind", "report", "blocked", "blocked_add", "blocked_commit"} =>
          mem[cur].tries = MaxAttempts
    /\ Loaded =>
          \A u \in Units : mem[u].status = "blocked" =>
              mem[u].tries = MaxAttempts \/ (pc \in AttemptPoints /\ u = cur)
    /\ \A u \in Units : saved[u].status = "blocked" =>
          \/ saved[u].tries = MaxAttempts
          \/ pc \in AttemptPoints \cup {"green", "report", "blocked"} /\ u = cur
    /\ BlockedAfterAllAttempts

CleanInv == GitInv /\ TreeInv /\ StatusInv /\ CodeInv /\ TriesInv

-----------------------------------------------------------------------------
(* The process is stopped nowhere. *)
LEMMA NeverStopped == MaxCrashes = 0 /\ TypeInv => ~ Crash
<1> SUFFICES ASSUME MaxCrashes = 0, TypeInv, Crash PROVE FALSE
  OBVIOUS
<1>1. crashes.count \in 0 .. 0
  BY DEF TypeInv, TypeOK
<1>2. crashes.count < 0
  BY DEF Crash
<1> QED
  BY <1>1, <1>2

(* In the state before the first run everything is as the skeleton left it. *)
LEMMA InitClean == Init => CleanInv
<1> SUFFICES ASSUME Init PROVE CleanInv
  OBVIOUS
<1>1. GitInv
  BY DEF Init, DiskInit, GitInv, BeforeHistory, NoCommit
<1>2. TreeInv
  BY DEF Init, DiskInit, TreeInv, NoCommit, WrittenPoints
<1>3. StatusInv
  BY DEF Init, DiskInit, StatusInv, NoCommit, Loaded, UnitPoints, SavePoints, SavedPoints,
         FreshState, FreshUnit, CommittedGreen
<1>4. CodeInv
  BY DEF Init, DiskInit, CodeInv, NoCommit, NoTree, HeadPassesSuite, OnlyGreenCodeCommitted
<1>5. TriesInv
  BY DEF Init, DiskInit, TriesInv, NoCommit, Loaded, FreshState, FreshUnit,
         BlockedAfterAllAttempts
<1> QED
  BY <1>1, <1>2, <1>3, <1>4, <1>5 DEF CleanInv

(* A restored path has the content of the last commit again, and git never
   fails on it: it tracks what the last commit has. *)
LEMMA RestoreClean ==
  ASSUME TypeInv, GitInv, pc \in {"restore", "unwind"}, NEW p \in todo
  PROVE  CanRestore(p) /\ RestoredFile(p) = head.files[p]
<1>1. p \in Paths /\ head.files \in Trees
  BY DEF TypeInv, TypeOK, DiskTypeOK, Commits
<1>2. tracked = Present(head.files)
  BY DEF GitInv, BeforeHistory
<1> QED
  BY <1>1, <1>2 DEF CanRestore, RestoredFile, Present, Trees


(* GitInv is inductive. *)
LEMMA GitInvInductive ==
  ASSUME MaxCrashes = 0, TypeInv, CleanInv, [Next]_vars
  PROVE  GitInv'
<1> USE DEF GitInv, Goto, BeforeHistory, Present
<1>0. GitInv /\ (pc = "green_add" => tracked = Present(head.files))
      /\ (pc \in {"pick", "end_commit", "blocked_add", "blocked_commit"}
          => work = head.files)
  BY DEF CleanInv, TreeInv, RestPoints
<1>1. CASE Start
  BY <1>0, <1>1 DEF Start, diskVars
<1>2. CASE EnsureInit
  BY <1>0, <1>2 DEF EnsureInit, GitInit
<1>3. CASE EnsureAdd
  BY <1>0, <1>3 DEF EnsureAdd, GitAdd
<1>4. CASE EnsureCommit
  BY <1>0, <1>4 DEF EnsureCommit, GitCommit
<1>5. CASE Load
  BY <1>0, <1>5 DEF Load, Exit, diskVars
<1>6. CASE OpenChecker
  BY <1>0, <1>6 DEF OpenChecker, diskVars
<1>7. CASE OpenFails
  BY <1>0, <1>7 DEF OpenFails, Exit, diskVars
<1>8. CASE PassOver
  BY <1>0, <1>8 DEF PassOver, diskVars
<1>9. CASE SkipUnit
  BY <1>0, <1>9 DEF SkipUnit, diskVars
<1>10. CASE SaveSkipped
  BY <1>0, <1>10 DEF SaveSkipped, SaveState
<1>11. CASE StartUnit
  BY <1>0, <1>11 DEF StartUnit, NextAttempt, diskVars
<1>12. CASE EndAdd
  BY <1>0, <1>12 DEF EndAdd, GitAdd
<1>13. CASE EndCommit
  BY <1>0, <1>13 DEF EndCommit, GitCommit, Exit
<1>14. CASE AskFails
  BY <1>0, <1>14 DEF AskFails, OneMoreTry, diskVars
<1>15. CASE AskRefused
  BY <1>0, <1>15 DEF AskRefused, OneMoreTry, diskVars
<1>16. CASE AskAccepted
  BY <1>0, <1>16 DEF AskAccepted, OneMoreTry, diskVars
<1>17. CASE RestorePath
  <2>1. PICK p \in todo : Restore(p) /\ UNCHANGED <<pc, raised>>
    BY <1>0, <1>17, RestoreClean DEF RestorePath
  <2> QED
    BY <1>0, <1>17, <2>1 DEF RestorePath, Restore
<1>18. CASE Restored
  BY <1>0, <1>18 DEF Restored, diskVars
<1>19. CASE WriteAnswer
  BY <1>0, <1>19 DEF WriteAnswer, WriteFile
<1>20. CASE Written
  BY <1>0, <1>20 DEF Written, diskVars
<1>21. CASE CheckGreen
  BY <1>0, <1>21 DEF CheckGreen, diskVars
<1>22. CASE CheckRed
  BY <1>0, <1>22 DEF CheckRed, diskVars
<1>23. CASE SaveFailed
  BY <1>0, <1>23 DEF SaveFailed, SaveState, NextAttempt
<1>24. CASE SaveGreen
  BY <1>0, <1>24 DEF SaveGreen, SaveState
<1>25. CASE GreenAdd
  BY <1>0, <1>25 DEF GreenAdd, GitAdd
<1>26. CASE GreenCommit
  BY <1>0, <1>26 DEF GreenCommit, GitCommit
<1>27. CASE SaveStamp
  BY <1>0, <1>27 DEF SaveStamp, SaveState
<1>28. CASE GiveUp
  BY <1>0, <1>28 DEF GiveUp, diskVars
<1>29. CASE Report
  BY <1>0, <1>29 DEF Report, WriteReport
<1>30. CASE SaveBlocked
  BY <1>0, <1>30 DEF SaveBlocked, SaveState
<1>31. CASE BlockedAdd
  BY <1>0, <1>31 DEF BlockedAdd, GitAdd
<1>32. CASE BlockedCommit
  BY <1>0, <1>32 DEF BlockedCommit, GitCommit
<1>33. CASE Crash
  BY <1>33, NeverStopped
<1>34. CASE UNCHANGED vars
  BY <1>0, <1>34 DEF vars, procVars, diskVars
<1> QED
  BY <1>1, <1>2, <1>3, <1>4, <1>5, <1>6, <1>7, <1>8, <1>9, <1>10, <1>11, <1>12,
     <1>13, <1>14, <1>15, <1>16, <1>17, <1>18, <1>19, <1>20, <1>21, <1>22, <1>23, <1>24,
     <1>25, <1>26, <1>27, <1>28, <1>29, <1>30, <1>31, <1>32, <1>33, <1>34
  DEF Next, Step, RunStep, AttemptStep, OutcomeStep

(* TreeInv is inductive. *)
LEMMA TreeInvInductive ==
  ASSUME MaxCrashes = 0, TypeInv, CleanInv, [Next]_vars
  PROVE  TreeInv'
<1> USE DEF TreeInv, Goto, RestPoints, WrittenPoints
<1>0. /\ work \in Trees /\ head.files \in Trees
      /\ TreeInv
      /\ pc \notin {"idle", "init", "first_add", "first_commit"} => head.exists
      /\ pc \in {"restore", "write"} => CheckChange(cur, answer)
      /\ head.exists /\ pc = "idle" => repo
  BY DEF CleanInv, TypeInv, TypeOK, DiskTypeOK, Commits, GitInv, BeforeHistory, AcceptedAnswer
<1>1. CASE Start
  BY <1>0, <1>1 DEF Start, diskVars
<1>2. CASE EnsureInit
  BY <1>0, <1>2 DEF EnsureInit, GitInit
<1>3. CASE EnsureAdd
  BY <1>0, <1>3 DEF EnsureAdd, GitAdd
<1>4. CASE EnsureCommit
  BY <1>0, <1>4 DEF EnsureCommit, GitCommit
<1>5. CASE Load
  BY <1>0, <1>5 DEF Load, Exit, diskVars
<1>6. CASE OpenChecker
  BY <1>0, <1>6 DEF OpenChecker, diskVars
<1>7. CASE OpenFails
  BY <1>0, <1>7 DEF OpenFails, Exit, diskVars
<1>8. CASE PassOver
  BY <1>0, <1>8 DEF PassOver, diskVars
<1>9. CASE SkipUnit
  BY <1>0, <1>9 DEF SkipUnit, diskVars
<1>10. CASE SaveSkipped
  BY <1>0, <1>10 DEF SaveSkipped, SaveState
<1>11. CASE StartUnit
  BY <1>0, <1>11 DEF StartUnit, NextAttempt, diskVars
<1>12. CASE EndAdd
  BY <1>0, <1>12 DEF EndAdd, GitAdd
<1>13. CASE EndCommit
  BY <1>0, <1>13 DEF EndCommit, GitCommit, Exit
<1>14. CASE AskFails
  BY <1>0, <1>14 DEF AskFails, OneMoreTry, diskVars
<1>15. CASE AskRefused
  BY <1>0, <1>15 DEF AskRefused, OneMoreTry, diskVars
<1>16. CASE AskAccepted
  BY <1>0, <1>16 DEF AskAccepted, OneMoreTry, diskVars
<1>17. CASE RestorePath
  <2>1. PICK p \in todo : /\ Restore(p)
                           /\ todo' = todo \ {p}
                           /\ UNCHANGED <<pc, cur>>
    BY <1>17, RestoreClean DEF RestorePath, CleanInv
  <2>2. work' = [work EXCEPT ![p] = head.files[p]] /\ head' = head
    BY <1>17, <2>1, RestoreClean DEF RestorePath, CleanInv, Restore
  <2> QED
    BY <1>0, <1>17, <2>1, <2>2 DEF RestorePath, Trees
<1>18. CASE Restored
  BY <1>0, <1>18 DEF Restored, diskVars
<1>19. CASE WriteAnswer
  <2>1. PICK p \in todo : /\ work' = [work EXCEPT ![p] = answer[p]]
                           /\ todo' = todo \ {p}
    BY <1>19 DEF WriteAnswer, WriteFile
  <2>2. p \in DOMAIN answer /\ p \in Paths
    BY <1>0, <1>19 DEF WriteAnswer, TypeInv, TypeOK, TodoIsOwn
  <2> QED
    BY <1>0, <1>19, <2>1, <2>2 DEF WriteAnswer, WriteFile, Trees
<1>20. CASE Written
  <2>1. work = [p \in Paths |-> IF p \in DOMAIN answer THEN answer[p] ELSE head.files[p]]
    BY <1>0, <1>20 DEF Written, Trees
  <2> QED
    BY <1>0, <1>20, <2>1 DEF Written, diskVars, CheckChange
<1>21. CASE CheckGreen
  BY <1>0, <1>21 DEF CheckGreen, diskVars
<1>22. CASE CheckRed
  BY <1>0, <1>22 DEF CheckRed, diskVars, CheckChange
<1>23. CASE SaveFailed
  BY <1>0, <1>23 DEF SaveFailed, SaveState, NextAttempt
<1>24. CASE SaveGreen
  BY <1>0, <1>24 DEF SaveGreen, SaveState
<1>25. CASE GreenAdd
  BY <1>0, <1>25 DEF GreenAdd, GitAdd
<1>26. CASE GreenCommit
  BY <1>0, <1>26 DEF GreenCommit, GitCommit
<1>27. CASE SaveStamp
  BY <1>0, <1>27 DEF SaveStamp, SaveState
<1>28. CASE GiveUp
  <2>1. work = head.files
    BY <1>0, <1>28 DEF GiveUp, Trees
  <2> QED
    BY <1>0, <1>28, <2>1 DEF GiveUp, diskVars
<1>29. CASE Report
  BY <1>0, <1>29 DEF Report, WriteReport
<1>30. CASE SaveBlocked
  BY <1>0, <1>30 DEF SaveBlocked, SaveState
<1>31. CASE BlockedAdd
  BY <1>0, <1>31 DEF BlockedAdd, GitAdd
<1>32. CASE BlockedCommit
  BY <1>0, <1>32 DEF BlockedCommit, GitCommit
<1>33. CASE Crash
  BY <1>33, NeverStopped
<1>34. CASE UNCHANGED vars
  BY <1>0, <1>34 DEF vars, procVars, diskVars
<1> QED
  BY <1>1, <1>2, <1>3, <1>4, <1>5, <1>6, <1>7, <1>8, <1>9, <1>10, <1>11, <1>12,
     <1>13, <1>14, <1>15, <1>16, <1>17, <1>18, <1>19, <1>20, <1>21, <1>22, <1>23, <1>24,
     <1>25, <1>26, <1>27, <1>28, <1>29, <1>30, <1>31, <1>32, <1>33, <1>34
  DEF Next, Step, RunStep, AttemptStep, OutcomeStep

(* StatusInv is inductive. *)
LEMMA StatusInvInductive ==
  ASSUME MaxCrashes = 0, TypeInv, MemoryInv, CleanInv, [Next]_vars
  PROVE  StatusInv'
<1> USE DEF StatusInv, Goto, Loaded, UnitPoints, SavePoints, DecidedPoints, SavedPoints,
            Skippable, CommittedGreen
<1>0. /\ mem \in [Units -> UnitStates] /\ saved \in [Units -> UnitStates]
      /\ pc \in UnitPoints => cur \in Units
      /\ StatusInv
      /\ pc \notin {"idle", "init", "first_add", "first_commit"} => head.exists
      /\ Loaded => \A u \in Units : saved[u].status = "green" => mem[u].status = "green"
  BY DEF CleanInv, TypeInv, TypeOK, DiskTypeOK, AtUnit, MemoryInv, GitInv, BeforeHistory
<1>1. CASE Start
  BY <1>0, <1>1 DEF Start, diskVars
<1>2. CASE EnsureInit
  BY <1>0, <1>2 DEF EnsureInit, GitInit
<1>3. CASE EnsureAdd
  BY <1>0, <1>3 DEF EnsureAdd, GitAdd
<1>4. CASE EnsureCommit
  BY <1>0, <1>4 DEF EnsureCommit, GitCommit
<1>5. CASE Load
  BY <1>0, <1>5 DEF Load, Exit, diskVars
<1>6. CASE OpenChecker
  BY <1>0, <1>6 DEF OpenChecker, diskVars
<1>7. CASE OpenFails
  BY <1>0, <1>7 DEF OpenFails, Exit, diskVars
<1>8. CASE PassOver
  BY <1>0, <1>8 DEF PassOver, diskVars
<1>9. CASE SkipUnit
  BY <1>0, <1>9 DEF SkipUnit, diskVars
<1>10. CASE SaveSkipped
  BY <1>0, <1>10 DEF SaveSkipped, SaveState
<1>11. CASE StartUnit
  BY <1>0, <1>11 DEF StartUnit, Settled, NextAttempt, UnitStates, Statuses, diskVars
<1>12. CASE EndAdd
  BY <1>0, <1>12 DEF EndAdd, GitAdd
<1>13. CASE EndCommit
  BY <1>0, <1>13 DEF EndCommit, GitCommit, Exit
<1>14. CASE AskFails
  BY <1>0, <1>14 DEF AskFails, OneMoreTry, diskVars
<1>15. CASE AskRefused
  BY <1>0, <1>15 DEF AskRefused, OneMoreTry, diskVars
<1>16. CASE AskAccepted
  BY <1>0, <1>16 DEF AskAccepted, OneMoreTry, diskVars
<1>17. CASE RestorePath
  <2>1. \E p \in todo : Restore(p) /\ UNCHANGED <<pc, cur, mem>>
    BY <1>17, RestoreClean DEF RestorePath, CleanInv
  <2> QED
    BY <1>0, <2>1 DEF Restore
<1>18. CASE Restored
  BY <1>0, <1>18 DEF Restored, diskVars
<1>19. CASE WriteAnswer
  BY <1>0, <1>19 DEF WriteAnswer, WriteFile
<1>20. CASE Written
  BY <1>0, <1>20 DEF Written, diskVars
<1>21. CASE CheckGreen
  BY <1>0, <1>21 DEF CheckGreen, diskVars
<1>22. CASE CheckRed
  BY <1>0, <1>22 DEF CheckRed, diskVars
<1>23. CASE SaveFailed
  BY <1>0, <1>23 DEF SaveFailed, SaveState, NextAttempt
<1>24. CASE SaveGreen
  BY <1>0, <1>24 DEF SaveGreen, SaveState
<1>25. CASE GreenAdd
  BY <1>0, <1>25 DEF GreenAdd, GitAdd
<1>26. CASE GreenCommit
  BY <1>0, <1>26 DEF GreenCommit, GitCommit
<1>27. CASE SaveStamp
  BY <1>0, <1>27 DEF SaveStamp, SaveState
<1>28. CASE GiveUp
  BY <1>0, <1>28 DEF GiveUp, diskVars
<1>29. CASE Report
  BY <1>0, <1>29 DEF Report, WriteReport
<1>30. CASE SaveBlocked
  BY <1>0, <1>30 DEF SaveBlocked, SaveState
<1>31. CASE BlockedAdd
  BY <1>0, <1>31 DEF BlockedAdd, GitAdd
<1>32. CASE BlockedCommit
  BY <1>0, <1>32 DEF BlockedCommit, GitCommit
<1>33. CASE Crash
  BY <1>33, NeverStopped
<1>34. CASE UNCHANGED vars
  BY <1>0, <1>34 DEF vars, procVars, diskVars
<1> QED
  BY <1>1, <1>2, <1>3, <1>4, <1>5, <1>6, <1>7, <1>8, <1>9, <1>10, <1>11, <1>12,
     <1>13, <1>14, <1>15, <1>16, <1>17, <1>18, <1>19, <1>20, <1>21, <1>22, <1>23, <1>24,
     <1>25, <1>26, <1>27, <1>28, <1>29, <1>30, <1>31, <1>32, <1>33, <1>34
  DEF Next, Step, RunStep, AttemptStep, OutcomeStep

(* A commit of a tree that passes the suite. *)
LEMMA CommitCode ==
  ASSUME CodeInv, StatusInv, GitCommit, SuitePasses,
         \A p \in Paths : work[p] # head.files[p] =>
             \E u \in Units : p \in Allowed(u) /\ saved[u].status = "green",
         head.exists \/ work = Skeleton
  PROVE  (HeadPassesSuite /\ OnlyGreenCodeCommitted)'
<1>1. HeadPassesSuite'
  BY DEF GitCommit, SuitePasses, HeadPassesSuite
<1>2. ASSUME NEW p \in Paths, work[p] # Skeleton[p]
      PROVE  \E u \in Units : p \in Allowed(u) /\ saved[u].status = "green"
  BY <1>2 DEF CodeInv, OnlyGreenCodeCommitted, StatusInv, CommittedGreen
<1> QED
  BY <1>1, <1>2 DEF OnlyGreenCodeCommitted, CommittedGreen, GitCommit

(* CodeInv is inductive. *)
LEMMA CodeInvInductive ==
  ASSUME MaxCrashes = 0, TypeInv, CleanInv, [Next]_vars
  PROVE  CodeInv'
<1> USE DEF CodeInv, Goto, HeadPassesSuite, OnlyGreenCodeCommitted, CommittedGreen, SuitePasses
<1>0. /\ CodeInv /\ StatusInv
      /\ pc \in UnitPoints => cur \in Units
      /\ pc \notin {"idle", "init", "first_add", "first_commit"} => head.exists
      /\ pc \in {"end_commit", "blocked_commit"} => work = head.files
  BY DEF CleanInv, TypeInv, AtUnit, GitInv, BeforeHistory, TreeInv, RestPoints
<1>1. CASE Start
  BY <1>0, <1>1 DEF Start, diskVars
<1>2. CASE EnsureInit
  BY <1>0, <1>2 DEF EnsureInit, GitInit
<1>3. CASE EnsureAdd
  BY <1>0, <1>3 DEF EnsureAdd, GitAdd
<1>4. CASE EnsureCommit
  <2>1. work = Skeleton /\ SuitePasses
    BY <1>4, RepoAssumption DEF EnsureCommit, CleanInv, GitInv, BeforeHistory
  <2> QED
    BY <1>0, <1>4, <2>1, CommitCode DEF EnsureCommit, GitCommit
<1>5. CASE Load
  BY <1>0, <1>5 DEF Load, Exit, diskVars
<1>6. CASE OpenChecker
  BY <1>0, <1>6 DEF OpenChecker, diskVars
<1>7. CASE OpenFails
  BY <1>0, <1>7 DEF OpenFails, Exit, diskVars
<1>8. CASE PassOver
  BY <1>0, <1>8 DEF PassOver, diskVars
<1>9. CASE SkipUnit
  BY <1>0, <1>9 DEF SkipUnit, diskVars
<1>10. CASE SaveSkipped
  BY <1>0, <1>10 DEF SaveSkipped, SaveState
<1>11. CASE StartUnit
  BY <1>0, <1>11 DEF StartUnit, NextAttempt, diskVars
<1>12. CASE EndAdd
  BY <1>0, <1>12 DEF EndAdd, GitAdd
<1>13. CASE EndCommit
  BY <1>0, <1>13, CommitCode DEF EndCommit, Exit
<1>14. CASE AskFails
  BY <1>0, <1>14 DEF AskFails, OneMoreTry, diskVars
<1>15. CASE AskRefused
  BY <1>0, <1>15 DEF AskRefused, OneMoreTry, diskVars
<1>16. CASE AskAccepted
  BY <1>0, <1>16 DEF AskAccepted, OneMoreTry, diskVars
<1>17. CASE RestorePath
  <2>1. \E p \in todo : Restore(p) /\ UNCHANGED pc
    BY <1>17, RestoreClean DEF RestorePath, CleanInv
  <2> QED
    BY <1>0, <1>17, <2>1 DEF RestorePath, Restore
<1>18. CASE Restored
  BY <1>0, <1>18 DEF Restored, diskVars
<1>19. CASE WriteAnswer
  BY <1>0, <1>19 DEF WriteAnswer, WriteFile
<1>20. CASE Written
  BY <1>0, <1>20 DEF Written, diskVars
<1>21. CASE CheckGreen
  BY <1>0, <1>21 DEF CheckGreen, diskVars
<1>22. CASE CheckRed
  BY <1>0, <1>22 DEF CheckRed, diskVars
<1>23. CASE SaveFailed
  BY <1>0, <1>23 DEF SaveFailed, SaveState, NextAttempt
<1>24. CASE SaveGreen
  BY <1>0, <1>24 DEF SaveGreen, SaveState
<1>25. CASE GreenAdd
  BY <1>0, <1>25 DEF GreenAdd, GitAdd
<1>26. CASE GreenCommit
  <2>1. \A p \in Paths : work[p] # head.files[p] => p \in Allowed(cur)
    BY <1>26 DEF GreenCommit, CleanInv, TreeInv, WrittenPoints, CheckChange
  <2>2. cur \in Units /\ saved[cur].status = "green"
    BY <1>0, <1>26 DEF GreenCommit, StatusInv, SavedPoints, UnitPoints
  <2> QED
    BY <1>0, <1>26, <2>1, <2>2, CommitCode DEF GreenCommit
<1>27. CASE SaveStamp
  BY <1>0, <1>27 DEF SaveStamp, SaveState
<1>28. CASE GiveUp
  BY <1>0, <1>28 DEF GiveUp, diskVars
<1>29. CASE Report
  BY <1>0, <1>29 DEF Report, WriteReport
<1>30. CASE SaveBlocked
  BY <1>0, <1>30 DEF SaveBlocked, SaveState
<1>31. CASE BlockedAdd
  BY <1>0, <1>31 DEF BlockedAdd, GitAdd
<1>32. CASE BlockedCommit
  BY <1>0, <1>32, CommitCode DEF BlockedCommit
<1>33. CASE Crash
  BY <1>33, NeverStopped
<1>34. CASE UNCHANGED vars
  BY <1>0, <1>34 DEF vars, procVars, diskVars
<1> QED
  BY <1>1, <1>2, <1>3, <1>4, <1>5, <1>6, <1>7, <1>8, <1>9, <1>10, <1>11, <1>12,
     <1>13, <1>14, <1>15, <1>16, <1>17, <1>18, <1>19, <1>20, <1>21, <1>22, <1>23, <1>24,
     <1>25, <1>26, <1>27, <1>28, <1>29, <1>30, <1>31, <1>32, <1>33, <1>34
  DEF Next, Step, RunStep, AttemptStep, OutcomeStep

(* TriesInv is inductive. *)
LEMMA TriesInvInductive ==
  ASSUME MaxCrashes = 0, TypeInv, CleanInv, [Next]_vars
  PROVE  TriesInv'
<1> USE DEF TriesInv, Goto, Loaded, AttemptPoints, BlockedAfterAllAttempts
<1>0. /\ mem \in [Units -> UnitStates] /\ saved \in [Units -> UnitStates]
      /\ pc \in UnitPoints => cur \in Units
      /\ TriesInv /\ StatusInv
  BY DEF CleanInv, TypeInv, TypeOK, DiskTypeOK, AtUnit
<1>1. CASE Start
  BY <1>0, <1>1 DEF Start, diskVars
<1>2. CASE EnsureInit
  BY <1>0, <1>2 DEF EnsureInit, GitInit
<1>3. CASE EnsureAdd
  BY <1>0, <1>3 DEF EnsureAdd, GitAdd
<1>4. CASE EnsureCommit
  BY <1>0, <1>4 DEF EnsureCommit, GitCommit
<1>5. CASE Load
  BY <1>0, <1>5 DEF Load, Exit, diskVars
<1>6. CASE OpenChecker
  BY <1>0, <1>6 DEF OpenChecker, diskVars
<1>7. CASE OpenFails
  BY <1>0, <1>7 DEF OpenFails, Exit, diskVars
<1>8. CASE PassOver
  BY <1>0, <1>8 DEF PassOver, diskVars
<1>9. CASE SkipUnit
  BY <1>0, <1>9 DEF SkipUnit, diskVars
<1>10. CASE SaveSkipped
  BY <1>0, <1>10 DEF SaveSkipped, SaveState
<1>11. CASE StartUnit
  BY <1>0, <1>11, RepoAssumption DEF StartUnit, NextAttempt, UnitStates, diskVars
<1>12. CASE EndAdd
  BY <1>0, <1>12 DEF EndAdd, GitAdd
<1>13. CASE EndCommit
  BY <1>0, <1>13 DEF EndCommit, GitCommit, Exit
<1>14. CASE AskFails
  BY <1>0, <1>14 DEF AskFails, OneMoreTry, diskVars
<1>15. CASE AskRefused
  BY <1>0, <1>15 DEF AskRefused, OneMoreTry, diskVars
<1>16. CASE AskAccepted
  BY <1>0, <1>16 DEF AskAccepted, OneMoreTry, diskVars
<1>17. CASE RestorePath
  <2>1. \E p \in todo : Restore(p) /\ UNCHANGED <<pc, cur, mem>>
    BY <1>17, RestoreClean DEF RestorePath, CleanInv
  <2> QED
    BY <1>0, <2>1 DEF Restore
<1>18. CASE Restored
  BY <1>0, <1>18 DEF Restored, diskVars
<1>19. CASE WriteAnswer
  BY <1>0, <1>19 DEF WriteAnswer, WriteFile
<1>20. CASE Written
  BY <1>0, <1>20 DEF Written, diskVars
<1>21. CASE CheckGreen
  BY <1>0, <1>21 DEF CheckGreen, diskVars
<1>22. CASE CheckRed
  BY <1>0, <1>22 DEF CheckRed, diskVars
<1>23. CASE SaveFailed
  <2>1. cur \in Units
    BY <1>0, <1>23 DEF SaveFailed, UnitPoints, SavePoints
  <2>2. mem[cur].tries \in 0 .. MaxAttempts
    BY <1>0, <2>1 DEF UnitStates
  <2>3. mem[cur].tries < MaxAttempts \/ mem[cur].tries = MaxAttempts
    BY <2>2, RepoAssumption
  <2> QED
    BY <1>0, <1>23, <2>3 DEF SaveFailed, SaveState, NextAttempt
<1>24. CASE SaveGreen
  BY <1>0, <1>24 DEF SaveGreen, SaveState, StatusInv
<1>25. CASE GreenAdd
  BY <1>0, <1>25 DEF GreenAdd, GitAdd
<1>26. CASE GreenCommit
  BY <1>0, <1>26 DEF GreenCommit, GitCommit
<1>27. CASE SaveStamp
  BY <1>0, <1>27 DEF SaveStamp, SaveState
<1>28. CASE GiveUp
  BY <1>0, <1>28 DEF GiveUp, diskVars
<1>29. CASE Report
  BY <1>0, <1>29 DEF Report, WriteReport
<1>30. CASE SaveBlocked
  BY <1>0, <1>30 DEF SaveBlocked, SaveState
<1>31. CASE BlockedAdd
  BY <1>0, <1>31 DEF BlockedAdd, GitAdd
<1>32. CASE BlockedCommit
  BY <1>0, <1>32 DEF BlockedCommit, GitCommit
<1>33. CASE Crash
  BY <1>33, NeverStopped
<1>34. CASE UNCHANGED vars
  BY <1>0, <1>34 DEF vars, procVars, diskVars
<1> QED
  BY <1>1, <1>2, <1>3, <1>4, <1>5, <1>6, <1>7, <1>8, <1>9, <1>10, <1>11, <1>12,
     <1>13, <1>14, <1>15, <1>16, <1>17, <1>18, <1>19, <1>20, <1>21, <1>22, <1>23, <1>24,
     <1>25, <1>26, <1>27, <1>28, <1>29, <1>30, <1>31, <1>32, <1>33, <1>34
  DEF Next, Step, RunStep, AttemptStep, OutcomeStep

-----------------------------------------------------------------------------
(* The invariant of the runs that are not stopped midway. *)
LEMMA CleanRunInv == MaxCrashes = 0 => (Spec => [](TypeInv /\ MemoryInv /\ CleanInv))
<1> SUFFICES ASSUME MaxCrashes = 0
             PROVE  Spec => [](TypeInv /\ MemoryInv /\ CleanInv)
  OBVIOUS
<1>1. TypeInv /\ MemoryInv /\ CleanInv /\ [Next]_vars => CleanInv'
  <2> SUFFICES ASSUME TypeInv, MemoryInv, CleanInv, [Next]_vars PROVE CleanInv'
    OBVIOUS
  <2> QED
    BY GitInvInductive, TreeInvInductive, StatusInvInductive, CodeInvInductive,
       TriesInvInductive DEF CleanInv
<1> QED
  BY <1>1, InitClean, RunInv, PTL DEF Spec

(* HeadPassesSuite: no commit of a run that is not stopped breaks the build or a
   test, the commits of blocked units included. *)
THEOREM CommitsPassSuite == MaxCrashes = 0 => (Spec => []HeadPassesSuite)
<1> SUFFICES ASSUME MaxCrashes = 0 PROVE Spec => []HeadPassesSuite
  OBVIOUS
<1>1. CleanInv => HeadPassesSuite
  BY DEF CleanInv, CodeInv
<1> QED
  BY <1>1, CleanRunInv, PTL

(* OnlyGreenCodeCommitted: what a failed attempt wrote never reaches a commit;
   the code of a commit is the skeleton's or that of a unit it calls green. *)
THEOREM CommittedCodeIsGreen == MaxCrashes = 0 => (Spec => []OnlyGreenCodeCommitted)
<1> SUFFICES ASSUME MaxCrashes = 0 PROVE Spec => []OnlyGreenCodeCommitted
  OBVIOUS
<1>1. CleanInv => OnlyGreenCodeCommitted
  BY DEF CleanInv, CodeInv
<1> QED
  BY <1>1, CleanRunInv, PTL

(* AttemptOnCommittedTree: the sandbox judges the last commit plus this answer,
   with nothing left of earlier attempts, of this unit or of another. *)
THEOREM AttemptsAreIndependent == MaxCrashes = 0 => (Spec => []AttemptOnCommittedTree)
<1> SUFFICES ASSUME MaxCrashes = 0 PROVE Spec => []AttemptOnCommittedTree
  OBVIOUS
<1>1. CleanInv => AttemptOnCommittedTree
  BY DEF CleanInv, TreeInv, WrittenPoints, AttemptOnCommittedTree
<1> QED
  BY <1>1, CleanRunInv, PTL

(* NothingLeftBehind: between two units and when a unit is given up, the working
   tree is the last commit. *)
THEOREM TreeIsLastCommit == MaxCrashes = 0 => (Spec => []NothingLeftBehind)
<1> SUFFICES ASSUME MaxCrashes = 0 PROVE Spec => []NothingLeftBehind
  OBVIOUS
<1>1. CleanInv => NothingLeftBehind
  BY DEF CleanInv, TreeInv, GitInv, BeforeHistory, RestPoints, NothingLeftBehind
<1> QED
  BY <1>1, CleanRunInv, PTL

(* BlockedAfterAllAttempts: git calls a unit blocked only after MaxAttempts
   attempts of one run, although a retry starts from zero. *)
THEOREM BlockedIsExhausted == MaxCrashes = 0 => (Spec => []BlockedAfterAllAttempts)
<1> SUFFICES ASSUME MaxCrashes = 0 PROVE Spec => []BlockedAfterAllAttempts
  OBVIOUS
<1>1. CleanInv => BlockedAfterAllAttempts
  BY DEF CleanInv, TriesInv
<1> QED
  BY <1>1, CleanRunInv, PTL

(* What the index has is in the last commit, so that a restore finds it there,
   but between the two steps of a commit, when it is what the commit will have.
   This is so until a stop separates the two steps. *)
IndexInv ==
    /\ crashes \in [count : 0 .. MaxCrashes, inCommit : BOOLEAN]
    /\ ~ crashes.inCommit =>
          /\ pc \in CommitPoints => tracked = Present(work)
          /\ pc \notin CommitPoints => tracked \subseteq Present(head.files)
    /\ raised => pc = "idle"
    /\ StoppedRunResumes

(* IndexInv is inductive, whatever the working tree looks like after a stop. *)
LEMMA IndexInvInductive ==
  ASSUME TypeInv, IndexInv, [Next]_vars
  PROVE  IndexInv'
<1> USE DEF IndexInv, CommitPoints, StoppedRunResumes, Goto, Exit, diskVars
<1>1. CASE EnsureAdd \/ EndAdd \/ GreenAdd \/ BlockedAdd
  BY <1>1 DEF EnsureAdd, EndAdd, GreenAdd, BlockedAdd, GitAdd, Present
<1>2. CASE EnsureCommit \/ EndCommit \/ GreenCommit \/ BlockedCommit
  BY <1>2 DEF EnsureCommit, EndCommit, GreenCommit, BlockedCommit, GitCommit, Present
<1>3. CASE RestorePath
  <2>1. PICK p \in todo :
          \/ Restore(p) /\ UNCHANGED <<pc, raised>>
          \/ ~ CanRestore(p) /\ UNCHANGED diskVars /\ Exit(TRUE)
    BY <1>3 DEF RestorePath
  <2>2. pc \in {"restore", "unwind"} /\ UNCHANGED crashes
    BY <1>3 DEF RestorePath
  <2>3. ~ crashes.inCommit => CanRestore(p)
    BY <2>2 DEF CanRestore, Present
  <2>4. CASE Restore(p) /\ UNCHANGED <<pc, raised>>
    BY <2>2, <2>4 DEF Restore
  <2>5. CASE ~ CanRestore(p) /\ UNCHANGED diskVars /\ Exit(TRUE)
    BY <2>2, <2>3, <2>5
  <2> QED
    BY <2>1, <2>4, <2>5
<1>4. CASE SaveSkipped \/ SaveFailed \/ SaveGreen \/ SaveStamp \/ SaveBlocked
  BY <1>4 DEF SaveSkipped, SaveFailed, SaveGreen, SaveStamp, SaveBlocked, SaveState, NextAttempt
<1>5. CASE WriteAnswer \/ Report \/ EnsureInit
  BY <1>5 DEF WriteAnswer, WriteFile, Report, WriteReport, EnsureInit, GitInit
<1>6. CASE Start \/ Load \/ OpenChecker \/ OpenFails \/ PassOver \/ SkipUnit \/ StartUnit
  BY <1>6 DEF Start, Load, OpenChecker, OpenFails, PassOver, SkipUnit, StartUnit, NextAttempt
<1>7. CASE AskFails \/ AskRefused \/ AskAccepted \/ Restored \/ Written
  BY <1>7 DEF AskFails, AskRefused, AskAccepted, Restored, Written
<1>8. CASE CheckGreen \/ CheckRed \/ GiveUp
  BY <1>8 DEF CheckGreen, CheckRed, GiveUp
<1>9. CASE Crash
  <2>1. crashes'.inCommit = (crashes.inCommit \/ pc \in CommitPoints)
    BY <1>9 DEF Crash
  <2>2. crashes' \in [count : 0 .. MaxCrashes, inCommit : BOOLEAN]
    BY <1>9, LoopAssumption DEF Crash
  <2> QED
    BY <1>9, <2>1, <2>2 DEF Crash
<1>10. CASE UNCHANGED vars
  BY <1>10 DEF vars, procVars
<1> QED
  BY <1>1, <1>2, <1>3, <1>4, <1>5, <1>6, <1>7, <1>8, <1>9, <1>10
  DEF Next, Step, RunStep, AttemptStep, OutcomeStep

(* StoppedRunResumes: however often and wherever it is stopped, no later run dies
   of a `git checkout` that fails, unless a stop came between the two steps of a
   commit, nor of a state.json that does not load, unless a stop truncated it. *)
THEOREM StoppedRunsResume == Spec => []StoppedRunResumes
<1>1. Init => IndexInv
  BY LoopAssumption DEF Init, DiskInit, IndexInv, CommitPoints, StoppedRunResumes
<1>2. TypeInv /\ IndexInv /\ [Next]_vars => IndexInv'
  BY IndexInvInductive
<1>3. IndexInv => StoppedRunResumes
  BY DEF IndexInv
<1> QED
  BY <1>1, <1>2, <1>3, RunInv, PTL DEF Spec

-----------------------------------------------------------------------------
(* MigrationLoop implements MigrationHistory. *)

(* Before the first commit the history shows the skeleton with every unit
   pending, and the first commit records just that. *)
LEMMA FirstCommitIsInitial ==
  ASSUME CleanInv, EnsureCommit
  PROVE  UNCHANGED History!historyVars
<1>1. head = NoCommit /\ work = Skeleton /\ saved = FreshState
  BY DEF CleanInv, GitInv, BeforeHistory, EnsureCommit, Goto
<1> QED
  BY <1>1 DEF EnsureCommit, GitCommit, NoCommit, History!historyVars

(* Units that state.json skips and the last commit does not have nothing to
   migrate; nothing else but the outcome of cur is new in a commit. *)
LEMMA CommitSettles ==
  ASSUME CleanInv, GitCommit, NEW settled \in SUBSET Units, NEW outcome,
         \A u \in settled : Target[u] # {} /\ saved[u].status = outcome,
         pc \in SavedPoints => cur \in settled
  PROVE  History!Settle(settled, outcome)
<1> DEFINE S == {u \in Units : Skippable(u, saved)}
           was == [u \in Units |-> head.state[u].status]
           is == [u \in Units |-> head'.state[u].status]
<1>1. S \in SUBSET History!NothingToMigrate
  BY DEF Skippable, History!NothingToMigrate, History!Units, Units
<1>2. \A u \in Units : is[u] = saved[u].status
  BY DEF GitCommit
<1>3. \A u \in Units \ settled :
          is[u] = IF u \in S THEN "skipped" ELSE was[u]
  BY <1>2 DEF CleanInv, StatusInv, Skippable
<1>4. \A u \in settled : u \notin S /\ is[u] = outcome
  BY <1>2 DEF Skippable
<1>5. is = [u \in History!Units |-> CASE u \in settled -> outcome
                                     [] u \in S -> "skipped"
                                     [] OTHER -> was[u]]
  BY <1>3, <1>4 DEF History!Units, Units
<1> QED
  BY <1>1, <1>5 DEF History!Settle

(* A green unit's commit is one of CommitGreen: its own files only, finished,
   and a tree that passes the suite. *)
LEMMA GreenCommitIsCommitGreen ==
  ASSUME TypeInv, CleanInv, GreenCommit, NEW u \in Units, u = cur
  PROVE  History!CommitGreen(u)
<1>1. /\ cur \in Units /\ head.exists
      /\ Target[cur] # {} /\ head.state[cur].status \in {"pending", "blocked"}
      /\ saved[cur].status = "green"
      /\ head' = [exists |-> TRUE, files |-> work, state |-> saved]
      /\ pc = "green_commit"
  BY DEF GreenCommit, GitCommit, Goto, TypeInv, AtUnit, UnitPoints, SavePoints, CleanInv,
         GitInv, BeforeHistory, StatusInv, SavedPoints
<1>2. History!Unsettled(cur)
  BY <1>1 DEF History!Unsettled
<1>3. History!Settle({cur}, "green")
  BY <1>1, CommitSettles DEF GreenCommit
<1>4. \A p \in Paths : work[p] # head.files[p] => p \in Allowed(cur)
  BY <1>1 DEF CleanInv, TreeInv, WrittenPoints, CheckChange
<1>5. SuitePasses /\ CheckDone(cur, work)
  BY <1>1 DEF CleanInv, CodeInv
<1>6. Finished(cur, work)
  BY <1>1, <1>5, AllowedArePaths DEF Finished, SuitePasses
<1> QED
  BY <1>1, <1>2, <1>3, <1>4, <1>5, <1>6
  DEF History!CommitGreen, SuitePasses, Finished, CheckDone, TestFiles, Allowed,
      History!Finished, History!CheckDone, History!TestFiles, History!Allowed

(* A blocked unit's commit changes no file. *)
LEMMA BlockedCommitIsCommitBlocked ==
  ASSUME TypeInv, CleanInv, BlockedCommit, NEW u \in Units, u = cur
  PROVE  History!CommitBlocked(u)
<1>1. /\ cur \in Units /\ head.exists
      /\ Target[cur] # {} /\ head.state[cur].status \in {"pending", "blocked"}
      /\ saved[cur].status = "blocked"
      /\ work = head.files
      /\ head' = [exists |-> TRUE, files |-> work, state |-> saved]
  BY DEF BlockedCommit, GitCommit, Goto, TypeInv, AtUnit, UnitPoints, SavePoints, CleanInv,
         GitInv, BeforeHistory, StatusInv, SavedPoints, TreeInv, RestPoints
<1>2. History!Settle({cur}, "blocked")
  BY <1>1, CommitSettles DEF BlockedCommit
<1> QED
  BY <1>1, <1>2 DEF History!CommitBlocked, History!Unsettled

(* The commit at the end of a run only skips units without a target. *)
LEMMA EndCommitIsCommitState ==
  ASSUME CleanInv, EndCommit
  PROVE  History!CommitState
<1>1. /\ head.exists /\ work = head.files /\ pc \notin SavedPoints
      /\ head' = [exists |-> TRUE, files |-> work, state |-> saved]
  BY DEF EndCommit, GitCommit, CleanInv, GitInv, BeforeHistory, TreeInv, RestPoints, SavedPoints
<1>2. History!Settle({}, "skipped")
  BY <1>1, CommitSettles DEF EndCommit
<1> QED
  BY <1>1, <1>2 DEF History!CommitState

(* Only `git commit` changes the last commit. *)
LEMMA HeadStep ==
  ASSUME MaxCrashes = 0, TypeInv, [Next]_vars
  PROVE  head' = head \/ EnsureCommit \/ EndCommit \/ GreenCommit \/ BlockedCommit
<1> USE DEF diskVars, GitInit, GitAdd, Restore, WriteFile, SaveState, WriteReport
<1>1. CASE Start \/ RunStep
  BY <1>1 DEF Start, RunStep, EnsureInit, EnsureAdd, Load, OpenChecker, OpenFails, PassOver,
              SkipUnit, SaveSkipped, StartUnit, EndAdd
<1>2. CASE AttemptStep
  BY <1>2 DEF AttemptStep, AskFails, AskRefused, AskAccepted, RestorePath, Restored,
              WriteAnswer, Written, CheckGreen, CheckRed, SaveFailed
<1>3. CASE OutcomeStep
  BY <1>3 DEF OutcomeStep, SaveGreen, GreenAdd, SaveStamp, GiveUp, Report, SaveBlocked,
              BlockedAdd
<1>4. CASE Crash
  BY <1>4, NeverStopped
<1>5. CASE UNCHANGED vars
  BY <1>5 DEF vars
<1> QED
  BY <1>1, <1>2, <1>3, <1>4, <1>5 DEF Next, Step

(* Every step of the loop is a step of the history, or shows in no commit. *)
LEMMA HistoryStep ==
  ASSUME MaxCrashes = 0, TypeInv, CleanInv, [Next]_vars
  PROVE  [History!Next]_(History!historyVars)
<1>1. CASE head' = head
  BY <1>1 DEF History!historyVars
<1>2. CASE EnsureCommit
  BY <1>2, FirstCommitIsInitial
<1>3. CASE EndCommit
  BY <1>3, EndCommitIsCommitState DEF History!Next
<1>4. CASE GreenCommit
  <2>1. PICK u \in Units : u = cur
    BY <1>4 DEF GreenCommit, Goto, TypeInv, AtUnit, UnitPoints
  <2> QED
    BY <1>4, <2>1, GreenCommitIsCommitGreen DEF History!Next, History!Units, Units
<1>5. CASE BlockedCommit
  <2>1. PICK u \in Units : u = cur
    BY <1>5 DEF BlockedCommit, Goto, TypeInv, AtUnit, UnitPoints
  <2> QED
    BY <1>5, <2>1, BlockedCommitIsCommitBlocked DEF History!Next, History!Units, Units
<1> QED
  BY <1>1, <1>2, <1>3, <1>4, <1>5, HeadStep

(* ImplementsHistory: while nobody stops it in the middle of an attempt, the
   loop shows the reviewer of the target repository nothing but what
   MigrationHistory allows, for every plan, shared files included. *)
THEOREM LoopImplementsHistory == MaxCrashes = 0 => (Spec => ImplementsHistory)
<1> SUFFICES ASSUME MaxCrashes = 0 PROVE Spec => ImplementsHistory
  OBVIOUS
<1>1. Init => History!Init
  BY DEF Init, DiskInit, NoCommit, FreshState, FreshUnit, History!Init, History!Units, Units
<1>2. TypeInv /\ CleanInv /\ [Next]_vars => [History!Next]_(History!historyVars)
  BY HistoryStep
<1> QED
  BY <1>1, <1>2, CleanRunInv, PTL DEF Spec, ImplementsHistory, History!Spec


-----------------------------------------------------------------------------
(* Units that share files. *)

(* A file of the tests of one unit is no target of another one, unless that one
   has nothing but tests, too: a cycle of imports between code and tests would be
   a unit with both. *)
TestsApart ==
    \A u \in Units, v \in Units \ TestUnits :
        u # v => TestFiles(u) \cap Target[v] \subseteq AppPaths

(* Whoever writes a file of a finished unit and is finished itself leaves the
   first one finished: it has no stub among its targets and tests in its tests. *)
LEMMA FinishedTogether ==
  ASSUME TestsApart, NEW u \in Units, NEW v \in Units, u # v,
         NEW was \in Trees, NEW is \in Trees, NEW files \in AllAnswers,
         is = [p \in Paths |-> IF p \in DOMAIN files THEN files[p] ELSE was[p]],
         DOMAIN files \subseteq Allowed(v), Finished(u, was),
         CheckDone(v, is), \A p \in Paths : is[p] # "bad"
  PROVE  Finished(u, is)
<1>1. ASSUME NEW p \in DOMAIN files
      PROVE  /\ p \in Paths /\ p \in Allowed(v) /\ is[p] = files[p]
             /\ is[p] \in {"stub", "good", "bad"}
  <2>1. p \in Paths /\ p \in Allowed(v) /\ is[p] = files[p]
    BY AllowedArePaths
  <2>2. files[p] \in {"stub", "good", "bad", "invalid"}
    BY DEF AllAnswers
  <2>3. is[p] \in Contents
    BY <2>1 DEF Trees
  <2> QED
    BY <2>1, <2>2, <2>3 DEF Contents
<1>2. ASSUME NEW p \in Target[u] \cap AppPaths, p \in Allowed(u)
      PROVE  is[p] # "stub"
  <2>1. CASE p \in DOMAIN files
    <3>1. p \in Target[v] \cap AppPaths
      BY <1>1, <1>2, <2>1, PlanAssumption DEF Allowed
    <3> QED
      BY <1>1, <2>1, <3>1 DEF CheckDone
  <2>2. CASE p \notin DOMAIN files
    BY <1>2, <2>2, AllowedArePaths DEF Finished, CheckDone
  <2> QED
    BY <2>1, <2>2
<1>3. ASSUME NEW p \in TestFiles(u)
      PROVE  p \in Allowed(u) /\ is[p] \in {"good", "bad"}
  <2>1. p \in Allowed(u) /\ p \in Paths /\ was[p] \in {"good", "bad"}
    BY AllowedArePaths DEF Finished, CheckDone
  <2>2. CASE p \in DOMAIN files
    <3>1. is[p] # "stub"
      <4>1. CASE p \in TestFiles(v)
        BY <4>1 DEF CheckDone
      <4>2. CASE p \notin TestFiles(v)
        <5>1. p \in Target[v] /\ v \notin TestUnits
          BY <1>1, <2>2, <4>2 DEF Allowed, TestFiles
        <5>2. p \in AppPaths
          BY <5>1 DEF TestsApart
        <5> QED
          BY <1>1, <2>2, <5>1, <5>2 DEF CheckDone
      <4> QED
        BY <4>1, <4>2
    <3> QED
      BY <1>1, <2>1, <2>2, <3>1
  <2>3. CASE p \notin DOMAIN files
    BY <2>1, <2>3
  <2> QED
    BY <2>1, <2>2, <2>3
<1>4. \A p \in Allowed(u) : is[p] # "bad"
  BY AllowedArePaths
<1> QED
  BY <1>2, <1>3, <1>4 DEF Finished, CheckDone

(* GreenCommitHasCode: without a stop, also when units share files, every commit
   that calls a unit green holds its finished code. *)
THEOREM SharedCodeStaysFinished ==
  MaxCrashes = 0 /\ TestsApart => (Spec => []GreenCommitHasCode)
<1> SUFFICES ASSUME MaxCrashes = 0, TestsApart PROVE Spec => []GreenCommitHasCode
  OBVIOUS
<1> USE DEF GreenCommitHasCode, CommittedGreen
<1>1. Init => GreenCommitHasCode
  BY DEF Init, DiskInit, NoCommit
<1>2. TypeInv /\ CleanInv /\ GreenCommitHasCode /\ [Next]_vars => GreenCommitHasCode'
  <2> SUFFICES ASSUME TypeInv, CleanInv, GreenCommitHasCode, [Next]_vars
               PROVE  GreenCommitHasCode'
    OBVIOUS
  <2>1. CASE head' = head
    BY <2>1
  <2>2. CASE EnsureCommit
    <3>1. head' = [exists |-> TRUE, files |-> work, state |-> FreshState]
      BY <2>2 DEF EnsureCommit, Goto, GitCommit, CleanInv, GitInv, BeforeHistory
    <3> QED
      BY <3>1 DEF FreshState, FreshUnit
  <2>3. CASE EndCommit \/ BlockedCommit
    <3>1. /\ head.exists /\ head' = [exists |-> TRUE, files |-> head.files, state |-> saved]
      BY <2>3 DEF EndCommit, BlockedCommit, Goto, GitCommit, CleanInv, GitInv, BeforeHistory,
                  TreeInv, RestPoints
    <3>2. \A u \in Units : saved[u].status = "green" => head.state[u].status = "green"
      BY <2>3 DEF EndCommit, BlockedCommit, Goto, CleanInv, StatusInv, Skippable, SavedPoints
    <3> QED
      BY <3>1, <3>2
  <2>4. CASE GreenCommit
    <3>1. /\ pc = "green_commit" /\ cur \in Units /\ head.exists
          /\ head' = [exists |-> TRUE, files |-> work, state |-> saved]
      BY <2>4 DEF GreenCommit, Goto, GitCommit, TypeInv, AtUnit, UnitPoints, SavePoints,
                  CleanInv, GitInv, BeforeHistory
    <3>2. /\ CheckChange(cur, answer) /\ CheckDone(cur, work)
          /\ work = [p \in Paths |-> IF p \in DOMAIN answer THEN answer[p] ELSE head.files[p]]
          /\ \A p \in Paths : work[p] # "bad"
      BY <3>1 DEF CleanInv, TreeInv, WrittenPoints, CodeInv, SuitePasses
    <3>3. answer \in AllAnswers /\ work \in Trees /\ head.files \in Trees
      BY DEF TypeInv, TypeOK, DiskTypeOK, Commits
    <3>4. ASSUME NEW u \in Units, saved[u].status = "green"
          PROVE  Finished(u, work)
      <4>1. CASE u = cur
        BY <3>2, <4>1, AllowedArePaths DEF Finished
      <4>2. CASE u # cur
        <5>1. head.state[u].status = "green"
          BY <3>1, <3>4, <4>2 DEF CleanInv, StatusInv, Skippable
        <5>2. Finished(u, head.files)
          BY <3>1, <5>1
        <5>3. DOMAIN answer \subseteq Allowed(cur)
          BY <3>2 DEF CheckChange
        <5> QED
          BY <3>1, <3>2, <3>3, <4>2, <5>2, <5>3, FinishedTogether
      <4> QED
        BY <4>1, <4>2
    <3> QED
      BY <3>1, <3>4
  <2> QED
    BY <2>1, <2>2, <2>3, <2>4, HeadStep
<1> QED
  BY <1>1, <1>2, CleanRunInv, PTL DEF Spec

=============================================================================
