-------------------------- MODULE SandboxRun_proofs --------------------------
(***************************************************************************)
(* Theorems about SandboxRun, for any number of processes, every toolchain *)
(* and every choice of steps, with processes that are stopped and          *)
(* `migrator cleanup` run under them.                                      *)
(***************************************************************************)
EXTENDS SandboxRun, TLAPS

-----------------------------------------------------------------------------
(* The Docker daemon: what a command may change, and what the daemon, a
   program or a cleanup may do to a container behind the back of the process
   that owns it. *)

Ended == {"exited", "gone", "swept"}

(* Every command and every answer keeps what the daemon knows well-formed. *)
LEMMA HostTyped ==
  ASSUME HostTypeOK, NEW b \in Boxes,
         \/ (AskBox(b) \/ BoxStarts(b) \/ BoxRefused(b) \/ BoxEnds(b)
             \/ KillBox(b) \/ RemoveBox(b)) /\ UNCHANGED listed
         \/ RemoveLeftover(b) \/ ListLeftovers
  PROVE  HostTypeOK'
<1> USE DEF HostTypeOK, BoxType, Phases
<1>1. CASE ListLeftovers
  BY <1>1 DEF ListLeftovers
<1>2. CASE RemoveLeftover(b)
  BY <1>2 DEF RemoveLeftover, RemoveAs
<1>3. CASE UNCHANGED listed /\ (AskBox(b) \/ BoxStarts(b) \/ BoxRefused(b))
  BY <1>3 DEF AskBox, BoxStarts, BoxRefused
<1>4. CASE UNCHANGED listed /\ (BoxEnds(b) \/ KillBox(b) \/ RemoveBox(b))
  BY <1>4 DEF BoxEnds, KillBox, RemoveBox, RemoveAs
<1> QED
  BY <1>1, <1>2, <1>3, <1>4

(* What a step of the daemon, of a program in a container or of a cleanup does
   to a container: it starts only what was asked for, what has ended keeps its
   code and is at most swept, and nothing is gone but what was refused. *)
Undisturbed(b) ==
    /\ box[b].phase = "none" => box'[b] = box[b]
    /\ box'[b].phase = "asked" => box[b].phase = "asked"
    /\ box[b].phase \in Ended =>
          /\ box'[b].phase \in {box[b].phase, "swept"}
          /\ box'[b].code = box[b].code
          /\ box'[b].oom = box[b].oom
    /\ box'[b].phase = "gone" => box[b].phase = "gone" \/ box'[b].code = "refused"

(* The daemon answers, or a program ends. *)
LEMMA AnswersUndisturbed ==
  ASSUME HostTypeOK, NEW b \in Boxes, BoxStarts(b) \/ BoxRefused(b) \/ BoxEnds(b)
  PROVE  \A c \in Boxes : Undisturbed(c)
  BY DEF Undisturbed, Ended, BoxStarts, BoxRefused, BoxEnds, HostTypeOK, BoxType, Phases

(* `migrator cleanup` goes through its list. *)
LEMMA CleanupUndisturbed ==
  ASSUME HostTypeOK, ListLeftovers \/ \E b \in listed : RemoveLeftover(b)
  PROVE  \A c \in Boxes : Undisturbed(c)
<1> USE DEF Undisturbed, Ended
<1>1. CASE UNCHANGED box
  BY <1>1
<1>2. CASE \E b \in listed : Exists(b) /\ RemoveAs(b, "swept")
  BY <1>2 DEF RemoveAs, Exists, HostTypeOK, BoxType, Phases
<1> QED
  BY <1>1, <1>2 DEF ListLeftovers, RemoveLeftover, RemoveAs

(* An exit code is the code of a container that has ended. *)
CodeInv == \A b \in Boxes : box[b].code # "none" => box[b].phase \in Ended

(* Every docker command keeps it so that only what has ended has an exit code. *)
LEMMA CodesOfEnded ==
  ASSUME HostTypeOK, CodeInv, NEW b \in Boxes,
         \/ AskBox(b) \/ BoxStarts(b) \/ BoxRefused(b) \/ BoxEnds(b)
         \/ KillBox(b) \/ RemoveAs(b, "gone") \/ RemoveAs(b, "swept")
  PROVE  CodeInv'
<1> USE DEF CodeInv, Ended, HostTypeOK, BoxType, Phases
<1>1. CASE AskBox(b) \/ BoxStarts(b) \/ BoxRefused(b)
  BY <1>1 DEF AskBox, BoxStarts, BoxRefused
<1>2. CASE BoxEnds(b) \/ KillBox(b)
  BY <1>2 DEF BoxEnds, KillBox
<1>3. CASE RemoveAs(b, "gone")
  BY <1>3 DEF RemoveAs
<1>4. CASE RemoveAs(b, "swept")
  BY <1>4 DEF RemoveAs
<1> QED
  BY <1>1, <1>2, <1>3, <1>4

-----------------------------------------------------------------------------

(* One step is in its container. *)
StepPoints == {"launch", "wait", "kill", "wait_again", "inspect", "rm", "judge"}

StepIsChosen ==
    \A p \in Procs : pc[p] \in StepPoints => step[p] \in Steps(p)

(* Types, without the list of results, which decides nothing. *)
TypeInv ==
    /\ HostTypeOK
    /\ pc \in [Procs -> Points]
    /\ request \in [Procs -> Requests]
    /\ step \in [Procs -> Nat]
    /\ timedOut \in [Procs -> BOOLEAN]
    /\ oomSeen \in [Procs -> BOOLEAN]
    /\ verdict \in [Procs -> Verdicts]
    /\ StepIsChosen

(* The step i of p, as far as p has got with it. *)
Started(p, i) == i < step[p] \/ (i = step[p] /\ pc[p] \notin {"idle", "image", "launch"})
Removed(p, i) == i < step[p] \/ (i = step[p] /\ pc[p] \in {"judge", "done"})

(* Containers of a process that is alive: none before its step, one that has
   ended once its client returned, and gone for no other reason than a refusal
   or a cleanup as long as the process itself has not removed it. *)
BoxesInStep(p) ==
    /\ pc[p] \in {"idle", "image"} => step[p] = 0
    /\ pc[p] \in {"inspect", "rm", "judge"} => box[Box(p)].phase \in Ended
    /\ \A i \in Steps(p) :
          /\ ~ Started(p, i) => box[<<p, i>>].phase = "none"
          /\ ~ Removed(p, i) /\ box[<<p, i>>].phase = "gone" =>
                box[<<p, i>>].code = "refused"

BoxInv == \A p \in Procs : pc[p] # "stopped" => BoxesInStep(p)

Clean(b) == box[b].code = "ok" /\ (box[b].oom => box[b].phase = "swept")

(* The steps before the current one were clean; what `docker inspect` did not
   see of the current one is only what a cleanup took away. *)
CleanSoFar(p) ==
    /\ pc[p] \in StepPoints => \A i \in Steps(p) : i < step[p] => Clean(<<p, i>>)
    /\ pc[p] \in {"rm", "judge"} /\ ~ oomSeen[p] /\ box[Box(p)].code = "ok" =>
          Clean(Box(p))
    /\ verdict[p] = "passed" =>
          /\ pc[p] = "done"
          /\ Steps(p) # {}
          /\ \A i \in Steps(p) : Clean(<<p, i>>)
          /\ request[p].all => HasTests(p)

VerdictInv == \A p \in Procs : CleanSoFar(p)

(* Every container of a step that is over has been removed. *)
StepsRemoved(p) ==
    \A i \in Steps(p) : Removed(p, i) => box[<<p, i>>].phase \in {"none", "gone", "swept"}

RemovedInv == \A p \in Procs : pc[p] # "stopped" => StepsRemoved(p)

-----------------------------------------------------------------------------
(* There is a container name for every step. *)
LEMMA BoxOfStep ==
  ASSUME request \in [Procs -> Requests], NEW p \in Procs, NEW i \in Steps(p)
  PROVE  <<p, i>> \in Boxes /\ i \in Nat /\ i > 0
<1>1. request[p] \in Requests /\ request[p].toolchain \in Seq(STRING)
  BY RunAssumption
<1>2. i \in DOMAIN request[p].toolchain
  BY DEF Steps
<1> QED
  BY <1>1, <1>2, RunAssumption

(* What is not a step of a process. *)
HostStep == Cleanup \/ \E b \in Boxes : DaemonAnswers(b) \/ ProgramEnds(b)

(* What a process was asked to run does not change. *)
LEMMA RequestKept ==
  ASSUME [Next]_vars
  PROVE  /\ request' = request
         /\ \A p : Steps(p)' = Steps(p)
         /\ \A p : HasTests(p)' = HasTests(p)
<1>1. request' = request
  <2>1. ASSUME NEW p \in Procs, ProcStep(p) \/ Stop(p)
        PROVE  request' = request
    BY <2>1 DEF ProcStep, NothingToRun, StartRun, EnsureImage, CannotPull, Launch,
                ClientReturns, TimesOut, KillStep, Inspect, RemoveStep, Judge, Stop
  <2>2. ASSUME HostStep
        PROVE  request' = request
    BY <2>2 DEF HostStep, Cleanup, DaemonAnswers, ProgramEnds, procVars
  <2>3. UNCHANGED vars => request' = request
    BY DEF vars, procVars
  <2> QED
    BY <2>1, <2>2, <2>3 DEF Next, HostStep
<1> QED
  BY <1>1 DEF Steps, Name, HasTests

(* A step of a process keeps the types, and the position in the toolchain is
   one of the steps that were asked for. *)
LEMMA ProcTyped ==
  ASSUME TypeInv, NEW p \in Procs, ProcStep(p) \/ Stop(p)
  PROVE  TypeInv'
<1> USE DEF TypeInv, StepIsChosen, StepPoints, Points, Verdicts, Goto, Conclude
<1>0. /\ pc[p] \in StepPoints => Box(p) \in Boxes
      /\ \A i \in Steps(p) : i \in Nat
      /\ \A q : Steps(q)' = Steps(q)
  BY BoxOfStep, RequestKept DEF Box, Next
<1>00. UNCHANGED hostVars => HostTypeOK'
  BY DEF hostVars, HostTypeOK
<1>1. CASE NothingToRun(p)
  BY <1>0, <1>00, <1>1 DEF NothingToRun
<1>2. CASE StartRun(p)
  BY <1>0, <1>00, <1>2 DEF StartRun
<1>3. CASE EnsureImage(p)
  BY <1>0, <1>00, <1>3 DEF EnsureImage, NextStep, StepsLeft
<1>4. CASE CannotPull(p)
  BY <1>0, <1>00, <1>4 DEF CannotPull
<1>5. CASE Launch(p)
  <2>1. HostTypeOK'
    BY <1>0, <1>5, HostTyped DEF Launch
  <2> QED
    BY <1>0, <1>5, <2>1 DEF Launch
<1>6. CASE ClientReturns(p)
  BY <1>0, <1>00, <1>6 DEF ClientReturns
<1>7. CASE TimesOut(p)
  <2>1. HostTypeOK'
    BY <1>7 DEF TimesOut, hostVars, HostTypeOK
  <2> QED
    BY <1>0, <1>7, <2>1 DEF TimesOut
<1>8. CASE KillStep(p)
  <2>1. HostTypeOK'
    BY <1>0, <1>8, HostTyped DEF KillStep
  <2> QED
    BY <1>0, <1>8, <2>1 DEF KillStep
<1>9. CASE Inspect(p)
  <2>1. box[Box(p)].oom \in BOOLEAN
    BY <1>0, <1>9 DEF Inspect, HostTypeOK, BoxType
  <2> QED
    BY <1>0, <1>00, <1>9, <2>1 DEF Inspect
<1>10. CASE RemoveStep(p)
  <2>1. HostTypeOK'
    BY <1>0, <1>10, HostTyped DEF RemoveStep
  <2> QED
    BY <1>0, <1>10, <2>1 DEF RemoveStep
<1>11. CASE Judge(p)
  <2>0. HostTypeOK'
    BY <1>00, <1>11 DEF Judge
  <2>1. /\ FinalVerdict(p) \in Verdicts
        /\ \A i \in StepsLeft(p) : i \in Steps(p)
    BY DEF FinalVerdict, StepsLeft
  <2>2. CASE Conclude(p, "failed") \/ Conclude(p, FinalVerdict(p))
    <3>1. CASE Conclude(p, "failed")
      BY <1>0, <1>11, <2>0, <3>1 DEF Judge
    <3>2. CASE Conclude(p, FinalVerdict(p))
      BY <1>0, <1>11, <2>0, <2>1, <3>2 DEF Judge
    <3> QED
      BY <2>2, <3>1, <3>2
  <2>3. CASE pc' = [pc EXCEPT ![p] = "launch"] /\ NextStep(p)
    <3>1. PICK i \in Steps(p) : step' = [step EXCEPT ![p] = i]
      BY <2>1, <2>3 DEF NextStep
    <3> QED
      BY <1>0, <1>11, <2>0, <2>3, <3>1 DEF Judge
  <2> QED
    BY <1>11, <2>2, <2>3 DEF Judge
<1>12. CASE Stop(p)
  BY <1>0, <1>00, <1>12 DEF Stop
<1> QED
  BY <1>1, <1>2, <1>3, <1>4, <1>5, <1>6, <1>7, <1>8, <1>9, <1>10, <1>11, <1>12 DEF ProcStep

(* Such a step leaves the processes alone, and their containers nearly. *)
LEMMA HostStepDoes ==
  ASSUME TypeInv, HostStep
  PROVE  /\ UNCHANGED procVars
         /\ TypeInv'
         /\ \A b \in Boxes : Undisturbed(b)
<1>0. UNCHANGED procVars
  BY DEF HostStep, Cleanup, DaemonAnswers, ProgramEnds
<1>1. HostTypeOK'
  <2>1. CASE ListLeftovers
    BY <2>1 DEF ListLeftovers, TypeInv, HostTypeOK
  <2>2. CASE \E b \in listed : RemoveLeftover(b)
    BY <2>2, HostTyped DEF TypeInv, HostTypeOK
  <2>3. CASE \E b \in Boxes : DaemonAnswers(b) \/ ProgramEnds(b)
    BY <2>3, HostTyped DEF DaemonAnswers, ProgramEnds, TypeInv
  <2> QED
    BY <2>1, <2>2, <2>3 DEF HostStep, Cleanup
<1>2. TypeInv'
  <2>1. Next
    BY DEF Next, HostStep
  <2>2. \A p : Steps(p)' = Steps(p)
    BY <2>1, RequestKept
  <2> QED
    BY <1>0, <1>1, <2>2 DEF TypeInv, procVars, StepIsChosen
<1>3. \A b \in Boxes : Undisturbed(b)
  BY AnswersUndisturbed, CleanupUndisturbed
  DEF HostStep, Cleanup, DaemonAnswers, ProgramEnds, TypeInv
<1> QED
  BY <1>0, <1>2, <1>3

(* TypeInv is inductive. *)
LEMMA TypeInvInductive ==
  ASSUME TypeInv, [Next]_vars
  PROVE  TypeInv'
<1>1. CASE UNCHANGED vars
  BY <1>1, RequestKept DEF vars, procVars, hostVars, TypeInv, HostTypeOK, StepIsChosen
<1> QED
  BY <1>1, ProcTyped, HostStepDoes DEF Next, HostStep

-----------------------------------------------------------------------------
(* The loop takes the steps in order and leaves none out. *)
LEMMA LoopInOrder ==
  ASSUME TypeInv, NEW p \in Procs
  PROVE  /\ StepsLeft(p) = {} => \A i \in Steps(p) : i <= step[p]
         /\ NextStep(p) => /\ step'[p] \in Steps(p) /\ step'[p] > step[p]
                           /\ \A i \in Steps(p) : i < step'[p] => i <= step[p]
<1>1. step[p] \in Nat /\ \A i \in Steps(p) : i \in Nat
  BY BoxOfStep DEF TypeInv
<1>2. ASSUME NEW i \in Steps(p)
      PROVE  i \in StepsLeft(p) \/ i <= step[p]
  BY <1>1 DEF StepsLeft
<1>3. ASSUME NEW j \in StepsLeft(p), \A i \in StepsLeft(p) : j <= i,
             step' = [step EXCEPT ![p] = j]
      PROVE  /\ step'[p] \in Steps(p) /\ step'[p] > step[p]
             /\ \A i \in Steps(p) : i < step'[p] => i <= step[p]
  <2>1. step'[p] = j /\ j \in Steps(p) /\ j > step[p]
    BY <1>3 DEF StepsLeft, TypeInv
  <2> QED
    BY <1>1, <1>2, <1>3, <2>1
<1> QED
  BY <1>2, <1>3 DEF NextStep

(* A process moves itself and the container of its current step only. *)
LEMMA OthersKept ==
  ASSUME TypeInv, NEW p \in Procs, ProcStep(p) \/ Stop(p)
  PROVE  /\ \A b \in Boxes : b # Box(p) => box'[b] = box[b]
         /\ \A q \in Procs : q # p =>
               /\ pc'[q] = pc[q] /\ step'[q] = step[q]
               /\ oomSeen'[q] = oomSeen[q] /\ verdict'[q] = verdict[q]
<1> USE DEF TypeInv, HostTypeOK, Goto, Conclude, hostVars
<1>1. CASE NothingToRun(p) \/ StartRun(p) \/ EnsureImage(p) \/ CannotPull(p)
  BY <1>1 DEF NothingToRun, StartRun, EnsureImage, NextStep, CannotPull
<1>2. CASE Launch(p)
  BY <1>2 DEF Launch, AskBox
<1>3. CASE ClientReturns(p) \/ TimesOut(p) \/ Inspect(p) \/ Stop(p)
  BY <1>3 DEF ClientReturns, TimesOut, Inspect, Stop
<1>4. CASE KillStep(p)
  BY <1>4 DEF KillStep, KillBox
<1>5. CASE RemoveStep(p)
  BY <1>5 DEF RemoveStep, RemoveBox, RemoveAs
<1>6. CASE Judge(p)
  BY <1>6 DEF Judge, NextStep
<1> QED
  BY <1>1, <1>2, <1>3, <1>4, <1>5, <1>6 DEF ProcStep

(* CodeInv is inductive. *)
LEMMA CodeInvInductive ==
  ASSUME TypeInv, CodeInv, [Next]_vars
  PROVE  CodeInv'
<1>1. CASE UNCHANGED box
  BY <1>1 DEF CodeInv
<1>2. ASSUME NEW p \in Procs, ProcStep(p) \/ Stop(p)
      PROVE  CodeInv'
  <2>1. pc[p] \in StepPoints => Box(p) \in Boxes
    BY BoxOfStep DEF Box, TypeInv, StepIsChosen
  <2>2. CASE Launch(p) \/ KillStep(p) \/ RemoveStep(p)
    BY <2>1, <2>2, CodesOfEnded
    DEF Launch, KillStep, RemoveStep, RemoveBox, Goto, StepPoints, TypeInv
  <2> QED
    BY <1>1, <1>2, <2>2
    DEF ProcStep, NothingToRun, StartRun, EnsureImage, CannotPull, ClientReturns, TimesOut,
        Inspect, Judge, Stop, hostVars
<1>3. CASE \E b \in listed : RemoveLeftover(b)
  BY <1>3, CodesOfEnded DEF RemoveLeftover, TypeInv, HostTypeOK
<1>4. CASE \E b \in Boxes : DaemonAnswers(b) \/ ProgramEnds(b)
  BY <1>4, CodesOfEnded DEF DaemonAnswers, ProgramEnds, TypeInv
<1> QED
  BY <1>1, <1>2, <1>3, <1>4 DEF Next, Cleanup, ListLeftovers, vars, hostVars

(* The other processes, and the steps of the daemon, the programs and the
   cleanup, keep a process in step with its containers. *)
LEMMA BoxesInStepOthers ==
  ASSUME TypeInv, NEW p \in Procs, NEW q \in Procs, p # q, ProcStep(p) \/ Stop(p),
         BoxesInStep(q)
  PROVE  BoxesInStep(q)'
<1>1. \A i \in Steps(q) : box'[<<q, i>>] = box[<<q, i>>]
  BY OthersKept, BoxOfStep DEF Box, TypeInv
<1>2. pc'[q] = pc[q] /\ step'[q] = step[q] /\ Steps(q)' = Steps(q)
  BY OthersKept, RequestKept DEF Next
<1>3. pc[q] \in {"inspect", "rm", "judge"} => step[q] \in Steps(q)
  BY DEF TypeInv, StepIsChosen, StepPoints
<1> QED
  BY <1>1, <1>2, <1>3 DEF BoxesInStep, Box, Started, Removed

(* The containers of a run stay in step with it whatever the daemon, the
   programs and the cleanup do meanwhile. *)
LEMMA BoxesInStepHost ==
  ASSUME TypeInv, HostStep, NEW q \in Procs, BoxesInStep(q)
  PROVE  BoxesInStep(q)'
<1>1. \A i \in Steps(q) : <<q, i>> \in Boxes /\ Undisturbed(<<q, i>>)
  BY HostStepDoes, BoxOfStep DEF TypeInv
<1>2. pc' = pc /\ step' = step /\ request' = request
  BY HostStepDoes DEF procVars
<1>3. Steps(q)' = Steps(q)
  BY <1>2 DEF Steps, Name
<1>4. pc[q] \in {"inspect", "rm", "judge"} => step[q] \in Steps(q)
  BY DEF TypeInv, StepIsChosen, StepPoints
<1> QED
  BY <1>1, <1>2, <1>3, <1>4 DEF BoxesInStep, Box, Started, Removed, Undisturbed, Ended

(* A process stays in step with its own containers. *)
LEMMA BoxesInStepOwn ==
  ASSUME TypeInv, NEW p \in Procs, ProcStep(p) \/ Stop(p), BoxesInStep(p)
  PROVE  pc'[p] # "stopped" => BoxesInStep(p)'
<1> USE DEF BoxesInStep, Started, Removed, Ended, Goto, Conclude, hostVars, Box
<1>0. /\ Steps(p)' = Steps(p)
      /\ \A i \in Steps(p) : <<p, i>> \in Boxes /\ i \in Nat /\ i > 0
      /\ pc[p] \in StepPoints => step[p] \in Steps(p)
      /\ pc \in [Procs -> Points] /\ step \in [Procs -> Nat] /\ box \in [Boxes -> BoxType]
  BY RequestKept, BoxOfStep DEF Next, TypeInv, StepIsChosen, HostTypeOK
<1> USE DEF StepPoints
<1>1. CASE NothingToRun(p)
  BY <1>0, <1>1 DEF NothingToRun
<1>2. CASE StartRun(p)
  BY <1>0, <1>2 DEF StartRun
<1>3. CASE EnsureImage(p)
  BY <1>0, <1>3 DEF EnsureImage, NextStep, StepsLeft
<1>4. CASE CannotPull(p)
  BY <1>0, <1>4 DEF CannotPull
<1>5. CASE Launch(p)
  BY <1>0, <1>5 DEF Launch, AskBox
<1>6. CASE ClientReturns(p)
  BY <1>0, <1>6 DEF ClientReturns, ClientDone
<1>7. CASE TimesOut(p)
  BY <1>0, <1>7 DEF TimesOut
<1>8. CASE KillStep(p)
  <2>1. box'[Box(p)].phase \in {box[Box(p)].phase, "exited"}
    BY <1>0, <1>8 DEF KillStep, KillBox, BoxType
  <2>2. \A b \in Boxes : b # Box(p) => box'[b] = box[b]
    BY <1>8, OthersKept
  <2>3. box'[Box(p)].phase = "gone" => box'[Box(p)] = box[Box(p)]
    BY <1>0, <1>8 DEF KillStep, KillBox, BoxType
  <2> QED
    BY <1>0, <1>8, <2>1, <2>2, <2>3 DEF KillStep
<1>9. CASE Inspect(p)
  BY <1>0, <1>9 DEF Inspect
<1>10. CASE RemoveStep(p)
  <2>1. box'[Box(p)].phase \in Ended
    BY <1>0, <1>10 DEF RemoveStep, RemoveBox, RemoveAs, BoxType
  <2>2. \A b \in Boxes : b # Box(p) => box'[b] = box[b]
    BY <1>10, OthersKept
  <2> QED
    BY <1>0, <1>10, <2>1, <2>2 DEF RemoveStep
<1>11. CASE Judge(p)
  <2>1. box' = box /\ step[p] \in Steps(p)
    BY <1>0, <1>11 DEF Judge
  <2>2. CASE pc' = [pc EXCEPT ![p] = "done"] /\ step' = step
    BY <1>0, <1>11, <2>1, <2>2 DEF Judge
  <2>3. CASE pc' = [pc EXCEPT ![p] = "launch"] /\ NextStep(p)
    <3>1. /\ step'[p] \in Steps(p) /\ step'[p] > step[p]
          /\ \A i \in Steps(p) : i < step'[p] => i <= step[p]
      BY <2>3, LoopInOrder
    <3>2. step'[p] \in Nat /\ step[p] \in Nat
      BY <1>0, <3>1
    <3>3. pc'[p] = "launch"
      BY <1>0, <2>3
    <3> QED
      BY <1>0, <1>11, <2>1, <3>1, <3>2, <3>3 DEF Judge
  <2> QED
    BY <1>11, <2>2, <2>3 DEF Judge
<1>12. CASE Stop(p)
  BY <1>0, <1>12 DEF Stop
<1> QED
  BY <1>1, <1>2, <1>3, <1>4, <1>5, <1>6, <1>7, <1>8, <1>9, <1>10, <1>11, <1>12 DEF ProcStep

(* BoxInv is inductive. *)
LEMMA BoxInvInductive ==
  ASSUME TypeInv, BoxInv, [Next]_vars
  PROVE  BoxInv'
<1>1. ASSUME NEW p \in Procs, ProcStep(p) \/ Stop(p)
      PROVE  BoxInv'
  <2>1. pc[p] # "stopped"
    BY <1>1 DEF ProcStep, NothingToRun, StartRun, EnsureImage, CannotPull, Launch, ClientReturns,
                TimesOut, KillStep, Inspect, RemoveStep, Judge, Stop, Goto
  <2> QED
    BY <1>1, <2>1, BoxesInStepOwn, BoxesInStepOthers, OthersKept DEF BoxInv
<1>2. CASE HostStep
  BY <1>2, BoxesInStepHost, HostStepDoes DEF BoxInv, procVars
<1>3. CASE UNCHANGED vars
  BY <1>3, RequestKept DEF vars, procVars, hostVars, BoxInv, BoxesInStep, Started, Removed, Box
<1> QED
  BY <1>1, <1>2, <1>3 DEF Next, HostStep

-----------------------------------------------------------------------------
(* A step that was clean stays so, and no other exit code becomes 0 once the
   container has ended. *)
LEMMA CleanStaysOthers ==
  ASSUME TypeInv, NEW p \in Procs, NEW q \in Procs, p # q, ProcStep(p) \/ Stop(p),
         CleanSoFar(q)
  PROVE  CleanSoFar(q)'
<1>1. \A i \in Steps(q) : box'[<<q, i>>] = box[<<q, i>>]
  BY OthersKept, BoxOfStep DEF Box, TypeInv
<1>2. /\ pc'[q] = pc[q] /\ step'[q] = step[q] /\ oomSeen'[q] = oomSeen[q]
      /\ verdict'[q] = verdict[q] /\ Steps(q)' = Steps(q) /\ HasTests(q)' = HasTests(q)
      /\ request' = request
  BY OthersKept, RequestKept DEF Next
<1>3. pc[q] \in {"rm", "judge"} => step[q] \in Steps(q)
  BY DEF TypeInv, StepIsChosen, StepPoints
<1> QED
  BY <1>1, <1>2, <1>3 DEF CleanSoFar, Box, Clean

(* The steps that succeeded so far stay successful whatever the daemon, the
   programs and the cleanup do meanwhile. *)
LEMMA CleanStaysHost ==
  ASSUME TypeInv, CodeInv, HostStep, NEW q \in Procs, pc[q] # "stopped" => BoxesInStep(q),
         CleanSoFar(q)
  PROVE  CleanSoFar(q)'
<1>1. \A i \in Steps(q) : <<q, i>> \in Boxes /\ Undisturbed(<<q, i>>)
  BY HostStepDoes, BoxOfStep DEF TypeInv
<1>2. \A i \in Steps(q) : Clean(<<q, i>>) => Clean(<<q, i>>)'
  BY <1>1 DEF Clean, CodeInv, Undisturbed, Ended
<1>3. /\ pc' = pc /\ step' = step /\ request' = request
      /\ oomSeen' = oomSeen /\ verdict' = verdict
  BY HostStepDoes DEF procVars
<1>4. Steps(q)' = Steps(q) /\ HasTests(q)' = HasTests(q)
  BY <1>3 DEF Steps, Name, HasTests
<1>5. pc[q] \in {"rm", "judge"} =>
          step[q] \in Steps(q) /\ box'[Box(q)].code = box[Box(q)].code
  BY <1>1 DEF TypeInv, StepIsChosen, StepPoints, BoxesInStep, Undisturbed, Box
<1> QED
  BY <1>2, <1>3, <1>4, <1>5 DEF CleanSoFar, Box

(* What a process concludes of its own steps. *)
LEMMA CleanStaysOwn ==
  ASSUME TypeInv, CodeInv, NEW p \in Procs, pc[p] # "stopped" => BoxesInStep(p),
         "inspect" \notin Flaky, ProcStep(p) \/ Stop(p), CleanSoFar(p)
  PROVE  CleanSoFar(p)'
<1> USE DEF CleanSoFar, Goto, Conclude, hostVars, StepPoints
<1>0. /\ Steps(p)' = Steps(p) /\ HasTests(p)' = HasTests(p) /\ request' = request
      /\ \A i \in Steps(p) : <<p, i>> \in Boxes /\ i \in Nat /\ i > 0
      /\ pc[p] \in StepPoints => step[p] \in Steps(p)
      /\ pc \in [Procs -> Points] /\ step \in [Procs -> Nat] /\ box \in [Boxes -> BoxType]
      /\ verdict \in [Procs -> Verdicts] /\ oomSeen \in [Procs -> BOOLEAN]
      /\ \A b : b # Box(p) /\ b \in Boxes => box'[b] = box[b]
  BY RequestKept, BoxOfStep, OthersKept DEF Next, TypeInv, StepIsChosen, HostTypeOK
<1>00. \A i \in Steps(p) : Clean(<<p, i>>) /\ (box' = box \/ i # step[p]) => Clean(<<p, i>>)'
  BY <1>0 DEF Clean, Box
<1>1. CASE NothingToRun(p)
  BY <1>0, <1>00, <1>1 DEF NothingToRun
<1>2. CASE StartRun(p)
  BY <1>0, <1>00, <1>2 DEF StartRun
<1>3. CASE EnsureImage(p)
  <2>1. /\ step'[p] \in Steps(p)
        /\ \A i \in Steps(p) : i < step'[p] => i <= 0
    BY <1>0, <1>3, LoopInOrder DEF EnsureImage, BoxesInStep
  <2>2. \A i \in Steps(p) : ~ (i < step'[p])
    <3>1. \A i \in Steps(p) : i \in Nat /\ i > 0
      BY <1>0
    <3> QED
      BY <2>1, <3>1
  <2> QED
    BY <1>0, <1>3, <2>1, <2>2 DEF EnsureImage
<1>4. CASE CannotPull(p)
  BY <1>0, <1>00, <1>4 DEF CannotPull
<1>5. CASE Launch(p)
  BY <1>0, <1>00, <1>5 DEF Launch, AskBox
<1>6. CASE ClientReturns(p)
  BY <1>0, <1>00, <1>6 DEF ClientReturns, ClientDone
<1>7. CASE TimesOut(p)
  BY <1>0, <1>00, <1>7 DEF TimesOut
<1>8. CASE KillStep(p)
  BY <1>0, <1>00, <1>8 DEF KillStep, KillBox
<1>9. CASE Inspect(p)
  <2>1. box[Box(p)].phase \in Ended
    BY <1>0, <1>9 DEF Inspect, BoxesInStep
  <2>2. box[Box(p)].phase = "gone" => box[Box(p)].code = "refused"
    BY <1>0, <1>9 DEF Inspect, BoxesInStep, Removed, Box
  <2>3. oomSeen'[p] = (Exists(Box(p)) /\ box[Box(p)].oom)
    BY <1>0, <1>9 DEF Inspect
  <2>4. box'[Box(p)].code = "ok" /\ ~ oomSeen'[p] => Clean(Box(p))'
    BY <1>0, <1>9, <2>1, <2>2, <2>3 DEF Inspect, Clean, Exists, Ended, Box
  <2> QED
    BY <1>0, <1>00, <1>9, <2>4 DEF Inspect, Box, Clean
<1>10. CASE RemoveStep(p)
  <2>1. box[Box(p)].phase \in Ended /\ Box(p) \in Boxes
    BY <1>0, <1>10 DEF RemoveStep, BoxesInStep, Box
  <2>2. /\ box'[Box(p)].code = box[Box(p)].code /\ box'[Box(p)].oom = box[Box(p)].oom
        /\ box[Box(p)].phase = "swept" => box'[Box(p)].phase = "swept"
    BY <1>0, <1>10, <2>1 DEF RemoveStep, RemoveBox, RemoveAs, Exists, Ended, BoxType
  <2>3. Clean(Box(p)) => Clean(Box(p))'
    BY <2>2, <1>10 DEF Clean, Box, RemoveStep
  <2> QED
    BY <1>0, <1>00, <1>10, <2>2, <2>3 DEF RemoveStep, Box
<1>11. CASE Judge(p)
  <2>1. box' = box /\ step[p] \in Steps(p) /\ pc[p] = "judge" /\ verdict[p] # "passed"
    BY <1>0, <1>11 DEF Judge
  <2>2. CASE ~ StepOk(p) /\ Conclude(p, "failed")
    BY <1>0, <1>11, <2>1, <2>2 DEF Judge
  <2>3. ASSUME StepOk(p)
        PROVE  \A i \in Steps(p) : i <= step[p] => Clean(<<p, i>>)'
    <3>1. Clean(Box(p))
      BY <2>1, <2>3 DEF StepOk
    <3> QED
      BY <1>0, <1>00, <2>1, <3>1 DEF Box
  <2>4. CASE StepOk(p) /\ StepsLeft(p) = {} /\ Conclude(p, FinalVerdict(p))
    <3>1. \A i \in Steps(p) : i <= step[p]
      BY <2>4, LoopInOrder
    <3>2. verdict'[p] = "passed" => (request[p].all => HasTests(p))
      BY <1>0, <2>4 DEF FinalVerdict
    <3>3. pc'[p] = "done"
      BY <1>0, <2>4
    <3> QED
      BY <1>0, <2>1, <2>3, <2>4, <3>1, <3>2, <3>3
  <2>5. CASE StepOk(p) /\ NextStep(p) /\ pc' = [pc EXCEPT ![p] = "launch"] /\ verdict' = verdict
    <3>1. /\ step'[p] \in Steps(p) /\ step'[p] > step[p]
          /\ \A i \in Steps(p) : i < step'[p] => i <= step[p]
      BY <2>5, LoopInOrder
    <3>4. pc'[p] = "launch" /\ verdict'[p] # "passed"
      BY <1>0, <2>1, <2>5
    <3> QED
      BY <1>0, <2>3, <2>5, <3>1, <3>4
  <2> QED
    BY <1>11, <2>2, <2>4, <2>5 DEF Judge
<1>12. CASE Stop(p)
  BY <1>0, <1>00, <1>12 DEF Stop
<1> QED
  BY <1>1, <1>2, <1>3, <1>4, <1>5, <1>6, <1>7, <1>8, <1>9, <1>10, <1>11, <1>12 DEF ProcStep

(* VerdictInv is inductive when `docker inspect` answers. *)
LEMMA VerdictInvInductive ==
  ASSUME TypeInv, CodeInv, BoxInv, VerdictInv, [Next]_vars, "inspect" \notin Flaky
  PROVE  VerdictInv'
<1>1. ASSUME NEW p \in Procs, ProcStep(p) \/ Stop(p)
      PROVE  VerdictInv'
  BY <1>1, CleanStaysOwn, CleanStaysOthers DEF VerdictInv, BoxInv
<1>2. CASE HostStep
  BY <1>2, CleanStaysHost DEF VerdictInv, BoxInv
<1>3. CASE UNCHANGED vars
  BY <1>3, RequestKept DEF vars, procVars, hostVars, VerdictInv, CleanSoFar, Box, Clean
<1> QED
  BY <1>1, <1>2, <1>3 DEF Next, HostStep

-----------------------------------------------------------------------------
(* A container that is over stays over. *)
LEMMA RemovedStaysOthers ==
  ASSUME TypeInv, NEW p \in Procs, NEW q \in Procs, p # q, ProcStep(p) \/ Stop(p)
  PROVE  /\ \A i \in Steps(q) : box'[<<q, i>>] = box[<<q, i>>]
         /\ \A i : Removed(q, i)' = Removed(q, i)
         /\ pc'[q] = pc[q] /\ Steps(q)' = Steps(q)
<1>1. \A i \in Steps(q) : box'[<<q, i>>] = box[<<q, i>>]
  BY OthersKept, BoxOfStep DEF Box, TypeInv
<1>2. pc'[q] = pc[q] /\ step'[q] = step[q] /\ Steps(q)' = Steps(q)
  BY OthersKept, RequestKept DEF Next
<1> QED
  BY <1>1, <1>2 DEF Removed

(* A process that is alive removes what it started, when `docker rm` works. *)
LEMMA RemovedStaysOwn ==
  ASSUME TypeInv, NEW p \in Procs, pc[p] # "stopped" => BoxesInStep(p),
         "rm" \notin Flaky, ProcStep(p) \/ Stop(p),
         pc[p] # "stopped" => StepsRemoved(p)
  PROVE  pc'[p] # "stopped" => StepsRemoved(p)'
<1> USE DEF StepsRemoved, Removed, Goto, Conclude, hostVars, StepPoints
<1>0. /\ Steps(p)' = Steps(p)
      /\ \A i \in Steps(p) : <<p, i>> \in Boxes /\ i \in Nat /\ i > 0
      /\ pc[p] \in StepPoints => step[p] \in Steps(p)
      /\ pc \in [Procs -> Points] /\ step \in [Procs -> Nat] /\ box \in [Boxes -> BoxType]
      /\ \A b : b # Box(p) /\ b \in Boxes => box'[b] = box[b]
  BY RequestKept, BoxOfStep, OthersKept DEF Next, TypeInv, StepIsChosen, HostTypeOK
<1>00. \A i \in Steps(p) : box' = box \/ i # step[p] => box'[<<p, i>>] = box[<<p, i>>]
  BY <1>0 DEF Box
<1>1. CASE NothingToRun(p)
  BY <1>0, <1>1 DEF NothingToRun
<1>2. CASE StartRun(p)
  BY <1>0, <1>00, <1>2 DEF StartRun
<1>3. CASE EnsureImage(p)
  <2>1. step'[p] \in Nat /\ \A i \in Steps(p) : i < step'[p] => i <= 0
    BY <1>0, <1>3, LoopInOrder DEF EnsureImage, BoxesInStep
  <2>2. \A i \in Steps(p) : ~ (i < step'[p])
    <3>1. \A i \in Steps(p) : i \in Nat /\ i > 0
      BY <1>0
    <3> QED
      BY <2>1, <3>1
  <2>3. pc'[p] = "launch"
    BY <1>0, <1>3 DEF EnsureImage
  <2> QED
    BY <1>0, <2>2, <2>3
<1>4. CASE CannotPull(p)
  <2>1. step' = step /\ step[p] = 0
    BY <1>0, <1>4 DEF CannotPull, BoxesInStep
  <2>2. \A i \in Steps(p) : i \in Nat /\ i > 0
    BY <1>0
  <2>3. \A i \in Steps(p) : ~ (i < step'[p]) /\ i # step'[p]
    BY <2>1, <2>2
  <2> QED
    BY <1>0, <2>3
<1>5. CASE Launch(p)
  <2>1. pc[p] = "launch" /\ pc'[p] = "wait" /\ step' = step
    BY <1>0, <1>5 DEF Launch
  <2> QED
    BY <1>0, <1>00, <2>1
<1>6. CASE ClientReturns(p)
  BY <1>0, <1>00, <1>6 DEF ClientReturns, ClientDone
<1>7. CASE TimesOut(p)
  BY <1>0, <1>00, <1>7 DEF TimesOut
<1>8. CASE KillStep(p)
  BY <1>0, <1>00, <1>8 DEF KillStep, KillBox
<1>9. CASE Inspect(p)
  BY <1>0, <1>00, <1>9 DEF Inspect
<1>10. CASE RemoveStep(p)
  <2>1. box[Box(p)].phase \in Ended /\ Box(p) \in Boxes
    BY <1>0, <1>10 DEF RemoveStep, BoxesInStep, Box
  <2>2. box'[Box(p)].phase \in {"gone", "swept"}
    BY <1>0, <1>10, <2>1 DEF RemoveStep, RemoveBox, RemoveAs, Exists, Ended, BoxType
  <2>3. pc' = [pc EXCEPT ![p] = "judge"] /\ step' = step /\ pc[p] = "rm"
    BY <1>10 DEF RemoveStep
  <2> QED
    BY <1>0, <1>00, <2>2, <2>3 DEF Box
<1>11. CASE Judge(p)
  <2>1. box' = box /\ step[p] \in Steps(p) /\ pc[p] = "judge"
    BY <1>0, <1>11 DEF Judge
  <2>2. \A i \in Steps(p) : i <= step[p] => box'[<<p, i>>].phase \in {"none", "gone", "swept"}
    BY <1>0, <2>1
  <2>3. CASE step' = step
    BY <1>0, <2>2, <2>3
  <2>4. CASE NextStep(p) /\ pc' = [pc EXCEPT ![p] = "launch"]
    <3>1. \A i \in Steps(p) : i < step'[p] => i <= step[p]
      BY <2>4, LoopInOrder
    <3>2. pc'[p] = "launch"
      BY <1>0, <2>4
    <3> QED
      BY <1>0, <2>2, <3>1, <3>2
  <2> QED
    BY <1>11, <2>3, <2>4 DEF Judge
<1>12. CASE Stop(p)
  BY <1>0, <1>00, <1>12 DEF Stop
<1> QED
  BY <1>1, <1>2, <1>3, <1>4, <1>5, <1>6, <1>7, <1>8, <1>9, <1>10, <1>11, <1>12 DEF ProcStep

(* RemovedInv is inductive when `docker rm` works. *)
LEMMA RemovedInvInductive ==
  ASSUME TypeInv, BoxInv, RemovedInv, [Next]_vars, "rm" \notin Flaky
  PROVE  RemovedInv'
<1>1. ASSUME NEW p \in Procs, ProcStep(p) \/ Stop(p)
      PROVE  RemovedInv'
  <2> SUFFICES ASSUME NEW q \in Procs, pc'[q] # "stopped" PROVE StepsRemoved(q)'
    BY DEF RemovedInv
  <2>1. CASE q = p
    BY <1>1, <2>1, RemovedStaysOwn DEF BoxInv, RemovedInv
  <2>2. CASE q # p
    BY <1>1, <2>2, RemovedStaysOthers DEF RemovedInv, StepsRemoved
  <2> QED
    BY <2>1, <2>2
<1>2. CASE HostStep
  <2> SUFFICES ASSUME NEW q \in Procs, pc'[q] # "stopped" PROVE StepsRemoved(q)'
    BY DEF RemovedInv
  <2>1. \A i \in Steps(q) : <<q, i>> \in Boxes /\ Undisturbed(<<q, i>>)
    BY <1>2, HostStepDoes, BoxOfStep DEF TypeInv
  <2>2. pc' = pc /\ step' = step /\ request' = request
    BY <1>2, HostStepDoes DEF procVars
  <2>3. Steps(q)' = Steps(q)
    BY <2>2 DEF Steps, Name
  <2> QED
    BY <2>1, <2>2, <2>3 DEF RemovedInv, StepsRemoved, Removed, Undisturbed, Ended
<1>3. CASE UNCHANGED vars
  BY <1>3, RequestKept DEF vars, procVars, hostVars, RemovedInv, StepsRemoved, Removed
<1> QED
  BY <1>1, <1>2, <1>3 DEF Next, HostStep

-----------------------------------------------------------------------------
(* Before any run has begun the invariants hold. *)
LEMMA InitHolds == Init => TypeInv /\ CodeInv /\ BoxInv /\ VerdictInv /\ RemovedInv
<1> SUFFICES ASSUME Init PROVE TypeInv /\ CodeInv /\ BoxInv /\ VerdictInv /\ RemovedInv
  OBVIOUS
<1>1. TypeInv
  BY DEF Init, HostInit, TypeInv, HostTypeOK, BoxType, Phases, Points, Verdicts, StepIsChosen,
         StepPoints
<1>2. \A p \in Procs : \A i \in Steps(p) : <<p, i>> \in Boxes /\ i \in Nat /\ i > 0
  BY <1>1, BoxOfStep DEF TypeInv
<1>3. CodeInv
  BY DEF Init, HostInit, CodeInv
<1>4. BoxInv
  BY <1>2 DEF Init, HostInit, BoxInv, BoxesInStep, Started
<1>5. VerdictInv
  BY DEF Init, HostInit, VerdictInv, CleanSoFar, StepPoints
<1>6. RemovedInv
  BY <1>2 DEF Init, HostInit, RemovedInv, StepsRemoved
<1> QED
  BY <1>1, <1>3, <1>4, <1>5, <1>6

(* PassedForReal: whatever the processes, the daemon and `migrator cleanup` do,
   "passed" is only said of steps that all ran to exit code 0, as long as
   `docker inspect` does not fail (a failure reads as "no memory kill"). *)
THEOREM PassedIsForReal == "inspect" \notin Flaky => (Spec => []PassedForReal)
<1> SUFFICES ASSUME "inspect" \notin Flaky PROVE Spec => []PassedForReal
  OBVIOUS
<1> DEFINE Inv == TypeInv /\ CodeInv /\ BoxInv /\ VerdictInv
<1>1. Init => Inv
  BY InitHolds
<1>2. Inv /\ [Next]_vars => Inv'
  BY TypeInvInductive, CodeInvInductive, BoxInvInductive, VerdictInvInductive
<1>3. Inv => PassedForReal
  BY DEF VerdictInv, CleanSoFar, Clean, PassedForReal
<1> QED
  BY <1>1, <1>2, <1>3, PTL DEF Spec

(* NothingLeft: a run that comes to its end has removed its containers, those
   that timed out or were never answered in time included, as long as `docker
   rm` works (its result is not looked at). *)
THEOREM FinishedRunsLeaveNothing == "rm" \notin Flaky => (Spec => []NothingLeft)
<1> SUFFICES ASSUME "rm" \notin Flaky PROVE Spec => []NothingLeft
  OBVIOUS
<1> DEFINE Inv == TypeInv /\ BoxInv /\ RemovedInv
<1>1. Init => Inv
  BY InitHolds
<1>2. Inv /\ [Next]_vars => Inv'
  BY TypeInvInductive, BoxInvInductive, RemovedInvInductive
<1>3. Inv => NothingLeft
  <2> SUFFICES ASSUME Inv, NEW p \in Procs, pc[p] = "done", NEW i \in Steps(p)
               PROVE  box[<<p, i>>].phase \in {"none", "gone", "swept"}
    BY DEF NothingLeft
  <2>1. Removed(p, i) \/ ~ Started(p, i)
    BY DEF Removed, Started
  <2> QED
    BY <2>1 DEF RemovedInv, StepsRemoved, BoxInv, BoxesInStep
<1> QED
  BY <1>1, <1>2, <1>3, PTL DEF Spec

=============================================================================
