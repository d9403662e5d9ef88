----------------------------- MODULE SandboxRun -----------------------------
(***************************************************************************)
(* sandbox/runner.py and DockerSandbox.run of sandbox/docker.py: several   *)
(* processes (verify, baseline, skeleton --check, migrate), each running   *)
(* the steps of a toolchain one after the other, every step in a fresh     *)
(* container.  They share the Docker daemon with each other and with       *)
(* `migrator cleanup`.                                                     *)
(***************************************************************************)
EXTENDS Sequences, FiniteSets, DockerHost

CONSTANTS
    Procs,      (* the processes; each runs one toolchain                     *)
    Requests,   (* what a process may be asked to run: the names of the steps *)
                (* of a toolchain, all of them (`only` is None) or names      *)
    SlowStart,  (* a timeout may strike before the daemon started a container *)
    MayStop,    (* a process may be killed or interrupted                     *)
    Cleanups    (* `migrator cleanup` may be run, at any time                 *)

ASSUME RunAssumption ==
    /\ Requests \subseteq [toolchain : Seq(STRING), all : BOOLEAN, names : SUBSET STRING]
    /\ \A r \in Requests : Procs \X DOMAIN r.toolchain \subseteq Boxes
    /\ {SlowStart, MayStop, Cleanups} \subseteq BOOLEAN

VARIABLES
    pc,       (* next step of each process                                    *)
    request,  (* what it was asked to run                                     *)
    step,     (* position in its toolchain                                    *)
    timedOut, (* of the current step                                          *)
    oomSeen,  (* what `docker inspect` said of the current step               *)
    results,  (* StepResult.ok of the steps so far                            *)
    verdict   (* RunStatus at the end                                         *)

procVars == <<pc, request, step, timedOut, oomSeen, results, verdict>>
vars == <<hostVars, procVars>>

Points == {"idle", "image", "launch", "wait", "kill", "wait_again", "inspect",
           "rm", "judge", "done", "stopped"}

Verdicts == {"none", "passed", "failed", "incomplete", "raised"}

TypeOK ==
    /\ HostTypeOK
    /\ pc \in [Procs -> Points]
    /\ request \in [Procs -> Requests]
    /\ \A p \in Procs : step[p] \in 0 .. Len(request[p].toolchain)
    /\ timedOut \in [Procs -> BOOLEAN]
    /\ oomSeen \in [Procs -> BOOLEAN]
    /\ results \in [Procs -> Seq(BOOLEAN)]
    /\ \A p \in Procs : Len(results[p]) <= step[p]
    /\ verdict \in [Procs -> Verdicts]

Init ==
    /\ HostInit
    /\ pc = [p \in Procs |-> "idle"]
    /\ request \in [Procs -> Requests]
    /\ step = [p \in Procs |-> 0]
    /\ timedOut = [p \in Procs |-> FALSE]
    /\ oomSeen = [p \in Procs |-> FALSE]
    /\ results = [p \in Procs |-> <<>>]
    /\ verdict = [p \in Procs |-> "none"]

Box(p) == <<p, step[p]>>

Goto(p, from, to) == pc[p] = from /\ pc' = [pc EXCEPT ![p] = to]

Name(p, i) == request[p].toolchain[i]

(* The steps of the toolchain that `only` asks for, by their positions. *)
Steps(p) == {i \in DOMAIN request[p].toolchain : request[p].all \/ Name(p, i) \in request[p].names}

StepsLeft(p) == {i \in Steps(p) : i > step[p]}

(* The loop goes through them in the toolchain's order. *)
NextStep(p) ==
    \E i \in StepsLeft(p) :
        /\ \A j \in StepsLeft(p) : i <= j
        /\ step' = [step EXCEPT ![p] = i]

HasTests(p) == \E i \in Steps(p) : Name(p, i) = "test"

Conclude(p, status) ==
    /\ pc' = [pc EXCEPT ![p] = "done"]
    /\ verdict' = [verdict EXCEPT ![p] = status]

-----------------------------------------------------------------------------
(* run_toolchain up to the first step. *)

NothingToRun(p) ==
    /\ pc[p] = "idle"
    /\ Steps(p) = {}
    /\ Conclude(p, "incomplete")
    /\ UNCHANGED <<hostVars, request, step, timedOut, oomSeen, results>>

StartRun(p) ==
    /\ Goto(p, "idle", "image")
    /\ Steps(p) # {}
    /\ UNCHANGED <<hostVars, request, step, timedOut, oomSeen, results, verdict>>

(* ensure_image: the image is there, or can be pulled, ... *)
EnsureImage(p) ==
    /\ Goto(p, "image", "launch")
    /\ NextStep(p)
    /\ UNCHANGED <<hostVars, request, timedOut, oomSeen, results, verdict>>

(* ... or not, which is a RuntimeError. *)
CannotPull(p) ==
    /\ pc[p] = "image"
    /\ Conclude(p, "raised")
    /\ UNCHANGED <<hostVars, request, step, timedOut, oomSeen, results>>

-----------------------------------------------------------------------------
(* DockerSandbox.run: one step in one container. *)

Launch(p) ==
    /\ Goto(p, "launch", "wait")
    /\ AskBox(Box(p))
    /\ timedOut' = [timedOut EXCEPT ![p] = FALSE]
    /\ UNCHANGED <<listed, request, step, oomSeen, results, verdict>>

(* process.wait() returns: before the timeout, or after the kill. *)
ClientReturns(p) ==
    /\ pc[p] \in {"wait", "wait_again"}
    /\ ClientDone(Box(p))
    /\ pc' = [pc EXCEPT ![p] = "inspect"]
    /\ UNCHANGED <<hostVars, request, step, timedOut, oomSeen, results, verdict>>

TimesOut(p) ==
    /\ Goto(p, "wait", "kill")
    /\ SlowStart \/ box[Box(p)].phase # "asked"
    /\ timedOut' = [timedOut EXCEPT ![p] = TRUE]
    /\ UNCHANGED <<hostVars, request, step, oomSeen, results, verdict>>

(* Mutated form: nothing is killed, the process only waits. *)
KillStepNot(p) ==
    /\ Goto(p, "kill", "wait_again")
    /\ UNCHANGED <<hostVars, request, step, timedOut, oomSeen, results, verdict>>

(* The result of `docker kill` is not looked at. *)
KillStep(p) ==
    /\ Goto(p, "kill", "wait_again")
    /\ KillBox(Box(p))
    /\ UNCHANGED <<listed, request, step, timedOut, oomSeen, results, verdict>>

(* `docker inspect` says "true", or "false", or fails; a failure reads as
   "false". *)
Inspect(p) ==
    /\ Goto(p, "inspect", "rm")
    /\ \E seen \in {Exists(Box(p)) /\ box[Box(p)].oom} \cup
                   (IF "inspect" \in Flaky THEN {FALSE} ELSE {}) :
          oomSeen' = [oomSeen EXCEPT ![p] = seen]
    /\ UNCHANGED <<hostVars, request, step, timedOut, results, verdict>>

(* Mutated form: a container that timed out is left for later. *)
RemoveStepIfInTime(p) ==
    /\ Goto(p, "rm", "judge")
    /\ IF timedOut[p] THEN UNCHANGED box ELSE RemoveBox(Box(p))
    /\ UNCHANGED <<listed, request, step, timedOut, oomSeen, results, verdict>>

RemoveStep(p) ==
    /\ Goto(p, "rm", "judge")
    /\ RemoveBox(Box(p))
    /\ UNCHANGED <<listed, request, step, timedOut, oomSeen, results, verdict>>

(* StepResult.ok.  After a timeout there is no exit code. *)
StepOk(p) == box[Box(p)].code = "ok" /\ ~ timedOut[p] /\ ~ oomSeen[p]

-----------------------------------------------------------------------------
(* run_toolchain: after each step. *)

(* Mutated form: a run without tests passes too. *)
FinalVerdictNoTests(p) == "passed"

FinalVerdict(p) ==
    IF request[p].all /\ ~ HasTests(p) THEN "incomplete" ELSE "passed"

Judge(p) ==
    /\ pc[p] = "judge"
    /\ results' = [results EXCEPT ![p] = Append(@, StepOk(p))]
    /\ \/ /\ ~ StepOk(p)
          /\ Conclude(p, "failed")
          /\ UNCHANGED step
       \/ /\ StepOk(p)
          /\ StepsLeft(p) = {}
          /\ Conclude(p, FinalVerdict(p))
          /\ UNCHANGED step
       \/ /\ StepOk(p)
          /\ pc' = [pc EXCEPT ![p] = "launch"]
          /\ NextStep(p)
          /\ UNCHANGED verdict
    /\ UNCHANGED <<hostVars, request, timedOut, oomSeen>>

(* Ctrl-C, a kill, or an exception: run() has no cleanup of its own. *)
Stop(p) ==
    /\ MayStop
    /\ pc[p] \notin {"idle", "done", "stopped"}
    /\ pc' = [pc EXCEPT ![p] = "stopped"]
    /\ UNCHANGED <<hostVars, request, step, timedOut, oomSeen, results, verdict>>

-----------------------------------------------------------------------------

ProcStep(p) ==
    NothingToRun(p) \/ StartRun(p) \/ EnsureImage(p) \/ CannotPull(p)
    \/ Launch(p) \/ ClientReturns(p) \/ TimesOut(p) \/ KillStep(p)
    \/ Inspect(p) \/ RemoveStep(p) \/ Judge(p)

DaemonAnswers(b) == (BoxStarts(b) \/ BoxRefused(b)) /\ UNCHANGED <<listed, procVars>>

ProgramEnds(b) == BoxEnds(b) /\ UNCHANGED <<listed, procVars>>

Cleanup ==
    /\ Cleanups
    /\ ListLeftovers \/ \E b \in listed : RemoveLeftover(b)
    /\ UNCHANGED procVars

Next ==
    \/ \E p \in Procs : ProcStep(p) \/ Stop(p)
    \/ \E b \in Boxes : DaemonAnswers(b) \/ ProgramEnds(b)
    \/ Cleanup

Spec == Init /\ [][Next]_vars

(* Every process goes on and the daemon answers every `docker run`; nothing
   says that the program in a container ends. *)
FairSpec ==
    /\ Spec
    /\ \A p \in Procs : WF_vars(ProcStep(p))
    /\ \A b \in Boxes : WF_vars(DaemonAnswers(b))

-----------------------------------------------------------------------------
(* Properties. *)

(* "passed" is never said of something that did not happen: every step that was
   asked for has run in its own container, which ended by itself with exit code
   0 and within its memory, and without `only` there was a test step
   (run_toolchain, StepResult.ok).  `migrator cleanup` may remove containers
   under the run: then only the memory kill can be missed, because the container
   is gone when docker inspect looks. *)
PassedForReal ==
    \A p \in Procs : verdict[p] = "passed" =>
        /\ Steps(p) # {}
        /\ \A i \in Steps(p) :
              /\ box[<<p, i>>].code = "ok"
              /\ box[<<p, i>>].oom => box[<<p, i>>].phase = "swept"
        /\ request[p].all => HasTests(p)

(* A run that comes to its end has removed every container it started, the
   ones that timed out included (docs/architecture.md: fresh container, run,
   remove container). *)
NothingLeft ==
    \A p \in Procs : pc[p] = "done" =>
        \A i \in Steps(p) : box[<<p, i>>].phase \in {"none", "gone", "swept"}

(* Every run ends, although the programs it runs may not (the time limit of
   each step). *)
EveryRunEnds == \A p \in Procs : pc[p] # "idle" ~> pc[p] \in {"done", "stopped"}

(* When `migrator cleanup` is run again and again, what a stopped process left
   behind is removed, even a container that only came up after the process was
   gone (README: "If a run crashes midway, migrator cleanup removes leftover
   containers"). *)
LeftoversAreRemoved ==
    WF_vars(Cleanup) =>
        \A b \in Boxes : (pc[b[1]] = "stopped" /\ Exists(b)) ~> ~ Exists(b)

(* cleanup_stale: "Remove containers left behind by a crashed earlier run": it
   takes no container away from a process that is alive. *)
CleanupTakesLeftoversOnly ==
    [][\A b \in Boxes : b \in listed /\ b \notin listed' /\ box'[b] # box[b] =>
          pc[b[1]] \in {"done", "stopped"}]_vars

=============================================================================
