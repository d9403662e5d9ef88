---------------------------- MODULE UnitDialogue ----------------------------
(***************************************************************************)
(* One unit of the migration loop and its conversation with the LLM over   *)
(* several runs: _migrate_unit of migration/loop.py, from the point of     *)
(* view of what is asked.  LLMClient answers a question from its cache     *)
(* when it has been asked before, so what a retry can learn depends on     *)
(* what makes two questions different: the model, the attempt, the failed  *)
(* stage, its error text and the files of the last answer.                 *)
(***************************************************************************)
EXTENDS LLMClient

CONSTANTS
    self,    (* the client of the migrate command                             *)
    Limits,  (* values of --max-attempts                                      *)
    Fate,    (* answer -> how far it gets: "policy", "not_done" or "tested"   *)
    Texts,   (* error texts of the sandbox and of the provider                *)
    ModelOf, (* tier -> model, Settings.model_for                             *)
    MaxRuns  (* bound: number of runs                                         *)

(* What the fix prompt says of the last attempt.  The problems of check_change
   and check_done follow from the answer. *)
NoProblem == [stage |-> "none"]
Problems ==
    {NoProblem}
    \cup [stage : {"policy", "not_done"}, answer : Answers]
    \cup [stage : {"llm", "test"}, text : Texts]

Question(model, number, problem, last) ==
    [model |-> model, number |-> number, problem |-> problem, last |-> last]

ASSUME DialogueAssumption ==
    /\ Clients = {self}
    /\ Limits \subseteq Nat \ {0}
    /\ Fate \in [Answers -> {"policy", "not_done", "tested"}]
    /\ Keys = {Question(model, number, problem, last) :
                  model \in {ModelOf["default"], ModelOf["strong"]},
                  number \in UNION {1 .. m : m \in Limits},
                  problem \in Problems, last \in Replies}
    /\ MaxRuns \in Nat

VARIABLES
    going,    (* a run is working on the unit                                 *)
    limit,    (* --max-attempts of this run, or of the last one               *)
    number,   (* attempt                                                      *)
    problem,  (* problem_stage and problem_text                               *)
    last,     (* last_files: the last usable answer of this run               *)
    status,   (* status of the unit                                           *)
    runs,     (* number of runs so far, see MaxRuns                           *)
    asked,    (* did this run reach the provider?                             *)
    tried     (* the limits of the earlier runs                               *)

unitVars == <<going, limit, number, problem, last, status, runs, asked, tried>>
allVars == <<vars, unitVars>>

DialogueTypeOK ==
    /\ TypeOK
    /\ going \in BOOLEAN
    /\ limit \in Limits \cup {0}
    /\ number \in Nat
    /\ going => number \in 1 .. limit
    /\ problem \in Problems
    /\ last \in Replies
    /\ status \in {"pending", "blocked", "green"}
    /\ runs \in 0 .. MaxRuns
    /\ asked \in BOOLEAN
    /\ tried \subseteq Limits

DialogueInit ==
    /\ Init
    /\ going = FALSE
    /\ limit = 0
    /\ number = 0
    /\ problem = NoProblem
    /\ last = None
    /\ status = "pending"
    /\ runs = 0
    /\ asked = FALSE
    /\ tried = {}

(* Mutated form: the number of the attempt is not part of the prompt. *)
NumberShownNever == IF number = 1 THEN 1 ELSE 2

NumberShown == number

Tier == IF number = limit /\ number > 1 THEN "strong" ELSE "default"

StartRun ==
    /\ ~ going
    /\ status # "green"
    /\ runs < MaxRuns
    /\ going' = TRUE
    /\ tried' = IF runs = 0 THEN {} ELSE tried \cup {limit}
    /\ runs' = runs + 1
    /\ limit' \in Limits
    /\ number' = 1
    /\ problem' = NoProblem
    /\ last' = None
    /\ asked' = FALSE
    /\ UNCHANGED <<vars, status>>

AskLLM ==
    /\ going
    /\ Ask(self, Question(ModelOf[Tier], NumberShown, problem, last))
    /\ UNCHANGED unitVars

(* The client works (no command is stopped here, so that no file is damaged);
   asking the provider is what a retry is for. *)
Answering ==
    /\ going
    /\ Structured(self)
    /\ asked' = (asked \/ pc[self] = "call")
    /\ UNCHANGED <<going, limit, number, problem, last, status, runs, tried>>

(* The attempt fails at some stage; after the last one the unit is blocked. *)
AttemptFails(what) ==
    /\ problem' = what
    /\ number' = number + 1
    /\ IF number = limit
       THEN going' = FALSE /\ status' = "blocked"
       ELSE UNCHANGED <<going, status>>

Judge ==
    /\ going
    /\ Return(self)
    /\ last' = IF reply[self].ok THEN reply[self] ELSE last
    /\ \/ /\ ~ reply[self].ok
          /\ \E text \in Texts : AttemptFails([stage |-> "llm", text |-> text])
       \/ /\ reply[self].ok
          /\ LET answer == reply[self].answer
             IN  /\ Fate[answer] # "tested"
                 /\ AttemptFails([stage |-> Fate[answer], answer |-> answer])
       \/ /\ reply[self].ok
          /\ Fate[reply[self].answer] = "tested"
          /\ \/ \E text \in Texts : AttemptFails([stage |-> "test", text |-> text])
             \/ /\ status' = "green"
                /\ going' = FALSE
                /\ UNCHANGED <<number, problem>>
    /\ UNCHANGED <<limit, runs, asked, tried>>

DialogueNext == StartRun \/ AskLLM \/ Answering \/ Judge

DialogueSpec == DialogueInit /\ [][DialogueNext]_allVars

-----------------------------------------------------------------------------
(* Properties. *)

(* The report of a blocked unit says "retry with more attempts": a run with
   more attempts than any before it calls the LLM at least once, however much
   of it is replayed from the cache.  (The call may fail: then that is what the
   attempt ends with.) *)
MoreAttemptsAskAgain ==
    ~ going /\ status = "blocked" /\ (\A m \in tried : m < limit) => asked

(* docs/migration.md: "A blocked unit is tried again from scratch on the next
   run": a run that ends with the unit blocked has asked the LLM. *)
RetryAsksTheLLM == ~ going /\ status = "blocked" => asked

=============================================================================
