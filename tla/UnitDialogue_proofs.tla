------------------------- MODULE UnitDialogue_proofs -------------------------
(***************************************************************************)
(* Theorems about LLMClient, for any number of commands that share a cache *)
(* folder, stopped any number of times, for all questions and answers; and *)
(* about UnitDialogue, the unit of a migration that asks through it, for   *)
(* any limits, answers and error texts.                                    *)
(***************************************************************************)
EXTENDS UnitDialogue, TLAPS

(* Every answer on disk, and every answer on its way from the provider into a
   file or to the caller, was given by the provider to that question. *)
CacheInv == \A k \in Keys, a \in Answers : cache[k] = Holding(a) => <<k, a>> \in given

Carried(c) == reply[c].ok => <<key[c], reply[c].answer>> \in given

ReplyInv ==
    \A c \in Clients :
        /\ pc[c] # "idle" => Carried(c)
        /\ pc[c] \in {"record", "truncate", "fill"} => reply[c].ok

(* From _record on, the last call of the list is the one in progress. *)
CallInv ==
    \A c \in Clients : pc[c] \in {"truncate", "fill", "return"} =>
        /\ called[c].made
        /\ called[c].key = key[c]
        /\ called[c].cached => reply[c].ok

(* A step of one command. *)
ClientStep(c) == Structured(c) \/ Return(c) \/ Stop(c) \/ \E k \in Keys : Ask(c, k)

(* TypeOK is inductive. *)
LEMMA StepTyped ==
  ASSUME TypeOK, ReplyInv, NEW c \in Clients, ClientStep(c)
  PROVE  TypeOK'
<1>0. /\ pc[c] \in {"record", "truncate", "fill"} => reply[c].ok
      /\ reply[c] \in Replies /\ key[c] \in Keys
      /\ MaxPaid \in Nat /\ MaxStops \in Nat
  BY ClientAssumption DEF ReplyInv, TypeOK
<1> USE DEF TypeOK, Points, Calls, NoCall
<1> USE DEF Goto, Record
<1>1. CASE Hit(c)
  <2>1. \A a \in Answers : Given(a) \in Replies
    BY DEF Replies
  <2>2. called' \in [Clients -> Calls]
    BY <1>0, <1>1 DEF Hit
  <2>3. reply' \in [Clients -> Replies]
    BY <1>1, <2>1 DEF Hit
  <2> QED
    BY <1>1, <2>2, <2>3 DEF Hit
<1>2. CASE Miss(c)
  BY <1>0, <1>2 DEF Miss
<1>3. CASE Undecodable(c)
  BY <1>0, <1>3 DEF Undecodable
<1>4. CASE ProviderAnswers(c)
  <2>1. paid'[key[c]] \in 0 .. MaxPaid
    BY <1>0, <1>4 DEF ProviderAnswers
  <2>2. \A a \in Answers : Given(a) \in Replies /\ <<key[c], a>> \in Keys \X Answers
    BY <1>0 DEF Replies
  <2> QED
    BY <1>0, <1>4, <2>1, <2>2 DEF ProviderAnswers
<1>5. CASE ProviderFails(c)
  BY <1>0, <1>5 DEF ProviderFails, Replies, Given, None, Files, Missing, Torn, Cut, Holding
<1>6. CASE RecordCall(c)
  BY <1>0, <1>6 DEF RecordCall
<1>7. CASE Truncate(c)
  BY <1>0, <1>7 DEF Truncate, Replies, Given, None, Files, Missing, Torn, Cut, Holding
<1>8. CASE Fill(c)
  <2>1. reply[c].answer \in Answers
    BY <1>0, <1>8 DEF Fill, Replies, Given, None
  <2>2. Holding(reply[c].answer) \in Files /\ Torn \in Files
    BY <2>1 DEF Files
  <2>3. cache' \in [Keys -> Files]
    BY <1>0, <1>8, <2>2 DEF Fill
  <2> QED
    BY <1>8, <2>3 DEF Fill
<1>9. CASE Return(c)
  BY <1>0, <1>9 DEF Return
<1>10. CASE Stop(c)
  <2>1. stops' \in 0 .. MaxStops
    BY <1>0, <1>10 DEF Stop
  <2>2. None \in Replies /\ Cut \in Files
    BY DEF Replies, Files
  <2>3. cache' \in [Keys -> Files]
    BY <1>0, <1>10, <2>2 DEF Stop
  <2>4. reply' \in [Clients -> Replies] /\ called' \in [Clients -> Calls]
    BY <1>0, <1>10, <2>2 DEF Stop
  <2> QED
    BY <1>0, <1>10, <2>1, <2>3, <2>4 DEF Stop
<1>11. CASE \E k \in Keys : Ask(c, k)
  <2>1. None \in Replies
    BY DEF Replies
  <2>2. PICK k \in Keys : Ask(c, k)
    BY <1>11
  <2>3. key' \in [Clients -> Keys] /\ reply' \in [Clients -> Replies]
    BY <2>1, <2>2 DEF Ask
  <2> QED
    BY <2>2, <2>3 DEF Ask
<1> QED
  BY <1>1, <1>2, <1>3, <1>4, <1>5, <1>6, <1>7, <1>8, <1>9, <1>10, <1>11 DEF ClientStep, Structured

(* A question of one command leaves the others, and what they carry, alone. *)
LEMMA OtherClients ==
  ASSUME TypeOK, NEW c \in Clients, ClientStep(c), NEW d \in Clients, d # c
  PROVE  /\ pc'[d] = pc[d]
         /\ key'[d] = key[d]
         /\ reply'[d] = reply[d]
         /\ called'[d] = called[d]
         /\ given \subseteq given'
<1>0. c # d
  OBVIOUS
<1> USE DEF TypeOK
<1> USE DEF Goto, Record
<1>1. CASE Hit(c)
  BY <1>0, <1>1 DEF Hit
<1>2. CASE Miss(c)
  BY <1>0, <1>2 DEF Miss
<1>3. CASE Undecodable(c)
  BY <1>0, <1>3 DEF Undecodable
<1>4. CASE ProviderAnswers(c)
  BY <1>0, <1>4 DEF ProviderAnswers
<1>5. CASE ProviderFails(c)
  BY <1>0, <1>5 DEF ProviderFails
<1>6. CASE RecordCall(c)
  BY <1>0, <1>6 DEF RecordCall
<1>7. CASE Truncate(c)
  BY <1>0, <1>7 DEF Truncate
<1>8. CASE Fill(c)
  BY <1>0, <1>8 DEF Fill
<1>9. CASE Return(c)
  BY <1>0, <1>9 DEF Return
<1>10. CASE Stop(c)
  BY <1>0, <1>10 DEF Stop
<1>11. CASE \E k \in Keys : Ask(c, k)
  BY <1>0, <1>11 DEF Ask
<1> QED
  BY <1>1, <1>2, <1>3, <1>4, <1>5, <1>6, <1>7, <1>8, <1>9, <1>10, <1>11 DEF ClientStep, Structured

(* An answer of the provider stays with its question, on disk and in memory. *)
LEMMA AnswersStay ==
  ASSUME TypeOK, CacheInv, ReplyInv, NEW c \in Clients, ClientStep(c)
  PROVE  CacheInv' /\ ReplyInv'
<1>0. /\ \A k \in Keys, a \in Answers : cache[k] = Holding(a) => <<k, a>> \in given
      /\ pc[c] # "idle" => Carried(c)
      /\ pc[c] \in {"record", "truncate", "fill"} => reply[c].ok
      /\ key[c] \in Keys
  BY DEF CacheInv, ReplyInv, TypeOK
<1>a. CacheInv'
  <2> USE DEF CacheInv, TypeOK
  <2> USE DEF Goto, Record
  <2>1. CASE Hit(c)
    BY <1>0, <2>1 DEF Hit
  <2>2. CASE Miss(c)
    BY <1>0, <2>2 DEF Miss
  <2>3. CASE Undecodable(c)
    BY <1>0, <2>3 DEF Undecodable
  <2>4. CASE ProviderAnswers(c)
    BY <1>0, <2>4 DEF ProviderAnswers
  <2>5. CASE ProviderFails(c)
    BY <1>0, <2>5 DEF ProviderFails
  <2>6. CASE RecordCall(c)
    BY <1>0, <2>6 DEF RecordCall
  <2>7. CASE Truncate(c)
    BY <1>0, <2>7 DEF Truncate, Holding, Torn, Missing, Cut
  <2>8. CASE Fill(c)
    <3>1. <<key[c], reply[c].answer>> \in given
      BY <1>0, <2>8 DEF Fill, Carried
    <3>2. \A k \in Keys : k # key[c] => cache'[k] = cache[k]
      BY <1>0, <2>8 DEF Fill
    <3>3. cache'[key[c]] \in {Holding(reply[c].answer), Torn}
      BY <1>0, <2>8 DEF Fill
    <3>4. ASSUME NEW a \in Answers, cache'[key[c]] = Holding(a)
          PROVE  a = reply[c].answer
      BY <3>3, <3>4 DEF Holding, Torn
    <3>5. given' = given
      BY <2>8 DEF Fill
    <3> QED
      BY <1>0, <3>1, <3>2, <3>4, <3>5
  <2>9. CASE Return(c)
    BY <1>0, <2>9 DEF Return
  <2>10. CASE Stop(c)
    BY <1>0, <2>10 DEF Stop, Holding, Torn, Missing, Cut
  <2>11. CASE \E k \in Keys : Ask(c, k)
    BY <1>0, <2>11 DEF Ask
  <2> QED
    BY <2>1, <2>2, <2>3, <2>4, <2>5, <2>6, <2>7, <2>8, <2>9, <2>10, <2>11 DEF ClientStep, Structured
<1>b. /\ (pc[c] # "idle" => Carried(c))'
      /\ (pc[c] \in {"record", "truncate", "fill"} => reply[c].ok)'
  <2> USE DEF TypeOK, Carried, None, Given
  <2> USE DEF Goto, Record
  <2>1. CASE Hit(c)
    BY <1>0, <2>1 DEF Hit
  <2>2. CASE Miss(c)
    BY <1>0, <2>2 DEF Miss
  <2>3. CASE Undecodable(c)
    BY <1>0, <2>3 DEF Undecodable
  <2>4. CASE ProviderAnswers(c)
    BY <1>0, <2>4 DEF ProviderAnswers
  <2>5. CASE ProviderFails(c)
    BY <1>0, <2>5 DEF ProviderFails
  <2>6. CASE RecordCall(c)
    BY <1>0, <2>6 DEF RecordCall
  <2>7. CASE Truncate(c)
    BY <1>0, <2>7 DEF Truncate
  <2>8. CASE Fill(c)
    BY <1>0, <2>8 DEF Fill
  <2>9. CASE Return(c)
    BY <1>0, <2>9 DEF Return
  <2>10. CASE Stop(c)
    BY <1>0, <2>10 DEF Stop
  <2>11. CASE \E k \in Keys : Ask(c, k)
    BY <1>0, <2>11 DEF Ask
  <2> QED
    BY <2>1, <2>2, <2>3, <2>4, <2>5, <2>6, <2>7, <2>8, <2>9, <2>10, <2>11 DEF ClientStep, Structured
<1>c. ASSUME NEW d \in Clients, d # c
      PROVE  /\ (pc[d] # "idle" => Carried(d))'
             /\ (pc[d] \in {"record", "truncate", "fill"} => reply[d].ok)'
  BY <1>c, OtherClients DEF ReplyInv, Carried
<1> QED
  BY <1>a, <1>b, <1>c DEF ReplyInv

(* The call in progress is the last one of its list. *)
LEMMA CallsStay ==
  ASSUME TypeOK, ReplyInv, CallInv, NEW c \in Clients, ClientStep(c)
  PROVE  CallInv'
<1>0. /\ pc[c] \in {"record", "truncate", "fill"} => reply[c].ok
      /\ pc[c] \in {"truncate", "fill", "return"} =>
            called[c].made /\ called[c].key = key[c] /\ (called[c].cached => reply[c].ok)
  BY DEF ReplyInv, CallInv
<1>a. (pc[c] \in {"truncate", "fill", "return"} =>
          called[c].made /\ called[c].key = key[c] /\ (called[c].cached => reply[c].ok))'
  <2> USE DEF TypeOK, Given, None
  <2> USE DEF Goto, Record
  <2>1. CASE Hit(c)
    BY <1>0, <2>1 DEF Hit
  <2>2. CASE Miss(c)
    BY <1>0, <2>2 DEF Miss
  <2>3. CASE Undecodable(c)
    BY <1>0, <2>3 DEF Undecodable
  <2>4. CASE ProviderAnswers(c)
    BY <1>0, <2>4 DEF ProviderAnswers
  <2>5. CASE ProviderFails(c)
    BY <1>0, <2>5 DEF ProviderFails
  <2>6. CASE RecordCall(c)
    BY <1>0, <2>6 DEF RecordCall
  <2>7. CASE Truncate(c)
    BY <1>0, <2>7 DEF Truncate
  <2>8. CASE Fill(c)
    BY <1>0, <2>8 DEF Fill
  <2>9. CASE Return(c)
    BY <1>0, <2>9 DEF Return
  <2>10. CASE Stop(c)
    BY <1>0, <2>10 DEF Stop
  <2>11. CASE \E k \in Keys : Ask(c, k)
    BY <1>0, <2>11 DEF Ask
  <2> QED
    BY <2>1, <2>2, <2>3, <2>4, <2>5, <2>6, <2>7, <2>8, <2>9, <2>10, <2>11 DEF ClientStep, Structured
<1>b. ASSUME NEW d \in Clients, d # c
      PROVE  (pc[d] \in {"truncate", "fill", "return"} =>
          called[d].made /\ called[d].key = key[d] /\ (called[d].cached => reply[d].ok))'
  BY <1>b, OtherClients DEF CallInv
<1> QED
  BY <1>a, <1>b DEF CallInv

(* The invariants together. *)
IInv == TypeOK /\ CacheInv /\ ReplyInv /\ CallInv

(* They are inductive under the steps of any number of clients on one cache. *)
LEMMA Inductive == (Init => IInv) /\ (IInv /\ [Next]_vars => IInv')
<1>1. ASSUME Init PROVE IInv
  <2>1. TypeOK
    BY <1>1, ClientAssumption DEF Init, TypeOK, Points, Calls, Replies, Files
  <2>2. CacheInv
    BY <1>1 DEF Init, CacheInv, Missing, Holding
  <2> QED
    BY <1>1, <2>1, <2>2 DEF Init, IInv, ReplyInv, CallInv, None
<1>2. ASSUME IInv, [Next]_vars PROVE IInv'
  <2>1. CASE UNCHANGED vars
    BY <1>2, <2>1
    DEF vars, clientVars, IInv, TypeOK, CacheInv, ReplyInv, CallInv, Carried
  <2>2. ASSUME NEW c \in Clients, ClientStep(c)
        PROVE  IInv'
    BY <1>2, <2>2, StepTyped, AnswersStay, CallsStay DEF IInv
  <2> QED
    BY <1>2, <2>1, <2>2 DEF Next, ClientStep
<1> QED
  BY <1>1, <1>2

-----------------------------------------------------------------------------
(* Whatever structured() returns was given by the provider to this very
   question, whoever stopped inside write_text and whoever writes to the same
   file at the same time (client.py _load_cached and _save_cached). *)
THEOREM ReturnedAnswersAreGenuine == Spec => []AnswerWasGiven
<1>1. IInv => AnswerWasGiven
  BY DEF IInv, ReplyInv, Carried, AnswerWasGiven
<1> QED
  BY <1>1, Inductive, PTL DEF Spec

(* When structured() ends, also with an error, the last call of the list is the
   one that was made for this question (client.py _record). *)
THEOREM LastCallIsOwn == Spec => []LastCallIsThisOne
<1>1. IInv => LastCallIsThisOne
  BY DEF IInv, CallInv, LastCallIsThisOne
<1> QED
  BY <1>1, Inductive, PTL DEF Spec


-----------------------------------------------------------------------------
(* The dialogue of a unit. *)

(* The attempts of an earlier run went that far. *)
TriedBefore(n) == \E m \in tried : n <= m

(* The question in progress is that of this attempt. *)
QuestionInv ==
    /\ pc[self] # "idle" => going /\ key[self].number = number
    /\ runs = 0 => ~ going /\ ~ asked /\ tried = {} /\ limit = 0
    /\ runs # 0 => limit \in Limits

(* As long as this run has not asked the provider, the cache has answers only to
   attempts with a number that an earlier run reached, too. *)
AskedInv ==
    /\ \A k \in Keys : cache[k] # Missing =>
          TriedBefore(k.number) \/ (asked /\ k.number <= limit)
    /\ pc[self] \in {"record", "truncate", "fill"} => asked
    /\ pc[self] = "return" => asked \/ TriedBefore(number)
    /\ ~ going /\ status = "blocked" => asked \/ TriedBefore(limit)

DialogueInv == DialogueTypeOK /\ QuestionInv /\ AskedInv

(* What a unit asks is a question that the client knows. *)
LEMMA QuestionsAreKeys ==
  ASSUME DialogueTypeOK, going
  PROVE  Question(ModelOf[Tier], NumberShown, problem, last) \in Keys
<1>1. number \in 1 .. limit /\ limit \in Limits
  BY DialogueAssumption DEF DialogueTypeOK
<1>2. Tier \in {"default", "strong"}
  BY DEF Tier
<1>3. number \in UNION {1 .. m : m \in Limits}
  BY <1>1
<1> QED
  BY <1>2, <1>3, DialogueAssumption DEF DialogueTypeOK, NumberShown

(* Every step of the dialogue is one of the client, or none. *)
LEMMA DialogueSteps ==
  ASSUME DialogueTypeOK, [DialogueNext]_allVars
  PROVE  /\ ClientStep(self) \/ UNCHANGED vars
         /\ [Next]_vars
<1>1. CASE StartRun \/ UNCHANGED allVars
  BY <1>1 DEF StartRun, allVars
<1>2. CASE AskLLM
  <2>1. \E k \in Keys : Ask(self, k)
    BY <1>2, QuestionsAreKeys DEF AskLLM
  <2> QED
    BY <2>1, DialogueAssumption DEF Next, ClientStep
<1>3. CASE Answering
  BY <1>3, DialogueAssumption DEF Answering, Next, ClientStep
<1>4. CASE Judge
  BY <1>4, DialogueAssumption DEF Judge, Next, ClientStep
<1> QED
  BY <1>1, <1>2, <1>3, <1>4 DEF DialogueNext

(* A problem of an attempt is one that a prompt can show. *)
LEMMA ProblemsOfJudge ==
  ASSUME DialogueTypeOK, Judge
  PROVE  /\ problem' \in Problems /\ last' \in Replies
         /\ pc[self] = "return" /\ pc'[self] = "idle" /\ going
         /\ UNCHANGED <<cache, key, limit, runs, asked, tried>>
         /\ \/ /\ number' = number + 1 /\ number # limit
               /\ UNCHANGED <<going, status>>
            \/ /\ number' = number + 1 /\ number = limit
               /\ going' = FALSE /\ status' = "blocked"
            \/ /\ number' = number
               /\ going' = FALSE /\ status' = "green"
<1>1. /\ reply[self] \in Replies /\ pc \in [Clients -> Points] /\ self \in Clients
      /\ last \in Replies /\ problem \in Problems
  BY DialogueAssumption DEF DialogueTypeOK, TypeOK
<1>2. /\ pc[self] = "return" /\ pc'[self] = "idle" /\ going
      /\ UNCHANGED <<cache, key, limit, runs, asked, tried>>
  BY <1>1 DEF Judge, Return, Goto
<1>3. last' \in Replies
  BY <1>1 DEF Judge
<1>4. CASE ~ reply[self].ok
  <2>1. PICK text \in Texts : AttemptFails([stage |-> "llm", text |-> text])
    BY <1>4 DEF Judge
  <2>2. [stage |-> "llm", text |-> text] \in Problems
    BY DEF Problems
  <2> QED
    BY <1>2, <1>3, <2>1, <2>2 DEF AttemptFails
<1>5. CASE reply[self].ok
  <2>1. reply[self].answer \in Answers
    BY <1>1, <1>5 DEF Replies, None, Given
  <2>2. CASE Fate[reply[self].answer] # "tested"
    <3>1. AttemptFails([stage |-> Fate[reply[self].answer], answer |-> reply[self].answer])
      BY <1>5, <2>2 DEF Judge
    <3>2. Fate[reply[self].answer] \in {"policy", "not_done"}
      BY <2>1, <2>2, DialogueAssumption
    <3>3. [stage |-> Fate[reply[self].answer], answer |-> reply[self].answer] \in Problems
      BY <2>1, <3>2 DEF Problems
    <3> QED
      BY <1>2, <1>3, <3>1, <3>3 DEF AttemptFails
  <2>3. CASE Fate[reply[self].answer] = "tested"
    <3>1. CASE \E text \in Texts : AttemptFails([stage |-> "test", text |-> text])
      <4>1. PICK text \in Texts : AttemptFails([stage |-> "test", text |-> text])
        BY <3>1
      <4>2. [stage |-> "test", text |-> text] \in Problems
        BY DEF Problems
      <4> QED
        BY <1>2, <1>3, <4>1, <4>2 DEF AttemptFails
    <3>2. CASE status' = "green" /\ going' = FALSE /\ UNCHANGED <<number, problem>>
      BY <1>1, <1>2, <1>3, <3>2
    <3> QED
      BY <1>5, <2>3, <3>1, <3>2 DEF Judge
  <2> QED
    BY <2>2, <2>3
<1> QED
  BY <1>4, <1>5 DEF DialogueTypeOK, TypeOK, Replies, None, Given


(* DialogueTypeOK is inductive: only Judge and StartRun change the unit. *)
LEMMA DialogueTyped ==
  ASSUME DialogueTypeOK, ReplyInv, QuestionInv, [DialogueNext]_allVars
  PROVE  DialogueTypeOK'
<1>1. TypeOK'
  <2>1. CASE UNCHANGED vars
    BY <2>1 DEF vars, clientVars, DialogueTypeOK, TypeOK
  <2>2. CASE ClientStep(self)
    BY <2>2, StepTyped, DialogueAssumption DEF DialogueTypeOK
  <2> QED
    BY <2>1, <2>2, DialogueSteps
<1>2. limit \in Nat /\ number \in Nat /\ runs \in Nat /\ MaxRuns \in Nat
  BY DialogueAssumption DEF DialogueTypeOK
<1>3. CASE StartRun
  <2>1. limit' \in Limits /\ limit' \in Nat /\ limit' >= 1 /\ runs' = runs + 1 /\ runs < MaxRuns
    BY <1>3, DialogueAssumption DEF StartRun
  <2>2. number' = 1 /\ number' \in 1 .. limit'
    BY <1>3, <2>1 DEF StartRun
  <2>3. runs' \in 0 .. MaxRuns
    BY <1>2, <2>1
  <2>4. NoProblem \in Problems /\ None \in Replies
    BY DEF Problems, Replies
  <2>5. tried' \subseteq Limits
    BY <1>3 DEF StartRun, DialogueTypeOK, QuestionInv
  <2>6. /\ going' = TRUE /\ problem' = NoProblem /\ last' = None /\ asked' = FALSE
        /\ status' = status /\ status \in {"pending", "blocked", "green"}
    BY <1>3 DEF StartRun, DialogueTypeOK
  <2> QED
    BY <1>1, <2>1, <2>2, <2>3, <2>4, <2>5, <2>6 DEF DialogueTypeOK
<1>4. CASE AskLLM \/ Answering
  BY <1>1, <1>4 DEF AskLLM, Answering, unitVars, DialogueTypeOK
<1>5. CASE Judge
  <2>1. number \in 1 .. limit
    BY <1>5, ProblemsOfJudge DEF DialogueTypeOK
  <2>2. number' \in Nat /\ (going' => number' \in 1 .. limit)
    <3>1. \/ number' = number + 1 /\ number # limit
          \/ ~ going' /\ number' \in {number, number + 1}
      BY <1>5, ProblemsOfJudge
    <3>2. number + 1 \in Nat /\ (number # limit => number + 1 \in 1 .. limit)
      BY <1>2, <2>1
    <3> QED
      BY <1>2, <3>1, <3>2
  <2>3. going' \in BOOLEAN /\ status' \in {"pending", "blocked", "green"}
    BY <1>5, ProblemsOfJudge DEF DialogueTypeOK
  <2> QED
    BY <1>1, <1>5, <2>2, <2>3, ProblemsOfJudge DEF DialogueTypeOK
<1>6. CASE UNCHANGED allVars
  BY <1>1, <1>6 DEF allVars, unitVars, DialogueTypeOK
<1> QED
  BY <1>3, <1>4, <1>5, <1>6 DEF DialogueNext

(* QuestionInv is inductive. *)
LEMMA QuestionsStay ==
  ASSUME DialogueTypeOK, QuestionInv, [DialogueNext]_allVars
  PROVE  QuestionInv'
<1>0. /\ pc \in [Clients -> Points] /\ key \in [Clients -> Keys] /\ self \in Clients
      /\ pc[self] # "idle" => going /\ key[self].number = number
      /\ runs = 0 => ~ going /\ ~ asked /\ tried = {} /\ limit = 0
      /\ runs # 0 => limit \in Limits
      /\ runs \in Nat
  BY DialogueAssumption DEF DialogueTypeOK, TypeOK, QuestionInv
<1>1. CASE StartRun
  BY <1>0, <1>1 DEF StartRun, vars, clientVars, QuestionInv
<1>2. CASE AskLLM
  <2>1. key'[self] = Question(ModelOf[Tier], NumberShown, problem, last)
    BY <1>0, <1>2 DEF AskLLM, Ask
  <2>2. key'[self].number = number
    BY <2>1 DEF Question, NumberShown
  <2> QED
    BY <1>0, <1>2, <2>2 DEF AskLLM, unitVars, QuestionInv
<1>3. CASE Answering
  <2>1. key' = key /\ pc[self] # "idle"
    BY <1>3 DEF Answering, Structured, Hit, Miss, Undecodable, ProviderAnswers, ProviderFails,
                RecordCall, Truncate, Fill, Goto
  <2> QED
    BY <1>0, <1>3, <2>1 DEF Answering, QuestionInv
<1>4. CASE Judge
  BY <1>0, <1>4, ProblemsOfJudge DEF QuestionInv
<1>5. CASE UNCHANGED allVars
  BY <1>0, <1>5 DEF allVars, vars, clientVars, unitVars, QuestionInv
<1> QED
  BY <1>1, <1>2, <1>3, <1>4, <1>5 DEF DialogueNext

(* Numbers of attempts that were tried before a run have been tried after it, and
   so has every number of that run. *)
LEMMA TriedStays ==
  ASSUME DialogueInv, StartRun, NEW n, TriedBefore(n) \/ (asked /\ n <= limit)
  PROVE  TriedBefore(n)'
<1>1. runs # 0
  BY DEF DialogueInv, QuestionInv, TriedBefore
<1>2. tried' = tried \cup {limit}
  BY <1>1 DEF StartRun
<1> QED
  BY <1>2 DEF TriedBefore

(* AskedInv is inductive. *)
LEMMA AskedStays ==
  ASSUME DialogueInv, [DialogueNext]_allVars
  PROVE  AskedInv'
<1> DEFINE Known(k) == TriedBefore(k.number) \/ (asked /\ k.number <= limit)
<1>0. /\ pc \in [Clients -> Points] /\ key \in [Clients -> Keys] /\ self \in Clients
      /\ cache \in [Keys -> Files] /\ key[self] \in Keys
      /\ pc[self] # "idle" => going /\ key[self].number = number
      /\ going => number \in 1 .. limit
      /\ limit \in Nat /\ asked \in BOOLEAN /\ going \in BOOLEAN
      /\ \A k \in Keys : cache[k] # Missing => Known(k)
      /\ pc[self] \in {"record", "truncate", "fill"} => asked
      /\ pc[self] = "return" => asked \/ TriedBefore(number)
      /\ ~ going /\ status = "blocked" => asked \/ TriedBefore(limit)
  <2>1. /\ pc \in [Clients -> Points] /\ key \in [Clients -> Keys] /\ self \in Clients
        /\ cache \in [Keys -> Files]
    BY DialogueAssumption DEF DialogueInv, DialogueTypeOK, TypeOK
  <2>2. /\ going => number \in 1 .. limit
        /\ limit \in Nat /\ asked \in BOOLEAN /\ going \in BOOLEAN
    BY DialogueAssumption DEF DialogueInv, DialogueTypeOK
  <2>3. pc[self] # "idle" => going /\ key[self].number = number
    BY DEF DialogueInv, QuestionInv
  <2> QED
    BY <2>1, <2>2, <2>3 DEF DialogueInv, AskedInv
<1>1. CASE StartRun
  <2>1. ASSUME NEW k \in Keys, cache'[k] # Missing
        PROVE  TriedBefore(k.number)'
    BY <1>0, <1>1, <2>1, TriedStays DEF StartRun, vars
  <2>2. going' /\ pc' = pc /\ pc[self] = "idle"
    BY <1>0, <1>1 DEF StartRun, vars, clientVars
  <2> QED
    BY <2>1, <2>2 DEF AskedInv
<1>2. CASE AskLLM
  <2>1. /\ UNCHANGED <<cache, unitVars>> /\ pc'[self] = "lookup"
    BY <1>0, <1>2 DEF AskLLM, Ask, Goto
  <2>2. UNCHANGED <<going, limit, status, asked, tried>>
    BY <2>1 DEF unitVars
  <2> QED
    BY <1>0, <2>1, <2>2 DEF AskedInv, TriedBefore
<1>3. CASE Answering
  <2>0. /\ UNCHANGED <<going, limit, number, status, tried>> /\ going
        /\ asked' = (asked \/ pc[self] = "call")
    BY <1>3 DEF Answering
  <2>1. \A n : TriedBefore(n)' = TriedBefore(n)
    BY <2>0 DEF TriedBefore
  <2>2. /\ pc[self] \in {"lookup", "call", "record", "truncate", "fill"}
        /\ pc'[self] \in {"record", "truncate", "fill"} =>
              pc[self] \in {"call", "record", "truncate"}
        /\ pc'[self] = "return" =>
              \/ pc[self] \in {"call", "fill"}
              \/ pc[self] = "lookup" /\ cache[key[self]] # Missing
        /\ cache' # cache => /\ pc[self] \in {"truncate", "fill"}
                             /\ \A k \in Keys : k # key[self] => cache'[k] = cache[k]
    <3> USE DEF Goto, Record
    <3>1. CASE Hit(self)
      BY <1>0, <3>1 DEF Hit, Holding, Missing
    <3>2. CASE Miss(self)
      BY <1>0, <3>2 DEF Miss
    <3>3. CASE Undecodable(self)
      BY <1>0, <3>3 DEF Undecodable
    <3>4. CASE ProviderAnswers(self)
      BY <1>0, <3>4 DEF ProviderAnswers
    <3>5. CASE ProviderFails(self)
      BY <1>0, <3>5 DEF ProviderFails
    <3>6. CASE RecordCall(self)
      BY <1>0, <3>6 DEF RecordCall
    <3>7. CASE Truncate(self)
      BY <1>0, <3>7 DEF Truncate
    <3>8. CASE Fill(self)
      BY <1>0, <3>8 DEF Fill
    <3> QED
      BY <1>3, <3>1, <3>2, <3>3, <3>4, <3>5, <3>6, <3>7, <3>8 DEF Answering, Structured
  <2>3. asked => asked'
    BY <2>0
  <2>4. ASSUME NEW k \in Keys, cache'[k] # Missing
        PROVE  Known(k)'
    <3>1. CASE cache'[k] = cache[k]
      <4>1. Known(k)
        BY <1>0, <2>4, <3>1
      <4> QED
        BY <2>0, <2>1, <2>3, <4>1
    <3>2. CASE cache'[k] # cache[k]
      <4>1. k = key[self] /\ pc[self] \in {"truncate", "fill"}
        BY <2>2, <3>2
      <4>2. asked' /\ k.number = number /\ limit' = limit
        BY <1>0, <2>0, <2>3, <4>1
      <4>3. number <= limit
        BY <1>0, <2>0
      <4> QED
        BY <4>2, <4>3
    <3> QED
      BY <3>1, <3>2
  <2>5. (pc[self] \in {"record", "truncate", "fill"} => asked)'
    BY <1>0, <2>0, <2>2, <2>3
  <2>6. (pc[self] = "return" => asked \/ TriedBefore(number))'
    <3>1. ASSUME pc[self] = "lookup", cache[key[self]] # Missing
          PROVE  asked \/ TriedBefore(number)
      <4>1. Known(key[self]) /\ key[self].number = number
        BY <1>0, <3>1
      <4> QED
        BY <4>1
    <3>2. number' = number
      BY <2>0
    <3>3. pc'[self] = "return" => asked' \/ TriedBefore(number)
      BY <1>0, <2>0, <2>2, <2>3, <3>1
    <3>4. TriedBefore(number)' = TriedBefore(number)
      BY <2>0 DEF TriedBefore
    <3> QED
      BY <3>3, <3>4
  <2> QED
    BY <2>0, <2>4, <2>5, <2>6 DEF AskedInv
<1>4. CASE Judge
  <2>0. /\ pc[self] = "return" /\ pc'[self] = "idle" /\ going
        /\ UNCHANGED <<cache, limit, asked, tried>>
        /\ ~ going' /\ status' = "blocked" => number = limit
    BY <1>4, ProblemsOfJudge DEF DialogueInv
  <2>1. \A n : TriedBefore(n)' = TriedBefore(n)
    BY <2>0 DEF TriedBefore
  <2>2. TriedBefore(limit)' = TriedBefore(limit)
    BY <2>0 DEF TriedBefore
  <2>3. \A k \in Keys : cache'[k] # Missing => Known(k)'
    BY <1>0, <2>0, <2>1
  <2>4. ~ going' /\ status' = "blocked" => asked' \/ TriedBefore(limit)'
    BY <1>0, <2>0, <2>2
  <2> QED
    BY <2>0, <2>3, <2>4 DEF AskedInv
<1>5. CASE UNCHANGED allVars
  BY <1>5 DEF allVars, vars, clientVars, unitVars, AskedInv, TriedBefore, DialogueInv
<1> QED
  BY <1>1, <1>2, <1>3, <1>4, <1>5 DEF DialogueNext

(* The dialogue starts as its client does, with all its invariants. *)
LEMMA DialogueStarts == DialogueInit => IInv /\ DialogueInv
<1> SUFFICES ASSUME DialogueInit
             PROVE  IInv /\ DialogueInv
  OBVIOUS
<1>1. IInv
  BY Inductive DEF DialogueInit
<1>2. DialogueTypeOK
  <2>1. NoProblem \in Problems /\ None \in Replies
    BY DEF Problems, Replies
  <2>2. 0 \in 0 .. MaxRuns
    BY DialogueAssumption
  <2>3. /\ going = FALSE /\ limit = 0 /\ number = 0 /\ problem = NoProblem /\ last = None
        /\ status = "pending" /\ runs = 0 /\ asked = FALSE /\ tried = {}
    BY DEF DialogueInit
  <2>4. TypeOK
    BY <1>1 DEF IInv
  <2> QED
    BY <2>1, <2>2, <2>3, <2>4 DEF DialogueTypeOK
<1>3. pc[self] = "idle" /\ \A k \in Keys : cache[k] = Missing
  BY DialogueAssumption DEF DialogueInit, Init
<1>4. QuestionInv /\ AskedInv
  BY <1>3 DEF DialogueInit, QuestionInv, AskedInv
<1> QED
  BY <1>1, <1>2, <1>4 DEF DialogueInv

(* A unit uses the client as its specification says, so that what is proved of the
   client holds of every answer that a unit gets. *)
THEOREM UnitUsesClient == DialogueSpec => Spec
<1>1. DialogueInit => Init
  BY DEF DialogueInit
<1>2. IInv /\ DialogueInv /\ [DialogueNext]_allVars => (IInv /\ DialogueInv)' /\ [Next]_vars
  BY DialogueSteps, DialogueTyped, QuestionsStay, AskedStays, Inductive DEF IInv, DialogueInv
<1> QED
  BY <1>1, <1>2, DialogueStarts, PTL DEF DialogueSpec, Spec

(* A blocked unit that is tried again with more attempts than ever before gets at
   least one new answer from the provider, whatever the cache holds: the number of
   the attempt is part of the question. *)
THEOREM MoreAttemptsReachTheLLM == DialogueSpec => []MoreAttemptsAskAgain
<1>1. IInv /\ DialogueInv /\ [DialogueNext]_allVars => (IInv /\ DialogueInv)'
  BY DialogueSteps, DialogueTyped, QuestionsStay, AskedStays, Inductive DEF IInv, DialogueInv
<1>2. DialogueInv => MoreAttemptsAskAgain
  <2> SUFFICES ASSUME DialogueInv, ~ going, status = "blocked", \A m \in tried : m < limit,
                      ~ asked
               PROVE  FALSE
    BY DEF MoreAttemptsAskAgain
  <2>1. PICK m \in tried : limit <= m
    BY DEF DialogueInv, AskedInv, TriedBefore
  <2>2. Limits \subseteq Nat
    BY DialogueAssumption
  <2>3. tried \subseteq Limits /\ limit \in Limits \cup {0}
    BY DEF DialogueInv, DialogueTypeOK
  <2>4. m < limit /\ m \in Nat /\ limit \in Nat
    BY <2>2, <2>3
  <2> QED
    BY <2>1, <2>4
<1> QED
  BY <1>1, <1>2, DialogueStarts, PTL DEF DialogueSpec

=============================================================================
