------------------------------ MODULE LLMClient ------------------------------
(***************************************************************************)
(* LLMClient.structured of llm/client.py: questions are answered from the  *)
(* cache folder when it has a valid answer, else by the provider.          *)
(*                                                                         *)
(* A key stands for everything that goes into the digest: provider, model, *)
(* prompt id, rendered prompt and schema.  The folder survives the         *)
(* process, and several commands may use it at the same time.  The calls   *)
(* in memory are kept as far as somebody looks at them: the last one.      *)
(***************************************************************************)
EXTENDS Naturals

CONSTANTS
    Clients,   (* LLMClient objects, one per running command                  *)
    Keys,      (* cache keys                                                  *)
    Answers,   (* what the provider may answer, objects of the schema         *)
    MaxStops,  (* bound: how many times a command is stopped                  *)
    MayCut,    (* a file may be cut inside a multi-byte character             *)
    MaxPaid    (* bound: answered provider calls per key                      *)

None == [ok |-> FALSE]
Given(a) == [ok |-> TRUE, answer |-> a]
Replies == {None} \cup {Given(a) : a \in Answers}

(* A cache file: missing, unreadable in two ways, or holding an answer.  "torn"
   does not validate; "cut" cannot even be decoded. *)
Missing == [state |-> "missing"]
Torn == [state |-> "torn"]
Cut == [state |-> "cut"]
Holding(a) == [state |-> "full", answer |-> a]
Files == {Missing, Torn, Cut} \cup {Holding(a) : a \in Answers}

ASSUME ClientAssumption ==
    /\ MaxStops \in Nat
    /\ MaxPaid \in Nat
    /\ MayCut \in BOOLEAN

VARIABLES
    cache,    (* key -> its file                                              *)
    paid,     (* key -> how often the provider answered it                    *)
    given,    (* [key, answer] pairs the provider has ever given              *)
    pc,       (* next step of each client                                     *)
    key,      (* the question it is working on                                *)
    reply,    (* what structured() is about to return, None for LLMError      *)
    called,   (* last element of `calls`: its key, and whether it was cached  *)
    raised,   (* an exception other than LLMError left structured()           *)
    stops     (* how often a command was stopped, see MaxStops                *)

clientVars == <<pc, key, reply, called, raised>>
vars == <<cache, paid, given, clientVars, stops>>

Points == {"idle", "lookup", "call", "record", "truncate", "fill", "return"}

NoCall == [made |-> FALSE]
Calls == {NoCall} \cup [made : {TRUE}, key : Keys, cached : BOOLEAN]

TypeOK ==
    /\ cache \in [Keys -> Files]
    /\ paid \in [Keys -> 0 .. MaxPaid]
    /\ given \subseteq Keys \X Answers
    /\ pc \in [Clients -> Points]
    /\ key \in [Clients -> Keys]
    /\ reply \in [Clients -> Replies]
    /\ called \in [Clients -> Calls]
    /\ raised \in [Clients -> BOOLEAN]
    /\ stops \in 0 .. MaxStops

Init ==
    /\ cache = [k \in Keys |-> Missing]
    /\ paid = [k \in Keys |-> 0]
    /\ given = {}
    /\ pc = [c \in Clients |-> "idle"]
    /\ \E k \in Keys : key = [c \in Clients |-> k]
    /\ reply = [c \in Clients |-> None]
    /\ called = [c \in Clients |-> NoCall]
    /\ raised = [c \in Clients |-> FALSE]
    /\ stops = 0

Goto(c, from, to) == pc[c] = from /\ pc' = [pc EXCEPT ![c] = to]

(* _record: the call becomes the last one of the list. *)
Record(c, cached) ==
    called' = [called EXCEPT ![c] = [made |-> TRUE, key |-> key[c], cached |-> cached]]

-----------------------------------------------------------------------------

Ask(c, k) ==
    /\ Goto(c, "idle", "lookup")
    /\ key' = [key EXCEPT ![c] = k]
    /\ reply' = [reply EXCEPT ![c] = None]
    /\ raised' = [raised EXCEPT ![c] = FALSE]
    /\ UNCHANGED <<cache, paid, given, called, stops>>

(* Mutated form: an answer from the cache is not put on the list of calls. *)
HitUnrecorded(c) ==
    /\ Goto(c, "lookup", "return")
    /\ \E a \in Answers :
          cache[key[c]] = Holding(a) /\ reply' = [reply EXCEPT ![c] = Given(a)]
    /\ UNCHANGED <<cache, paid, given, key, called, raised, stops>>

Hit(c) ==
    /\ Goto(c, "lookup", "return")
    /\ \E a \in Answers :
          cache[key[c]] = Holding(a) /\ reply' = [reply EXCEPT ![c] = Given(a)]
    /\ Record(c, TRUE)
    /\ UNCHANGED <<cache, paid, given, key, raised, stops>>

(* No file, or one that does not validate. *)
Miss(c) ==
    /\ Goto(c, "lookup", "call")
    /\ cache[key[c]] \in {Missing, Torn}
    /\ UNCHANGED <<cache, paid, given, key, reply, called, raised, stops>>

(* read_text raises UnicodeDecodeError, which is no ValidationError. *)
Undecodable(c) ==
    /\ Goto(c, "lookup", "idle")
    /\ cache[key[c]] = Cut
    /\ raised' = [raised EXCEPT ![c] = TRUE]
    /\ UNCHANGED <<cache, paid, given, key, reply, called, stops>>

ProviderAnswers(c) ==
    /\ Goto(c, "call", "record")
    /\ paid[key[c]] < MaxPaid
    /\ \E a \in Answers :
          /\ reply' = [reply EXCEPT ![c] = Given(a)]
          /\ given' = given \cup {<<key[c], a>>}
    /\ paid' = [paid EXCEPT ![key[c]] = @ + 1]
    /\ UNCHANGED <<cache, key, called, raised, stops>>

(* LLMError: recorded, and raised again. *)
ProviderFails(c) ==
    /\ Goto(c, "call", "return")
    /\ Record(c, FALSE)
    /\ UNCHANGED <<cache, paid, given, key, reply, raised, stops>>

RecordCall(c) ==
    /\ Goto(c, "record", "truncate")
    /\ Record(c, FALSE)
    /\ UNCHANGED <<cache, paid, given, key, reply, raised, stops>>

(* write_text opens the file, which empties it, ... *)
Truncate(c) ==
    /\ Goto(c, "truncate", "fill")
    /\ cache' = [cache EXCEPT ![key[c]] = Torn]
    /\ UNCHANGED <<paid, given, key, reply, called, raised, stops>>

(* Mutated form: the answer is written to a file named after the prompt alone,
   so another question finds it. *)
FillForAll(c) ==
    /\ Goto(c, "fill", "return")
    /\ cache' = [k \in Keys |-> Holding(reply[c].answer)]
    /\ UNCHANGED <<paid, given, key, reply, called, raised, stops>>

(* ... and writes the answer from the start.  When somebody else has written to
   it since, the end of a longer answer stays behind this one. *)
Fill(c) ==
    /\ Goto(c, "fill", "return")
    /\ LET mine == Holding(reply[c].answer)
       IN  \E file \in {mine} \cup (IF cache[key[c]] \in {Torn, mine} THEN {} ELSE {Torn}) :
              cache' = [cache EXCEPT ![key[c]] = file]
    /\ UNCHANGED <<paid, given, key, reply, called, raised, stops>>

Return(c) ==
    /\ Goto(c, "return", "idle")
    /\ UNCHANGED <<cache, paid, given, key, reply, called, raised, stops>>

(* The command is stopped; the next one starts with a new client.  Inside
   write_text part of the answer may be on disk. *)
Stop(c) ==
    /\ pc[c] # "idle"
    /\ stops < MaxStops
    /\ stops' = stops + 1
    /\ pc' = [pc EXCEPT ![c] = "idle"]
    /\ reply' = [reply EXCEPT ![c] = None]
    /\ called' = [called EXCEPT ![c] = NoCall]
    /\ \/ UNCHANGED cache
       \/ /\ MayCut /\ pc[c] = "fill" /\ cache[key[c]] = Torn
          /\ cache' = [cache EXCEPT ![key[c]] = Cut]
    /\ UNCHANGED <<paid, given, key, raised>>

(* structured() of one client. *)
Structured(c) ==
    Hit(c) \/ Miss(c) \/ Undecodable(c) \/ ProviderAnswers(c) \/ ProviderFails(c)
    \/ RecordCall(c) \/ Truncate(c) \/ Fill(c)

Next ==
    \E c \in Clients :
        Structured(c) \/ Return(c) \/ Stop(c) \/ \E k \in Keys : Ask(c, k)

Spec == Init /\ [][Next]_vars

-----------------------------------------------------------------------------
(* Properties. *)

(* Whatever structured() returns was given by the provider to this very
   question, also when the file was torn by a stopped command or is being
   written by another one (docs/llm.md: "the same prompt + model + schema is
   answered from the cache"). *)
AnswerWasGiven ==
    \A c \in Clients : pc[c] = "return" /\ reply[c].ok =>
        <<key[c], reply[c].answer>> \in given

(* When structured() ends, the last call of the list is this one, so that
   _count_tokens of the migration loop books the tokens of this attempt. *)
LastCallIsThisOne ==
    \A c \in Clients : pc[c] = "return" =>
        /\ called[c].made
        /\ called[c].key = key[c]
        /\ called[c].cached => reply[c].ok

(* client.py: "Cached answer ... does not fit the schema, calling again": a
   damaged file is never more than a lost answer. *)
DamagedFileIsAskedAgain == \A c \in Clients : ~ raised[c]

=============================================================================
