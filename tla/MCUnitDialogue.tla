---------------------------- MODULE MCUnitDialogue ----------------------------
(***************************************************************************)
(* Instances of UnitDialogue for TLC: a run and its retries.               *)
(***************************************************************************)
EXTENDS UnitDialogue, TLC

CONSTANTS refused, stubs, written, text

Dialogue == {refused, stubs, written}
Fates == refused :> "policy" @@ stubs :> "not_done" @@ written :> "tested"
TwoModels == "default" :> "sol" @@ "strong" :> "astra"
OneModel == "default" :> "sol" @@ "strong" :> "sol"

DialogueKeys ==
    {Question(model, n, what, files) :
        model \in {ModelOf["default"], ModelOf["strong"]},
        n \in UNION {1 .. m : m \in Limits}, what \in Problems, files \in Replies}

=============================================================================
