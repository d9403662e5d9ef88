----------------------------- MODULE MCRecorder -----------------------------
(***************************************************************************)
(* Instances of Recorder for TLC: suites for an app that is deterministic, *)
(* apps that answer differently every time in each of the ways of Varying, *)
(* one that writes after it has answered and one that creates a table on   *)
(* first use; with and without approved rules, and with --runs from 0 to 3.*)
(***************************************************************************)
EXTENDS Recorder, TLC

Case(suites, rulesets, runs) == [suite : suites, rules : rulesets, runs : runs]

Deterministic == << <<"create", "log", "log", "remove">>, <<"read", "create", "read", "remove">> >>
Lazy == << <<"table", "create">> >>
Late == << <<"queue", "create", "queue">>, <<"log", "remove">> >>
Answering == { << <<kind, "create">>, <<kind>> >> : kind \in DOMAIN Varying }

NoRules == <<>>
At == <<"body", "at">>
Rule(path, action) == path :> action

ClockRules == {NoRules, Rule(At, "timestamp"), Rule(At, "ignore")}

AllCases ==
    Case({Deterministic}, {NoRules}, {2, 3})
    \cup Case({Late}, {NoRules}, {2})
    \cup Case({Lazy}, {NoRules, Rule(<<"columns">>, "ignore")}, {0, 1, 2})
    \cup Case(Answering, ClockRules, {3})
    \cup Case(Answering, {Rule(<<"status">>, "ignore"), Rule(<<"body", "[*]">>, "ignore"),
                          Rule(<<"body", "extra">>, "ignore")}, {2})

=============================================================================
