---------------------------- MODULE MCSandboxRun ----------------------------
(***************************************************************************)
(* An instance of SandboxRun for TLC: a process with a toolchain of two    *)
(* steps, asked for everything, for the part before the tests, for the     *)
(* tests, or for nothing there is, beside `migrator cleanup`.  Processes   *)
(* share nothing but what cleanup does to them: one shows it all.          *)
(***************************************************************************)
EXTENDS SandboxRun

CONSTANT p1

One == {p1}

Tested == <<"install", "test">>
Untested == <<"install", "build">>

All(steps) == [toolchain |-> steps, all |-> TRUE, names |-> {}]
Only(names, steps) == [toolchain |-> steps, all |-> FALSE, names |-> names]

EveryRequest == {All(Tested), All(Untested), Only({"install", "build"}, Tested),
                 Only({"build", "test"}, Tested), Only({"lint"}, Tested)}

OneBoxes == One \X (1 .. 2)

=============================================================================
