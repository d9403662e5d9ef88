-------------------------- MODULE MCAppEnvironment --------------------------
(***************************************************************************)
(* Instances of AppEnvironment for TLC: one process with its containers.   *)
(* The names of an environment are its own (a uuid), so that the only      *)
(* other actor it meets is `migrator cleanup`.                             *)
(***************************************************************************)
EXTENDS AppEnvironment

CONSTANT p1

One == {p1}
OneBoxes == One \X {"db", "app", "gw"}

=============================================================================
