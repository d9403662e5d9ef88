----------------------------- MODULE DockerHost -----------------------------
(***************************************************************************)
(* The Docker daemon, as sandbox/docker.py and baseline/environment.py use *)
(* it: containers with fresh names, started by `docker run`, ended by      *)
(* themselves, by `docker kill` or by `docker rm -f`.  A command that      *)
(* fails is only noticed as "no output" (docker_output returns None).      *)
(*                                                                         *)
(* A container keeps its record after it is removed: properties compare    *)
(* what a process concluded with what really happened.                     *)
(***************************************************************************)
EXTENDS Naturals

CONSTANTS
    Boxes,  (* names of the containers, each used once (they hold a uuid)     *)
    Flaky   (* docker commands that may fail although they could succeed      *)

VARIABLES
    box,    (* what the daemon knows of each container                        *)
    listed  (* containers `migrator cleanup` has found and not removed yet    *)

hostVars == <<box, listed>>

(* "swept" is gone, too: `migrator cleanup` has taken it away. *)
Phases == {"none", "asked", "up", "exited", "gone", "swept"}

BoxType == [phase : Phases, code : {"none", "refused", "ok", "error", "killed"}, oom : BOOLEAN]

HostTypeOK == box \in [Boxes -> BoxType] /\ listed \in SUBSET Boxes

HostInit ==
    /\ box = [b \in Boxes |-> [phase |-> "none", code |-> "none", oom |-> FALSE]]
    /\ listed = {}

(* What `docker ps -a`, `docker inspect` and `docker rm` can see. *)
Exists(b) == box[b].phase \in {"up", "exited"}

(* `docker run` has been issued; the daemon answers when it gets to it. *)
AskBox(b) ==
    /\ box[b].phase = "none"
    /\ box' = [box EXCEPT ![b].phase = "asked"]

(* The daemon starts the container, or refuses and leaves it created or not. *)
BoxStarts(b) ==
    /\ box[b].phase = "asked"
    /\ box' = [box EXCEPT ![b].phase = "up"]

BoxRefused(b) ==
    /\ box[b].phase = "asked"
    /\ \E phase \in {"exited", "gone"} :
          box' = [box EXCEPT ![b].phase = phase, ![b].code = "refused"]

(* The program in the container ends, possibly after one of its processes hit
   the memory limit.  Nothing says that it ends. *)
BoxEnds(b) ==
    /\ box[b].phase = "up"
    /\ \E code \in {"ok", "error"}, oom \in BOOLEAN :
          box' = [box EXCEPT ![b] = [phase |-> "exited", code |-> code, oom |-> oom]]

(* `docker kill`: only a running container can be killed. *)
KillBox(b) ==
    \/ /\ box[b].phase = "up"
       /\ box' = [box EXCEPT ![b].phase = "exited", ![b].code = "killed"]
    \/ /\ box[b].phase # "up" \/ "kill" \in Flaky
       /\ UNCHANGED box

(* `docker rm -f`, by the process that owns the container or by a cleanup. *)
RemoveAs(b, phase) ==
    \/ /\ Exists(b)
       /\ box' = [box EXCEPT ![b].phase = phase,
                             ![b].code = IF box[b].phase = "up" THEN "killed" ELSE @]
    \/ /\ ~ Exists(b) \/ "rm" \in Flaky
       /\ UNCHANGED box

RemoveBox(b) == RemoveAs(b, "gone")

(* Mutated form: only running containers are listed (`docker ps -q`). *)
ListLeftoversRunning ==
    /\ listed = {}
    /\ listed' = {b \in Boxes : box[b].phase = "up"}
    /\ UNCHANGED box

(* cleanup_stale: `docker ps -aq --filter label=...`, then one `docker rm -f`
   that goes through the list.  Every container carries the label, so nothing
   tells a leftover from a container that is in use. *)
ListLeftovers ==
    /\ listed = {}
    /\ listed' = {b \in Boxes : Exists(b)}
    /\ UNCHANGED box

RemoveLeftover(b) ==
    /\ b \in listed
    /\ RemoveAs(b, "swept")
    /\ listed' = listed \ {b}

(* The client of `docker run` returns when its container has ended, one way or
   another, with the code of the container. *)
ClientDone(b) == box[b].phase \in {"exited", "gone", "swept"}

=============================================================================
