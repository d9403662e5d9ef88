--------------------------- MODULE AppEnvironment ---------------------------
(***************************************************************************)
(* baseline/environment.py: the app with its database and a gateway on an  *)
(* internal network of their own, started for a recording, a skeleton      *)
(* check or a mutant, and removed afterwards.  Several processes do this   *)
(* at the same time, and `migrator cleanup` may be run under them.         *)
(*                                                                         *)
(* Every call of the docker CLI is a step.  The containers, Postgres and   *)
(* the app behave as they like: they may refuse to start, die at any time, *)
(* or never answer.                                                        *)
(***************************************************************************)
EXTENDS FiniteSets, DockerHost

CONSTANTS
    Procs,      (* processes, each with one environment                       *)
    WithDb,     (* "postgres" is among the services of the run spec           *)
    Interrupts, (* bound: how often each process gets a Ctrl-C                *)
    Cleanups    (* `migrator cleanup` may be run, at any time                 *)

ASSUME EnvAssumption ==
    /\ Boxes = Procs \X {"db", "app", "gw"}
    /\ WithDb \in BOOLEAN
    /\ Interrupts \in Nat
    /\ Cleanups \in BOOLEAN

VARIABLES
    pc,        (* next docker command of each process                         *)
    net,       (* its internal network                                        *)
    connected, (* its gateway has joined that network                         *)
    postgres,  (* what its Postgres listens on: nothing, the unix socket      *)
               (* (first-time init), or TCP                                   *)
    listening, (* its app answers HTTP                                        *)
    ctrlC,     (* how often it was interrupted, see Interrupts                *)
    abandoned  (* what of it the daemon had not answered for when a Ctrl-C    *)
               (* ended the docker command that had asked for it              *)

envVars == <<pc, net, connected, postgres, listening, ctrlC, abandoned>>
vars == <<hostVars, envVars>>

StartPoints == {"images", "net", "net_up", "db", "db_up", "db_wait", "app", "app_up",
                "app_ip", "gw", "gw_up", "connect", "port", "app_wait"}

StopPoints == {"stop_logs", "stop_gw", "stop_app", "stop_db", "stop_net"}

Points == StartPoints \cup StopPoints \cup {"idle", "ready", "left", "killed"}

TypeOK ==
    /\ HostTypeOK
    /\ pc \in [Procs -> Points]
    /\ net \in [Procs -> {"none", "asked", "up", "gone"}]
    /\ connected \in [Procs -> BOOLEAN]
    /\ postgres \in [Procs -> {"nothing", "socket", "tcp"}]
    /\ listening \in [Procs -> BOOLEAN]
    /\ ctrlC \in [Procs -> 0 .. Interrupts]
    /\ abandoned \in [Procs -> SUBSET {"net", "db", "app", "gw"}]

Init ==
    /\ HostInit
    /\ pc = [p \in Procs |-> "idle"]
    /\ net = [p \in Procs |-> "none"]
    /\ connected = [p \in Procs |-> FALSE]
    /\ postgres = [p \in Procs |-> "nothing"]
    /\ listening = [p \in Procs |-> FALSE]
    /\ ctrlC = [p \in Procs |-> 0]
    /\ abandoned = [p \in Procs |-> {}]

Goto(p, from, to) == pc[p] = from /\ pc' = [pc EXCEPT ![p] = to]

Up(p, kind) == box[<<p, kind>>].phase = "up"

Refused(p, kind) == box[<<p, kind>>].code = "refused"

(* A Python exception in _start: __enter__ calls _stop and raises it again. *)
Fail(p) == pc' = [pc EXCEPT ![p] = "stop_logs"]

-----------------------------------------------------------------------------
(* _start *)

Enter(p) ==
    /\ Goto(p, "idle", "images")
    /\ UNCHANGED <<hostVars, net, connected, postgres, listening, ctrlC, abandoned>>

EnsureImages(p) ==
    /\ pc[p] = "images"
    /\ \/ pc' = [pc EXCEPT ![p] = "net"]
       \/ Fail(p)
    /\ UNCHANGED <<hostVars, net, connected, postgres, listening, ctrlC, abandoned>>

(* `docker network create`, and its answer. *)
CreateNetwork(p) ==
    \/ /\ Goto(p, "net", "net_up")
       /\ net' = [net EXCEPT ![p] = "asked"]
       /\ UNCHANGED <<hostVars, connected, postgres, listening, ctrlC, abandoned>>
    \/ /\ pc[p] = "net_up"
       /\ \/ /\ net[p] = "up"
             /\ pc' = [pc EXCEPT ![p] = IF WithDb THEN "db" ELSE "app"]
          \/ /\ net[p] = "gone"
             /\ Fail(p)
       /\ UNCHANGED <<hostVars, net, connected, postgres, listening, ctrlC, abandoned>>

(* `docker run -d` of one of the three containers, and its answer: the
   container was started (and may have ended since), or it could not be. *)
RunDetached(p, kind, from, to) ==
    /\ Goto(p, from, to)
    /\ AskBox(<<p, kind>>)
    /\ UNCHANGED <<listed, net, connected, postgres, listening, ctrlC, abandoned>>

RunAnswered(p, kind, from, to) ==
    /\ pc[p] = from
    /\ box[<<p, kind>>].phase # "asked"
    /\ IF Refused(p, kind) THEN Fail(p) ELSE pc' = [pc EXCEPT ![p] = to]
    /\ UNCHANGED <<hostVars, net, connected, postgres, listening, ctrlC, abandoned>>

StartPostgres(p) ==
    \/ RunDetached(p, "db", "db", "db_up")
    \/ RunAnswered(p, "db", "db_up", "db_wait")

(* Mutated form: pg_isready asks on the unix socket. *)
DbAnswersSocket(p) ==
    /\ Goto(p, "db_wait", "app")
    /\ Up(p, "db") /\ postgres[p] # "nothing"
    /\ UNCHANGED <<hostVars, net, connected, postgres, listening, ctrlC, abandoned>>

(* wait_ready asks over TCP until the answer is yes, or the time is over. *)
DbAnswers(p) ==
    /\ Goto(p, "db_wait", "app")
    /\ Up(p, "db") /\ postgres[p] = "tcp"
    /\ UNCHANGED <<hostVars, net, connected, postgres, listening, ctrlC, abandoned>>

(* Mutated form: the loop looks at the container and not at the clock. *)
DbTimeoutIfGone(p) ==
    /\ Goto(p, "db_wait", "stop_logs")
    /\ ~ Up(p, "db")
    /\ UNCHANGED <<hostVars, net, connected, postgres, listening, ctrlC, abandoned>>

DbTimeout(p) ==
    /\ Goto(p, "db_wait", "stop_logs")
    /\ UNCHANGED <<hostVars, net, connected, postgres, listening, ctrlC, abandoned>>

(* check_allowed may refuse the start command, before docker is asked. *)
StartApp(p) ==
    \/ /\ Goto(p, "app", "stop_logs")
       /\ UNCHANGED <<hostVars, net, connected, postgres, listening, ctrlC, abandoned>>
    \/ RunDetached(p, "app", "app", "app_up")
    \/ RunAnswered(p, "app", "app_up", "app_ip")

(* The address of the app: `docker inspect` knows every container that exists. *)
InspectApp(p) ==
    /\ pc[p] = "app_ip"
    /\ \/ /\ Exists(<<p, "app">>)
          /\ pc' = [pc EXCEPT ![p] = "gw"]
       \/ /\ ~ Exists(<<p, "app">>) \/ "inspect" \in Flaky
          /\ Fail(p)
    /\ UNCHANGED <<hostVars, net, connected, postgres, listening, ctrlC, abandoned>>

StartGateway(p) ==
    \/ RunDetached(p, "gw", "gw", "gw_up")
    \/ RunAnswered(p, "gw", "gw_up", "connect")

ConnectGateway(p) ==
    /\ pc[p] = "connect"
    /\ \/ /\ Exists(<<p, "gw">>)
          /\ pc' = [pc EXCEPT ![p] = "port"]
          /\ connected' = [connected EXCEPT ![p] = TRUE]
       \/ /\ Fail(p)
          /\ UNCHANGED connected
    /\ UNCHANGED <<hostVars, net, postgres, listening, ctrlC, abandoned>>

(* `docker port` only answers for a running container. *)
GatewayPort(p) ==
    /\ pc[p] = "port"
    /\ \/ /\ Up(p, "gw")
          /\ pc' = [pc EXCEPT ![p] = "app_wait"]
       \/ Fail(p)
    /\ UNCHANGED <<hostVars, net, connected, postgres, listening, ctrlC, abandoned>>

(* _wait_for_app: an HTTP answer, an app that is not running any more, or the
   deadline. *)
AppAnswers(p) ==
    /\ Goto(p, "app_wait", "ready")
    /\ Up(p, "app") /\ listening[p] /\ Up(p, "gw") /\ connected[p]
    /\ UNCHANGED <<hostVars, net, connected, postgres, listening, ctrlC, abandoned>>

AppNotUp(p) ==
    /\ Goto(p, "app_wait", "stop_logs")
    /\ UNCHANGED <<hostVars, net, connected, postgres, listening, ctrlC, abandoned>>

(* The body of the `with` statement ends or raises: __exit__. *)
Leave(p) ==
    /\ Goto(p, "ready", "stop_logs")
    /\ UNCHANGED <<hostVars, net, connected, postgres, listening, ctrlC, abandoned>>

-----------------------------------------------------------------------------
(* _stop *)

SaveLogs(p) ==
    /\ Goto(p, "stop_logs", "stop_gw")
    /\ UNCHANGED <<hostVars, net, connected, postgres, listening, ctrlC, abandoned>>

StopBox(p, kind, from, to) ==
    /\ Goto(p, from, to)
    /\ RemoveBox(<<p, kind>>)
    /\ UNCHANGED <<listed, net, connected, postgres, listening, ctrlC, abandoned>>

(* Mutated form: the database container is forgotten. *)
StopContainersNotDb(p) ==
    \/ StopBox(p, "gw", "stop_gw", "stop_app")
    \/ StopBox(p, "app", "stop_app", "stop_net")

StopContainers(p) ==
    \/ StopBox(p, "gw", "stop_gw", "stop_app")
    \/ StopBox(p, "app", "stop_app", "stop_db")
    \/ StopBox(p, "db", "stop_db", "stop_net")

Attached(p) == {kind \in {"db", "app", "gw"} : Up(p, kind) /\ (kind = "gw" => connected[p])}

(* `docker network rm` refuses while a running container is attached. *)
RemoveNetwork(p) ==
    /\ Goto(p, "stop_net", "left")
    /\ net' = [net EXCEPT ![p] = IF @ = "up" /\ Attached(p) = {} THEN "gone" ELSE @]
    /\ UNCHANGED <<hostVars, connected, postgres, listening, ctrlC, abandoned>>

(* What the daemon has been asked for and has not answered yet. *)
Unanswered(p) ==
    {kind \in {"db", "app", "gw"} : box[<<p, kind>>].phase = "asked"}
    \cup {n \in {"net"} : net[p] = "asked"}

(* KeyboardInterrupt.  _start and the body of the `with` are followed by _stop;
   a second one inside _stop ends it there.  What a docker command has asked for
   may still come, whether or not somebody waits for the answer. *)
Interrupt(p) ==
    /\ ctrlC[p] < Interrupts
    /\ ctrlC' = [ctrlC EXCEPT ![p] = @ + 1]
    /\ abandoned' = [abandoned EXCEPT ![p] = @ \cup Unanswered(p)]
    /\ \/ pc[p] \in StartPoints \cup {"ready"} /\ Fail(p)
       \/ pc[p] \in StopPoints /\ pc' = [pc EXCEPT ![p] = "killed"]
    /\ UNCHANGED <<hostVars, net, connected, postgres, listening>>

-----------------------------------------------------------------------------
(* The containers and the network. *)

(* A container of the internal network cannot start without it. *)
DaemonAnswers(b) ==
    /\ \/ BoxStarts(b) /\ (b[2] = "gw" \/ net[b[1]] = "up")
       \/ BoxRefused(b)
    /\ UNCHANGED <<listed, envVars>>

NetworkAnswers(p) ==
    /\ net[p] = "asked"
    /\ \E answer \in {"up", "gone"} : net' = [net EXCEPT ![p] = answer]
    /\ UNCHANGED <<hostVars, pc, connected, postgres, listening, ctrlC, abandoned>>

ProgramEnds(b) == BoxEnds(b) /\ UNCHANGED <<listed, envVars>>

PostgresComesUp(p) ==
    /\ Up(p, "db")
    /\ \/ postgres[p] = "nothing" /\ postgres' = [postgres EXCEPT ![p] = "socket"]
       \/ postgres[p] = "socket" /\ postgres' = [postgres EXCEPT ![p] = "tcp"]
    /\ UNCHANGED <<hostVars, pc, net, connected, listening, ctrlC, abandoned>>

AppListens(p) ==
    /\ Up(p, "app")
    /\ ~ listening[p]
    /\ listening' = [listening EXCEPT ![p] = TRUE]
    /\ UNCHANGED <<hostVars, pc, net, connected, postgres, ctrlC, abandoned>>

Cleanup ==
    /\ Cleanups
    /\ ListLeftovers \/ \E b \in listed : RemoveLeftover(b)
    /\ UNCHANGED envVars

ProcStep(p) ==
    Enter(p) \/ EnsureImages(p) \/ CreateNetwork(p) \/ StartPostgres(p) \/ DbAnswers(p)
    \/ DbTimeout(p) \/ StartApp(p) \/ InspectApp(p) \/ StartGateway(p)
    \/ ConnectGateway(p) \/ GatewayPort(p) \/ AppAnswers(p) \/ AppNotUp(p) \/ Leave(p)
    \/ SaveLogs(p) \/ StopContainers(p) \/ RemoveNetwork(p)

Next ==
    \/ \E p \in Procs :
          ProcStep(p) \/ Interrupt(p) \/ NetworkAnswers(p) \/ PostgresComesUp(p)
          \/ AppListens(p)
    \/ \E b \in Boxes : DaemonAnswers(b) \/ ProgramEnds(b)
    \/ Cleanup

Spec == Init /\ [][Next]_vars

(* Every process goes on (its loops have deadlines, the scenarios it plays
   have HTTP timeouts) and the daemon answers every command. *)
FairSpec ==
    /\ Spec
    /\ \A p \in Procs : WF_vars(ProcStep(p)) /\ WF_vars(NetworkAnswers(p))
    /\ \A b \in Boxes : WF_vars(DaemonAnswers(b))

-----------------------------------------------------------------------------
(* Properties. *)

(* When the environment has been left, no container and no network of it is
   there any more, whichever step failed or was interrupted, whatever died or was
   cleaned up in the meantime (environment.py: "Everything is removed on exit, even
   when something fails") - but for what a Ctrl-C gave up before the daemon had
   answered, and for the network that such a container has joined. *)
EverythingRemoved ==
    \A p \in Procs : pc[p] = "left" =>
        /\ \A kind \in {"db", "app", "gw"} \ abandoned[p] :
              box[<<p, kind>>].phase \in {"none", "gone", "swept"}
        /\ net[p] = "up" => abandoned[p] \cap {"net", "db", "app"} # {}

(* The same without the exception, as environment.py says it. *)
NothingStays ==
    \A p \in Procs : pc[p] = "left" =>
        /\ \A kind \in {"db", "app", "gw"} :
              box[<<p, kind>>].phase \in {"none", "gone", "swept"}
        /\ net[p] # "up"

(* The app is only started once its database takes connections, not while
   Postgres is in its first-time init (database.py wait_ready). *)
AppStartsAfterDb ==
    \A p \in Procs : WithDb /\ box[<<p, "app">>].phase # "none" => postgres[p] = "tcp"

(* An environment that is entered is left again, whoever hangs inside it. *)
EnvironmentEnds == \A p \in Procs : pc[p] # "idle" ~> pc[p] \in {"left", "killed"}

=============================================================================
