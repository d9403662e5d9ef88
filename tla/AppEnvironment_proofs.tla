------------------------ MODULE AppEnvironment_proofs ------------------------
(***************************************************************************)
(* Theorems about AppEnvironment, for any number of environments at the    *)
(* same time, with and without a database, interrupted any number of times *)
(* and with `migrator cleanup` run under them.                             *)
(***************************************************************************)
EXTENDS AppEnvironment, TLAPS

-----------------------------------------------------------------------------
(* The Docker daemon: what a command may change, and what the daemon, a
   program or a cleanup may do to a container behind the back of the process
   that owns it. *)

Ended == {"exited", "gone", "swept"}

(* Every command and every answer keeps what the daemon knows well-formed. *)
LEMMA HostTyped ==
  ASSUME HostTypeOK, NEW b \in Boxes,
         \/ (AskBox(b) \/ BoxStarts(b) \/ BoxRefused(b) \/ BoxEnds(b)
             \/ KillBox(b) \/ RemoveBox(b)) /\ UNCHANGED listed
         \/ RemoveLeftover(b) \/ ListLeftovers
  PROVE  HostTypeOK'
<1> USE DEF HostTypeOK, BoxType, Phases
<1>1. CASE ListLeftovers
  BY <1>1 DEF ListLeftovers
<1>2. CASE RemoveLeftover(b)
  BY <1>2 DEF RemoveLeftover, RemoveAs
<1>3. CASE UNCHANGED listed /\ (AskBox(b) \/ BoxStarts(b) \/ BoxRefused(b))
  BY <1>3 DEF AskBox, BoxStarts, BoxRefused
<1>4. CASE UNCHANGED listed /\ (BoxEnds(b) \/ KillBox(b) \/ RemoveBox(b))
  BY <1>4 DEF BoxEnds, KillBox, RemoveBox, RemoveAs
<1> QED
  BY <1>1, <1>2, <1>3, <1>4

(* What a step of the daemon, of a program in a container or of a cleanup does
   to a container: it starts only what was asked for, what has ended keeps its
   code and is at most swept, and nothing is gone but what was refused. *)
Undisturbed(b) ==
    /\ box[b].phase = "none" => box'[b] = box[b]
    /\ box'[b].phase = "asked" => box[b].phase = "asked"
    /\ box[b].phase \in Ended =>
          /\ box'[b].phase \in {box[b].phase, "swept"}
          /\ box'[b].code = box[b].code
          /\ box'[b].oom = box[b].oom
    /\ box'[b].phase = "gone" => box[b].phase = "gone" \/ box'[b].code = "refused"

(* The daemon answers, or a program ends. *)
LEMMA AnswersUndisturbed ==
  ASSUME HostTypeOK, NEW b \in Boxes, BoxStarts(b) \/ BoxRefused(b) \/ BoxEnds(b)
  PROVE  \A c \in Boxes : Undisturbed(c)
  BY DEF Undisturbed, Ended, BoxStarts, BoxRefused, BoxEnds, HostTypeOK, BoxType, Phases

(* `migrator cleanup` goes through its list. *)
LEMMA CleanupUndisturbed ==
  ASSUME HostTypeOK, ListLeftovers \/ \E b \in listed : RemoveLeftover(b)
  PROVE  \A c \in Boxes : Undisturbed(c)
<1> USE DEF Undisturbed, Ended
<1>1. CASE UNCHANGED box
  BY <1>1
<1>2. CASE \E b \in listed : Exists(b) /\ RemoveAs(b, "swept")
  BY <1>2 DEF RemoveAs, Exists, HostTypeOK, BoxType, Phases
<1> QED
  BY <1>1, <1>2 DEF ListLeftovers, RemoveLeftover, RemoveAs

(* What `docker rm -f` does: nothing to other containers, nor to one that does
   not exist; one that exists is gone, unless the command fails. *)
LEMMA RemoveDoes ==
  ASSUME HostTypeOK, NEW b \in Boxes, RemoveBox(b)
  PROVE  /\ \A c \in Boxes : c # b => box'[c] = box[c]
         /\ box[b].phase \notin {"up", "exited"} => box'[b] = box[b]
         /\ box'[b].phase \in {box[b].phase, "gone"}
         /\ "rm" \notin Flaky => box'[b].phase \notin {"up", "exited"}
<1> USE DEF HostTypeOK, BoxType, Phases
<1>1. CASE ~ Exists(b) /\ UNCHANGED box
  BY <1>1 DEF Exists
<1>2. CASE "rm" \in Flaky /\ UNCHANGED box
  BY <1>2
<1>3. CASE /\ Exists(b)
           /\ box' = [box EXCEPT ![b].phase = "gone",
                                 ![b].code = IF box[b].phase = "up" THEN "killed" ELSE @]
  BY <1>3 DEF Exists
<1> QED
  BY <1>1, <1>2, <1>3 DEF RemoveBox, RemoveAs

-----------------------------------------------------------------------------

Kinds == {"db", "app", "gw"}

(* The docker commands before the `docker run` of a container, the one that
   waits for the daemon's answer, and those after its `docker rm -f`. *)
Before(kind) ==
    {"idle", "images", "net", "net_up", "db"}
    \cup (IF kind = "db" THEN {} ELSE {"db_up", "db_wait", "app"})
    \cup (IF kind = "gw" THEN {"app_up", "app_ip", "gw"} ELSE {})

Asked(kind) ==
    CASE kind = "db" -> "db_up"
      [] kind = "app" -> "app_up"
      [] kind = "gw" -> "gw_up"

After(kind) ==
    {"stop_net", "left"}
    \cup (IF kind = "db" THEN {} ELSE {"stop_db"})
    \cup (IF kind = "gw" THEN {"stop_app"} ELSE {})

(* A process knows its containers: it starts each of them once, leaves no
   `docker run` unanswered behind but one that a Ctrl-C ended, and removes what it
   may have started. *)
InStep(p, kind) ==
    /\ pc[p] \in Before(kind) => box[<<p, kind>>].phase = "none"
    /\ box[<<p, kind>>].phase = "asked" => pc[p] = Asked(kind) \/ kind \in abandoned[p]

Removed(p, kind) ==
    pc[p] \in After(kind) =>
        box[<<p, kind>>].phase \in {"none", "gone", "swept"} \/ kind \in abandoned[p]

(* Only what is left gives up something, and a gateway that was given up has not
   joined the network. *)
NetInStep(p) ==
    /\ pc[p] \notin StopPoints \cup {"left", "killed"} => abandoned[p] = {}
    /\ net[p] = "asked" => pc[p] = "net_up" \/ "net" \in abandoned[p]
    /\ pc[p] \in Before("gw") \cup {"gw_up"} => ~ connected[p]
    /\ "gw" \in abandoned[p] => ~ connected[p]

NetLeft(p) ==
    pc[p] = "left" /\ net[p] = "up" => abandoned[p] \cap {"net", "db", "app"} # {}

EnvInv == \A p \in Procs : NetInStep(p) /\ \A kind \in Kinds : InStep(p, kind)

RemovedInv == \A p \in Procs : NetLeft(p) /\ \A kind \in Kinds : Removed(p, kind)

(* The only way to the app is through a database that answers over TCP. *)
DbFirst(p) ==
    pc[p] = "app" \/ box[<<p, "app">>].phase # "none" => postgres[p] = "tcp"

DbInv == WithDb => \A p \in Procs : DbFirst(p)

-----------------------------------------------------------------------------
(* What is not a step of a process, of its Postgres or of its app. *)
HostStep == Cleanup \/ \E b \in Boxes : DaemonAnswers(b) \/ ProgramEnds(b)

(* The daemon, a program in a container and `migrator cleanup` leave the
   environments where they are and disturb no container. *)
LEMMA HostStepDoes ==
  ASSUME HostTypeOK, HostStep
  PROVE  /\ UNCHANGED envVars
         /\ HostTypeOK'
         /\ \A b \in Boxes : Undisturbed(b)
<1>1. UNCHANGED envVars
  BY DEF HostStep, Cleanup, DaemonAnswers, ProgramEnds
<1>2. HostTypeOK'
  <2>1. CASE ListLeftovers
    BY <2>1 DEF ListLeftovers, HostTypeOK
  <2>2. CASE \E b \in listed : RemoveLeftover(b)
    BY <2>2, HostTyped DEF HostTypeOK
  <2>3. CASE \E b \in Boxes : DaemonAnswers(b) \/ ProgramEnds(b)
    BY <2>3, HostTyped DEF DaemonAnswers, ProgramEnds
  <2> QED
    BY <2>1, <2>2, <2>3 DEF HostStep, Cleanup
<1>3. \A b \in Boxes : Undisturbed(b)
  BY AnswersUndisturbed, CleanupUndisturbed
  DEF HostStep, Cleanup, DaemonAnswers, ProgramEnds
<1> QED
  BY <1>1, <1>2, <1>3

(* A step of a process, its Postgres or its app. *)
EnvStep(p) ==
    ProcStep(p) \/ Interrupt(p) \/ NetworkAnswers(p) \/ PostgresComesUp(p) \/ AppListens(p)

(* No step of _start and _stop leaves the types of the state
   (environment.py). *)
LEMMA EnvTyped ==
  ASSUME TypeOK, NEW p \in Procs, EnvStep(p)
  PROVE  TypeOK'
<1> USE DEF TypeOK, Points, StartPoints, StopPoints, Goto
<1>0. /\ \A kind \in Kinds : <<p, kind>> \in Boxes
      /\ UNCHANGED hostVars => HostTypeOK'
  BY EnvAssumption DEF Kinds, hostVars, HostTypeOK
<1> USE DEF Kinds
<1>1. CASE Enter(p)
  BY <1>0, <1>1 DEF Enter
<1>2. CASE EnsureImages(p)
  BY <1>0, <1>2 DEF EnsureImages, Fail
<1>3. CASE CreateNetwork(p)
  BY <1>0, <1>3 DEF CreateNetwork, Fail
<1>4. CASE StartPostgres(p)
  <2>1. HostTypeOK'
    BY <1>0, <1>4, HostTyped DEF StartPostgres, RunDetached, RunAnswered, hostVars, HostTypeOK
  <2> QED
    BY <1>0, <1>4, <2>1 DEF StartPostgres, RunDetached, RunAnswered, Fail
<1>5. CASE DbAnswers(p)
  BY <1>0, <1>5 DEF DbAnswers
<1>6. CASE DbTimeout(p)
  BY <1>0, <1>6 DEF DbTimeout
<1>7. CASE StartApp(p)
  <2>1. HostTypeOK'
    BY <1>0, <1>7, HostTyped DEF StartApp, RunDetached, RunAnswered, hostVars, HostTypeOK
  <2> QED
    BY <1>0, <1>7, <2>1 DEF StartApp, RunDetached, RunAnswered, Fail
<1>8. CASE InspectApp(p)
  BY <1>0, <1>8 DEF InspectApp, Fail
<1>9. CASE StartGateway(p)
  <2>1. HostTypeOK'
    BY <1>0, <1>9, HostTyped DEF StartGateway, RunDetached, RunAnswered, hostVars, HostTypeOK
  <2> QED
    BY <1>0, <1>9, <2>1 DEF StartGateway, RunDetached, RunAnswered, Fail
<1>10. CASE ConnectGateway(p)
  BY <1>0, <1>10 DEF ConnectGateway, Fail
<1>11. CASE GatewayPort(p)
  BY <1>0, <1>11 DEF GatewayPort, Fail
<1>12. CASE AppAnswers(p)
  BY <1>0, <1>12 DEF AppAnswers
<1>13. CASE AppNotUp(p)
  BY <1>0, <1>13 DEF AppNotUp
<1>14. CASE Leave(p)
  BY <1>0, <1>14 DEF Leave
<1>15. CASE SaveLogs(p)
  BY <1>0, <1>15 DEF SaveLogs
<1>16. CASE StopContainers(p)
  <2>1. HostTypeOK'
    BY <1>0, <1>16, HostTyped DEF StopContainers, StopBox
  <2> QED
    BY <1>0, <1>16, <2>1 DEF StopContainers, StopBox
<1>17. CASE RemoveNetwork(p)
  BY <1>0, <1>17 DEF RemoveNetwork
<1>18. CASE Interrupt(p)
  <2>1. ctrlC'[p] \in 0 .. Interrupts
    BY <1>18, EnvAssumption DEF Interrupt
  <2>2. abandoned' \in [Procs -> SUBSET {"net", "db", "app", "gw"}]
    BY <1>18 DEF Interrupt, Unanswered
  <2> QED
    BY <1>0, <1>18, <2>1, <2>2 DEF Interrupt, Fail
<1>19. CASE PostgresComesUp(p)
  BY <1>0, <1>19 DEF PostgresComesUp
<1>20. CASE AppListens(p)
  BY <1>0, <1>20 DEF AppListens
<1>21. CASE NetworkAnswers(p)
  BY <1>0, <1>21 DEF NetworkAnswers
<1> QED
  BY <1>1, <1>2, <1>3, <1>4, <1>5, <1>6, <1>7, <1>8, <1>9, <1>10, <1>11, <1>12, <1>13, <1>14,
     <1>15, <1>16, <1>17, <1>18, <1>19, <1>20, <1>21 DEF EnvStep, ProcStep

(* TypeOK is inductive. *)
LEMMA TypeInductive ==
  ASSUME TypeOK, [Next]_vars
  PROVE  TypeOK'
<1>1. CASE HostStep
  BY <1>1, HostStepDoes DEF TypeOK, envVars
<1>2. CASE UNCHANGED vars
  BY <1>2 DEF vars, hostVars, envVars, TypeOK, HostTypeOK
<1> QED
  BY <1>1, <1>2, EnvTyped DEF Next, HostStep, EnvStep

(* A process leaves the others alone. *)
LEMMA OthersUntouched ==
  ASSUME TypeOK, NEW p \in Procs, EnvStep(p), NEW q \in Procs, q # p
  PROVE  /\ pc'[q] = pc[q]
         /\ net'[q] = net[q]
         /\ postgres'[q] = postgres[q]
         /\ connected'[q] = connected[q]
         /\ abandoned'[q] = abandoned[q]
         /\ \A kind \in Kinds : box'[<<q, kind>>] = box[<<q, kind>>]
<1> USE DEF Goto, hostVars
<1>0. /\ \A kind \in Kinds : <<p, kind>> \in Boxes /\ <<q, kind>> \in Boxes
      /\ box \in [Boxes -> BoxType]
      /\ pc \in [Procs -> Points]
      /\ net \in [Procs -> {"none", "asked", "up", "gone"}]
      /\ postgres \in [Procs -> {"nothing", "socket", "tcp"}]
      /\ connected \in [Procs -> BOOLEAN]
      /\ abandoned \in [Procs -> SUBSET {"net", "db", "app", "gw"}]
      /\ q # p
  BY EnvAssumption DEF Kinds, TypeOK, HostTypeOK
<1> USE DEF Kinds
<1>1. CASE Enter(p)
  BY <1>0, <1>1 DEF Enter
<1>2. CASE EnsureImages(p)
  BY <1>0, <1>2 DEF EnsureImages, Fail
<1>3. CASE CreateNetwork(p)
  BY <1>0, <1>3 DEF CreateNetwork, Fail
<1>4. CASE StartPostgres(p)
  BY <1>0, <1>4 DEF StartPostgres, RunDetached, RunAnswered, AskBox, Fail
<1>5. CASE DbAnswers(p)
  BY <1>0, <1>5 DEF DbAnswers
<1>6. CASE DbTimeout(p)
  BY <1>0, <1>6 DEF DbTimeout
<1>7. CASE StartApp(p)
  BY <1>0, <1>7 DEF StartApp, RunDetached, RunAnswered, AskBox, Fail
<1>8. CASE InspectApp(p)
  BY <1>0, <1>8 DEF InspectApp, Fail
<1>9. CASE StartGateway(p)
  BY <1>0, <1>9 DEF StartGateway, RunDetached, RunAnswered, AskBox, Fail
<1>10. CASE ConnectGateway(p)
  BY <1>0, <1>10 DEF ConnectGateway, Fail
<1>11. CASE GatewayPort(p)
  BY <1>0, <1>11 DEF GatewayPort, Fail
<1>12. CASE AppAnswers(p)
  BY <1>0, <1>12 DEF AppAnswers
<1>13. CASE AppNotUp(p)
  BY <1>0, <1>13 DEF AppNotUp
<1>14. CASE Leave(p)
  BY <1>0, <1>14 DEF Leave
<1>15. CASE SaveLogs(p)
  BY <1>0, <1>15 DEF SaveLogs
<1>16. CASE StopContainers(p)
  BY <1>0, <1>16 DEF StopContainers, StopBox, RemoveBox, RemoveAs
<1>17. CASE RemoveNetwork(p)
  BY <1>0, <1>17 DEF RemoveNetwork
<1>18. CASE Interrupt(p)
  BY <1>0, <1>18 DEF Interrupt, Fail
<1>19. CASE PostgresComesUp(p)
  BY <1>0, <1>19 DEF PostgresComesUp
<1>20. CASE AppListens(p)
  BY <1>0, <1>20 DEF AppListens
<1>21. CASE NetworkAnswers(p)
  BY <1>0, <1>21 DEF NetworkAnswers
<1> QED
  BY <1>1, <1>2, <1>3, <1>4, <1>5, <1>6, <1>7, <1>8, <1>9, <1>10, <1>11, <1>12, <1>13, <1>14,
     <1>15, <1>16, <1>17, <1>18, <1>19, <1>20, <1>21 DEF EnvStep, ProcStep

(* A step of a process keeps its own containers in step with it. *)
LEMMA OwnInStep ==
  ASSUME TypeOK, NEW p \in Procs, EnvStep(p), NetInStep(p), \A kind \in Kinds : InStep(p, kind)
  PROVE  NetInStep(p)' /\ \A kind \in Kinds : InStep(p, kind)'
<1> USE DEF Goto, hostVars
<1>0. /\ \A kind \in Kinds : <<p, kind>> \in Boxes
      /\ box \in [Boxes -> BoxType]
      /\ pc \in [Procs -> Points]
      /\ net \in [Procs -> {"none", "asked", "up", "gone"}]
      /\ connected \in [Procs -> BOOLEAN]
      /\ abandoned \in [Procs -> SUBSET {"net", "db", "app", "gw"}]
      /\ NetInStep(p)
      /\ \A kind \in Kinds : InStep(p, kind)
      /\ HostTypeOK
  BY EnvAssumption DEF Kinds, TypeOK, HostTypeOK
<1> USE DEF Kinds, InStep, NetInStep, Before, Asked, StartPoints, StopPoints
<1>1. CASE Enter(p)
  BY <1>0, <1>1 DEF Enter
<1>2. CASE EnsureImages(p)
  BY <1>0, <1>2 DEF EnsureImages, Fail
<1>3. CASE CreateNetwork(p)
  BY <1>0, <1>3 DEF CreateNetwork, Fail
<1>4. CASE StartPostgres(p)
  BY <1>0, <1>4 DEF StartPostgres, RunDetached, RunAnswered, AskBox, Fail
<1>5. CASE DbAnswers(p)
  BY <1>0, <1>5 DEF DbAnswers
<1>6. CASE DbTimeout(p)
  BY <1>0, <1>6 DEF DbTimeout
<1>7. CASE StartApp(p)
  BY <1>0, <1>7 DEF StartApp, RunDetached, RunAnswered, AskBox, Fail
<1>8. CASE InspectApp(p)
  BY <1>0, <1>8 DEF InspectApp, Fail
<1>9. CASE StartGateway(p)
  BY <1>0, <1>9 DEF StartGateway, RunDetached, RunAnswered, AskBox, Fail
<1>10. CASE ConnectGateway(p)
  BY <1>0, <1>10 DEF ConnectGateway, Fail
<1>11. CASE GatewayPort(p)
  BY <1>0, <1>11 DEF GatewayPort, Fail
<1>12. CASE AppAnswers(p)
  BY <1>0, <1>12 DEF AppAnswers
<1>13. CASE AppNotUp(p)
  BY <1>0, <1>13 DEF AppNotUp
<1>14. CASE Leave(p)
  BY <1>0, <1>14 DEF Leave
<1>15. CASE SaveLogs(p)
  BY <1>0, <1>15 DEF SaveLogs
<1>16. CASE StopContainers(p)
  <2>1. CASE StopBox(p, "gw", "stop_gw", "stop_app")
    BY <1>0, <2>1, RemoveDoes DEF StopBox
  <2>2. CASE StopBox(p, "app", "stop_app", "stop_db")
    BY <1>0, <2>2, RemoveDoes DEF StopBox
  <2>3. CASE StopBox(p, "db", "stop_db", "stop_net")
    BY <1>0, <2>3, RemoveDoes DEF StopBox
  <2> QED
    BY <1>16, <2>1, <2>2, <2>3 DEF StopContainers
<1>17. CASE RemoveNetwork(p)
  BY <1>0, <1>17 DEF RemoveNetwork
<1>18. CASE Interrupt(p)
  <2>1. /\ UNCHANGED <<box, net, connected>>
        /\ abandoned'[p] = abandoned[p] \cup Unanswered(p)
        /\ pc'[p] \in StopPoints \cup {"killed"}
    BY <1>0, <1>18 DEF Interrupt, Fail
  <2>2. /\ \A kind \in Kinds : kind \in Unanswered(p) <=> box[<<p, kind>>].phase = "asked"
        /\ "net" \in Unanswered(p) <=> net[p] = "asked"
    BY DEF Unanswered
  <2>3. "gw" \in Unanswered(p) => ~ connected[p]
    BY <1>0, <2>2
  <2>4. \A kind \in Kinds : InStep(p, kind)'
    BY <1>0, <2>1, <2>2
  <2> QED
    BY <1>0, <2>1, <2>2, <2>3, <2>4
<1>19. CASE PostgresComesUp(p)
  BY <1>0, <1>19 DEF PostgresComesUp
<1>20. CASE AppListens(p)
  BY <1>0, <1>20 DEF AppListens
<1>21. CASE NetworkAnswers(p)
  BY <1>0, <1>21 DEF NetworkAnswers
<1> QED
  BY <1>1, <1>2, <1>3, <1>4, <1>5, <1>6, <1>7, <1>8, <1>9, <1>10, <1>11, <1>12, <1>13, <1>14,
     <1>15, <1>16, <1>17, <1>18, <1>19, <1>20, <1>21 DEF EnvStep, ProcStep

(* A process that leaves has removed whatever was there. *)
LEMMA OwnRemoved ==
  ASSUME "rm" \notin Flaky, TypeOK, NEW p \in Procs, EnvStep(p), NetInStep(p), NetLeft(p),
         \A kind \in Kinds : InStep(p, kind) /\ Removed(p, kind)
  PROVE  NetLeft(p)' /\ \A kind \in Kinds : Removed(p, kind)'
<1> USE DEF Goto, hostVars
<1>0. /\ \A kind \in Kinds : <<p, kind>> \in Boxes
      /\ box \in [Boxes -> BoxType]
      /\ pc \in [Procs -> Points]
      /\ net \in [Procs -> {"none", "asked", "up", "gone"}]
      /\ abandoned \in [Procs -> SUBSET {"net", "db", "app", "gw"}]
      /\ NetInStep(p) /\ NetLeft(p)
      /\ \A kind \in Kinds : InStep(p, kind) /\ Removed(p, kind)
      /\ \A kind \in Kinds : box[<<p, kind>>].phase \in Phases
      /\ "rm" \notin Flaky
      /\ HostTypeOK
  BY EnvAssumption DEF Kinds, TypeOK, HostTypeOK, BoxType
<1> USE DEF Kinds, InStep, NetInStep, NetLeft, Before, Asked, After, Removed, StartPoints,
            StopPoints, Phases
<1>1. CASE Enter(p)
  BY <1>0, <1>1 DEF Enter
<1>2. CASE EnsureImages(p)
  BY <1>0, <1>2 DEF EnsureImages, Fail
<1>3. CASE CreateNetwork(p)
  BY <1>0, <1>3 DEF CreateNetwork, Fail
<1>4. CASE StartPostgres(p)
  BY <1>0, <1>4 DEF StartPostgres, RunDetached, RunAnswered, AskBox, Fail
<1>5. CASE DbAnswers(p)
  BY <1>0, <1>5 DEF DbAnswers
<1>6. CASE DbTimeout(p)
  BY <1>0, <1>6 DEF DbTimeout
<1>7. CASE StartApp(p)
  BY <1>0, <1>7 DEF StartApp, RunDetached, RunAnswered, AskBox, Fail
<1>8. CASE InspectApp(p)
  BY <1>0, <1>8 DEF InspectApp, Fail
<1>9. CASE StartGateway(p)
  BY <1>0, <1>9 DEF StartGateway, RunDetached, RunAnswered, AskBox, Fail
<1>10. CASE ConnectGateway(p)
  BY <1>0, <1>10 DEF ConnectGateway, Fail
<1>11. CASE GatewayPort(p)
  BY <1>0, <1>11 DEF GatewayPort, Fail
<1>12. CASE AppAnswers(p)
  BY <1>0, <1>12 DEF AppAnswers
<1>13. CASE AppNotUp(p)
  BY <1>0, <1>13 DEF AppNotUp
<1>14. CASE Leave(p)
  BY <1>0, <1>14 DEF Leave
<1>15. CASE SaveLogs(p)
  BY <1>0, <1>15 DEF SaveLogs
<1>16. CASE StopContainers(p)
  <2>1. CASE StopBox(p, "gw", "stop_gw", "stop_app")
    BY <1>0, <2>1, RemoveDoes DEF StopBox
  <2>2. CASE StopBox(p, "app", "stop_app", "stop_db")
    BY <1>0, <2>2, RemoveDoes DEF StopBox
  <2>3. CASE StopBox(p, "db", "stop_db", "stop_net")
    BY <1>0, <2>3, RemoveDoes DEF StopBox
  <2> QED
    BY <1>16, <2>1, <2>2, <2>3 DEF StopContainers
<1>17. CASE RemoveNetwork(p)
  <2>1. \A kind \in Kinds : Up(p, kind) => kind \in abandoned[p]
    BY <1>0, <1>17 DEF RemoveNetwork, Up
  <2>2. Attached(p) \subseteq abandoned[p] \cap {"db", "app"}
    BY <1>0, <2>1 DEF Attached
  <2>3. CASE Attached(p) = {}
    BY <1>0, <1>17, <2>3 DEF RemoveNetwork
  <2>4. CASE abandoned[p] \cap {"db", "app"} # {}
    BY <1>0, <1>17, <2>4 DEF RemoveNetwork
  <2> QED
    BY <2>2, <2>3, <2>4
<1>18. CASE Interrupt(p)
  BY <1>0, <1>18 DEF Interrupt, Fail
<1>19. CASE PostgresComesUp(p)
  BY <1>0, <1>19 DEF PostgresComesUp
<1>20. CASE AppListens(p)
  BY <1>0, <1>20 DEF AppListens
<1>21. CASE NetworkAnswers(p)
  BY <1>0, <1>21 DEF NetworkAnswers
<1> QED
  BY <1>1, <1>2, <1>3, <1>4, <1>5, <1>6, <1>7, <1>8, <1>9, <1>10, <1>11, <1>12, <1>13, <1>14,
     <1>15, <1>16, <1>17, <1>18, <1>19, <1>20, <1>21 DEF EnvStep, ProcStep

(* A process that has a database starts its app after it. *)
LEMMA OwnDbFirst ==
  ASSUME WithDb, TypeOK, NEW p \in Procs, EnvStep(p), DbFirst(p)
  PROVE  DbFirst(p)'
<1> USE DEF Goto, hostVars
<1>0. /\ \A kind \in Kinds : <<p, kind>> \in Boxes
      /\ box \in [Boxes -> BoxType]
      /\ pc \in [Procs -> Points]
      /\ postgres \in [Procs -> {"nothing", "socket", "tcp"}]
      /\ WithDb /\ DbFirst(p)
      /\ HostTypeOK
  BY EnvAssumption DEF Kinds, TypeOK, HostTypeOK
<1> USE DEF Kinds, DbFirst, StartPoints, StopPoints
<1>1. CASE Enter(p)
  BY <1>0, <1>1 DEF Enter
<1>2. CASE EnsureImages(p)
  BY <1>0, <1>2 DEF EnsureImages, Fail
<1>3. CASE CreateNetwork(p)
  BY <1>0, <1>3 DEF CreateNetwork, Fail
<1>4. CASE StartPostgres(p)
  BY <1>0, <1>4 DEF StartPostgres, RunDetached, RunAnswered, AskBox, Fail
<1>5. CASE DbAnswers(p)
  BY <1>0, <1>5 DEF DbAnswers
<1>6. CASE DbTimeout(p)
  BY <1>0, <1>6 DEF DbTimeout
<1>7. CASE StartApp(p)
  BY <1>0, <1>7 DEF StartApp, RunDetached, RunAnswered, AskBox, Fail
<1>8. CASE InspectApp(p)
  BY <1>0, <1>8 DEF InspectApp, Fail
<1>9. CASE StartGateway(p)
  BY <1>0, <1>9 DEF StartGateway, RunDetached, RunAnswered, AskBox, Fail
<1>10. CASE ConnectGateway(p)
  BY <1>0, <1>10 DEF ConnectGateway, Fail
<1>11. CASE GatewayPort(p)
  BY <1>0, <1>11 DEF GatewayPort, Fail
<1>12. CASE AppAnswers(p)
  BY <1>0, <1>12 DEF AppAnswers
<1>13. CASE AppNotUp(p)
  BY <1>0, <1>13 DEF AppNotUp
<1>14. CASE Leave(p)
  BY <1>0, <1>14 DEF Leave
<1>15. CASE SaveLogs(p)
  BY <1>0, <1>15 DEF SaveLogs
<1>16. CASE StopContainers(p)
  <2>1. CASE StopBox(p, "gw", "stop_gw", "stop_app")
    BY <1>0, <2>1, RemoveDoes DEF StopBox
  <2>2. CASE StopBox(p, "app", "stop_app", "stop_db")
    BY <1>0, <2>2, RemoveDoes DEF StopBox
  <2>3. CASE StopBox(p, "db", "stop_db", "stop_net")
    BY <1>0, <2>3, RemoveDoes DEF StopBox
  <2> QED
    BY <1>16, <2>1, <2>2, <2>3 DEF StopContainers
<1>17. CASE RemoveNetwork(p)
  BY <1>0, <1>17 DEF RemoveNetwork
<1>18. CASE Interrupt(p)
  BY <1>0, <1>18 DEF Interrupt, Fail
<1>19. CASE PostgresComesUp(p)
  BY <1>0, <1>19 DEF PostgresComesUp
<1>20. CASE AppListens(p)
  BY <1>0, <1>20 DEF AppListens
<1>21. CASE NetworkAnswers(p)
  BY <1>0, <1>21 DEF NetworkAnswers
<1> QED
  BY <1>1, <1>2, <1>3, <1>4, <1>5, <1>6, <1>7, <1>8, <1>9, <1>10, <1>11, <1>12, <1>13, <1>14,
     <1>15, <1>16, <1>17, <1>18, <1>19, <1>20, <1>21 DEF EnvStep, ProcStep

-----------------------------------------------------------------------------
(* EnvInv, RemovedInv and DbInv are inductive. *)
LEMMA EnvInductive ==
  ASSUME TypeOK, EnvInv, [Next]_vars
  PROVE  EnvInv'
<1> USE DEF EnvInv
<1>1. CASE HostStep
  <2>1. \A p \in Procs : \A kind \in Kinds : Undisturbed(<<p, kind>>)
    BY <1>1, HostStepDoes, EnvAssumption DEF TypeOK, Kinds
  <2>2. UNCHANGED <<pc, net, connected, abandoned>>
    BY <1>1, HostStepDoes DEF TypeOK, envVars
  <2>3. ASSUME NEW p \in Procs, NEW kind \in Kinds
        PROVE  InStep(p, kind)'
    <3>1. /\ pc'[p] = pc[p] /\ abandoned'[p] = abandoned[p]
          /\ box[<<p, kind>>].phase = "none" => box'[<<p, kind>>].phase = "none"
          /\ box'[<<p, kind>>].phase = "asked" => box[<<p, kind>>].phase = "asked"
      BY <2>1, <2>2 DEF Undisturbed
    <3> QED
      BY <3>1 DEF InStep
  <2>4. \A p \in Procs : NetInStep(p)'
    BY <2>2 DEF NetInStep
  <2> QED
    BY <2>3, <2>4
<1>2. CASE UNCHANGED vars
  BY <1>2 DEF vars, hostVars, envVars, InStep, NetInStep
<1>3. ASSUME NEW p \in Procs, EnvStep(p)
      PROVE  EnvInv'
  <2>1. NetInStep(p)' /\ \A kind \in Kinds : InStep(p, kind)'
    BY <1>3, OwnInStep
  <2>2. ASSUME NEW q \in Procs, q # p
        PROVE  NetInStep(q)' /\ \A kind \in Kinds : InStep(q, kind)'
    BY <1>3, <2>2, OthersUntouched DEF InStep, NetInStep
  <2> QED
    BY <2>1, <2>2
<1> QED
  BY <1>1, <1>2, <1>3 DEF Next, HostStep, EnvStep

(* A container that is not there does not come back by itself. *)
LEMMA RemovedInductive ==
  ASSUME "rm" \notin Flaky, TypeOK, EnvInv, RemovedInv, [Next]_vars
  PROVE  RemovedInv'
<1> USE DEF RemovedInv
<1>1. CASE HostStep
  <2>1. \A p \in Procs : \A kind \in Kinds : Undisturbed(<<p, kind>>)
    BY <1>1, HostStepDoes, EnvAssumption DEF TypeOK, Kinds
  <2>2. UNCHANGED <<pc, net, abandoned>>
    BY <1>1, HostStepDoes DEF TypeOK, envVars
  <2>3. \A p \in Procs : \A kind \in Kinds : Removed(p, kind)'
    BY <2>1, <2>2 DEF Undisturbed, Removed, Ended
  <2>4. \A p \in Procs : NetLeft(p)'
    BY <2>2 DEF NetLeft
  <2> QED
    BY <2>3, <2>4
<1>2. CASE UNCHANGED vars
  BY <1>2 DEF vars, hostVars, envVars, Removed, NetLeft
<1>3. ASSUME NEW p \in Procs, EnvStep(p)
      PROVE  RemovedInv'
  <2>1. NetLeft(p)' /\ \A kind \in Kinds : Removed(p, kind)'
    BY <1>3, OwnRemoved DEF EnvInv
  <2>2. ASSUME NEW q \in Procs, q # p
        PROVE  NetLeft(q)' /\ \A kind \in Kinds : Removed(q, kind)'
    BY <1>3, <2>2, OthersUntouched DEF Removed, NetLeft
  <2> QED
    BY <2>1, <2>2
<1> QED
  BY <1>1, <1>2, <1>3 DEF Next, HostStep, EnvStep

(* Nobody but its process starts an app, and Postgres does not go back. *)
LEMMA DbInductive ==
  ASSUME TypeOK, DbInv, [Next]_vars
  PROVE  DbInv'
<1> SUFFICES ASSUME WithDb PROVE \A p \in Procs : DbFirst(p)'
  BY DEF DbInv
<1>0. \A p \in Procs : DbFirst(p)
  BY DEF DbInv
<1>1. CASE HostStep
  <2>1. \A p \in Procs : Undisturbed(<<p, "app">>)
    BY <1>1, HostStepDoes, EnvAssumption DEF TypeOK
  <2>2. UNCHANGED <<pc, postgres>>
    BY <1>1, HostStepDoes DEF TypeOK, envVars
  <2> QED
    BY <1>0, <2>1, <2>2 DEF Undisturbed, DbFirst
<1>2. CASE UNCHANGED vars
  BY <1>0, <1>2 DEF vars, hostVars, envVars, DbFirst
<1>3. ASSUME NEW p \in Procs, EnvStep(p)
      PROVE  \A q \in Procs : DbFirst(q)'
  <2>1. DbFirst(p)'
    BY <1>0, <1>3, OwnDbFirst
  <2>2. ASSUME NEW q \in Procs, q # p
        PROVE  DbFirst(q)'
    BY <1>0, <1>3, <2>2, OthersUntouched DEF DbFirst, Kinds
  <2> QED
    BY <2>1, <2>2
<1> QED
  BY <1>1, <1>2, <1>3 DEF Next, HostStep, EnvStep

(* The initial states. *)
LEMMA InitHolds ==
  ASSUME Init
  PROVE  TypeOK /\ EnvInv /\ RemovedInv /\ DbInv
<1>1. \A p \in Procs :
          /\ pc[p] = "idle" /\ net[p] = "none" /\ ~ connected[p] /\ abandoned[p] = {}
          /\ \A kind \in Kinds : <<p, kind>> \in Boxes /\ box[<<p, kind>>].phase = "none"
  BY EnvAssumption DEF Init, HostInit, Kinds
<1>2. TypeOK
  BY EnvAssumption DEF Init, HostInit, TypeOK, HostTypeOK, BoxType, Phases, Points
<1>3. EnvInv
  BY <1>1 DEF EnvInv, InStep, NetInStep
<1>4. RemovedInv
  BY <1>1 DEF RemovedInv, Removed, NetLeft, After
<1>5. DbInv
  BY <1>1 DEF DbInv, DbFirst, Kinds
<1> QED
  BY <1>2, <1>3, <1>4, <1>5

-----------------------------------------------------------------------------
(* When an environment has been left, no container and no network of it is
   there any more: whichever command of _start failed or was interrupted,
   whatever died or was swept by `migrator cleanup` meanwhile, but for what a
   Ctrl-C gave up before the daemon had answered and a network that such a
   container has joined.  A `docker rm -f` that fails although it could succeed
   would leave its container behind, which is why the hypothesis is needed
   (environment.py _stop ignores its answer). *)
THEOREM EnvironmentLeavesNothing == "rm" \notin Flaky => (Spec => []EverythingRemoved)
<1> SUFFICES ASSUME "rm" \notin Flaky PROVE Spec => []EverythingRemoved
  OBVIOUS
<1>1. Init => TypeOK /\ EnvInv /\ RemovedInv
  BY InitHolds
<1>2. TypeOK /\ EnvInv /\ RemovedInv /\ [Next]_vars => (TypeOK /\ EnvInv /\ RemovedInv)'
  BY TypeInductive, EnvInductive, RemovedInductive
<1>3. TypeOK /\ EnvInv /\ RemovedInv => EverythingRemoved
  BY DEF RemovedInv, Removed, NetLeft, After, Kinds, EverythingRemoved
<1> QED
  BY <1>1, <1>2, <1>3, PTL DEF Spec

(* The app of an environment with a database is only started once Postgres
   answers over TCP, not while it is in its first-time init (_start calls
   wait_ready before it starts the app). *)
THEOREM AppWaitsForDatabase == Spec => []AppStartsAfterDb
<1>1. Init => TypeOK /\ DbInv
  BY InitHolds
<1>2. TypeOK /\ DbInv /\ [Next]_vars => (TypeOK /\ DbInv)'
  BY TypeInductive, DbInductive
<1>3. TypeOK /\ DbInv => AppStartsAfterDb
  BY DEF DbInv, DbFirst, AppStartsAfterDb
<1> QED
  BY <1>1, <1>2, <1>3, PTL DEF Spec

=============================================================================
