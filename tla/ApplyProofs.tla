----------------------------- MODULE ApplyProofs -----------------------------
(***************************************************************************)
(* Theorems about Apply, for every set of interfaces and of states the     *)
(* control plane may hand out, and any number of changes and faults.       *)
(***************************************************************************)
EXTENDS Apply, TLAPS

(***************************************************************************)
(* The inductive invariant.                                                *)
(***************************************************************************)
Planned == pc \in {"write", "deploy", "remove", "network", "create", "converge"}
Done == pc \in {"report", "idle"} /\ status = "succeeded"

(* Between two reconciles nothing is left to do.                           *)
IdleInv == pc \in {"report", "idle"} => todo = {}

(* The files that matter: not the conf of an interface that is not wanted. *)
Relevant(p) == p[1] # "conf" \/ p[2] \in Wanted
Current(p) == disk[p] = Rendered(desired)[p]

(* The plan writes every file that is not current; once they are written   *)
(* without an error, all are.                                              *)
FilesInv ==
  /\ pc = "converge" => ~fileErrors
  /\ \A p \in Paths : Relevant(p) =>
      /\ pc = "write" => p \in plan.files \/ Current(p)
      /\ Planned /\ pc # "write" /\ ~fileErrors => Current(p)
      /\ Done => Current(p)

(* The network is kept only if it is the one asked for.                    *)
NetworkInv ==
    /\ pc \in {"remove", "network"} /\ netAction = "keep" => NetworkMatches
    /\ pc \in {"create", "converge"} \/ Done => NetworkMatches

AsDefined(s) == container[s] = Definition(desired, s)

(* The plan rebuilds every container that is not as defined; until it is   *)
(* created again it is on the list.                                        *)
ContainersInv ==
    /\ Planned => plan.orphans \cap Enabled(desired) = {}
    /\ \A s \in Enabled(desired) :
         /\ Planned => s \in plan.rebuild \/ AsDefined(s)
         /\ pc = "create" => s \in todo \/ AsDefined(s)
         /\ pc = "converge" \/ Done => AsDefined(s)

(* Whoever shares the namespace of netns is rebuilt with it, and removed   *)
(* before it.                                                              *)
NamespaceInv ==
    /\ Planned /\ "netns" \in plan.rebuild => {"wg", "bird"} \subseteq plan.rebuild
    /\ pc = "remove" => \A s \in Removable \ todo : container[s] = NoContainer
    /\ dangling \cap Core = {}

(***************************************************************************)
(* What a state asks for has the types it should have.                     *)
(***************************************************************************)
LEMMA RenderedType ==
    ASSUME NEW d \in States
    PROVE  Rendered(d) \in [Paths -> Nat]
<1>1. AnycastScript(d) \in Nat
  BY DEF AnycastScript, Absent
<1>2. d.bird \in Nat /\ d.iface \in [Interfaces -> Nat]
  BY DEF States
<1>3. 2 * d.bird + AnycastScript(d) \in Nat
  BY <1>1, <1>2
<1>4. ASSUME NEW p \in Paths, p # BirdConf, ~(p[1] = "script" /\ p[2] = Anycast)
      PROVE  p[2] \in Interfaces
  BY <1>4 DEF Paths, Links
<1>5. \A p \in Paths :
        (CASE p = BirdConf -> 2 * d.bird + AnycastScript(d)
          [] p[1] = "script" /\ p[2] = Anycast -> AnycastScript(d)
          [] OTHER -> d.iface[p[2]]) \in Nat
  BY <1>1, <1>2, <1>3, <1>4 DEF BirdConf
<1> QED BY <1>5 DEF Rendered

(* Both files of a WireGuard interface are rendered, or none.              *)
LEMMA RenderedTogether ==
    ASSUME NEW d, NEW i \in Interfaces
    PROVE  /\ Rendered(d)[<<"conf", i>>] = d.iface[i]
           /\ Rendered(d)[<<"script", i>>] = d.iface[i]
<1>1. i # Anycast
  BY DesiredStatesAssumption
<1>2. <<"conf", i>> \in Paths /\ <<"script", i>> \in Paths
  BY DEF Paths, Links
<1>3. BirdConf # <<"conf", i>> /\ BirdConf # <<"script", i>>
  BY DEF BirdConf
<1> QED BY <1>1, <1>2, <1>3 DEF Rendered

LEMMA ServicesAre ==
    /\ Core = {"netns", "wg", "bird"} /\ Services = {"netns", "wg", "bird", "dns"}
    /\ \A d : Core \subseteq Enabled(d) /\ Enabled(d) \subseteq Services
  BY DEF Core, Services, Enabled

LEMMA DefinitionType ==
    ASSUME NEW d \in States, NEW s \in Services
    PROVE  Definition(d, s) \in [version : Nat, net : Ipams] /\ Definition(d, s) # NoContainer
<1>1. PICK v, n : v = (IF s = "dns" THEN 1 ELSE d.version[s]) /\ n = NetworkSection(d, s)
  OBVIOUS
<1>2. v \in Nat /\ v # 0
  BY <1>1, ServicesAre DEF States
<1>3. n \in Ipams
  BY <1>1 DEF NetworkSection, States, Ipams, NoNet
<1>4. Definition(d, s) = [version |-> v, net |-> n]
  BY <1>1 DEF Definition
<1> QED BY <1>2, <1>3, <1>4 DEF NoContainer

LEMMA NoneType ==
    /\ NoNet \in Ipams /\ NoContainer \in [version : Nat, net : Ipams]
    /\ NoLink \in Nat \X Nat /\ Absent \in Nat
    /\ NoPlan \in Plans /\ NoReport \in Reports
<1>1. NoNet \in Ipams
  BY DEF NoNet, Ipams
<1> QED BY <1>1 DEF NoContainer, NoLink, Absent, NoPlan, Plans, NoReport, Reports, Statuses

LEMMA DesiredIsState ==
    ASSUME ApplyTypeOK
    PROVE  desired \in States
  BY DesiredStatesAssumption DEF ApplyTypeOK

LEMMA PathsOfLinks ==
    /\ \A i \in Links : <<"script", i>> \in Paths
    /\ \A i \in Interfaces : <<"conf", i>> \in Paths /\ i \in Links
    /\ \A i \in Links : i = Anycast \/ i \in Interfaces
    /\ BirdConf \in Paths
    /\ Anycast \notin Interfaces
  BY DesiredStatesAssumption DEF Paths, Links, BirdConf

LEMMA AppliedType ==
    ASSUME ApplyTypeOK, NEW i \in Links
    PROVE  Applied(i) \in Nat \X Nat
<1>1. disk[<<"script", i>>] \in Nat
  BY PathsOfLinks DEF ApplyTypeOK
<1>2. i # Anycast => disk[<<"conf", i>>] \in Nat
  BY PathsOfLinks DEF ApplyTypeOK
<1> QED BY <1>1, <1>2 DEF Applied, Absent

LEMMA PlanType ==
    ASSUME ApplyTypeOK, NEW seen \in BOOLEAN
    PROVE  [files |-> ChangedFiles, rebuild |-> Rebuilt(seen),
            orphans |-> OrphanContainers(seen), actions |-> ConvergencePlan(seen)] \in Plans
<1>1. ChangedFiles \subseteq Paths
  BY DEF ChangedFiles, OrphanFiles
<1>2. Rebuilt(seen) \subseteq Services
  BY ServicesAre DEF Rebuilt
<1>3. OrphanContainers(seen) \subseteq Services
  BY DEF OrphanContainers
<1>4. Wanted \subseteq Links
  BY DEF Wanted
<1>5. Touched \subseteq Links
  <2> SUFFICES ASSUME NEW p \in ChangedFiles \ {BirdConf} PROVE p[2] \in Links
    BY DEF Touched
  <2>1. p \in Paths /\ p # BirdConf
    BY <1>1
  <2> QED BY <2>1, PathsOfLinks DEF Paths
<1>6. SyncTargets(seen) \subseteq Links /\ RemoveTargets \subseteq Links
  BY <1>4, <1>5 DEF SyncTargets, RemoveTargets
<1>7. ReloadActions(seen) \subseteq Actions
  BY DEF ReloadActions, Actions
<1>8. ConvergencePlan(seen) \subseteq Actions
  <2>1. PICK S, R : S = SyncTargets(seen) /\ R = RemoveTargets
    OBVIOUS
  <2>2. ({"sync"} \X S) \subseteq Actions /\ ({"remove"} \X R) \subseteq Actions
    BY <1>6, <2>1 DEF Actions
  <2> QED BY <1>7, <2>1, <2>2 DEF ConvergencePlan
<1> QED BY <1>1, <1>2, <1>3, <1>8 DEF Plans

(***************************************************************************)
(* Type correctness.                                                       *)
(***************************************************************************)
LEMMA FaultType ==
    ASSUME ApplyTypeOK, Fault \/ UNCHANGED faults
    PROVE  faults' \in 0..MaxFaults
  BY DesiredStatesAssumption DEF ApplyTypeOK, Fault

(* What Finish leaves is typed.                                            *)
LEMMA FinishType ==
    ASSUME ApplyTypeOK, NEW r \in Statuses, Finish(r)
    PROVE  /\ desired' \in DesiredStates /\ changes' \in 0..MaxChanges
           /\ pc' \in {"idle", "write", "deploy", "remove", "network", "create", "converge",
                       "report"}
           /\ plan' \in Plans
           /\ netAction' \in {"none", "keep", "create", "recreate"}
           /\ todo' \subseteq plan'.rebuild \cup plan'.orphans
           /\ fileErrors' \in BOOLEAN
           /\ status' \in Statuses
           /\ report' \in Reports
  BY NoneType DEF ApplyTypeOK, Finish

LEMMA PlanningType ==
    ASSUME ApplyTypeOK, IdleInv,
           \/ \E d \in DesiredStates : NewDesired(d)
           \/ MakePlan(TRUE) /\ UNCHANGED faults
           \/ MakePlan(FALSE) /\ Fault
    PROVE  ApplyTypeOK'
<1>1. CASE \E d \in DesiredStates : NewDesired(d)
  <2>1. changes' \in 0..MaxChanges
    BY <1>1, DesiredStatesAssumption DEF NewDesired, ApplyTypeOK
  <2> QED BY <1>1, <2>1, NoneType
          DEF NewDesired, ApplyTypeOK, world, host, boxes, Statuses
<1>2. CASE \E seen \in BOOLEAN : MakePlan(seen) /\ (Fault \/ UNCHANGED faults)
  <2>1. PICK seen \in BOOLEAN : MakePlan(seen) /\ (Fault \/ UNCHANGED faults)
    BY <1>2
  <2>2. plan' \in Plans
    BY <2>1, PlanType DEF MakePlan
  <2>3. faults' \in 0..MaxFaults
    BY <2>1, FaultType
  <2>4. todo' = {}
    BY <2>1 DEF MakePlan, IdleInv
  <2> QED BY <2>1, <2>2, <2>3, <2>4, NoneType
          DEF MakePlan, ApplyTypeOK, world, host, boxes
<1> QED BY <1>1, <1>2


(* A file that is written or deleted holds a version again.                *)
LEMMA WrittenType ==
    ASSUME ApplyTypeOK, NEW done \in SUBSET plan.files
    PROVE  Written(done) \in [Paths -> Nat]
<1>1. Rendered(desired) \in [Paths -> Nat]
  BY RenderedType, DesiredIsState
<1> QED BY <1>1 DEF Written, ApplyTypeOK

(* So does what the hot reloads load.                                      *)
LEMMA ConvergedType ==
    ASSUME ApplyTypeOK, NEW done \in SUBSET Executable
    PROVE  Reloaded(done) \in Nat /\ Relinked(done) \in [Links -> Nat \X Nat]
<1>1. Reloaded(done) \in Nat
  BY PathsOfLinks DEF Reloaded, ApplyTypeOK
<1>2. \A i \in Links : Applied(i) \in Nat \X Nat
  BY AppliedType
<1> QED BY <1>1, <1>2, NoneType DEF Relinked, ApplyTypeOK

LEMMA WriteFilesType ==
    ASSUME ApplyTypeOK, NEW done \in SUBSET plan.files, WriteFiles(done)
    PROVE  ApplyTypeOK'
<1>1. disk' \in [Paths -> Nat]
  BY WrittenType DEF WriteFiles
<1>2. faults' \in 0..MaxFaults
  BY FaultType DEF WriteFiles
<1>3. fileErrors' \in BOOLEAN
  BY DEF WriteFiles
<1> QED BY <1>1, <1>2, <1>3 DEF WriteFiles, ApplyTypeOK, boxes

LEMMA ConvergeType ==
    ASSUME ApplyTypeOK, NEW done \in SUBSET Executable, Converge(done)
    PROVE  ApplyTypeOK'
<1>1. daemon' \in Nat /\ link' \in [Links -> Nat \X Nat]
  BY ConvergedType DEF Converge
<1>2. faults' \in 0..MaxFaults
  BY FaultType DEF Converge
<1>3. PICK r \in Statuses : Finish(r)
  BY DEF Converge, Statuses
<1> QED BY <1>1, <1>2, <1>3, FinishType DEF Converge, ApplyTypeOK, host, boxes

LEMMA CrashType ==
    ASSUME ApplyTypeOK, Crash
    PROVE  ApplyTypeOK'
<1>1. disk' \in [Paths -> Nat]
  BY WrittenType DEF Crash, ApplyTypeOK
<1>2. daemon' \in Nat /\ link' \in [Links -> Nat \X Nat]
  BY ConvergedType DEF Crash, ApplyTypeOK
<1>3. faults' \in 0..MaxFaults
  BY FaultType DEF Crash
<1> QED BY <1>1, <1>2, <1>3, NoneType DEF Crash, ApplyTypeOK, boxes, Statuses

LEMMA ReportType ==
    ASSUME ApplyTypeOK, IdleInv, NEW seen \in BOOLEAN, NEW wg \in BOOLEAN, NEW down \in BOOLEAN,
           Report(seen, wg, down)
    PROVE  ApplyTypeOK'
<1>1. PICK snapshot : snapshot = Snapshot(seen, wg)
  OBVIOUS
<1>2. OddContainers(snapshot) \subseteq Services
  BY <1>1 DEF OddContainers, Snapshot, Observed
<1>3. Unconfirmed(snapshot) \subseteq {"wireguard"} /\ BgpDrift(snapshot, down) \subseteq {"bgp"}
  BY DEF Unconfirmed, BgpDrift
<1>4. PICK st, w : /\ report' = [status |-> st, warnings |-> w]
                   /\ st \in Statuses
                   /\ w = OddContainers(snapshot) \cup Unconfirmed(snapshot)
                             \cup BgpDrift(snapshot, down)
  BY <1>1 DEF Report, ApplyTypeOK, Statuses
<1>5. report' \in Reports
  BY <1>2, <1>3, <1>4 DEF Reports
<1>6. faults' \in 0..MaxFaults
  BY FaultType DEF Report
<1> QED BY <1>5, <1>6 DEF Report, ApplyTypeOK, world, host, boxes

(* The containers and what they do by themselves.                          *)
LEMMA BoxesType ==
    ASSUME ApplyTypeOK,
           \/ GatewayBoots \/ BirdBoots \/ ProbeBird \/ ForeignLeaves
           \/ BirdDaemonDies \/ ForeignAttaches
           \/ \E s \in Services : ContainerDies(s)
    PROVE  ApplyTypeOK'
<1> USE DEF round
<1>1. CASE GatewayBoots
  <2>1. link' \in [Links -> Nat \X Nat]
    BY <1>1, AppliedType DEF GatewayBoots, ApplyTypeOK
  <2> QED BY <1>1, <2>1 DEF GatewayBoots, ApplyTypeOK, host
<1>2. CASE BirdBoots
  BY <1>2, PathsOfLinks DEF BirdBoots, ApplyTypeOK, host
<1>3. CASE ProbeBird
  BY <1>3 DEF ProbeBird, ApplyTypeOK, host
<1>4. CASE ForeignLeaves
  <2>1. foreign' \in BOOLEAN
    BY <1>4 DEF ForeignLeaves
  <2> QED BY <1>4, <2>1 DEF ForeignLeaves, ApplyTypeOK, boxes
<1>5. CASE BirdDaemonDies
  BY <1>5, FaultType, NoneType DEF BirdDaemonDies, ApplyTypeOK, host, boxes
<1>6. CASE ForeignAttaches
  BY <1>6, FaultType DEF ForeignAttaches, ApplyTypeOK, boxes
<1>7. CASE \E s \in Services : ContainerDies(s)
  BY <1>7, FaultType, NoneType DEF ContainerDies, ApplyTypeOK, host
<1> QED BY <1>1, <1>2, <1>3, <1>4, <1>5, <1>6, <1>7


LEMMA RemoveContainerType ==
    ASSUME ApplyTypeOK, NEW s \in Services, RemoveContainer(s)
    PROVE  ApplyTypeOK'
<1>1. /\ container' = [container EXCEPT ![s] = NoContainer]
      /\ container' \in [Services -> [version : Nat, net : Ipams]]
  BY NoneType DEF RemoveContainer, ApplyTypeOK
<1>2. \A t \in Services : t # s => container'[t] = container[t]
  BY <1>1 DEF ApplyTypeOK
<1>3. /\ running' \subseteq {t \in Services : container'[t] # NoContainer}
      /\ dangling' \subseteq {t \in Services : container'[t] # NoContainer}
      /\ booting' \subseteq running'
  BY <1>2 DEF RemoveContainer, ApplyTypeOK
<1>4. link' \in [Links -> Nat \X Nat] /\ daemon' \in Nat
  BY NoneType DEF RemoveContainer, ApplyTypeOK
<1>5. key' \in BOOLEAN
  BY DEF RemoveContainer
<1>6. /\ health' \in {"starting", "healthy", "unhealthy"}
      /\ todo' \subseteq plan'.rebuild \cup plan'.orphans
  BY DEF RemoveContainer, ApplyTypeOK
<1> QED BY <1>1, <1>3, <1>4, <1>5, <1>6 DEF RemoveContainer, ApplyTypeOK, host

(* What Created leaves in the place of a container, and of the others.     *)
LEMMA CreatedType ==
    ASSUME ApplyTypeOK, NEW s \in Services
    PROVE  /\ Created(s) \in [Services -> [version : Nat, net : Ipams]]
           /\ Created(s)[s] = Definition(desired, s) /\ Created(s)[s] # NoContainer
           /\ \A t \in Services : t # s => Created(s)[t] = container[t]
<1>1. PICK d : d = Definition(desired, s)
  OBVIOUS
<1>2. d \in [version : Nat, net : Ipams] /\ d # NoContainer
  BY <1>1, DefinitionType, DesiredIsState
<1>3. Created(s) = [container EXCEPT ![s] = d]
  BY <1>1 DEF Created
<1> QED BY <1>1, <1>2, <1>3 DEF ApplyTypeOK

LEMMA CreateContainerType ==
    ASSUME ApplyTypeOK, NEW s \in Services, CreateContainer(s) \/ StartFails(s)
    PROVE  ApplyTypeOK'
<1>1. container' \in [Services -> [version : Nat, net : Ipams]]
  BY CreatedType DEF CreateContainer, StartFails
<1>2. \A t \in Services : container[t] # NoContainer \/ t = s => container'[t] # NoContainer
  BY CreatedType DEF CreateContainer, StartFails
<1>3. CASE CreateContainer(s)
  <2>1. /\ running' \subseteq {t \in Services : container'[t] # NoContainer}
        /\ dangling' \subseteq {t \in Services : container'[t] # NoContainer}
        /\ booting' \subseteq running'
    BY <1>2, <1>3 DEF CreateContainer, ApplyTypeOK
  <2> QED BY <1>1, <1>3, <2>1 DEF CreateContainer, ApplyTypeOK, host
<1>4. CASE StartFails(s)
  <2>1. /\ running' \subseteq {t \in Services : container'[t] # NoContainer}
        /\ dangling' \subseteq {t \in Services : container'[t] # NoContainer}
        /\ booting' \subseteq running'
    BY <1>2, <1>4 DEF StartFails, ApplyTypeOK
  <2>2. "failed" \in Statuses /\ Finish("failed")
    BY <1>4 DEF StartFails, Statuses
  <2>3. faults' \in 0..MaxFaults
    BY <1>4, FaultType DEF StartFails
  <2> QED BY <1>1, <1>4, <2>1, <2>2, <2>3, FinishType DEF StartFails, ApplyTypeOK, host
<1> QED BY <1>3, <1>4

(* The steps of deploy that touch no container.                            *)
LEMMA DeployType ==
    ASSUME ApplyTypeOK,
           \/ PlanNetwork \/ NetworkRefused \/ AllRemoved \/ ApplyNetwork \/ StillAttached
           \/ Deployed \/ DeployedWithErrors \/ DeployFails
    PROVE  ApplyTypeOK'
<1>1. CASE NetworkRefused \/ StillAttached \/ DeployedWithErrors \/ DeployFails
  <2>1. "failed" \in Statuses /\ Finish("failed") /\ UNCHANGED world
    BY <1>1 DEF NetworkRefused, StillAttached, DeployedWithErrors, DeployFails, Statuses
  <2>2. faults' \in 0..MaxFaults
    BY <1>1, FaultType DEF NetworkRefused, StillAttached, DeployedWithErrors, DeployFails
  <2> QED BY <2>1, <2>2, FinishType DEF ApplyTypeOK, world, host, boxes
<1>2. CASE PlanNetwork
  BY <1>2 DEF PlanNetwork, ApplyTypeOK, world, host, boxes, Removable
<1>3. CASE AllRemoved
  BY <1>3 DEF AllRemoved, ApplyTypeOK, world, host, boxes
<1>4. CASE ApplyNetwork
  <2>1. network' \in Ipams
    BY <1>4, DesiredIsState DEF ApplyNetwork, ApplyTypeOK, States
  <2> QED BY <1>4, <2>1 DEF ApplyNetwork, ApplyTypeOK, boxes
<1>5. CASE Deployed
  BY <1>5 DEF Deployed, ApplyTypeOK, host
<1> QED BY <1>1, <1>2, <1>3, <1>4, <1>5

(* The steps, as the invariants tell them apart: those beside the          *)
(* reconcile, those that end or forget it without success, and its own.    *)
Aside == UNCHANGED <<desired, disk, network, container, dangling, round>>
Ended == /\ pc' \in {"report", "idle"} /\ status' # "succeeded" /\ todo' = {}
         /\ UNCHANGED <<desired, dangling>>

LEMMA StepCases ==
    ASSUME ApplyTypeOK, [Next]_vars
    PROVE  \/ Aside \/ \E d \in DesiredStates : NewDesired(d)
           \/ \E seen \in BOOLEAN : MakePlan(seen)
           \/ \E done \in SUBSET plan.files : WriteFiles(done)
           \/ PlanNetwork \/ AllRemoved \/ ApplyNetwork
           \/ \E s \in Services : RemoveContainer(s) \/ CreateContainer(s)
           \/ Deployed
           \/ \E done \in SUBSET Executable : Converge(done)
           \/ \E seen, wg, down \in BOOLEAN : Report(seen, wg, down)
           \/ Ended
<1>1. CASE UNCHANGED vars
  BY <1>1 DEF vars, world, host, boxes, Aside
<1>2. CASE \E s \in Services : StartFails(s)
  BY <1>2 DEF StartFails, Finish, Ended
<1>3. CASE NetworkRefused \/ StillAttached \/ DeployedWithErrors \/ DeployFails
  BY <1>3 DEF NetworkRefused, StillAttached, DeployedWithErrors, DeployFails, Finish, Ended,
              world, boxes
<1>4. CASE Crash
  BY <1>4 DEF Crash, Ended, boxes
<1>5. CASE \/ GatewayBoots \/ BirdBoots \/ ProbeBird \/ ForeignLeaves
           \/ BirdDaemonDies \/ ForeignAttaches
           \/ \E s \in Services : ContainerDies(s)
  BY <1>5 DEF GatewayBoots, BirdBoots, ProbeBird, ForeignLeaves, BirdDaemonDies,
              ForeignAttaches, ContainerDies, Aside, host, boxes
<1>6. CASE Reconcile /\ ~Deploy
  BY <1>6 DEF Reconcile
<1>7. CASE Deploy
  BY <1>2, <1>3, <1>7 DEF Deploy
<1>8. CASE Failures
  BY <1>2, <1>3, <1>4, <1>5, <1>8 DEF Failures
<1> QED BY <1>1, <1>5, <1>6, <1>7, <1>8 DEF Next, Reconcile

LEMMA TypeStep ==
    ASSUME ApplyTypeOK, IdleInv, [Next]_vars
    PROVE  ApplyTypeOK' /\ IdleInv'
<1>1. ApplyTypeOK'
  <2>1. CASE UNCHANGED vars
    BY <2>1 DEF vars, world, host, boxes, round, ApplyTypeOK
  <2>2. CASE \E d \in DesiredStates : NewDesired(d)
    BY <2>2, PlanningType
  <2>3. CASE Deploy
    BY <2>3, DeployType, RemoveContainerType, CreateContainerType DEF Deploy
  <2>4. CASE Reconcile /\ ~Deploy
    BY <2>4, PlanningType, WriteFilesType, ConvergeType, ReportType DEF Reconcile
  <2>5. CASE Failures
    BY <2>5, PlanningType, WriteFilesType, ConvergeType, ReportType, DeployType,
       CreateContainerType, BoxesType, CrashType DEF Failures
  <2>6. CASE GatewayBoots \/ BirdBoots \/ ProbeBird \/ ForeignLeaves
    BY <2>6, BoxesType
  <2> QED BY <2>1, <2>2, <2>3, <2>4, <2>5, <2>6 DEF Next, Reconcile
<1>2. IdleInv'
  BY StepCases DEF IdleInv, Aside, Ended, round, NewDesired, MakePlan, WriteFiles, PlanNetwork,
     AllRemoved, ApplyNetwork, RemoveContainer, CreateContainer, Deployed, Converge, Finish,
     Report
<1> QED BY <1>1, <1>2

LEMMA InitType ==
    ASSUME Init
    PROVE  ApplyTypeOK /\ IdleInv
<1>1. foreign \in BOOLEAN /\ key \in BOOLEAN /\ fileErrors \in BOOLEAN
  BY DEF Init
<1>2. disk \in [Paths -> Nat] /\ link \in [Links -> Nat \X Nat]
  BY NoneType DEF Init
<1>3. container \in [Services -> [version : Nat, net : Ipams]]
  BY NoneType DEF Init
<1>4. changes \in 0..MaxChanges /\ faults \in 0..MaxFaults
  BY DesiredStatesAssumption DEF Init
<1>5. plan \in Plans /\ report \in Reports /\ network \in Ipams /\ daemon \in Nat
  BY NoneType DEF Init
<1>6. /\ desired \in DesiredStates /\ running = {} /\ dangling = {} /\ booting = {}
      /\ health = "starting" /\ pc = "idle" /\ netAction = "none" /\ todo = {}
      /\ status = "none"
  BY DEF Init
<1> QED BY <1>1, <1>2, <1>3, <1>4, <1>5, <1>6 DEF ApplyTypeOK, IdleInv, Statuses

(* Every value every variable takes, whatever fails, has its type; in      *)
(* particular what runs, boots or refers to a namespace that is gone has a *)
(* container, and the list deploy works through is part of the plan.       *)
THEOREM ApplyTypeCorrect == Spec => []ApplyTypeOK
<1>1. Init => ApplyTypeOK /\ IdleInv
  BY InitType
<1>2. (ApplyTypeOK /\ IdleInv) /\ [Next]_vars => (ApplyTypeOK /\ IdleInv)'
  BY TypeStep
<1> QED BY <1>1, <1>2, PTL DEF Spec


(***************************************************************************)
(* What an apply recorded as succeeded has deployed.                       *)
(***************************************************************************)
(* While neither the state, nor the files, nor the round change.           *)
LEMMA FilesKept ==
    ASSUME FilesInv, UNCHANGED <<desired, disk, pc, plan, fileErrors, status>>
    PROVE  FilesInv'
  BY DEF FilesInv, Relevant, Current, Wanted, Planned, Done

(* The plan leaves out a relevant file only if it is current.              *)
LEMMA UnplannedIsCurrent ==
    ASSUME NEW p \in Paths, Relevant(p), p \notin ChangedFiles
    PROVE  Current(p)
<1>1. CASE Rendered(desired)[p] # Absent
  BY <1>1 DEF ChangedFiles, Current
<1>2. CASE Rendered(desired)[p] = Absent
  <2>1. ASSUME p[1] = "conf"
        PROVE  FALSE
    <3>1. PICK i \in Interfaces : p = <<"conf", i>>
      BY <2>1 DEF Paths, BirdConf
    <3>2. Rendered(desired)[<<"script", i>>] # Absent
      BY <2>1, <3>1 DEF Relevant, Wanted
    <3> QED BY <1>2, <3>1, <3>2, RenderedTogether
  <2> QED BY <1>2, <2>1 DEF ChangedFiles, OrphanFiles, Current
<1> QED BY <1>1, <1>2

LEMMA FilesStep ==
    ASSUME ApplyTypeOK, FilesInv, [Next]_vars
    PROVE  FilesInv'
<1>1. CASE Aside
  BY <1>1, FilesKept DEF Aside, round
<1>2. CASE \E d \in DesiredStates : NewDesired(d)
  BY <1>2 DEF NewDesired, FilesInv, Planned, Done
<1>3. CASE \E seen \in BOOLEAN : MakePlan(seen)
  <2>1. PICK seen \in BOOLEAN : MakePlan(seen)
    BY <1>3
  <2>2. pc' = "write" /\ plan'.files = ChangedFiles /\ UNCHANGED <<desired, disk>>
    BY <2>1 DEF MakePlan, world, host
  <2>3. \A p \in Paths : Relevant(p)' => p \in plan'.files \/ Current(p)'
    BY <2>2, UnplannedIsCurrent DEF Relevant, Current, Wanted
  <2> QED BY <2>2, <2>3 DEF FilesInv, Planned, Done
<1>4. CASE \E done \in SUBSET plan.files : WriteFiles(done)
  <2>1. PICK done \in SUBSET plan.files : WriteFiles(done)
    BY <1>4
  <2>2. /\ pc = "write" /\ pc' = "deploy" /\ disk' = Written(done) /\ UNCHANGED desired
        /\ ~fileErrors' => done = plan.files
    BY <2>1 DEF WriteFiles
  <2>3. ASSUME NEW p \in Paths, Relevant(p)', done = plan.files
        PROVE  Current(p)'
    <3>1. Relevant(p) /\ (p \in done \/ Current(p))
      BY <2>2, <2>3 DEF FilesInv, Relevant, Wanted
    <3>2. disk'[p] = Rendered(desired)[p]
      BY <2>2, <3>1 DEF Written, Current
    <3> QED BY <2>2, <3>2 DEF Current
  <2> QED BY <2>2, <2>3 DEF FilesInv, Planned, Done
<1>5. CASE \/ PlanNetwork \/ AllRemoved \/ ApplyNetwork
           \/ \E s \in Services : RemoveContainer(s) \/ CreateContainer(s)
           \/ Deployed
  <2>1. /\ UNCHANGED <<desired, disk, plan, fileErrors, status>>
        /\ Planned /\ pc # "write" /\ Planned' /\ pc' # "write"
        /\ pc' = "converge" => ~fileErrors
    BY <1>5 DEF PlanNetwork, AllRemoved, ApplyNetwork, RemoveContainer, CreateContainer,
       NextToCreate, Deployed, world, host, Planned
  <2> QED BY <2>1 DEF FilesInv, Relevant, Current, Wanted, Planned, Done
<1>6. CASE \E done \in SUBSET Executable : Converge(done)
  <2>1. UNCHANGED <<desired, disk>> /\ pc = "converge" /\ pc' = "report"
    BY <1>6 DEF Converge, Finish, host
  <2> QED BY <2>1 DEF FilesInv, Relevant, Current, Wanted, Planned, Done
<1>7. CASE \E seen, wg, down \in BOOLEAN : Report(seen, wg, down)
  BY <1>7 DEF Report, FilesInv, Relevant, Current, Wanted, Planned, Done, world, host
<1>8. CASE Ended
  BY <1>8 DEF Ended, FilesInv, Planned, Done
<1> QED BY <1>1, <1>2, <1>3, <1>4, <1>5, <1>6, <1>7, <1>8, StepCases


LEMMA NetworkStep ==
    ASSUME ApplyTypeOK, NetworkInv, [Next]_vars
    PROVE  NetworkInv'
<1>1. CASE Aside
  BY <1>1 DEF Aside, round, NetworkInv, NetworkMatches, Done
<1>2. CASE \E d \in DesiredStates : NewDesired(d)
  BY <1>2 DEF NewDesired, NetworkInv, Done
<1>3. CASE \/ \E seen \in BOOLEAN : MakePlan(seen)
           \/ \E done \in SUBSET plan.files : WriteFiles(done)
  BY <1>3 DEF MakePlan, WriteFiles, NetworkInv, Done
<1>4. CASE PlanNetwork
  BY <1>4 DEF PlanNetwork, NetworkInv, NetworkMatches, Done, world, host
<1>5. CASE ApplyNetwork
  <2>1. /\ pc = "network" /\ pc' = "create" /\ UNCHANGED desired
        /\ netAction = "keep" => UNCHANGED network
        /\ netAction # "keep" => network' = desired.net
    BY <1>5 DEF ApplyNetwork
  <2>2. NetworkMatches'
    BY <2>1 DEF NetworkInv, NetworkMatches
  <2> QED BY <2>1, <2>2 DEF NetworkInv, Done
<1>6. CASE \/ AllRemoved \/ Deployed
           \/ \E s \in Services : RemoveContainer(s) \/ CreateContainer(s)
  BY <1>6 DEF AllRemoved, Deployed, RemoveContainer, CreateContainer, NextToCreate, NetworkInv,
     NetworkMatches, Done, world, host
<1>7. CASE \E done \in SUBSET Executable : Converge(done)
  BY <1>7 DEF Converge, Finish, NetworkInv, NetworkMatches, Done, host
<1>8. CASE \E seen, wg, down \in BOOLEAN : Report(seen, wg, down)
  BY <1>8 DEF Report, NetworkInv, NetworkMatches, Done, world, host
<1>9. CASE Ended
  BY <1>9 DEF Ended, NetworkInv, Done
<1> QED BY <1>1, <1>2, <1>3, <1>4, <1>5, <1>6, <1>7, <1>8, <1>9, StepCases

LEMMA ContainersStep ==
    ASSUME ApplyTypeOK, ContainersInv, [Next]_vars
    PROVE  ContainersInv'
<1>1. CASE Aside
  BY <1>1 DEF Aside, round, ContainersInv, AsDefined, Planned, Done
<1>2. CASE \E d \in DesiredStates : NewDesired(d)
  BY <1>2 DEF NewDesired, ContainersInv, Planned, Done
<1>3. CASE \E seen \in BOOLEAN : MakePlan(seen)
  <2>1. PICK seen \in BOOLEAN : MakePlan(seen)
    BY <1>3
  <2>2. /\ pc' = "write" /\ plan'.rebuild = Rebuilt(seen)
        /\ plan'.orphans = OrphanContainers(seen) /\ UNCHANGED <<desired, container>>
    BY <2>1 DEF MakePlan, world, boxes
  <2>3. plan'.orphans \cap Enabled(desired) = {}
    BY <2>2 DEF OrphanContainers
  <2>4. \A s \in Enabled(desired) : s \in plan'.rebuild \/ AsDefined(s)
    BY <2>2 DEF Rebuilt, Drifted, AsDefined
  <2> QED BY <2>2, <2>3, <2>4 DEF ContainersInv, AsDefined, Planned, Done
<1>4. CASE \/ \E done \in SUBSET plan.files : WriteFiles(done)
           \/ PlanNetwork \/ AllRemoved
  BY <1>4 DEF WriteFiles, PlanNetwork, AllRemoved, ContainersInv, AsDefined, Planned, Done,
     world, boxes
<1>5. CASE ApplyNetwork
  BY <1>5 DEF ApplyNetwork, ContainersInv, AsDefined, Planned, Done, boxes
<1>6. ASSUME NEW s \in Services, RemoveContainer(s)
      PROVE  ContainersInv'
  <2>1. /\ pc = "remove" /\ UNCHANGED <<desired, pc, plan, status>> /\ s \in todo
        /\ \A t \in Services : t # s => container'[t] = container[t]
    BY <1>6 DEF RemoveContainer, ApplyTypeOK
  <2>2. s \in Enabled(desired) => s \in plan.rebuild
    BY <2>1 DEF ApplyTypeOK, ContainersInv, Planned
  <2> QED BY <2>1, <2>2, ServicesAre DEF ContainersInv, AsDefined, Planned, Done
<1>7. ASSUME NEW s \in Services, CreateContainer(s)
      PROVE  ContainersInv'
  <2>1. /\ pc = "create" /\ UNCHANGED <<desired, pc, plan, status>> /\ todo' = todo \ {s}
        /\ \A t \in Services : t # s => container'[t] = container[t]
        /\ container'[s] = Definition(desired, s)
    BY <1>7, CreatedType DEF CreateContainer, NextToCreate
  <2> QED BY <2>1, ServicesAre DEF ContainersInv, AsDefined, Planned, Done
<1>8. CASE Deployed
  BY <1>8 DEF Deployed, ContainersInv, AsDefined, Planned, Done
<1>9. CASE \E done \in SUBSET Executable : Converge(done)
  BY <1>9 DEF Converge, Finish, ContainersInv, AsDefined, Planned, Done, boxes
<1>10. CASE \E seen, wg, down \in BOOLEAN : Report(seen, wg, down)
  BY <1>10 DEF Report, ContainersInv, AsDefined, Planned, Done, world, boxes
<1>11. CASE Ended
  BY <1>11 DEF Ended, ContainersInv, Planned, Done
<1> QED BY <1>1, <1>2, <1>3, <1>4, <1>5, <1>6, <1>7, <1>8, <1>9, <1>10, <1>11, StepCases

LEMMA AboveIs ==
    /\ Above("netns") = {} /\ Above("wg") = {"netns"}
    /\ Above("bird") = {"netns", "wg"}
  BY DEF Above

LEMMA NamespaceStep ==
    ASSUME ApplyTypeOK, ContainersInv, NamespaceInv, [Next]_vars
    PROVE  NamespaceInv'
<1>1. CASE Aside
  BY <1>1 DEF Aside, round, NamespaceInv, Planned, Removable
<1>2. CASE \E d \in DesiredStates : NewDesired(d)
  BY <1>2 DEF NewDesired, NamespaceInv, Planned, Removable, world, boxes
<1>3. CASE \E seen \in BOOLEAN : MakePlan(seen)
  <2>1. PICK seen \in BOOLEAN : MakePlan(seen)
    BY <1>3
  <2>2. pc' = "write" /\ plan'.rebuild = Rebuilt(seen) /\ UNCHANGED dangling
    BY <2>1 DEF MakePlan, world, boxes
  <2>3. "netns" \in Rebuilt(seen) => "wg" \in Rebuilt(seen) /\ "bird" \in Rebuilt(seen)
    BY AboveIs, ServicesAre DEF Rebuilt
  <2> QED BY <2>2, <2>3 DEF NamespaceInv
<1>4. CASE \/ \E done \in SUBSET plan.files : WriteFiles(done)
           \/ AllRemoved \/ ApplyNetwork \/ Deployed
           \/ \E s \in Services : CreateContainer(s)
  BY <1>4 DEF WriteFiles, AllRemoved, ApplyNetwork, Deployed, CreateContainer, NextToCreate,
     NamespaceInv, Planned, world, boxes
<1>5. CASE PlanNetwork
  BY <1>5 DEF PlanNetwork, NamespaceInv, Planned, Removable, world, boxes
<1>6. ASSUME NEW s \in Services, RemoveContainer(s)
      PROVE  NamespaceInv'
  <2>1. /\ pc = "remove" /\ UNCHANGED <<desired, pc, plan>> /\ s \in todo
        /\ todo' = todo \ {s} /\ \A t \in todo : s \notin Above(t)
        /\ \A t \in Services : t # s => container'[t] = container[t]
        /\ container'[s] = NoContainer
    BY <1>6 DEF RemoveContainer, ApplyTypeOK
  <2>2. \A t \in (Removable \ todo)' : container'[t] = NoContainer
    BY <2>1 DEF NamespaceInv, Removable, ApplyTypeOK, Plans
  <2>3. dangling' \cap Core = {}
    <3>1. CASE s # "netns"
      BY <1>6, <3>1 DEF RemoveContainer, NamespaceInv
    <3>2. CASE s = "netns"
      <4>1. "netns" \in plan.rebuild
        BY <2>1, <3>2, ServicesAre DEF ApplyTypeOK, ContainersInv, Planned
      <4>2. "wg" \in plan.rebuild /\ "bird" \in plan.rebuild
        BY <2>1, <4>1 DEF NamespaceInv, Planned
      <4>3. "wg" \notin todo /\ "bird" \notin todo
        BY <2>1, <3>2, AboveIs
      <4>4. container["wg"] = NoContainer /\ container["bird"] = NoContainer
        BY <2>1, <4>2, <4>3 DEF NamespaceInv, Removable
      <4> QED BY <1>6, <3>2, <4>4, ServicesAre DEF RemoveContainer
    <3> QED BY <3>1, <3>2
  <2> QED BY <2>1, <2>2, <2>3 DEF NamespaceInv, Planned
<1>7. CASE \E done \in SUBSET Executable : Converge(done)
  BY <1>7 DEF Converge, Finish, NamespaceInv, Planned, boxes
<1>8. CASE \E seen, wg, down \in BOOLEAN : Report(seen, wg, down)
  BY <1>8 DEF Report, NamespaceInv, Planned, world, boxes
<1>9. CASE Ended
  BY <1>9 DEF Ended, NamespaceInv, Planned
<1> QED BY <1>1, <1>2, <1>3, <1>4, <1>5, <1>6, <1>7, <1>8, <1>9, StepCases


ApplyInv ==
    /\ ApplyTypeOK /\ IdleInv
    /\ FilesInv /\ NetworkInv /\ ContainersInv /\ NamespaceInv

LEMMA ApplyInit ==
    ASSUME Init
    PROVE  ApplyInv
<1>1. ApplyTypeOK /\ IdleInv
  BY InitType
<1>2. pc = "idle" /\ status = "none" /\ dangling = {}
  BY DEF Init
<1> QED BY <1>1, <1>2 DEF ApplyInv, FilesInv, NetworkInv, ContainersInv, NamespaceInv, Planned,
        Done

LEMMA ApplyStep ==
    ASSUME ApplyInv, [Next]_vars
    PROVE  ApplyInv'
  BY TypeStep, FilesStep, NetworkStep, ContainersStep, NamespaceStep DEF ApplyInv

(* Whatever failed, crashed or died before, an apply recorded as succeeded *)
(* (_execute, mode "apply") leaves the rendered files on disk, the         *)
(* underlay as the state has it, every container created from the state's  *)
(* definition, and none of the router's containers attached to a network   *)
(* namespace that is gone: the plan of files and containers is complete,   *)
(* and deploy carries out all of it or fails.                              *)
THEOREM SuccessIsDeployment == Spec => []SucceededMeansDeployed
<1>1. Init => ApplyInv
  BY ApplyInit
<1>2. ApplyInv /\ [Next]_vars => ApplyInv'
  BY ApplyStep
<1>3. ApplyInv => SucceededMeansDeployed
  <2> SUFFICES ASSUME ApplyInv, Succeeded
               PROVE  /\ \A p \in Paths : Relevant(p) => Current(p)
                      /\ NetworkMatches
                      /\ \A s \in Enabled(desired) : AsDefined(s)
                      /\ dangling \cap Core = {}
    BY DEF SucceededMeansDeployed, Relevant, Current, AsDefined
  <2>1. Done
    BY DEF Succeeded, Done
  <2> QED BY <2>1 DEF ApplyInv, FilesInv, NetworkInv, ContainersInv, NamespaceInv
<1> QED BY <1>1, <1>2, <1>3, PTL DEF Spec

(***************************************************************************)
(* What a clean report says.                                               *)
(***************************************************************************)
(* Only an idle agent has a report, and a clean one stays true.            *)
ReportInv ==
    /\ pc # "idle" => report = NoReport
    /\ CleanReportIsTrue

LEMMA ReportIsTrue ==
    ASSUME ApplyTypeOK, NEW seen \in BOOLEAN, NEW wg \in BOOLEAN, NEW down \in BOOLEAN,
           Report(seen, wg, down)
    PROVE  CleanReportIsTrue'
<1>1. PICK S : S = Snapshot(seen, wg)
  OBVIOUS
<1>2. PICK C : C = MissingContainers(S) \cup MissingLinks(S)
  OBVIOUS
<1>3. /\ report' = [status |-> IF C # {} /\ status = "succeeded" THEN "degraded" ELSE status,
                    warnings |-> OddContainers(S) \cup Unconfirmed(S) \cup BgpDrift(S, down)]
      /\ UNCHANGED <<desired, container, link>>
  BY <1>1, <1>2 DEF Report, world, boxes
<1> SUFFICES ASSUME report'.status = "succeeded", report'.warnings \subseteq {"bgp"}
             PROVE  /\ \A i \in WireGuardWanted : link[i] # NoLink
                    /\ OrphanContainers(TRUE) = {}
  BY <1>3 DEF CleanReportIsTrue, WireGuardWanted, OrphanContainers
<1>4. MissingContainers(S) = {} /\ MissingLinks(S) = {}
  BY <1>2, <1>3
<1>5. Unconfirmed(S) = {} /\ OddContainers(S) \subseteq {"bgp"}
  <2>1. "wireguard" # "bgp" /\ Unconfirmed(S) \subseteq {"wireguard"}
    BY DEF Unconfirmed
  <2> QED BY <1>3, <2>1
<1>6. S.containers = Observed(seen)
  BY <1>1 DEF Snapshot
<1>7. "wg" \in Observed(seen) /\ "wg" \in running
  BY <1>4, <1>6, ServicesAre DEF MissingContainers
<1>8. seen
  BY <1>7 DEF Observed
<1>9. S.wireguard \in {"observed", "unavailable"}
  BY <1>1, <1>7 DEF Snapshot, Observation
<1>10. \A i \in WireGuardWanted : link[i] # NoLink
  BY <1>4, <1>5, <1>9 DEF MissingLinks, Unconfirmed, WireGuardDump, WireGuardWanted
<1>11. OrphanContainers(TRUE) = {}
  <2> SUFFICES ASSUME NEW s \in Services \ Enabled(desired), container[s] # NoContainer
               PROVE  FALSE
    BY DEF OrphanContainers
  <2>1. s \in OddContainers(S)
    BY <1>6, <1>8 DEF OddContainers, Observed
  <2> QED BY <1>5, <2>1, ServicesAre
<1> QED BY <1>10, <1>11

(* The gateway sets interfaces up; it takes none down.                     *)
LEMMA GatewayAddsLinks ==
    ASSUME ApplyTypeOK, GatewayBoots, NEW i \in Links, link[i] # NoLink
    PROVE  link'[i] # NoLink
  BY DEF GatewayBoots, ApplyTypeOK, Applied, NoLink

LEMMA ReportStep ==
    ASSUME ApplyTypeOK, ReportInv, [Next]_vars
    PROVE  ReportInv'
<1> USE DEF NoReport
<1>1. CASE \E seen, wg, down \in BOOLEAN : Report(seen, wg, down)
  BY <1>1, ReportIsTrue DEF Report, ReportInv
<1>2. CASE GatewayBoots
  <2>1. /\ UNCHANGED <<desired, container, pc, report>>
        /\ \A i \in WireGuardWanted : link[i] # NoLink => link'[i] # NoLink
    BY <1>2, GatewayAddsLinks, PathsOfLinks DEF GatewayBoots, round, WireGuardWanted
  <2> QED BY <2>1 DEF ReportInv, CleanReportIsTrue, WireGuardWanted, OrphanContainers
<1>3. CASE UNCHANGED <<desired, container, link, pc, report>>
  BY <1>3 DEF ReportInv, CleanReportIsTrue, WireGuardWanted, OrphanContainers
<1>4. CASE report' = NoReport
  BY <1>4 DEF ReportInv, CleanReportIsTrue
<1>5. CASE pc # "idle" /\ UNCHANGED report
  BY <1>4, <1>5 DEF ReportInv
<1>6. CASE \/ UNCHANGED vars
           \/ BirdBoots \/ ProbeBird \/ ForeignLeaves \/ BirdDaemonDies \/ ForeignAttaches
           \/ \E s \in Services : ContainerDies(s)
  BY <1>3, <1>6 DEF vars, BirdBoots, ProbeBird, ForeignLeaves, BirdDaemonDies, ForeignAttaches,
     ContainerDies, world, boxes, round
<1>7. CASE (\E d \in DesiredStates : NewDesired(d)) \/ MakePlan(TRUE) \/ MakePlan(FALSE) \/ Crash
  BY <1>4, <1>7 DEF NewDesired, MakePlan, Crash
<1>8. CASE Deploy \/ DeployFails \/ \E s \in Services : StartFails(s)
  BY <1>5, <1>8 DEF Deploy, DeployFails, StartFails, PlanNetwork, NetworkRefused, AllRemoved,
     ApplyNetwork, StillAttached, RemoveContainer, CreateContainer, NextToCreate, Deployed,
     DeployedWithErrors, Finish
<1>9. CASE \/ \E done \in SUBSET plan.files : WriteFiles(done)
           \/ \E done \in SUBSET Executable : Converge(done)
  BY <1>5, <1>9 DEF WriteFiles, Converge, Finish
<1> QED BY <1>1, <1>2, <1>6, <1>7, <1>8, <1>9 DEF Next, Reconcile, Failures

(* A report that says succeeded, warns of no container and could ask       *)
(* WireGuard (build_reconciliation_report) is true of the tunnels and of   *)
(* the containers, and stays true until the agent reconciles again or is   *)
(* handed another state.                                                   *)
THEOREM CleanReportsAreTrue == Spec => []CleanReportIsTrue
<1>1. Init => ApplyTypeOK /\ IdleInv /\ ReportInv
  <2> SUFFICES ASSUME Init PROVE ApplyTypeOK /\ IdleInv /\ ReportInv
    OBVIOUS
  <2>1. report = NoReport
    BY DEF Init
  <2> QED BY <2>1, InitType DEF ReportInv, CleanReportIsTrue, NoReport
<1>2. ApplyTypeOK /\ IdleInv /\ ReportInv /\ [Next]_vars => (ApplyTypeOK /\ IdleInv /\ ReportInv)'
  BY TypeStep, ReportStep
<1>3. ReportInv => CleanReportIsTrue
  BY DEF ReportInv
<1> QED BY <1>1, <1>2, <1>3, PTL DEF Spec


(***************************************************************************)
(* What an apply has loaded, as long as nothing failed.                    *)
(***************************************************************************)
(* Nothing died, no file is missing, nobody else is on the underlay.       *)
CalmInv ==
    faults = 0 =>
      /\ foreign = FALSE /\ fileErrors = FALSE
      /\ \A s \in Services : container[s] # NoContainer => s \in running
      /\ daemon # Absent => "bird" \in running

(* The underlay the netns container is attached to is the one it was       *)
(* created for: deploy neither refuses to change the network nor finds it  *)
(* still in use.                                                           *)
UnderlayOf(n) == n # NoNet /\ n.v4 = network.v4 /\ n.v6 \in {0, network.v6}

UnderlayInv ==
    faults = 0 =>
      /\ container["netns"] # NoContainer => UnderlayOf(container["netns"].net)
      /\ pc \in {"remove", "network"} => netAction \in {"keep", "create", "recreate"}
      /\ pc \in {"remove", "network"} /\ netAction = "create" => network = NoNet
      /\ netAction = "recreate" /\ pc = "remove" => "netns" \in todo \/ "netns" \notin running
      /\ netAction = "recreate" /\ pc = "network" => "netns" \notin running

(* What is written is loaded again, a removed namespace is filled again,   *)
(* and no wanted interface is taken down.                                  *)
ReloadsInv ==
    faults = 0 =>
      /\ pc = "write" => \A p \in plan.files \ {BirdConf} :
                            p[2] \in Wanted => <<"sync", p[2]>> \in plan.actions
      /\ pc = "write" /\ BirdConf \in plan.files => Reload \in plan.actions \/ "bird" \in plan.rebuild
      /\ Planned /\ "netns" \in plan.rebuild =>
            \A i \in Wanted : <<"sync", i>> \in plan.actions
      /\ Planned => \A i \in Wanted : <<"remove", i>> \notin plan.actions

(* What is loaded comes from the files on disk, or is going to.            *)
Ahead == Planned /\ pc # "write"
LinksInv ==
    faults = 0 => \A i \in Links : disk[<<"script", i>>] # Absent =>
                     link[i] = Applied(i) \/ (Ahead /\ <<"sync", i>> \in plan.actions)
DaemonInv ==
    faults = 0 =>
      \/ daemon \in {Absent, disk[BirdConf]}
      \/ Ahead /\ Reload \in plan.actions
      \/ pc = "deploy" /\ "bird" \in plan.rebuild
      \/ pc = "remove" /\ "bird" \in todo


(* Deploy refuses nothing while nothing has failed.                        *)
LEMMA CalmNeverRefuses ==
    ASSUME ApplyInv, CalmInv, UnderlayInv, faults = 0
    PROVE  ~NetworkRefused /\ ~StillAttached /\ ~DeployedWithErrors
<1>1. Attached = running \cap {"netns"}
  BY DEF CalmInv, Attached
<1>2. ASSUME NetworkRefused
      PROVE  FALSE
  <2>1. pc = "deploy" /\ ~NetworkMatches /\ "netns" \in running /\ "netns" \notin Removable
    BY <1>1, <1>2 DEF NetworkRefused
  <2>2. AsDefined("netns")
    BY <2>1, ServicesAre DEF ApplyInv, ContainersInv, Planned, Removable
  <2>3. container["netns"] # NoContainer /\ container["netns"].net = desired.net
    BY <2>1, <2>2 DEF ApplyInv, ApplyTypeOK, AsDefined, Definition, NetworkSection
  <2> QED BY <2>1, <2>3 DEF UnderlayInv, UnderlayOf, NetworkMatches
<1>3. ASSUME StillAttached
      PROVE  FALSE
  BY <1>1, <1>3 DEF StillAttached, UnderlayInv
<1>4. ASSUME DeployedWithErrors
      PROVE  FALSE
  BY <1>4 DEF DeployedWithErrors, CalmInv
<1> QED BY <1>2, <1>3, <1>4

(* What can happen while nothing has failed.                               *)
Beside == /\ BirdBoots \/ ProbeBird \/ ForeignLeaves \/ UNCHANGED vars
          /\ UNCHANGED <<desired, disk, network, container, running, link, round>>

LEMMA CalmCases ==
    ASSUME ApplyInv, CalmInv, UnderlayInv, [Next]_vars, faults' = 0
    PROVE  /\ faults = 0
           /\ \/ Beside \/ GatewayBoots
              \/ \E d \in DesiredStates : NewDesired(d)
              \/ MakePlan(TRUE) \/ WriteFiles(plan.files)
              \/ PlanNetwork \/ AllRemoved \/ ApplyNetwork
              \/ \E s \in Services : RemoveContainer(s) \/ CreateContainer(s)
              \/ Deployed
              \/ Converge(Executable)
              \/ \E down \in BOOLEAN : Report(TRUE, TRUE, down)
<1>1. ~Fault
  BY DEF Fault, ApplyInv, ApplyTypeOK
<1>2. ~Failures
  <2>1. \A done : WriteFiles(done) => done = plan.files
    BY <1>1 DEF WriteFiles
  <2>2. \A done : Converge(done) => done = Executable
    BY <1>1 DEF Converge
  <2>3. \A down \in BOOLEAN : ~Report(FALSE, TRUE, down) /\ ~Report(TRUE, FALSE, down)
    BY <1>1 DEF Report
  <2>4. ~DeployFails /\ ~BirdDaemonDies /\ ~ForeignAttaches /\ ~Crash
    BY <1>1 DEF DeployFails, BirdDaemonDies, ForeignAttaches, Crash
  <2>5. \A s : ~StartFails(s) /\ ~ContainerDies(s)
    BY <1>1 DEF StartFails, ContainerDies
  <2> QED BY <1>1, <2>1, <2>2, <2>3, <2>4, <2>5 DEF Failures
<1>3. Reconcile => faults = 0
  BY <1>1 DEF Reconcile, Deploy, WriteFiles, Converge, Report, PlanNetwork, NetworkRefused,
     AllRemoved, ApplyNetwork, StillAttached, RemoveContainer, CreateContainer, Deployed,
     DeployedWithErrors
<1>4. UNCHANGED vars \/ BirdBoots \/ ProbeBird \/ ForeignLeaves => faults = 0 /\ Beside
  BY DEF vars, BirdBoots, ProbeBird, ForeignLeaves, Beside, world, host, boxes
<1>5. GatewayBoots \/ (\E d \in DesiredStates : NewDesired(d)) => faults = 0
  BY DEF GatewayBoots, NewDesired
<1>6. faults = 0
  BY <1>2, <1>3, <1>4, <1>5 DEF Next
<1> QED BY <1>2, <1>4, <1>6, CalmNeverRefuses DEF Next, Reconcile, Deploy

LEMMA CalmStep ==
    ASSUME ApplyInv, CalmInv, UnderlayInv, [Next]_vars
    PROVE  CalmInv'
<1> SUFFICES ASSUME faults' = 0
             PROVE  /\ foreign' = FALSE /\ fileErrors' = FALSE
                    /\ \A s \in Services : container'[s] # NoContainer => s \in running'
                    /\ daemon' # Absent => "bird" \in running'
  BY DEF CalmInv
<1>1. /\ faults = 0 /\ foreign = FALSE /\ fileErrors = FALSE
      /\ \A s \in Services : container[s] # NoContainer => s \in running
      /\ daemon # Absent => "bird" \in running
  BY CalmCases DEF CalmInv
<1>2. ApplyTypeOK
  BY DEF ApplyInv
<1>3. CASE Beside
  BY <1>1, <1>2, <1>3 DEF Beside, BirdBoots, ProbeBird, ForeignLeaves, vars, ApplyTypeOK, world,
     host, round
<1>4. CASE \/ GatewayBoots \/ (\E d \in DesiredStates : NewDesired(d)) \/ MakePlan(TRUE)
           \/ PlanNetwork \/ AllRemoved \/ ApplyNetwork \/ Deployed
           \/ \E down \in BOOLEAN : Report(TRUE, TRUE, down)
  <2>1. UNCHANGED <<foreign, fileErrors, container, running, daemon>>
    BY <1>4 DEF GatewayBoots, NewDesired, MakePlan, PlanNetwork, AllRemoved, ApplyNetwork,
       Deployed, Report, world, host, boxes, round
  <2> QED BY <1>1, <2>1
<1>5. CASE WriteFiles(plan.files)
  BY <1>1, <1>5 DEF WriteFiles, boxes
<1>6. ASSUME NEW s \in Services, RemoveContainer(s)
      PROVE  /\ foreign' = FALSE /\ fileErrors' = FALSE
             /\ \A t \in Services : container'[t] # NoContainer => t \in running'
             /\ daemon' # Absent => "bird" \in running'
  BY <1>1, <1>2, <1>6 DEF RemoveContainer, ApplyTypeOK, host
<1>7. ASSUME NEW s \in Services, CreateContainer(s)
      PROVE  /\ foreign' = FALSE /\ fileErrors' = FALSE
             /\ \A t \in Services : container'[t] # NoContainer => t \in running'
             /\ daemon' # Absent => "bird" \in running'
  <2>1. \A t \in Services : t # s => container'[t] = container[t]
    BY <1>2, <1>7, CreatedType DEF CreateContainer
  <2> QED BY <1>1, <1>7, <2>1 DEF CreateContainer, host
<1>8. CASE Converge(Executable)
  <2>1. UNCHANGED <<foreign, container, running>> /\ fileErrors' = FALSE
    BY <1>8 DEF Converge, Finish, host, boxes
  <2>2. daemon' # Absent => "bird" \in running
    BY <1>1, <1>8 DEF Converge, Reloaded, Executable
  <2> QED BY <1>1, <2>1, <2>2
<1> QED BY <1>3, <1>4, <1>5, <1>6, <1>7, <1>8, CalmCases


LEMMA UnderlayStep ==
    ASSUME ApplyInv, CalmInv, UnderlayInv, [Next]_vars
    PROVE  UnderlayInv'
<1> DEFINE Goal ==
      /\ container["netns"] # NoContainer => UnderlayOf(container["netns"].net)
      /\ pc \in {"remove", "network"} => netAction \in {"keep", "create", "recreate"}
      /\ pc \in {"remove", "network"} /\ netAction = "create" => network = NoNet
      /\ netAction = "recreate" /\ pc = "remove" => "netns" \in todo \/ "netns" \notin running
      /\ netAction = "recreate" /\ pc = "network" => "netns" \notin running
<1> SUFFICES ASSUME faults' = 0 PROVE Goal'
  BY DEF UnderlayInv
<1>1. faults = 0 /\ Goal
  BY CalmCases DEF UnderlayInv
<1>2. ApplyTypeOK /\ "netns" \in Services
  BY ServicesAre DEF ApplyInv
<1>3. CASE Beside
  BY <1>1, <1>3 DEF Beside, UnderlayOf, round
<1>4. CASE \/ GatewayBoots \/ (\E d \in DesiredStates : NewDesired(d)) \/ MakePlan(TRUE)
           \/ WriteFiles(plan.files) \/ Deployed \/ Converge(Executable)
           \/ \E down \in BOOLEAN : Report(TRUE, TRUE, down)
  <2>1. UNCHANGED <<network, container, running>>
    BY <1>4 DEF GatewayBoots, NewDesired, MakePlan, WriteFiles, Deployed, Converge, Report, world,
       host, boxes
  <2>2. UNCHANGED <<pc, netAction, todo>> \/ pc' \notin {"remove", "network"}
    BY <1>4 DEF GatewayBoots, NewDesired, MakePlan, WriteFiles, Deployed, Converge, Report,
       Finish, round
  <2> QED BY <1>1, <2>1, <2>2 DEF UnderlayOf
<1>5. CASE PlanNetwork
  <2>1. /\ UNCHANGED <<network, container, running>> /\ pc' = "remove"
        /\ netAction' = "create" => network = NoNet
        /\ netAction' \in {"keep", "create", "recreate"}
    BY <1>5 DEF PlanNetwork, world, host, boxes
  <2>2. ASSUME netAction' = "recreate", "netns" \in running
        PROVE  "netns" \in todo'
    <3>1. "netns" \in Removable
      BY <1>5, <2>2 DEF PlanNetwork, Attached
    <3>2. container["netns"] # NoContainer
      BY <1>2, <2>2 DEF ApplyTypeOK
    <3> QED BY <1>5, <3>1, <3>2 DEF PlanNetwork
  <2> QED BY <1>1, <2>1, <2>2 DEF UnderlayOf
<1>6. CASE AllRemoved
  BY <1>1, <1>6 DEF AllRemoved, UnderlayOf, world, host, boxes
<1>7. CASE ApplyNetwork
  <2>1. /\ UNCHANGED <<container, running>> /\ pc = "network" /\ pc' = "create"
        /\ netAction = "keep" => UNCHANGED network
    BY <1>7 DEF ApplyNetwork, boxes
  <2>2. netAction \in {"create", "recreate"} => container["netns"] = NoContainer
    <3>1. CASE netAction = "recreate"
      BY <1>1, <1>2, <2>1, <3>1 DEF CalmInv
    <3>2. CASE netAction = "create"
      <4>1. network = NoNet
        BY <1>1, <2>1, <3>2
      <4>2. container["netns"].net \in Ipams
        BY <1>2 DEF ApplyTypeOK
      <4>3. \A n \in Ipams : n.v4 = 0 /\ n.v6 = 0 => n = NoNet
        BY DEF Ipams, NoNet
      <4> QED BY <1>1, <4>1, <4>2, <4>3 DEF UnderlayOf, NoNet
    <3> QED BY <3>1, <3>2
  <2>3. netAction \in {"keep", "create", "recreate"}
    BY <1>1, <2>1
  <2> QED BY <1>1, <2>1, <2>2, <2>3 DEF UnderlayOf
<1>8. ASSUME NEW s \in Services, RemoveContainer(s)
      PROVE  Goal'
  <2>1. /\ UNCHANGED <<network, pc, netAction>> /\ pc = "remove" /\ running' = running \ {s}
        /\ todo' = todo \ {s}
        /\ container'["netns"] \in {NoContainer, container["netns"]}
    BY <1>2, <1>8 DEF RemoveContainer, ApplyTypeOK, host
  <2> QED BY <1>1, <2>1 DEF UnderlayOf
<1>9. ASSUME NEW s \in Services, CreateContainer(s)
      PROVE  Goal'
  <2>1. /\ UNCHANGED <<network, pc>> /\ pc = "create"
        /\ s # "netns" => container'["netns"] = container["netns"]
        /\ s = "netns" => container'["netns"] = Definition(desired, "netns")
    BY <1>2, <1>9, CreatedType DEF CreateContainer, NextToCreate, host
  <2>2. UnderlayOf(Definition(desired, "netns").net)
    <3>1. NetworkMatches
      BY <2>1 DEF ApplyInv, NetworkInv
    <3>2. desired.net # NoNet
      BY <1>2, DesiredIsState DEF States
    <3> QED BY <3>1, <3>2 DEF NetworkMatches, UnderlayOf, Definition, NetworkSection
  <2> QED BY <1>1, <2>1, <2>2 DEF UnderlayOf
<1> QED BY <1>3, <1>4, <1>5, <1>6, <1>7, <1>8, <1>9, CalmCases


(* What build_convergence_plan plans is enough.                            *)
LEMMA PlanReloads ==
    ASSUME NEW seen \in BOOLEAN
    PROVE  /\ \A p \in ChangedFiles \ {BirdConf} :
                 p[2] \in Wanted => <<"sync", p[2]>> \in ConvergencePlan(seen)
           /\ BirdConf \in ChangedFiles =>
                 Reload \in ConvergencePlan(seen) \/ "bird" \in Rebuilt(seen)
           /\ "netns" \in Rebuilt(seen) =>
                 \A i \in Wanted : <<"sync", i>> \in ConvergencePlan(seen)
           /\ \A i \in Wanted : <<"remove", i>> \notin ConvergencePlan(seen)
<1>1. \A i \in SyncTargets(seen) : <<"sync", i>> \in ConvergencePlan(seen)
  BY DEF ConvergencePlan
<1>2. \A p \in ChangedFiles \ {BirdConf} : p[2] \in Wanted => p[2] \in SyncTargets(seen)
  BY DEF SyncTargets, Touched
<1>3. "netns" \in Rebuilt(seen) => SyncTargets(seen) = Wanted
  BY DEF SyncTargets, BringUpAll
<1>4. \A i : Reload # <<"remove", i>>
  BY DEF Reload
<1>5. \A i \in Wanted : <<"remove", i>> \notin ConvergencePlan(seen)
  <2> SUFFICES ASSUME NEW i \in Wanted, <<"remove", i>> \in ConvergencePlan(seen)
               PROVE  FALSE
    BY Zenon
  <2>1. <<"remove", i>> \notin ReloadActions(seen)
    BY <1>4 DEF ReloadActions
  <2>2. <<"remove", i>> \notin {"sync"} \X SyncTargets(seen)
    OBVIOUS
  <2>3. i \in RemoveTargets
    BY <2>1, <2>2 DEF ConvergencePlan
  <2> QED BY <2>3 DEF RemoveTargets
<1>6. BirdConf \in ChangedFiles => Reload \in ConvergencePlan(seen) \/ "bird" \in Rebuilt(seen)
  BY DEF ConvergencePlan, ReloadActions
<1> QED BY <1>1, <1>2, <1>3, <1>5, <1>6

LEMMA ReloadsStep ==
    ASSUME ApplyInv, CalmInv, UnderlayInv, ReloadsInv, [Next]_vars
    PROVE  ReloadsInv'
<1> DEFINE Goal ==
      /\ pc = "write" => \A p \in plan.files \ {BirdConf} :
                            p[2] \in Wanted => <<"sync", p[2]>> \in plan.actions
      /\ pc = "write" /\ BirdConf \in plan.files => Reload \in plan.actions \/ "bird" \in plan.rebuild
      /\ Planned /\ "netns" \in plan.rebuild =>
            \A i \in Wanted : <<"sync", i>> \in plan.actions
      /\ Planned => \A i \in Wanted : <<"remove", i>> \notin plan.actions
<1> SUFFICES ASSUME faults' = 0 PROVE Goal'
  BY DEF ReloadsInv
<1>1. faults = 0 /\ Goal
  BY CalmCases DEF ReloadsInv
<1>2. CASE MakePlan(TRUE)
  <2>1. /\ plan'.files = ChangedFiles /\ plan'.rebuild = Rebuilt(TRUE)
        /\ plan'.actions = ConvergencePlan(TRUE) /\ Wanted' = Wanted
    BY <1>2 DEF MakePlan, Wanted
  <2> QED BY <2>1, PlanReloads
<1>3. CASE (Beside \/ GatewayBoots)
  BY <1>1, <1>3 DEF Beside, GatewayBoots, round, Wanted, Planned
<1>4. CASE (\E d \in DesiredStates : NewDesired(d)) \/ Converge(Executable)
           \/ \E down \in BOOLEAN : Report(TRUE, TRUE, down)
  <2>1. pc' \in {"idle", "report"}
    BY <1>4 DEF NewDesired, Converge, Finish, Report
  <2> QED BY <2>1 DEF Planned
<1>5. CASE \/ WriteFiles(plan.files) \/ PlanNetwork \/ AllRemoved \/ ApplyNetwork \/ Deployed
           \/ \E s \in Services : RemoveContainer(s) \/ CreateContainer(s)
  <2>1. UNCHANGED <<desired, plan>> /\ Planned /\ pc' # "write"
    BY <1>5 DEF WriteFiles, PlanNetwork, AllRemoved, ApplyNetwork, Deployed, RemoveContainer,
       CreateContainer, NextToCreate, Planned
  <2> QED BY <1>1, <2>1 DEF Wanted
<1> QED BY <1>2, <1>3, <1>4, <1>5, CalmCases


(* While nothing has failed, the scripts on disk are those of the wanted   *)
(* interfaces, from the moment the files are written.                      *)
LEMMA ScriptsAreWanted ==
    ASSUME ApplyInv, CalmInv, faults = 0, Ahead, NEW i \in Links, disk[<<"script", i>>] # Absent
    PROVE  i \in Wanted
<1>1. <<"script", i>> \in Paths /\ Relevant(<<"script", i>>)
  BY PathsOfLinks DEF Relevant
<1>2. Current(<<"script", i>>)
  BY <1>1 DEF ApplyInv, FilesInv, CalmInv, Ahead
<1> QED BY <1>2 DEF Current, Wanted

LEMMA LinksStep ==
    ASSUME ApplyInv, CalmInv, UnderlayInv, ReloadsInv, LinksInv, [Next]_vars
    PROVE  LinksInv'
<1> DEFINE Goal == \A i \in Links : disk[<<"script", i>>] # Absent =>
                      link[i] = Applied(i) \/ (Ahead /\ <<"sync", i>> \in plan.actions)
<1> SUFFICES ASSUME faults' = 0 PROVE Goal'
  BY DEF LinksInv
<1>1. faults = 0 /\ Goal
  BY CalmCases DEF LinksInv
<1>2. ApplyTypeOK /\ ApplyInv' /\ CalmInv'
  BY ApplyStep, CalmStep DEF ApplyInv
<1>3. CASE Beside
  BY <1>1, <1>3 DEF Beside, round, Applied, Ahead, Planned
<1>4. CASE GatewayBoots
  <2>1. UNCHANGED disk /\ \A i \in Links : disk[<<"script", i>>] # Absent => link'[i] = Applied(i)
    BY <1>4 DEF GatewayBoots, host
  <2> QED BY <2>1 DEF Applied
<1>5. CASE \/ (\E d \in DesiredStates : NewDesired(d)) \/ MakePlan(TRUE)
           \/ \E down \in BOOLEAN : Report(TRUE, TRUE, down)
  <2>1. UNCHANGED <<disk, link>> /\ ~Ahead
    BY <1>5 DEF NewDesired, MakePlan, Report, world, host, Ahead, Planned
  <2> QED BY <1>1, <2>1 DEF Applied
<1>6. CASE WriteFiles(plan.files)
  <2> SUFFICES ASSUME NEW i \in Links, disk'[<<"script", i>>] # Absent
               PROVE  (link[i] = Applied(i) \/ (Ahead /\ <<"sync", i>> \in plan.actions))'
    OBVIOUS
  <2>1. /\ pc = "write" /\ pc' = "deploy" /\ disk' = Written(plan.files)
        /\ UNCHANGED <<desired, link, plan>> /\ Ahead'
    BY <1>6 DEF WriteFiles, Ahead, Planned
  <2>2. i \in Wanted
    <3>1. <<"script", i>> \in Paths /\ Relevant(<<"script", i>>)'
      BY PathsOfLinks DEF Relevant
    <3>2. fileErrors' = FALSE
      BY <1>2 DEF CalmInv
    <3>3. Current(<<"script", i>>)'
      BY <1>2, <2>1, <3>1, <3>2 DEF ApplyInv, FilesInv, Ahead
    <3> QED BY <2>1, <3>3 DEF Current, Wanted
  <2>3. \A p \in plan.files \ {BirdConf} : p[2] = i => <<"sync", i>> \in plan.actions
    BY <1>1, <2>1, <2>2 DEF ReloadsInv
  <2>4. CASE <<"script", i>> \in plan.files \/ <<"conf", i>> \in plan.files
    <3>1. BirdConf # <<"conf", i>> /\ BirdConf # <<"script", i>>
      BY DEF BirdConf
    <3> QED BY <2>1, <2>3, <2>4, <3>1
  <2>5. CASE <<"script", i>> \notin plan.files /\ <<"conf", i>> \notin plan.files
    <3>1. /\ disk'[<<"script", i>>] = disk[<<"script", i>>]
          /\ i # Anycast => disk'[<<"conf", i>>] = disk[<<"conf", i>>]
      BY <2>1, <2>5, PathsOfLinks DEF Written
    <3>2. Applied(i)' = Applied(i)
      BY <3>1 DEF Applied
    <3>3. link[i] = Applied(i)
      BY <1>1, <2>1, <3>1 DEF Ahead
    <3> QED BY <2>1, <3>2, <3>3
  <2> QED BY <2>4, <2>5
<1>7. CASE \/ PlanNetwork \/ AllRemoved \/ ApplyNetwork \/ Deployed
           \/ \E s \in Services : CreateContainer(s)
  <2>1. UNCHANGED <<disk, link, plan>> /\ Ahead'
    BY <1>7 DEF PlanNetwork, AllRemoved, ApplyNetwork, Deployed, CreateContainer, NextToCreate,
       Ahead, Planned, world, host
  <2> QED BY <1>1, <2>1 DEF Applied
<1>8. ASSUME NEW s \in Services, RemoveContainer(s)
      PROVE  Goal'
  <2>1. UNCHANGED <<disk, plan>> /\ pc = "remove" /\ Ahead /\ Ahead' /\ s \in todo
    BY <1>8 DEF RemoveContainer, Ahead, Planned, host
  <2>2. CASE s # "netns"
    <3>1. UNCHANGED link
      BY <1>8, <2>2 DEF RemoveContainer
    <3> QED BY <1>1, <2>1, <3>1 DEF Applied
  <2>3. CASE s = "netns"
    <3>1. "netns" \in plan.rebuild
      BY <2>1, <2>3, ServicesAre DEF ApplyInv, ApplyTypeOK, ContainersInv, Planned
    <3>2. \A i \in Wanted : <<"sync", i>> \in plan.actions
      BY <1>1, <2>1, <3>1, Zenon DEF ReloadsInv, Ahead
    <3> QED BY <1>1, <2>1, <3>2, ScriptsAreWanted
  <2> QED BY <2>2, <2>3
<1>9. CASE Converge(Executable)
  <2> SUFFICES ASSUME NEW i \in Links, disk[<<"script", i>>] # Absent
               PROVE  link'[i] = Applied(i)
    BY <1>9 DEF Converge, host, Applied
  <2>1. pc = "converge" /\ Ahead /\ link' = Relinked(Executable)
    BY <1>9 DEF Converge, Ahead, Planned
  <2>2. i \in Wanted
    BY <1>1, <2>1, ScriptsAreWanted
  <2>3. "wg" \in running
    <3>1. "wg" \in Services /\ AsDefined("wg")
      BY <2>1, ServicesAre DEF ApplyInv, ContainersInv
    <3>2. container["wg"] # NoContainer
      BY <1>2, <3>1, DefinitionType, DesiredIsState DEF AsDefined
    <3> QED BY <1>1, <3>1, <3>2 DEF CalmInv
  <2>4. <<"sync", i>> \in plan.actions => <<"sync", i>> \in Executable
    <3>1. <<"sync", i>> # Reload
      BY DEF Reload
    <3> QED BY <2>3, <3>1 DEF Executable
  <2>5. <<"remove", i>> \notin Executable
    BY <1>1, <2>1, <2>2 DEF ReloadsInv, Executable, Ahead
  <2> QED BY <1>1, <2>1, <2>4, <2>5 DEF Relinked
<1> QED BY <1>3, <1>4, <1>5, <1>6, <1>7, <1>8, <1>9, CalmCases

LEMMA DaemonStep ==
    ASSUME ApplyInv, CalmInv, UnderlayInv, ReloadsInv, DaemonInv, [Next]_vars
    PROVE  DaemonInv'
<1> DEFINE Goal == \/ daemon \in {Absent, disk[BirdConf]}
                   \/ Ahead /\ Reload \in plan.actions
                   \/ pc = "deploy" /\ "bird" \in plan.rebuild
                   \/ pc = "remove" /\ "bird" \in todo
<1> SUFFICES ASSUME faults' = 0 PROVE Goal'
  BY DEF DaemonInv
<1>1. faults = 0 /\ Goal
  BY CalmCases DEF DaemonInv
<1>2. ApplyTypeOK
  BY DEF ApplyInv
<1>3. CASE Beside
  <2>1. daemon' \in {daemon, disk[BirdConf]} /\ UNCHANGED <<disk, pc, plan, todo>>
    BY <1>3 DEF Beside, BirdBoots, ProbeBird, ForeignLeaves, vars, world, round
  <2> QED BY <1>1, <2>1 DEF Ahead, Planned
<1>4. CASE GatewayBoots
  BY <1>1, <1>4 DEF GatewayBoots, host, round, Ahead, Planned
<1>5. CASE \/ (\E d \in DesiredStates : NewDesired(d)) \/ MakePlan(TRUE)
           \/ \E down \in BOOLEAN : Report(TRUE, TRUE, down)
  <2>1. UNCHANGED <<disk, daemon>> /\ pc \in {"idle", "report"}
    BY <1>5 DEF NewDesired, MakePlan, Report, world, host
  <2> QED BY <1>1, <2>1 DEF Ahead, Planned
<1>6. CASE WriteFiles(plan.files)
  <2>1. /\ pc = "write" /\ pc' = "deploy" /\ disk' = Written(plan.files)
        /\ UNCHANGED <<daemon, plan>> /\ Ahead'
    BY <1>6 DEF WriteFiles, Ahead, Planned
  <2>2. BirdConf \notin plan.files => disk'[BirdConf] = disk[BirdConf]
    BY <2>1, PathsOfLinks DEF Written
  <2> QED BY <1>1, <2>1, <2>2 DEF ReloadsInv, Ahead
<1>7. CASE PlanNetwork
  <2>1. UNCHANGED <<disk, daemon, plan>> /\ pc = "deploy" /\ pc' = "remove" /\ Ahead'
    BY <1>7 DEF PlanNetwork, Ahead, Planned, world, host
  <2>2. ASSUME daemon # Absent, "bird" \in plan.rebuild
        PROVE  "bird" \in todo'
    <3>1. container["bird"] # NoContainer
      BY <1>1, <1>2, <2>2 DEF CalmInv, ApplyTypeOK
    <3> QED BY <1>7, <2>2, <3>1 DEF PlanNetwork, Removable
  <2> QED BY <1>1, <2>1, <2>2
<1>8. CASE AllRemoved \/ ApplyNetwork \/ Deployed \/ \E s \in Services : CreateContainer(s)
  <2>1. /\ UNCHANGED <<disk, daemon, plan>> /\ Ahead'
        /\ pc # "deploy" /\ (pc = "remove" => todo = {})
    BY <1>8 DEF AllRemoved, ApplyNetwork, Deployed, CreateContainer, NextToCreate, Ahead, Planned,
       world, host
  <2> QED BY <1>1, <2>1
<1>9. ASSUME NEW s \in Services, RemoveContainer(s)
      PROVE  Goal'
  <2>1. /\ UNCHANGED <<disk, plan, pc>> /\ pc = "remove" /\ Ahead' /\ todo' = todo \ {s}
        /\ daemon' = IF s \in {"netns", "bird"} THEN Absent ELSE daemon
    BY <1>9 DEF RemoveContainer, Ahead, Planned, host
  <2> QED BY <1>1, <2>1
<1>10. CASE Converge(Executable)
  <2>1. pc = "converge" /\ daemon' = Reloaded(Executable) /\ UNCHANGED disk
    BY <1>10 DEF Converge, host
  <2>2. daemon # Absent /\ Reload \in plan.actions => Reload \in Executable
    BY <1>1 DEF CalmInv, Executable
  <2> QED BY <1>1, <2>1, <2>2 DEF Reloaded
<1> QED BY <1>3, <1>4, <1>5, <1>6, <1>7, <1>8, <1>9, <1>10, CalmCases


LoadedInv == ApplyInv /\ CalmInv /\ UnderlayInv /\ ReloadsInv /\ LinksInv /\ DaemonInv

LEMMA LoadedInit ==
    ASSUME Init
    PROVE  LoadedInv
<1>1. ApplyInv
  BY ApplyInit
<1>2. /\ pc = "idle" /\ foreign = FALSE /\ fileErrors = FALSE /\ daemon = Absent
      /\ \A s \in Services : container[s] = NoContainer
      /\ \A i \in Links : disk[<<"script", i>>] = Absent
  BY PathsOfLinks DEF Init
<1>3. "netns" \in Services
  BY ServicesAre
<1> QED BY <1>1, <1>2, <1>3 DEF LoadedInv, CalmInv, UnderlayInv, ReloadsInv, LinksInv, DaemonInv,
        Planned

LEMMA LoadedStep ==
    ASSUME LoadedInv, [Next]_vars
    PROVE  LoadedInv'
  BY ApplyStep, CalmStep, UnderlayStep, ReloadsStep, LinksStep, DaemonStep DEF LoadedInv

(* As long as nothing failed, an apply recorded as succeeded has also      *)
(* loaded what it wrote, whatever states were applied before: the hot      *)
(* reloads build_convergence_plan derives from the changed files and the   *)
(* rebuilt containers are enough for every interface and for BIRD.         *)
THEOREM SuccessIsLoaded == Spec => []SucceededMeansLoaded
<1>1. Init => LoadedInv
  BY LoadedInit
<1>2. LoadedInv /\ [Next]_vars => LoadedInv'
  BY LoadedStep
<1>3. LoadedInv => SucceededMeansLoaded
  <2> SUFFICES ASSUME LoadedInv, Succeeded, faults = 0
               PROVE  /\ \A i \in Wanted : link[i] = Applied(i) /\ disk[<<"script", i>>] # Absent
                      /\ daemon \in {disk[BirdConf], Absent}
    BY DEF SucceededMeansLoaded
  <2>1. Done /\ ~Ahead /\ pc = "idle"
    BY DEF Succeeded, Done, Ahead, Planned
  <2>2. ASSUME NEW i \in Wanted
        PROVE  disk[<<"script", i>>] # Absent
    <3>1. <<"script", i>> \in Paths /\ Relevant(<<"script", i>>)
      BY PathsOfLinks DEF Relevant, Wanted
    <3>2. Current(<<"script", i>>)
      BY <2>1, <3>1 DEF LoadedInv, ApplyInv, FilesInv
    <3> QED BY <3>2 DEF Current, Wanted
  <2>3. \A i \in Wanted : link[i] = Applied(i)
    BY <2>1, <2>2 DEF LoadedInv, LinksInv, Wanted
  <2>4. daemon \in {disk[BirdConf], Absent}
    BY <2>1 DEF LoadedInv, DaemonInv
  <2> QED BY <2>2, <2>3, <2>4
<1> QED BY <1>1, <1>2, <1>3, PTL DEF Spec

=============================================================================
