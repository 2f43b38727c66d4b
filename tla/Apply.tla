------------------------------- MODULE Apply -------------------------------
(***************************************************************************)
(* One reconcile of the node agent (mode "apply") from the fetched state   *)
(* to its report: plan files, containers and hot reloads from what is      *)
(* observed, write the files, deploy network and containers, run the       *)
(* reloads, observe again and report, each step of which may fail or be    *)
(* cut off by a crash of the agent.                                        *)
(*                                                                         *)
(* A version stands for contents and 0 for "absent".  A WireGuard          *)
(* interface has two files, its conf and its apply script, a dummy one     *)
(* only the script.                                                        *)
(***************************************************************************)
EXTENDS Naturals, FiniteSets

CONSTANTS
    Interfaces,     \* WireGuard interfaces the node may have
    DesiredStates,  \* states the control plane may hand out
    MaxChanges,     \* bound: how often the desired state changes
    MaxFaults       \* bound on failures, crashes and containers that die

Absent == 0
Anycast == "dns-anycast"
Links == Interfaces \cup {Anycast}
BirdConf == <<"bird", "bird.conf">>
Paths == ({"conf"} \X Interfaces) \cup ({"script"} \X Links) \cup {BirdConf}
Core == {"netns", "wg", "bird"}
Services == Core \cup {"dns"}

(* The IPAM of the underlay network: v6 is optional.                       *)
Ipams == [v4 : Nat, v6 : Nat]
NoNet == [v4 |-> 0, v6 |-> 0]

(* What the agent is handed: version counts the definitions of a service,  *)
(* dns says whether a DNS group is assigned.                               *)
States == [iface : [Interfaces -> Nat], bird : Nat \ {0}, dns : BOOLEAN,
           version : [Core -> Nat \ {0}], net : Ipams \ {NoNet}]

ASSUME DesiredStatesAssumption ==
    /\ Anycast \notin Interfaces
    /\ DesiredStates \subseteq States
    /\ MaxChanges \in Nat /\ MaxFaults \in Nat

(***************************************************************************)
(* What a state asks for.                                                  *)
(***************************************************************************)
(* _normalize_dns_runtime: CoreDNS is there while a group is assigned.     *)
Enabled(d) == Core \cup (IF d.dns THEN {"dns"} ELSE {})

(* depends_on and network_mode, transitively, among the enabled services.  *)
Above(s) == CASE s = "netns" -> {}
              [] s = "wg" -> {"netns"}
              [] s \in {"bird", "dns"} -> {"netns", "wg"}

(* _normalize_dns_anycast: the dummy interface of the service addresses,   *)
(* which bird.conf tracks.                                                 *)
AnycastScript(d) == IF d.dns THEN 1 ELSE Absent

(* render_desired_state.                                                   *)
Rendered(d) ==
    [p \in Paths |->
        CASE p = BirdConf -> 2 * d.bird + AnycastScript(d)
          [] p[1] = "script" /\ p[2] = Anycast -> AnycastScript(d)
          [] OTHER -> d.iface[p[2]]]

(* _build_definition: its hash is the container's dn42.config_hash label.  *)
(* Only netns is attached to the underlay, whose IPAM is in the payload.   *)
NetworkSectionNameOnly(d, s) == NoNet  \* mutant: the IPAM is not in the payload

NetworkSection(d, s) == IF s = "netns" THEN d.net ELSE NoNet

Definition(d, s) ==
    [version |-> IF s = "dns" THEN 1 ELSE d.version[s], net |-> NetworkSection(d, s)]

NoContainer == [version |-> 0, net |-> NoNet]

VARIABLES
    desired,     \* the state this reconcile applies
    disk,        \* rendered_dir
    network,     \* IPAM of the underlay network
    foreign,     \* a container of somebody else is attached to it
    container,   \* definition each container was created from
    running,     \* services whose container is running
    dangling,    \* services whose container refers to a removed netns container
    key,         \* the node key is in the wg container's run directory
    booting,     \* services whose container has not run its start script yet
    link,        \* conf and script each kernel interface was set up from
    daemon,      \* the configuration bird has loaded, Absent: no daemon
    health,      \* Docker's health status of the bird container
    pc,          \* idle, write, deploy, remove, network, create, converge, report
    plan,        \* ReconcilePlan
    netAction,   \* keep, create or recreate
    todo,        \* services deploy still has to remove or create
    fileErrors,  \* ApplyOutcome.errors is not empty
    status,      \* ApplyStatus of the last reconcile, "none": not applied yet
    report,      \* the last ReconciliationReport
    changes, faults

host == <<disk, network, foreign>>
boxes == <<container, running, dangling, key, booting, health>>
world == <<host, boxes, link, daemon>>
round == <<pc, plan, netAction, todo, fileErrors, status, report>>
vars == <<desired, world, round, changes, faults>>

Reload == <<"reload", "bird">>
Actions == ({"sync", "remove"} \X Links) \cup {Reload}

Plans == [files : SUBSET Paths, rebuild : SUBSET Services, orphans : SUBSET Services,
          actions : SUBSET Actions]
NoPlan == [files |-> {}, rebuild |-> {}, orphans |-> {}, actions |-> {}]

NoLink == <<Absent, Absent>>

Statuses == {"none", "succeeded", "failed", "degraded"}
Reports == [status : Statuses, warnings : SUBSET (Services \cup {"wireguard", "bgp"})]
NoReport == [status |-> "none", warnings |-> {}]

ApplyTypeOK ==
    /\ desired \in DesiredStates
    /\ disk \in [Paths -> Nat]
    /\ network \in Ipams
    /\ foreign \in BOOLEAN
    /\ container \in [Services -> [version : Nat, net : Ipams]]
    /\ running \subseteq {s \in Services : container[s] # NoContainer}
    /\ dangling \subseteq {s \in Services : container[s] # NoContainer}
    /\ key \in BOOLEAN
    /\ booting \subseteq running
    /\ link \in [Links -> Nat \X Nat]
    /\ daemon \in Nat
    /\ health \in {"starting", "healthy", "unhealthy"}
    /\ pc \in {"idle", "write", "deploy", "remove", "network", "create", "converge",
               "report"}
    /\ plan \in Plans
    /\ netAction \in {"none", "keep", "create", "recreate"}
    /\ todo \subseteq plan.rebuild \cup plan.orphans
    /\ fileErrors \in BOOLEAN
    /\ status \in Statuses
    /\ report \in Reports
    /\ changes \in 0..MaxChanges
    /\ faults \in 0..MaxFaults

Fault == faults < MaxFaults /\ faults' = faults + 1

(***************************************************************************)
(* Planning (planner/).                                                    *)
(***************************************************************************)
(* _scan_orphans: only under a top directory this state renders into, so   *)
(* the conf of the last WireGuard interface stays.                         *)
OrphanFiles ==
    {p \in Paths : /\ disk[p] # Absent
                   /\ Rendered(desired)[p] = Absent
                   /\ p[1] = "conf" => \E i \in Interfaces : desired.iface[i] # Absent}

(* create, update and (prune) delete; everything else is noop.             *)
ChangedFiles ==
    {p \in Paths : Rendered(desired)[p] \notin {Absent, disk[p]}} \cup OrphanFiles

(* _parse_health: a probe that has not answered yet counts as failing.     *)
(* Only bird has one.                                                      *)
ProbeFails(s) == s = "bird" /\ health \in {"unhealthy", "starting"}

(* _decide_action: missing, other hash, not running, or a failing liveness *)
(* probe.  When the Docker API does not answer (~seen), no container is    *)
(* observed.                                                               *)
Drifted(seen) ==
    {s \in Enabled(desired) : \/ ~seen
                              \/ container[s] # Definition(desired, s)
                              \/ s \notin running
                              \/ ProbeFails(s)}

(* _propagate_dependencies: whoever depends on a rebuilt one is rebuilt.   *)
RebuiltDriftedOnly(seen) == Drifted(seen)  \* mutant: no propagation

Rebuilt(seen) ==
    {s \in Enabled(desired) : ({s} \cup Above(s)) \cap Drifted(seen) # {}}

(* Managed containers the state does not ask for (any more).               *)
OrphanContainers(seen) ==
    {s \in Services \ Enabled(desired) : seen /\ container[s] # NoContainer}

(* _bird_files_changed and no rebuilt bird.                                *)
ReloadActions(seen) ==
    IF BirdConf \in ChangedFiles /\ "bird" \notin Rebuilt(seen) THEN {Reload} ELSE {}

(* _changed_wg_interfaces, _changed_dummy_interfaces: what has a file      *)
(* written is synced, what has one deleted is removed.                     *)
Wanted == {i \in Links : Rendered(desired)[<<"script", i>>] # Absent}
Touched == {p[2] : p \in ChangedFiles \ {BirdConf}}

RemoveTargets == Touched \ Wanted

(* A rebuilt gateway or netns brings up every interface.                   *)
BringUpAll(seen) == Rebuilt(seen) \cap {"netns", "wg"} # {}

SyncTargetsTrustBoot(seen) ==  \* mutant: a rebuilt gateway is left to its start script
    IF BringUpAll(seen) THEN {} ELSE Touched \cap Wanted

SyncTargets(seen) == IF BringUpAll(seen) THEN Wanted ELSE Touched \cap Wanted

(* build_convergence_plan.                                                 *)
ConvergencePlan(seen) ==
    ReloadActions(seen)
        \cup ({"sync"} \X SyncTargets(seen))
        \cup (IF BringUpAll(seen) THEN {} ELSE {"remove"} \X RemoveTargets)

MakePlan(seen) ==
    /\ pc = "idle"
    /\ plan' = [files |-> ChangedFiles, rebuild |-> Rebuilt(seen),
                orphans |-> OrphanContainers(seen), actions |-> ConvergencePlan(seen)]
    /\ pc' = "write"
    /\ report' = NoReport
    /\ UNCHANGED <<desired, world, netAction, todo, fileErrors, status, changes>>

(* The control plane publishes another state before the next reconcile.    *)
NewDesired(d) ==
    /\ pc = "idle"
    /\ changes < MaxChanges
    /\ d # desired
    /\ desired' = d
    /\ changes' = changes + 1
    /\ status' = "none"
    /\ report' = NoReport
    /\ UNCHANGED <<world, pc, plan, netAction, todo, fileErrors, faults>>

(***************************************************************************)
(* Execution (_execute).                                                   *)
(***************************************************************************)
Finish(result) ==
    /\ pc' = "report"
    /\ status' = result
    /\ plan' = NoPlan
    /\ netAction' = "none"
    /\ todo' = {}
    /\ fileErrors' = FALSE
    /\ UNCHANGED <<desired, report, changes>>

Written(done) ==
    [p \in Paths |-> IF p \in done THEN Rendered(desired)[p] ELSE disk[p]]

(* execute_file_plan: a file that cannot be written is noted, the others   *)
(* are still written, and deploy is still called.                          *)
WriteFiles(done) ==
    /\ pc = "write"
    /\ done \subseteq plan.files
    /\ IF done = plan.files THEN UNCHANGED faults ELSE Fault
    /\ disk' = Written(done)
    /\ fileErrors' = (done # plan.files)
    /\ pc' = "deploy"
    /\ UNCHANGED <<desired, network, foreign, boxes, link, daemon, plan, netAction, todo,
                   status, report, changes>>

(* _network_matches: v6 is compared only when it is wanted.                *)
NetworkMatches ==
    network.v4 = desired.net.v4 /\ desired.net.v6 \in {0, network.v6}

(* _attached_container_names: endpoints are those of running containers.   *)
Attached == (running \cap {"netns"}) \cup (IF foreign THEN {"foreign"} ELSE {})
Removable == plan.orphans \cup plan.rebuild

(* plan_underlay_network, once the images are there, before any container  *)
(* is touched.                                                             *)
PlanNetwork ==
    /\ pc = "deploy"
    /\ network = NoNet \/ NetworkMatches \/ Attached \subseteq Removable
    /\ netAction' = IF network = NoNet THEN "create"
                    ELSE IF NetworkMatches THEN "keep" ELSE "recreate"
    /\ pc' = "remove"
    /\ todo' = {s \in Removable : container[s] # NoContainer}
    /\ UNCHANGED <<desired, world, plan, fileErrors, status, report, changes, faults>>

NetworkRefused ==
    /\ pc = "deploy"
    /\ network # NoNet
    /\ ~NetworkMatches
    /\ ~(Attached \subseteq Removable)
    /\ UNCHANGED <<world, faults>>
    /\ Finish("failed")

(* deploy: remove the orphans, then what is rebuilt, dependents first ...  *)
RemoveContainer(s) ==
    /\ pc = "remove"
    /\ s \in todo
    /\ todo \cap plan.orphans \subseteq {s}
    /\ \A t \in todo : s \notin Above(t)
    /\ todo' = todo \ {s}
    /\ container' = [container EXCEPT ![s] = NoContainer]
    /\ running' = running \ {s}
    /\ booting' = booting \ {s}
    /\ dangling' = IF s = "netns"
                   THEN {t \in Services \ {s} : container[t] # NoContainer}
                   ELSE dangling \ {s}
    /\ key' = (key /\ s # "wg")
    /\ link' = IF s = "netns" THEN [i \in Links |-> NoLink] ELSE link
    /\ daemon' = IF s \in {"netns", "bird"} THEN Absent ELSE daemon
    /\ health' = IF s = "bird" THEN "starting" ELSE health
    /\ UNCHANGED <<desired, host, pc, plan, netAction, fileErrors, status, report,
                   changes, faults>>

AllRemoved ==
    /\ pc = "remove"
    /\ todo = {}
    /\ pc' = "network"
    /\ UNCHANGED <<desired, world, plan, netAction, todo, fileErrors, status, report,
                   changes, faults>>

(* ... apply_underlay_network_plan: unless somebody attached meanwhile ... *)
ApplyNetworkCreateAll ==  \* mutant: deploy starts every service, not only the planned ones
    /\ pc = "network"
    /\ netAction = "recreate" => Attached = {}
    /\ network' = IF netAction = "keep" THEN network ELSE desired.net
    /\ pc' = "create"
    /\ todo' = Enabled(desired)
    /\ UNCHANGED <<desired, disk, foreign, boxes, link, daemon, plan, netAction,
                   fileErrors, status, report, changes, faults>>

ApplyNetwork ==
    /\ pc = "network"
    /\ netAction = "recreate" => Attached = {}
    /\ network' = IF netAction = "keep" THEN network ELSE desired.net
    /\ pc' = "create"
    /\ todo' = plan.rebuild
    /\ UNCHANGED <<desired, disk, foreign, boxes, link, daemon, plan, netAction,
                   fileErrors, status, report, changes, faults>>

StillAttached ==
    /\ pc = "network"
    /\ netAction = "recreate"
    /\ Attached # {}
    /\ UNCHANGED <<world, faults>>
    /\ Finish("failed")

(* ... then create and start it in topological order.                      *)
NextToCreate(s) == pc = "create" /\ s \in todo /\ Above(s) \cap todo = {}

(* build_create_kwargs: what the step's definition says, and its hash.     *)
Created(s) == [container EXCEPT ![s] = Definition(desired, s)]

CreateContainer(s) ==
    /\ NextToCreate(s)
    /\ todo' = todo \ {s}
    /\ container' = Created(s)
    /\ running' = running \cup {s}
    /\ booting' = booting \cup ({s} \cap {"wg", "bird"})
    /\ UNCHANGED <<desired, host, dangling, key, link, daemon, health, pc, plan,
                   netAction, fileErrors, status, report, changes, faults>>

(* create_container worked, start did not.                                 *)
StartFails(s) ==
    /\ NextToCreate(s)
    /\ Fault
    /\ container' = Created(s)
    /\ UNCHANGED <<host, running, dangling, key, booting, link, daemon, health>>
    /\ Finish("failed")

(* An image that cannot be built or pulled, or any exception of the Docker *)
(* API, ends deploy where it is.                                           *)
DeployFails ==
    /\ pc \in {"deploy", "remove", "network"} \/ (pc = "create" /\ todo # {})
    /\ Fault
    /\ UNCHANGED world
    /\ Finish("failed")

(* Deployed: with file errors the reconcile has failed; otherwise the key  *)
(* is pushed and the convergence plan runs.                                *)
Deployed ==
    /\ pc = "create"
    /\ todo = {}
    /\ ~fileErrors
    /\ key' = TRUE
    /\ pc' = "converge"
    /\ UNCHANGED <<desired, host, container, running, dangling, booting, link, daemon,
                   health, plan, netAction, todo, fileErrors, status, report, changes,
                   faults>>

DeployedWithErrors ==
    /\ pc = "create"
    /\ todo = {}
    /\ fileErrors
    /\ UNCHANGED <<world, faults>>
    /\ Finish("failed")

(* An exec works only in a container that runs; birdc needs the daemon,    *)
(* ip link del the link.                                                   *)
Executable ==
    {a \in plan.actions : IF a = Reload THEN "bird" \in running /\ daemon # Absent
                          ELSE "wg" \in running /\ (a[1] = "remove" => link[a[2]] # NoLink)}

(* What apply-<name>.sh sets an interface up from.                         *)
Applied(i) == <<IF i = Anycast THEN Absent ELSE disk[<<"conf", i>>], disk[<<"script", i>>]>>

Reloaded(done) == IF Reload \in done THEN disk[BirdConf] ELSE daemon
Relinked(done) ==
    [i \in Links |-> IF <<"sync", i>> \in done THEN Applied(i)
                     ELSE IF <<"remove", i>> \in done THEN NoLink ELSE link[i]]

(* execute_convergence_plan tries every action; done are those that worked.*)
Converge(done) ==
    /\ pc = "converge"
    /\ done \subseteq Executable
    /\ IF done = Executable THEN UNCHANGED faults ELSE Fault
    /\ daemon' = Reloaded(done)
    /\ link' = Relinked(done)
    /\ UNCHANGED <<host, boxes>>
    /\ Finish(IF done = plan.actions THEN "succeeded" ELSE "failed")

(* The agent dies in the middle of a reconcile.                            *)
Crash ==
    /\ pc # "idle"
    /\ Fault
    /\ \/ /\ pc = "write"
          /\ \E done \in SUBSET plan.files : disk' = Written(done)
          /\ UNCHANGED <<link, daemon>>
       \/ /\ pc = "converge"
          /\ \E done \in SUBSET Executable :
                daemon' = Reloaded(done) /\ link' = Relinked(done)
          /\ UNCHANGED disk
       \/ UNCHANGED <<disk, link, daemon>>
    /\ pc' = "idle"
    /\ status' = "none"
    /\ plan' = NoPlan
    /\ netAction' = "none"
    /\ todo' = {}
    /\ fileErrors' = FALSE
    /\ report' = NoReport
    /\ UNCHANGED <<desired, network, foreign, boxes, changes>>

(***************************************************************************)
(* Observation and report (collectors/, health/reconcile.py).              *)
(***************************************************************************)
(* observe_project: without an answer of Docker, no container.             *)
Observed(seen) == {s \in Services : seen /\ container[s] # NoContainer}

(* _build_network_observers, _observe_wireguard, _observe_bgp: a dimension *)
(* nobody can be asked about, one that does not answer, or what it says.   *)
Observation(seen, answers) ==
    IF Observed(seen) = {} THEN "not_observed"
    ELSE IF answers THEN "observed" ELSE "unavailable"

(* wg show all dump in the gateway, birdc show protocols in bird.          *)
WireGuardDump == {i \in Interfaces : link[i] # NoLink}
BirdAnswers == "bird" \in running /\ daemon # Absent

(* build_runtime_snapshot.                                                 *)
Snapshot(seen, wgAnswers) ==
    [containers |-> Observed(seen),
     wireguard |-> Observation(seen, "wg" \in running /\ wgAnswers),
     bgp |-> Observation(seen, BirdAnswers)]

(* _collect_container_drift.                                               *)
MissingContainers(snapshot) == Enabled(desired) \ (snapshot.containers \cap running)

OddContainers(snapshot) ==
    {s \in snapshot.containers : \/ s \notin Enabled(desired)
                                 \/ s \in running /\ container[s] # Definition(desired, s)}

WireGuardWanted == {i \in Interfaces : desired.iface[i] # Absent}

(* _collect_wireguard_drift: the critical part, and the warning.           *)
MissingLinksUnlessNone(snapshot) ==  \* mutant: an empty answer is taken for no answer
    IF snapshot.wireguard = "observed" /\ WireGuardDump # {}
    THEN WireGuardWanted \ WireGuardDump ELSE {}

MissingLinks(snapshot) ==
    IF snapshot.wireguard = "observed" THEN WireGuardWanted \ WireGuardDump ELSE {}

Unconfirmed(snapshot) ==
    IF snapshot.wireguard = "unavailable" /\ WireGuardWanted # {} THEN {"wireguard"} ELSE {}

(* _collect_bgp_drift: down is some enabled session not Established.       *)
BgpDrift(snapshot, down) ==
    IF snapshot.bgp = "unavailable" \/ (snapshot.bgp = "observed" /\ down)
    THEN {"bgp"} ELSE {}

(* build_reconciliation_report: only a critical item changes the status.   *)
Report(seen, wgAnswers, down) ==
    LET snapshot == Snapshot(seen, wgAnswers)
        critical == MissingContainers(snapshot) \cup MissingLinks(snapshot)
    IN  /\ pc = "report"
        /\ IF seen /\ wgAnswers THEN UNCHANGED faults ELSE Fault
        /\ report' = [status |-> IF critical # {} /\ status = "succeeded"
                                 THEN "degraded" ELSE status,
                      warnings |-> OddContainers(snapshot) \cup Unconfirmed(snapshot)
                                      \cup BgpDrift(snapshot, down)]
        /\ pc' = "idle"
        /\ UNCHANGED <<desired, world, plan, netAction, todo, fileErrors, status, changes>>

(***************************************************************************)
(* The containers themselves.                                              *)
(***************************************************************************)

(* start-wg-gateway.sh: wait for the key, then run every apply script.     *)
GatewayBoots ==
    /\ "wg" \in booting
    /\ key
    /\ booting' = booting \ {"wg"}
    /\ link' = [i \in Links |-> IF disk[<<"script", i>>] # Absent
                                THEN Applied(i) ELSE link[i]]
    /\ UNCHANGED <<desired, host, container, running, dangling, key, daemon, health,
                   round, changes, faults>>

(* start-bird-router.sh: wait for the interfaces, then start the daemon.   *)
BirdBoots ==
    /\ "bird" \in booting
    /\ disk[BirdConf] # Absent
    /\ \A i \in Links : disk[<<"script", i>>] # Absent => link[i] # NoLink
    /\ booting' = booting \ {"bird"}
    /\ daemon' = disk[BirdConf]
    /\ UNCHANGED <<desired, host, container, running, dangling, key, link, health,
                   round, changes, faults>>

ContainerDies(s) ==
    /\ Fault
    /\ s \in running
    /\ running' = running \ {s}
    /\ booting' = booting \ {s}
    /\ daemon' = IF s = "bird" THEN Absent ELSE daemon
    /\ UNCHANGED <<desired, host, container, dangling, key, link, health, round, changes>>

(* The daemon dies in a container that keeps running (sleep infinity).     *)
BirdDaemonDies ==
    /\ Fault
    /\ "bird" \in running
    /\ daemon # Absent
    /\ daemon' = Absent
    /\ UNCHANGED <<desired, host, boxes, link, round, changes>>

(* Docker runs the health check, "birdc show status", now and then.        *)
ProbeBird ==
    /\ "bird" \in running
    /\ health' = IF daemon # Absent THEN "healthy" ELSE "unhealthy"
    /\ UNCHANGED <<desired, host, container, running, dangling, key, booting, link,
                   daemon, round, changes, faults>>

(* Somebody attaches a container of theirs to the underlay, or takes it    *)
(* away again.                                                             *)
ForeignAttaches ==
    /\ Fault
    /\ ~foreign
    /\ network # NoNet
    /\ foreign' = TRUE
    /\ UNCHANGED <<desired, disk, network, boxes, link, daemon, round, changes>>

ForeignLeaves ==
    /\ foreign
    /\ foreign' = FALSE
    /\ UNCHANGED <<desired, disk, network, boxes, link, daemon, round, changes, faults>>

-----------------------------------------------------------------------------
Init ==
    /\ desired \in DesiredStates
    /\ disk = [p \in Paths |-> Absent]
    /\ network = NoNet
    /\ foreign = FALSE
    /\ container = [s \in Services |-> NoContainer]
    /\ running = {}
    /\ dangling = {}
    /\ key = FALSE
    /\ booting = {}
    /\ link = [i \in Links |-> NoLink]
    /\ daemon = Absent
    /\ health = "starting"
    /\ pc = "idle"
    /\ plan = NoPlan
    /\ netAction = "none"
    /\ todo = {}
    /\ fileErrors = FALSE
    /\ status = "none"
    /\ report = NoReport
    /\ changes = 0
    /\ faults = 0

Deploy ==
    \/ PlanNetwork
    \/ NetworkRefused
    \/ AllRemoved
    \/ ApplyNetwork
    \/ StillAttached
    \/ \E s \in Services : RemoveContainer(s) \/ CreateContainer(s)
    \/ Deployed
    \/ DeployedWithErrors

Reconcile ==
    \/ MakePlan(TRUE) /\ UNCHANGED faults
    \/ WriteFiles(plan.files)
    \/ Deploy
    \/ Converge(Executable)
    \/ \E down \in BOOLEAN : Report(TRUE, TRUE, down)

Failures ==
    \/ MakePlan(FALSE) /\ Fault
    \/ \E done \in (SUBSET plan.files) \ {plan.files} : WriteFiles(done)
    \/ \E s \in Services : StartFails(s) \/ ContainerDies(s)
    \/ DeployFails
    \/ BirdDaemonDies
    \/ ForeignAttaches
    \/ \E done \in (SUBSET Executable) \ {Executable} : Converge(done)
    \/ \E down \in BOOLEAN : Report(FALSE, TRUE, down) \/ Report(TRUE, FALSE, down)
    \/ Crash

Next ==
    \/ \E d \in DesiredStates : NewDesired(d)
    \/ Reconcile
    \/ Failures
    \/ GatewayBoots
    \/ BirdBoots
    \/ ProbeBird
    \/ ForeignLeaves

Spec == Init /\ [][Next]_vars

(* watch keeps starting reconciles and run_once runs to its end.           *)
FairSpec == Spec /\ WF_vars(Reconcile)

-----------------------------------------------------------------------------
(***************************************************************************)
(* Properties.                                                             *)
(***************************************************************************)
Succeeded == pc = "idle" /\ status = "succeeded"

(* Whatever failed, crashed or died before, an apply recorded as succeeded *)
(* leaves every rendered file on disk and no script of an interface that   *)
(* went, the underlay as the state has it, and every container created     *)
(* from the state's definition, those of the router none attached to the   *)
(* network namespace of a container that is gone.                          *)
SucceededMeansDeployed ==
    Succeeded => /\ \A p \in Paths : p[1] # "conf" \/ p[2] \in Wanted
                                        => disk[p] = Rendered(desired)[p]
                 /\ NetworkMatches
                 /\ \A s \in Enabled(desired) : container[s] = Definition(desired, s)
                 /\ dangling \cap Core = {}

(* Without failures the plans are complete: every interface and the BIRD   *)
(* configuration the state asks for is loaded when an apply has succeeded  *)
(* (a daemon still starting will read the file on disk).                   *)
SucceededMeansLoaded ==
    Succeeded /\ faults = 0 =>
        /\ \A i \in Wanted : link[i] = Applied(i) /\ disk[<<"script", i>>] # Absent
        /\ daemon \in {disk[BirdConf], Absent}

(* A hot reload that was lost (its reconcile failed or was cut off, and    *)
(* the next one sees unchanged files) is not reported as a healthy node    *)
(* when the interface is missing: a report that says succeeded, warns of   *)
(* no container and could ask WireGuard means that the state's tunnels     *)
(* exist and no container the state does not ask for is left.              *)
CleanReportIsTrue ==
    pc = "idle" /\ report.status = "succeeded" /\ report.warnings \subseteq {"bgp"} =>
        /\ \A i \in WireGuardWanted : link[i] # NoLink
        /\ OrphanContainers(TRUE) = {}

(* No history of changes, failures and crashes leaves the agent failing    *)
(* every reconcile or a withdrawn service running: once they end and       *)
(* nobody else holds on to the underlay, reconciles succeed.               *)
Settles ==
    <>[]~foreign => <>[](pc = "idle" => status = "succeeded" /\ OrphanContainers(TRUE) = {})
=============================================================================
