------------------------------ MODULE Healing ------------------------------
(***************************************************************************)
(* The agent's two runtime repair loops next to its reconcile: the L3      *)
(* healing loop (agent/l3_heal.py, _l3_heal_loop) and the re-resolution of *)
(* WireGuard endpoints (agent/reresolve.py).  All three run commands in    *)
(* the gateway's network namespace at the same time; the apply script of   *)
(* an interface takes a file lock, "ip link del" and "wg set" do not.      *)
(*                                                                         *)
(* A desired state gives every interface the key of its peer, 0 when it    *)
(* has no such interface.  The reconcile is reduced to what the loops meet *)
(* of it (Apply models it in full): it writes files, runs convergence      *)
(* actions and only then replaces the cached state the loops work from.    *)
(***************************************************************************)
EXTENDS Naturals, FiniteSetsExt

CONSTANTS
    Interfaces,     \* managed interfaces: WireGuard and dummy
    Hostnames,      \* interfaces whose peer has a host name as its endpoint
    DesiredStates,  \* [Interfaces -> Nat]: the peer's key, 0: no interface
    Base,           \* l3_heal_interval_seconds
    MaxBackoff,     \* HealCircuit.max_backoff
    Threshold,      \* HealCircuit.threshold
    MaxChanges,     \* bound: how often the desired state changes
    MaxFaults       \* bound on links deleted, daemons killed, endpoints moved

ASSUME HealingAssumption ==
    /\ Hostnames \subseteq Interfaces
    /\ DesiredStates \subseteq [Interfaces -> Nat]
    /\ Base \in Nat /\ MaxBackoff \in Nat /\ Base <= MaxBackoff
    /\ Threshold \in Nat \ {0}
    /\ MaxChanges \in Nat /\ MaxFaults \in Nat

(* Words of this model that are not names of interfaces.                   *)
ASSUME WordsAssumption == Interfaces \cap {"list", "none"} = {}

VARIABLES
    disk,      \* wireguard/<i>.conf and its apply script: key, 0: no file
    list,      \* the interfaces named in apply-all-wg.sh
    cached,    \* the desired-state file the loops read
    up,        \* links in the network namespace
    peers,     \* keys of the peers the kernel has on each link
    stale,     \* links whose peer's last handshake is too old
    bird,      \* the bird daemon answers on its control socket
    broken,    \* the scripts fail, for a reason outside this model
    docker,    \* container_exec reaches the containers
    rec,       \* the reconcile: [pc, want, write, sync, remove]
    heal,      \* the healing round: [pc, expected, todo, ok, drift]
    reset,     \* the re-resolution round: [targets, alone]
    script,    \* conf the script in flight has copied, by who runs it
    circuit,   \* HealCircuit: [failures, escalated]
    wait,      \* what the loop sleeps after the round
    changes, faults,
    streak,    \* history: rounds that ended unrepaired, one after the other
    alerts,    \* history: escalations during this streak
    seen,      \* history: [links, bird] whole at some instant since found broken
    torn       \* history: interfaces whose convergence failed or was overlapped

files == <<disk, list, cached>>
world == <<up, peers, stale, bird, broken, docker>>
history == <<streak, alerts, seen, torn>>
vars == <<files, world, rec, heal, reset, script, circuit, wait, changes, faults, history>>

Runners == {"heal", "rec"}
NoScript == [of |-> "none", key |-> 0]

(* failures and streak: no guard tells larger counts apart.                *)
Saturated == IF Threshold > 7 THEN Threshold ELSE 7

HealingTypeOK ==
    /\ disk \in [Interfaces -> Nat] /\ list \subseteq Interfaces
    /\ cached \in DesiredStates
    /\ up \subseteq Interfaces
    /\ \A i \in Interfaces : peers[i] # {} => i \in up
    /\ stale \subseteq up \cap Hostnames
    /\ bird \in BOOLEAN /\ broken \in BOOLEAN /\ docker \in BOOLEAN
    /\ rec.pc \in {"idle", "write", "converge", "save"}
    /\ rec.want \in DesiredStates
    /\ rec.write \subseteq Interfaces \cup {"list"}
    /\ rec.sync \subseteq Interfaces /\ rec.remove \subseteq Interfaces
    /\ heal.pc \in {"sleep", "probe", "apply", "daemon", "restart", "verify", "record"}
    /\ heal.expected \subseteq Interfaces /\ heal.todo \subseteq Interfaces
    /\ reset.targets \subseteq {t \in Hostnames \X Nat : t[2] # 0}
    /\ \A w \in Runners : script[w] = NoScript \/ script[w].of \in Interfaces
    /\ circuit.failures \in 0..Saturated /\ circuit.escalated \in BOOLEAN
    /\ wait \in Base..MaxBackoff
    /\ changes \in 0..MaxChanges /\ faults \in 0..MaxFaults
    /\ torn \subseteq Interfaces

Fault == faults < MaxFaults /\ faults' = faults + 1

(***************************************************************************)
(* The namespace and the scripts.                                          *)
(***************************************************************************)
(* History: with these links and daemon, what the round looks for is whole.*)
Seen(links, daemon) ==
    seen' = [links |-> seen.links \/ heal.expected \subseteq links,
             bird |-> seen.bird \/ daemon]

DeleteLink(i) ==
    /\ up' = up \ {i}
    /\ peers' = [peers EXCEPT ![i] = {}]
    /\ stale' = stale \ {i}

(* apply-<i>.sh up to the copy of the conf: the lock is taken first.       *)
MayCopyUnlocked(w) == TRUE  \* mutant: the script does not take the lock

MayCopy(w) == \A v \in Runners : script[v] = NoScript

Copy(w, i) ==
    /\ MayCopy(w)
    /\ script[w] = NoScript
    /\ disk[i] # 0
    /\ script' = [script EXCEPT ![w] = [of |-> i, key |-> disk[i]]]

(* The rest of it: create the link, load the copy (which resolves the      *)
(* endpoint anew), drop the lock.                                          *)
Install(w) ==
    LET i == script[w].of IN
    /\ script[w] # NoScript
    /\ ~broken
    /\ up' = up \cup {i}
    /\ peers' = [peers EXCEPT ![i] = {script[w].key}]
    /\ stale' = stale \ {i}
    /\ script' = [script EXCEPT ![w] = NoScript]

(* The script exits with an error before it touches the link, and so does  *)
(* one whose conf is gone.                                                 *)
ScriptFails(w, i) ==
    \/ /\ script[w].of = i
       /\ broken
       /\ script' = [script EXCEPT ![w] = NoScript]
    \/ /\ script[w] = NoScript
       /\ MayCopy(w)
       /\ disk[i] = 0
       /\ UNCHANGED script

(***************************************************************************)
(* The reconcile, as far as the loops meet it.                             *)
(***************************************************************************)
Plan(d) ==
    LET changed == {i \in Interfaces : disk[i] # d[i]} IN
    /\ rec.pc = "idle"
    /\ changes < MaxChanges
    /\ d # cached
    /\ changes' = changes + 1
    /\ rec' = [pc |-> "write", want |-> d, write |-> changed \cup {"list"},
               sync |-> {i \in changed : d[i] # 0},
               remove |-> {i \in changed : d[i] = 0}]
    /\ reset' = [reset EXCEPT !.alone = FALSE]
    /\ UNCHANGED <<files, world, heal, script, circuit, wait, faults, history>>

(* apply_file_plan replaces one file at a time.                            *)
WriteFile(f) ==
    /\ rec.pc = "write"
    /\ f \in rec.write
    /\ IF f = "list"
       THEN /\ list' = {i \in Interfaces : rec.want[i] # 0}
            /\ UNCHANGED disk
       ELSE /\ disk' = [disk EXCEPT ![f] = rec.want[f]]
            /\ UNCHANGED list
    /\ rec' = [rec EXCEPT !.write = @ \ {f},
                          !.pc = IF rec.write = {f} THEN "converge" ELSE @]
    /\ UNCHANGED <<cached, world, heal, reset, script, circuit, wait, changes, faults, history>>

ConvergeCopy(i) ==
    /\ rec.pc = "converge" /\ docker
    /\ i \in rec.sync
    /\ Copy("rec", i)
    /\ UNCHANGED <<files, world, rec, heal, reset, circuit, wait, changes, faults, history>>

(* A loaded interface has the conf on disk: what a race left is gone.      *)
ConvergeInstall ==
    /\ Install("rec")
    /\ rec' = [rec EXCEPT !.sync = @ \ {script["rec"].of}]
    /\ torn' = torn \ {script["rec"].of}
    /\ Seen(up', bird)
    /\ UNCHANGED <<files, bird, broken, docker, heal, reset, circuit, wait,
                   changes, faults, streak, alerts>>

(* ip link del takes no lock: a script that has copied the conf of i goes  *)
(* on and creates the link again.                                          *)
ConvergeRemove(i) ==
    /\ rec.pc = "converge" /\ docker
    /\ script["rec"] = NoScript
    /\ i \in rec.remove
    /\ rec' = [rec EXCEPT !.remove = @ \ {i}]
    /\ DeleteLink(i)
    /\ torn' = IF script["heal"].of = i THEN torn \cup {i} ELSE torn \ {i}
    /\ UNCHANGED <<files, bird, broken, docker, heal, reset, script, circuit, wait,
                   changes, faults, streak, alerts, seen>>

(* A convergence action that fails is not planned again.                   *)
ConvergeFails(i) ==
    /\ rec.pc = "converge"
    /\ i \in rec.sync \cup rec.remove
    /\ IF docker THEN i \in rec.sync /\ ScriptFails("rec", i)
                 ELSE script["rec"] = NoScript /\ UNCHANGED script
    /\ rec' = [rec EXCEPT !.sync = @ \ {i}, !.remove = @ \ {i}]
    /\ torn' = torn \cup {i}
    /\ UNCHANGED <<files, world, heal, reset, circuit, wait, changes, faults,
                   streak, alerts, seen>>

Converged ==
    /\ rec.pc = "converge"
    /\ rec.sync \cup rec.remove = {}
    /\ rec' = [rec EXCEPT !.pc = "save"]
    /\ UNCHANGED <<files, world, heal, reset, script, circuit, wait, changes, faults, history>>

SaveCached ==
    /\ rec.pc = "save"
    /\ cached' = rec.want
    /\ rec' = [rec EXCEPT !.pc = "idle"]
    /\ UNCHANGED <<disk, list, world, heal, reset, script, circuit, wait, changes, faults, history>>

(***************************************************************************)
(* One round of the healing loop (_heal_once, heal_l3_drift).  A command   *)
(* that Docker does not take fails at once; one it has taken runs on.      *)
(***************************************************************************)
(* The sleep ends and the cached state is read.                            *)
StartRound ==
    /\ heal.pc = "sleep"
    /\ heal' = [pc |-> "probe", expected |-> {i \in Interfaces : cached[i] # 0},
                todo |-> {}, ok |-> TRUE, drift |-> {}]
    /\ seen' = [links |-> FALSE, bird |-> FALSE]
    /\ UNCHANGED <<files, world, rec, reset, script, circuit, wait, changes, faults,
                   streak, alerts, torn>>

(* ip -br link show; what is missing makes the round run apply-all-wg.sh,  *)
(* which names the interfaces of the file it is started from.  A probe     *)
(* that does not answer counts as nothing missing.                         *)
ProbeLinks ==
    LET missing == docker /\ ~(heal.expected \subseteq up) IN
    /\ heal.pc = "probe"
    /\ \/ /\ missing /\ docker
          /\ heal' = [heal EXCEPT !.pc = "apply", !.todo = list, !.drift = {"links"}]
       \/ /\ ~missing
          /\ heal' = [heal EXCEPT !.pc = "daemon"]
    /\ UNCHANGED <<files, world, rec, reset, script, circuit, wait, changes, faults, history>>

HealCopy(i) ==
    /\ heal.pc = "apply"
    /\ i \in heal.todo
    /\ Copy("heal", i)
    /\ UNCHANGED <<files, world, rec, heal, reset, circuit, wait, changes, faults, history>>

HealInstall ==
    LET i == script["heal"].of IN
    /\ Install("heal")
    /\ heal' = [heal EXCEPT !.todo = @ \ {i}]
    /\ torn' = IF script["heal"].key = disk[i] THEN torn \ {i} ELSE torn
    /\ Seen(up', bird)
    /\ UNCHANGED <<files, bird, broken, docker, rec, reset, circuit, wait,
                   changes, faults, streak, alerts>>

(* set -e: the first script that fails ends apply-all-wg.sh.               *)
HealScriptFails(i) ==
    /\ heal.pc = "apply"
    /\ i \in heal.todo
    /\ ScriptFails("heal", i)
    /\ heal' = [heal EXCEPT !.todo = {}, !.ok = FALSE]
    /\ UNCHANGED <<files, world, rec, reset, circuit, wait, changes, faults, history>>

(* The second probe; one that does not answer counts as all missing.       *)
StillTrustsExitCode == {}  \* mutant: the script's exit code is taken for the result

Still == IF docker THEN heal.expected \ up ELSE heal.expected

CheckLinks ==
    /\ heal.pc = "apply"
    /\ heal.todo = {}
    /\ heal' = [heal EXCEPT !.pc = "daemon", !.ok = @ /\ Still = {}]
    /\ UNCHANGED <<files, world, rec, reset, script, circuit, wait, changes, faults, history>>

(* birdc show status; a container that cannot be reached is left alone.    *)
ProbeDaemon ==
    /\ heal.pc = "daemon"
    /\ heal' = IF docker /\ ~bird
               THEN [heal EXCEPT !.pc = "restart", !.drift = @ \cup {"bird"}]
               ELSE [heal EXCEPT !.pc = "record"]
    /\ UNCHANGED <<files, world, rec, reset, script, circuit, wait, changes, faults, history>>

(* apply-bird.sh starts the daemon that does not answer.                   *)
RestartDaemonReloads ==  \* mutant: the script only runs birdc configure
    /\ heal.pc = "restart"
    /\ heal' = [heal EXCEPT !.pc = "verify", !.ok = @ /\ docker /\ bird]
    /\ UNCHANGED <<files, world, rec, reset, script, circuit, wait, changes, faults, history>>

RestartDaemon ==
    LET starts == docker /\ ~broken IN
    /\ heal.pc = "restart"
    /\ bird' = (bird \/ starts)
    /\ heal' = [heal EXCEPT !.pc = "verify", !.ok = @ /\ starts]
    /\ Seen({}, bird')
    /\ UNCHANGED <<files, up, peers, stale, broken, docker, rec, reset, script, circuit,
                   wait, changes, faults, streak, alerts, torn>>

VerifyDaemon ==
    /\ heal.pc = "verify"
    /\ heal' = [heal EXCEPT !.pc = "record", !.ok = @ /\ docker /\ bird]
    /\ UNCHANGED <<files, world, rec, reset, script, circuit, wait, changes, faults, history>>

(***************************************************************************)
(* HealCircuit: record and backoff.                                        *)
(***************************************************************************)
Saturate(n) == IF n > Saturated THEN Saturated ELSE n

BackoffUncapped(failures) ==  \* mutant: only the exponent is capped
    IF failures = 0 THEN Base ELSE Base * 2^Min({failures, 6})

Backoff(failures) ==
    IF failures = 0 THEN Base ELSE Min({Base * 2^Min({failures, 6}), MaxBackoff})

(* What record leaves, and whether it returns "escalate".                  *)
EscalatesAgain(failures) == failures >= Threshold  \* mutant: not once per outage

Escalates(failures) == failures >= Threshold /\ ~circuit.escalated

Record ==
    LET good == heal.drift = {} \/ heal.ok
        failures == IF good THEN 0 ELSE Saturate(circuit.failures + 1)
    IN  /\ heal.pc = "record"
        /\ circuit' = [failures |-> failures,
                       escalated |-> ~good /\ (circuit.escalated \/ Escalates(failures))]
        /\ wait' = Backoff(failures)
        /\ heal' = [heal EXCEPT !.pc = "sleep"]
        /\ streak' = IF good THEN 0 ELSE Saturate(streak + 1)
        /\ alerts' = IF good THEN 0
                     ELSE Min({2, alerts + IF Escalates(failures) THEN 1 ELSE 0})
        /\ UNCHANGED <<files, world, rec, reset, script, changes, faults, seen, torn>>

(***************************************************************************)
(* One round of the re-resolution loop (reresolve_and_report).             *)
(***************************************************************************)
(* collect_reresolve_targets and select_stale: a peer the kernel does not  *)
(* have is skipped.                                                        *)
TargetsUnchecked ==  \* mutant: the handshakes do not say whether the peer is there
    {<<i, cached[i]>> : i \in {j \in stale : cached[j] # 0}}

Targets == {<<i, cached[i]>> : i \in {j \in stale : cached[j] # 0 /\ cached[j] \in peers[j]}}

ReadHandshakes ==
    /\ reset.targets = {}
    /\ docker
    /\ Targets # {}
    /\ reset' = [targets |-> Targets,
                 alone |-> rec.pc = "idle" /\ \A w \in Runners : script[w] = NoScript]
    /\ UNCHANGED <<files, world, rec, heal, script, circuit, wait, changes, faults, history>>

(* wg set <i> peer <key> endpoint <name>: a peer that is not there any     *)
(* more is created, without allowed-ips.                                   *)
SetEndpointToAddress(t) ==  \* mutant: the address in use is set again, not the name
    /\ t \in reset.targets
    /\ reset' = [reset EXCEPT !.targets = @ \ {t}]
    /\ UNCHANGED <<files, world, rec, heal, script, circuit, wait, changes, faults, history>>

SetEndpoint(t) ==
    LET i == t[1]
        there == t[2] \in peers[i]
    IN  /\ t \in reset.targets
        /\ reset' = [reset EXCEPT !.targets = @ \ {t}]
        /\ IF docker /\ i \in up
           THEN /\ peers' = [peers EXCEPT ![i] = @ \cup {t[2]}]
                /\ stale' = IF there THEN stale \ {i} ELSE stale
                /\ torn' = IF there THEN torn ELSE torn \cup {i}
           ELSE UNCHANGED <<peers, stale, torn>>
        /\ UNCHANGED <<files, up, bird, broken, docker, rec, heal, script, circuit, wait,
                       changes, faults, streak, alerts, seen>>

(***************************************************************************)
(* What happens to the node.                                               *)
(***************************************************************************)
LinkDeleted(i) ==
    /\ Fault
    /\ i \in up
    /\ DeleteLink(i)
    /\ UNCHANGED <<files, bird, broken, docker, rec, heal, reset, script, circuit, wait,
                   changes, history>>

DaemonDies ==
    /\ Fault
    /\ bird
    /\ bird' = FALSE
    /\ UNCHANGED <<files, up, peers, stale, broken, docker, rec, heal, reset, script, circuit,
                   wait, changes, history>>

(* The peer's address changes: its handshakes stop.                        *)
EndpointMoves(i) ==
    /\ Fault
    /\ i \in (up \cap Hostnames) \ stale
    /\ stale' = stale \cup {i}
    /\ UNCHANGED <<files, up, peers, bird, broken, docker, rec, heal, reset, script, circuit,
                   wait, changes, history>>

HostBreaks ==
    /\ Fault
    /\ \/ ~broken /\ broken' = TRUE /\ UNCHANGED docker
       \/ docker /\ docker' = FALSE /\ UNCHANGED broken
    /\ UNCHANGED <<files, up, peers, stale, bird, rec, heal, reset, script, circuit,
                   wait, changes, history>>

HostMends ==
    /\ broken \/ ~docker
    /\ broken' = FALSE /\ docker' = TRUE
    /\ UNCHANGED <<files, up, peers, stale, bird, rec, heal, reset, script, circuit,
                   wait, changes, faults, history>>

Init ==
    \E d \in DesiredStates :
        /\ disk = d /\ cached = d
        /\ list = {i \in Interfaces : d[i] # 0}
        /\ up = list
        /\ peers = [i \in Interfaces |-> IF d[i] = 0 THEN {} ELSE {d[i]}]
        /\ stale = {} /\ bird = TRUE /\ broken = FALSE /\ docker = TRUE
        /\ rec = [pc |-> "idle", want |-> d, write |-> {}, sync |-> {}, remove |-> {}]
        /\ heal = [pc |-> "sleep", expected |-> {}, todo |-> {}, ok |-> TRUE, drift |-> {}]
        /\ reset = [targets |-> {}, alone |-> FALSE]
        /\ script = [w \in Runners |-> NoScript]
        /\ circuit = [failures |-> 0, escalated |-> FALSE]
        /\ wait = Base
        /\ changes = 0 /\ faults = 0 /\ streak = 0 /\ alerts = 0
        /\ seen = [links |-> FALSE, bird |-> FALSE]
        /\ torn = {}

Reconcile ==
    \/ \E f \in Interfaces \cup {"list"} : WriteFile(f)
    \/ \E i \in Interfaces : ConvergeCopy(i) \/ ConvergeRemove(i) \/ ConvergeFails(i)
    \/ ConvergeInstall \/ Converged \/ SaveCached

Heal ==
    \/ StartRound \/ ProbeLinks \/ HealInstall \/ CheckLinks
    \/ \E i \in Interfaces : HealCopy(i) \/ HealScriptFails(i)
    \/ ProbeDaemon \/ RestartDaemon \/ VerifyDaemon \/ Record

Reresolve == ReadHandshakes \/ \E t \in reset.targets : SetEndpoint(t)

Next ==
    \/ Reconcile \/ Heal \/ Reresolve
    \/ \E d \in DesiredStates : Plan(d)
    \/ \E i \in Interfaces : LinkDeleted(i) \/ EndpointMoves(i)
    \/ DaemonDies \/ HostBreaks \/ HostMends

(* The loops run on a timer, the threads of the pool are scheduled, and a  *)
(* host that fails does not fail for ever.  A script of the reconcile that *)
(* waits in flock gets the lock: the healing loop sleeps without it.       *)
Spec ==
    /\ Init /\ [][Next]_vars
    /\ WF_vars(Reconcile) /\ WF_vars(Heal) /\ WF_vars(Reresolve) /\ WF_vars(HostMends)
    /\ SF_vars(\E i \in Interfaces : ConvergeCopy(i))

(***************************************************************************)
(* Properties.                                                             *)
(***************************************************************************)
(* Whatever the healing loop, the reconcile and the re-resolution do to    *)
(* each other, once the reconcile has ended and no script runs, a link     *)
(* that is up has exactly the peer of its conf: the lock in the apply      *)
(* scripts keeps an older copy from being loaded after a newer one.        *)
(* Excepted are the interfaces in torn: a convergence step on them failed, *)
(* a link was deleted under a script, or wg set came after a key change.   *)
KernelMatchesDisk ==
    rec.pc \in {"idle", "save"} /\ (\A w \in Runners : script[w] = NoScript)
        => \A i \in up \ torn : disk[i] # 0 /\ peers[i] = {disk[i]}

(* A round that says "healed" has not taken a script's exit code for it:   *)
(* since it found the drift there was an instant at which every interface  *)
(* it expects was present, and one at which the daemon ran.                *)
HealedMeansSeen ==
    heal.pc = "record" /\ heal.ok =>
        /\ "links" \in heal.drift => seen.links
        /\ "bird" \in heal.drift => seen.bird

(* The circuit is open exactly while Threshold or more rounds in a row     *)
(* have failed, one alert is given for such an outage, and the sleep grows *)
(* to MaxBackoff and no further.                                           *)
OneAlertPerOutage ==
    /\ circuit.escalated <=> streak >= Threshold
    /\ alerts = IF streak >= Threshold THEN 1 ELSE 0
    /\ Base <= wait /\ wait <= MaxBackoff
    /\ streak > 0 /\ heal.pc = "sleep" => wait >= Min({2 * Base, MaxBackoff})

(* "Never adds a peer": a wg set of the re-resolution creates a peer only  *)
(* if a reconcile, or a script that an earlier one overtook, was at work   *)
(* since the handshakes were read.                                         *)
ResetAddsNoPeer ==
    [][\A t \in reset.targets :
          SetEndpoint(t) /\ reset.alone => peers'[t[1]] = peers[t[1]]]_vars

(* When nothing breaks any more, every interface of the cached state is    *)
(* there again and the daemon runs, however the repair was interrupted or  *)
(* failed, and the circuit is closed: also for the convergence steps the   *)
(* reconcile lost and does not plan again.                                 *)
DriftIsHealed ==
    <>[](/\ \A i \in Interfaces : cached[i] # 0 => i \in up
         /\ bird
         /\ circuit = [failures |-> 0, escalated |-> FALSE])

(* A peer that has moved is followed, unless the kernel's peer is not the  *)
(* cached one because a convergence step was lost.                         *)
EndpointIsFollowed ==
    \A i \in Hostnames : i \in stale ~> (i \notin stale \/ i \in torn)

=============================================================================
