--------------------------- MODULE HealingProofs ---------------------------
(***************************************************************************)
(* What holds of the repair loops for every set of interfaces, every       *)
(* sequence of desired states and faults, and every threshold.             *)
(***************************************************************************)
EXTENDS Healing, TLAPS

(***************************************************************************)
(* Types, in the form the steps need them.                                 *)
(***************************************************************************)
Scripts == [of : Interfaces \cup {"none"}, key : Nat]
Rounds == [pc : {"sleep", "probe", "apply", "daemon", "restart", "verify", "record"},
           expected : SUBSET Interfaces, todo : SUBSET Interfaces, ok : BOOLEAN,
           drift : SUBSET {"links", "bird"}]
Reconciles == [pc : {"idle", "write", "converge", "save"}, want : DesiredStates,
               write : SUBSET (Interfaces \cup {"list"}),
               sync : SUBSET Interfaces, remove : SUBSET Interfaces]
Resets == [targets : SUBSET {t \in Hostnames \X Nat : t[2] # 0}, alone : BOOLEAN]
Circuits == [failures : 0..Saturated, escalated : BOOLEAN]

FilesOK ==
    /\ disk \in [Interfaces -> Nat] /\ list \subseteq Interfaces
    /\ cached \in DesiredStates

WorldOK ==
    /\ up \subseteq Interfaces
    /\ peers \in [Interfaces -> SUBSET Nat]
    /\ \A i \in Interfaces : peers[i] # {} => i \in up
    /\ stale \subseteq up \cap Hostnames
    /\ bird \in BOOLEAN /\ broken \in BOOLEAN /\ docker \in BOOLEAN

LoopsOK ==
    /\ rec \in Reconciles
    /\ heal \in Rounds
    /\ reset \in Resets
    /\ script \in [Runners -> Scripts]
    /\ \A w \in Runners : script[w] = NoScript \/ script[w].of \in Interfaces

CountersOK ==
    /\ circuit \in Circuits
    /\ wait \in Base..MaxBackoff
    /\ changes \in 0..MaxChanges /\ faults \in 0..MaxFaults
    /\ streak \in 0..Saturated /\ alerts \in 0..2
    /\ seen \in [links : BOOLEAN, bird : BOOLEAN]
    /\ torn \subseteq Interfaces

Types == FilesOK /\ WorldOK /\ LoopsOK /\ CountersOK

LEMMA TypesImplyTypeOK == Types => HealingTypeOK
BY DEF Types, FilesOK, WorldOK, LoopsOK, CountersOK, HealingTypeOK, Rounds, Reconciles,
       Resets, Circuits

(***************************************************************************)
(* Arithmetic of the back-off.                                             *)
(***************************************************************************)
LEMMA MinOfTwo ==
    ASSUME NEW x \in Nat, NEW y \in Nat
    PROVE  Min({x, y}) = IF x <= y THEN x ELSE y
BY DEF Min

(* The first failure at least doubles the sleep; MaxBackoff is its limit.  *)
LEMMA BackoffBounds ==
    ASSUME NEW n \in Nat
    PROVE  /\ Backoff(n) \in Base..MaxBackoff
           /\ n > 0 => Backoff(n) >= Min({2 * Base, MaxBackoff})
<1> USE HealingAssumption
<1>1. CASE n = 0
  BY <1>1 DEF Backoff
<1>2. CASE n > 0
  <2> DEFINE k == Min({n, 6})
  <2>1. k \in 1..6
    BY <1>2, MinOfTwo
  <2>2. 2^1 = 2 /\ 2^2 = 4 /\ 2^3 = 8 /\ 2^4 = 16 /\ 2^5 = 32 /\ 2^6 = 64
    OBVIOUS
  <2>3. Base * 2^k \in Nat /\ Base * 2^k >= 2 * Base
    <3>1. 2^k \in {2, 4, 8, 16, 32, 64}
      <4>1. k = 1 \/ k = 2 \/ k = 3 \/ k = 4 \/ k = 5 \/ k = 6
        BY <2>1
      <4> HIDE DEF k
      <4>2. CASE k = 1
        BY <2>2, <4>2
      <4>3. CASE k = 2
        BY <2>2, <4>3
      <4>4. CASE k = 3
        BY <2>2, <4>4
      <4>5. CASE k = 4
        BY <2>2, <4>5
      <4>6. CASE k = 5
        BY <2>2, <4>6
      <4>7. CASE k = 6
        BY <2>2, <4>7
      <4> QED
        BY <4>1, <4>2, <4>3, <4>4, <4>5, <4>6, <4>7
    <3> DEFINE p == 2^k
    <3>2. p \in {2, 4, 8, 16, 32, 64}
      BY <3>1
    <3> HIDE DEF p
    <3>3. Base * p \in Nat /\ Base * p >= 2 * Base
      <4>1. CASE p = 2
        BY <4>1
      <4>2. CASE p = 4
        BY <4>2
      <4>3. CASE p = 8
        BY <4>3
      <4>4. CASE p = 16
        BY <4>4
      <4>5. CASE p = 32
        BY <4>5
      <4>6. CASE p = 64
        BY <4>6
      <4> QED BY <3>2, <4>1, <4>2, <4>3, <4>4, <4>5, <4>6
    <3> QED
      BY <3>3 DEF p
  <2>4. Backoff(n) = Min({Base * 2^k, MaxBackoff})
    BY <1>2 DEF Backoff
  <2> DEFINE b == Base * 2^k
  <2>5. b \in Nat /\ b >= 2 * Base /\ Backoff(n) = Min({b, MaxBackoff})
    BY <2>3, <2>4
  <2> HIDE DEF b
  <2>6. 2 * Base \in Nat
    OBVIOUS
  <2> QED
    BY <2>5, <2>6, MinOfTwo
<1> QED
  BY <1>1, <1>2

(***************************************************************************)
(* Every step keeps the types.                                             *)
(***************************************************************************)
LEMMA TypesInit == Init => Types
<1> SUFFICES ASSUME Init PROVE Types
  OBVIOUS
<1> USE HealingAssumption
<1>1. PICK d \in DesiredStates :
        /\ disk = d /\ cached = d
        /\ list = {i \in Interfaces : d[i] # 0}
        /\ up = list
        /\ peers = [i \in Interfaces |-> IF d[i] = 0 THEN {} ELSE {d[i]}]
        /\ stale = {} /\ bird = TRUE /\ broken = FALSE /\ docker = TRUE
        /\ rec = [pc |-> "idle", want |-> d, write |-> {}, sync |-> {}, remove |-> {}]
        /\ heal = [pc |-> "sleep", expected |-> {}, todo |-> {}, ok |-> TRUE, drift |-> {}]
        /\ reset = [targets |-> {}, alone |-> FALSE]
        /\ script = [w \in Runners |-> NoScript]
        /\ circuit = [failures |-> 0, escalated |-> FALSE]
        /\ wait = Base
        /\ changes = 0 /\ faults = 0 /\ streak = 0 /\ alerts = 0
        /\ seen = [links |-> FALSE, bird |-> FALSE]
        /\ torn = {}
  BY DEF Init
<1>2. FilesOK
  BY <1>1 DEF FilesOK
<1>3. WorldOK
  <2>1. d \in [Interfaces -> Nat]
    OBVIOUS
  <2> QED
    BY <1>1, <2>1 DEF WorldOK
<1>4. LoopsOK
  <2>1. rec \in Reconciles /\ heal \in Rounds /\ reset \in Resets
    BY <1>1 DEF Reconciles, Rounds, Resets
  <2>2. NoScript \in Scripts
    BY DEF NoScript, Scripts
  <2> QED
    BY <1>1, <2>1, <2>2 DEF LoopsOK
<1>5. CountersOK
  BY <1>1 DEF CountersOK, Circuits, Saturated
<1> QED
  BY <1>2, <1>3, <1>4, <1>5 DEF Types

(* The scripts.                                                            *)
LEMMA CopyTypes ==
    ASSUME Types, NEW w \in Runners, NEW i \in Interfaces, Copy(w, i)
    PROVE  /\ script' \in [Runners -> Scripts]
           /\ \A v \in Runners : script'[v] = NoScript \/ script'[v].of \in Interfaces
<1>1. [of |-> i, key |-> disk[i]] \in Scripts
  BY DEF Types, FilesOK, Scripts
<1> QED
  BY <1>1 DEF Copy, Types, LoopsOK

LEMMA FreedTypes ==
    ASSUME Types, NEW w \in Runners, script' = [script EXCEPT ![w] = NoScript]
    PROVE  /\ script' \in [Runners -> Scripts]
           /\ \A v \in Runners : script'[v] = NoScript \/ script'[v].of \in Interfaces
<1>1. NoScript \in Scripts
  BY DEF NoScript, Scripts
<1> QED
  BY <1>1 DEF Types, LoopsOK

LEMMA InstallTypes ==
    ASSUME Types, NEW w \in Runners, Install(w), UNCHANGED <<bird, broken, docker>>
    PROVE  /\ WorldOK'
           /\ script[w].of \in Interfaces
           /\ script' \in [Runners -> Scripts]
           /\ \A v \in Runners : script'[v] = NoScript \/ script'[v].of \in Interfaces
<1>1. script[w].of \in Interfaces /\ script[w].key \in Nat
  BY DEF Install, Types, LoopsOK, Scripts
<1>2. script' = [script EXCEPT ![w] = NoScript]
  BY DEF Install
<1>3. WorldOK'
  BY <1>1 DEF Install, Types, WorldOK
<1> QED
  BY <1>1, <1>2, <1>3, FreedTypes

LEMMA DeleteLinkTypes ==
    ASSUME Types, NEW i \in Interfaces, DeleteLink(i), UNCHANGED <<bird, broken, docker>>
    PROVE  WorldOK'
BY DEF DeleteLink, Types, WorldOK

LEMMA SeenTypes ==
    ASSUME Types, NEW links, NEW daemon \in BOOLEAN, Seen(links, daemon)
    PROVE  seen' \in [links : BOOLEAN, bird : BOOLEAN]
<1>1. (seen.links \/ heal.expected \subseteq links) \in BOOLEAN /\ (seen.bird \/ daemon) \in BOOLEAN
  OBVIOUS
<1> QED
  BY <1>1, Zenon DEF Seen

LEMMA TypesStep == Types /\ [Next]_vars => Types'
<1> SUFFICES ASSUME Types, [Next]_vars PROVE Types'
  OBVIOUS
<1> USE HealingAssumption
<1> USE DEF files, world, history, Runners
<1>1. CASE \E f \in Interfaces \cup {"list"} : WriteFile(f)
  <2>1. PICK f \in Interfaces \cup {"list"} : WriteFile(f)
    BY <1>1
  <2>2. FilesOK'
    BY <2>1 DEF WriteFile, Types, FilesOK, LoopsOK, Reconciles
  <2>3. rec' \in Reconciles
    BY <2>1, Zenon DEF WriteFile, Types, LoopsOK, Reconciles
  <2> QED
    BY <2>1, <2>2, <2>3 DEF WriteFile, Types, WorldOK, LoopsOK, CountersOK
<1>2. ASSUME NEW i \in Interfaces, ConvergeCopy(i) PROVE Types'
  BY <1>2, CopyTypes DEF ConvergeCopy, Types, FilesOK, WorldOK, LoopsOK, CountersOK
<1>3. ASSUME NEW i \in Interfaces, ConvergeRemove(i) PROVE Types'
  <2>1. WorldOK'
    BY <1>3, DeleteLinkTypes DEF ConvergeRemove
  <2>2. rec' \in Reconciles
    BY <1>3 DEF ConvergeRemove, Types, LoopsOK, Reconciles
  <2>3. torn' \subseteq Interfaces
    BY <1>3 DEF ConvergeRemove, Types, CountersOK
  <2> QED
    BY <1>3, <2>1, <2>2, <2>3 DEF ConvergeRemove, Types, FilesOK, LoopsOK, CountersOK
<1>4. ASSUME NEW i \in Interfaces, ConvergeFails(i) PROVE Types'
  <2>1. /\ script' \in [Runners -> Scripts]
        /\ \A v \in Runners : script'[v] = NoScript \/ script'[v].of \in Interfaces
    BY <1>4, FreedTypes DEF ConvergeFails, ScriptFails, Types, LoopsOK
  <2>2. rec' \in Reconciles
    BY <1>4 DEF ConvergeFails, Types, LoopsOK, Reconciles
  <2> QED
    BY <1>4, <2>1, <2>2 DEF ConvergeFails, Types, FilesOK, WorldOK, LoopsOK, CountersOK
<1>5. CASE ConvergeInstall
  <2>1. /\ WorldOK' /\ script["rec"].of \in Interfaces
        /\ script' \in [Runners -> Scripts]
        /\ \A v \in Runners : script'[v] = NoScript \/ script'[v].of \in Interfaces
    BY <1>5, InstallTypes DEF ConvergeInstall
  <2>2. rec' \in Reconciles
    BY <1>5 DEF ConvergeInstall, Types, LoopsOK, Reconciles
  <2>3. seen' \in [links : BOOLEAN, bird : BOOLEAN]
    BY <1>5, SeenTypes DEF ConvergeInstall, Types, WorldOK
  <2> QED
    BY <1>5, <2>1, <2>2, <2>3 DEF ConvergeInstall, Types, FilesOK, LoopsOK, CountersOK
<1>6. CASE Converged \/ SaveCached
  <2>1. rec' \in Reconciles
    BY <1>6 DEF Converged, SaveCached, Types, LoopsOK, Reconciles
  <2>2. FilesOK'
    BY <1>6 DEF Converged, SaveCached, Types, LoopsOK, Reconciles, FilesOK
  <2> QED
    BY <1>6, <2>1, <2>2 DEF Converged, SaveCached, Types, WorldOK, LoopsOK, CountersOK
<1>7. ASSUME NEW d \in DesiredStates, Plan(d) PROVE Types'
  <2>1. rec' \in Reconciles
    BY <1>7 DEF Plan, Types, LoopsOK, Reconciles
  <2>2. reset' \in Resets
    BY <1>7 DEF Plan, Types, LoopsOK, Resets
  <2> QED
    BY <1>7, <2>1, <2>2 DEF Plan, Types, FilesOK, WorldOK, LoopsOK, CountersOK
<1>8. CASE StartRound \/ ProbeLinks \/ CheckLinks \/ ProbeDaemon \/ VerifyDaemon
  <2>1. heal' \in Rounds
    <3>1. CASE StartRound
      BY <3>1 DEF StartRound, Rounds
    <3>2. CASE ProbeLinks
      <4>1. heal \in Rounds /\ list \in SUBSET Interfaces
        BY DEF Types, FilesOK, LoopsOK
      <4>2. PICK drift : drift \in SUBSET {"links", "bird"} /\ drift = {"links"}
        OBVIOUS
      <4>3. \/ heal' = [heal EXCEPT !.pc = "apply", !.todo = list, !.drift = drift]
            \/ heal' = [heal EXCEPT !.pc = "daemon"]
        BY <3>2, <4>2 DEF ProbeLinks
      <4>4. CASE heal' = [heal EXCEPT !.pc = "daemon"]
        BY <4>1, <4>4 DEF Rounds
      <4>5. CASE heal' = [heal EXCEPT !.pc = "apply", !.todo = list, !.drift = drift]
        <5>1. [heal EXCEPT !.pc = "apply"] \in Rounds
          BY <4>1 DEF Rounds
        <5>2. [[heal EXCEPT !.pc = "apply"] EXCEPT !.todo = list] \in Rounds
          BY <4>1, <5>1 DEF Rounds
        <5>3. [[[heal EXCEPT !.pc = "apply"] EXCEPT !.todo = list] EXCEPT !.drift = drift]
                \in Rounds
          BY <4>2, <5>2 DEF Rounds
        <5> QED BY <4>5, <5>3
      <4> QED BY <4>3, <4>4, <4>5
    <3>3. CASE CheckLinks
      BY <3>3, Zenon DEF CheckLinks, Types, LoopsOK, Rounds
    <3>4. CASE ProbeDaemon
      BY <3>4 DEF ProbeDaemon, Types, LoopsOK, Rounds
    <3>5. CASE VerifyDaemon
      BY <3>5 DEF VerifyDaemon, Types, LoopsOK, Rounds
    <3> QED
      BY <1>8, <3>1, <3>2, <3>3, <3>4, <3>5
  <2>2. CASE StartRound
    BY <2>1, <2>2 DEF StartRound, Types, FilesOK, WorldOK, LoopsOK, CountersOK
  <2>3. CASE ProbeLinks \/ CheckLinks \/ ProbeDaemon \/ VerifyDaemon
    BY <2>1, <2>3 DEF ProbeLinks, CheckLinks, ProbeDaemon, VerifyDaemon, Types, FilesOK,
                      WorldOK, LoopsOK, CountersOK
  <2> QED
    BY <1>8, <2>2, <2>3
<1>9. ASSUME NEW i \in Interfaces, HealCopy(i) PROVE Types'
  BY <1>9, CopyTypes DEF HealCopy, Types, FilesOK, WorldOK, LoopsOK, CountersOK
<1>10. ASSUME NEW i \in Interfaces, HealScriptFails(i) PROVE Types'
  <2>1. /\ script' \in [Runners -> Scripts]
        /\ \A v \in Runners : script'[v] = NoScript \/ script'[v].of \in Interfaces
    BY <1>10, FreedTypes DEF HealScriptFails, ScriptFails, Types, LoopsOK
  <2>2. heal' \in Rounds
    BY <1>10 DEF HealScriptFails, Types, LoopsOK, Rounds
  <2> QED
    BY <1>10, <2>1, <2>2 DEF HealScriptFails, Types, FilesOK, WorldOK, LoopsOK, CountersOK
<1>11. CASE HealInstall
  <2>1. /\ WorldOK' /\ script["heal"].of \in Interfaces
        /\ script' \in [Runners -> Scripts]
        /\ \A v \in Runners : script'[v] = NoScript \/ script'[v].of \in Interfaces
    BY <1>11, InstallTypes DEF HealInstall
  <2>2. heal' \in Rounds
    BY <1>11 DEF HealInstall, Types, LoopsOK, Rounds
  <2>3. seen' \in [links : BOOLEAN, bird : BOOLEAN]
    BY <1>11, SeenTypes DEF HealInstall, Types, WorldOK
  <2>4. torn' \subseteq Interfaces
    BY <1>11 DEF HealInstall, Types, CountersOK
  <2> QED
    BY <1>11, <2>1, <2>2, <2>3, <2>4 DEF HealInstall, Types, FilesOK, LoopsOK, CountersOK
<1>12. CASE RestartDaemon
  <2>1. bird' \in BOOLEAN
    BY <1>12 DEF RestartDaemon, Types, WorldOK
  <2>2. seen' \in [links : BOOLEAN, bird : BOOLEAN]
    BY <1>12, <2>1, SeenTypes DEF RestartDaemon
  <2>3. heal' \in Rounds
    BY <1>12 DEF RestartDaemon, Types, LoopsOK, Rounds
  <2> QED
    BY <1>12, <2>1, <2>2, <2>3 DEF RestartDaemon, Types, FilesOK, WorldOK, LoopsOK, CountersOK
<1>13. CASE Record
  <2> DEFINE good == heal.drift = {} \/ heal.ok
             failures == IF good THEN 0 ELSE Saturate(circuit.failures + 1)
  <2>1. /\ failures \in 0..Saturated /\ failures \in Nat
        /\ (IF good THEN 0 ELSE Saturate(streak + 1)) \in 0..Saturated
    BY DEF Types, CountersOK, Circuits, Saturate, Saturated
  <2>2. wait' \in Base..MaxBackoff
    BY <1>13, <2>1, BackoffBounds DEF Record
  <2>3. alerts' \in 0..2
    <3>1. \A n \in Nat : Min({2, n}) \in 0..2
      BY MinOfTwo
    <3>2. alerts + (IF Escalates(failures) THEN 1 ELSE 0) \in Nat
      BY DEF Types, CountersOK
    <3> QED
      BY <1>13, <3>1, <3>2 DEF Record
  <2>4. circuit' \in Circuits
    <3>1. (~good /\ (circuit.escalated \/ Escalates(failures))) \in BOOLEAN
      OBVIOUS
    <3>2. circuit' = [failures |-> failures,
                      escalated |-> ~good /\ (circuit.escalated \/ Escalates(failures))]
      BY <1>13 DEF Record
    <3> HIDE DEF good, failures
    <3> QED
      BY <2>1, <3>1, <3>2, Zenon DEF Circuits
  <2>5. heal' \in Rounds
    BY <1>13 DEF Record, Types, LoopsOK, Rounds
  <2>6. streak' \in 0..Saturated
    BY <1>13, <2>1 DEF Record
  <2> HIDE DEF good, failures
  <2> QED
    BY <1>13, <2>2, <2>3, <2>4, <2>5, <2>6 DEF Record, Types, FilesOK, WorldOK, LoopsOK, CountersOK
<1>14. CASE ReadHandshakes
  <2>1. Targets \in SUBSET {t \in Hostnames \X Nat : t[2] # 0}
    BY DEF Targets, Types, FilesOK, WorldOK
  <2>2. reset' \in Resets
    <3>1. (rec.pc = "idle" /\ \A w \in Runners : script[w] = NoScript) \in BOOLEAN
      OBVIOUS
    <3> QED
      BY <1>14, <2>1, <3>1, Zenon DEF ReadHandshakes, Resets
  <2> QED
    BY <1>14, <2>2 DEF ReadHandshakes, Types, FilesOK, WorldOK, LoopsOK, CountersOK
<1>15. ASSUME NEW t \in reset.targets, SetEndpoint(t) PROVE Types'
  <2>1. t[1] \in Interfaces /\ t[1] \in Hostnames /\ t[2] \in Nat
    BY DEF Types, LoopsOK, Resets
  <2>2. reset' \in Resets
    BY <1>15 DEF SetEndpoint, Types, LoopsOK, Resets
  <2>3. WorldOK'
    BY <1>15, <2>1 DEF SetEndpoint, Types, WorldOK
  <2>4. torn' \subseteq Interfaces
    BY <1>15, <2>1 DEF SetEndpoint, Types, CountersOK
  <2> QED
    BY <1>15, <2>2, <2>3, <2>4 DEF SetEndpoint, Types, FilesOK, LoopsOK, CountersOK
<1>16. ASSUME NEW i \in Interfaces, LinkDeleted(i) PROVE Types'
  <2>1. WorldOK'
    BY <1>16, DeleteLinkTypes DEF LinkDeleted
  <2> QED
    BY <1>16, <2>1 DEF LinkDeleted, Fault, Types, FilesOK, LoopsOK, CountersOK
<1>17. ASSUME NEW i \in Interfaces, EndpointMoves(i) PROVE Types'
  BY <1>17 DEF EndpointMoves, Fault, Types, FilesOK, WorldOK, LoopsOK, CountersOK
<1>18. CASE DaemonDies \/ HostBreaks \/ HostMends
  <2>1. WorldOK'
    <3>1. CASE DaemonDies
      BY <3>1 DEF DaemonDies, Types, WorldOK
    <3>2. CASE HostBreaks
      BY <3>2 DEF HostBreaks, Types, WorldOK
    <3>3. CASE HostMends
      BY <3>3 DEF HostMends, Types, WorldOK
    <3> QED
      BY <1>18, <3>1, <3>2, <3>3
  <2> QED
    BY <1>18, <2>1 DEF DaemonDies, HostBreaks, HostMends, Fault, Types, FilesOK, LoopsOK,
                       CountersOK
<1>19. CASE UNCHANGED vars
  BY <1>19 DEF vars, Types, FilesOK, WorldOK, LoopsOK, CountersOK
<1> QED
  BY <1>1, <1>2, <1>3, <1>4, <1>5, <1>6, <1>7, <1>8, <1>9, <1>10, <1>11, <1>12, <1>13, <1>14,
     <1>15, <1>16, <1>17, <1>18, <1>19 DEF Next, Reconcile, Heal, Reresolve

(* Every state of the reconcile, the two repair loops and the namespace is *)
(* well typed: the sleep of the healing loop stays between its interval    *)
(* and its limit, whatever fails (HealCircuit.backoff).                    *)
THEOREM HealingTypeCorrect == Spec => []HealingTypeOK
<1>1. Spec => []Types
  BY TypesInit, TypesStep, PTL DEF Spec
<1> QED
  BY <1>1, TypesImplyTypeOK, PTL

(***************************************************************************)
(* The kernel and the files.                                               *)
(***************************************************************************)
(* The file lock: one script at a time.                                    *)
OneScript ==
    script["heal"] = NoScript \/ script["rec"] = NoScript

(* What is left of a reconcile: a file that is to be written is followed   *)
(* by a convergence step, and the phases come in order.                    *)
PhasesInv ==
    /\ rec.write \subseteq rec.sync \cup rec.remove \cup {"list"}
    /\ rec.pc # "write" => rec.write = {}
    /\ rec.pc \in {"idle", "save"} => rec.sync = {} /\ rec.remove = {}

(* A script of the reconcile has copied what is on disk; no script copies  *)
(* a conf that is not there.                                               *)
ScriptInv ==
    /\ script["rec"] # NoScript =>
          /\ rec.pc = "converge" /\ script["rec"].of \in rec.sync
          /\ script["rec"].key = disk[script["rec"].of]
    /\ \A w \in Runners : script[w] # NoScript => script[w].key # 0

(* An interface on which the reconcile has nothing left to do and that no  *)
(* race has touched: a link has the peer on disk, a script will load it.   *)
Pending == rec.sync \cup rec.remove

AgreeInv ==
    \A i \in Interfaces \ (Pending \cup torn) :
        /\ i \in up => disk[i] # 0 /\ peers[i] = {disk[i]}
        /\ \A w \in Runners : script[w].of = i => script[w].key = disk[i]

KernelInv == OneScript /\ PhasesInv /\ ScriptInv /\ AgreeInv

LEMMA KernelInit == Init => KernelInv
<1> SUFFICES ASSUME Init PROVE KernelInv
  OBVIOUS
<1> USE HealingAssumption, WordsAssumption
<1> USE DEF NoScript, Runners
<1>1. OneScript /\ PhasesInv /\ ScriptInv
  BY DEF Init, OneScript, PhasesInv, ScriptInv
<1>2. AgreeInv
  BY DEF Init, AgreeInv, Pending
<1> QED
  BY <1>1, <1>2 DEF KernelInv

LEMMA KernelStep == Types /\ KernelInv /\ [Next]_vars => KernelInv'
<1> SUFFICES ASSUME Types, KernelInv, [Next]_vars PROVE KernelInv'
  OBVIOUS
<1> USE HealingAssumption, WordsAssumption
<1> USE DEF files, world, history, Runners
<1>0. /\ disk \in [Interfaces -> Nat] /\ up \subseteq Interfaces
      /\ peers \in [Interfaces -> SUBSET Nat]
      /\ rec \in Reconciles /\ script \in [Runners -> Scripts]
      /\ \A w \in Runners : script[w] = NoScript \/ script[w].of \in Interfaces
      /\ torn \subseteq Interfaces
  BY DEF Types, FilesOK, WorldOK, LoopsOK, CountersOK
<1>00. OneScript /\ PhasesInv /\ ScriptInv /\ AgreeInv
  BY DEF KernelInv
<1>1. ASSUME NEW f \in Interfaces \cup {"list"}, WriteFile(f) PROVE KernelInv'
  <2>1. OneScript'
    BY <1>1, <1>00 DEF WriteFile, OneScript
  <2>2. PhasesInv'
    BY <1>0, <1>1, <1>00 DEF WriteFile, PhasesInv, Reconciles
  <2>3. rec'.sync = rec.sync /\ rec'.remove = rec.remove
    BY <1>0, <1>1 DEF WriteFile, Reconciles
  <2>4. f = "list" \/ f \in Pending
    BY <1>1, <1>00 DEF WriteFile, PhasesInv, Pending
  <2>5. ScriptInv'
    BY <1>0, <1>1, <1>00 DEF WriteFile, ScriptInv
  <2>6. AgreeInv'
    BY <1>0, <1>1, <1>00, <2>3, <2>4 DEF WriteFile, AgreeInv, Pending
  <2> QED
    BY <2>1, <2>2, <2>5, <2>6 DEF KernelInv
<1>2. ASSUME NEW i \in Interfaces, ConvergeCopy(i) PROVE KernelInv'
  BY <1>0, <1>00, <1>2 DEF ConvergeCopy, Copy, MayCopy, KernelInv, OneScript, PhasesInv, ScriptInv, AgreeInv,
                           Pending, NoScript
<1>3. ASSUME NEW i \in Interfaces, ConvergeRemove(i) PROVE KernelInv'
  <2>1. rec' \in Reconciles /\ rec'.sync = rec.sync /\ rec'.remove = rec.remove \ {i} /\ rec'.pc = rec.pc /\ rec'.write = rec.write
    BY <1>0, <1>3 DEF ConvergeRemove, Reconciles
  <2>2. OneScript' /\ PhasesInv' /\ ScriptInv'
    BY <1>0, <1>00, <1>3, <2>1 DEF ConvergeRemove, OneScript, PhasesInv, ScriptInv
  <2>3. AgreeInv'
    BY <1>0, <1>00, <1>3, <2>1 DEF ConvergeRemove, DeleteLink, AgreeInv, Pending, NoScript
  <2> QED
    BY <2>2, <2>3 DEF KernelInv
<1>4. ASSUME NEW i \in Interfaces, ConvergeFails(i) PROVE KernelInv'
  <2>1. rec' \in Reconciles /\ rec'.sync = rec.sync \ {i} /\ rec'.remove = rec.remove \ {i} /\ rec'.pc = rec.pc /\ rec'.write = rec.write
    BY <1>0, <1>4 DEF ConvergeFails, Reconciles
  <2>2. \/ script'["rec"] = NoScript /\ script'["heal"] = script["heal"]
    BY <1>0, <1>00, <1>4 DEF ConvergeFails, ScriptFails
  <2>3. OneScript' /\ PhasesInv' /\ ScriptInv'
    BY <1>0, <1>00, <1>4, <2>1, <2>2 DEF ConvergeFails, OneScript, PhasesInv, ScriptInv
  <2>4. AgreeInv'
    BY <1>0, <1>00, <1>4, <2>1, <2>2 DEF ConvergeFails, AgreeInv, Pending, NoScript
  <2> QED
    BY <2>3, <2>4 DEF KernelInv
<1>5. CASE ConvergeInstall
  <2> DEFINE i == script["rec"].of
  <2>1. rec' \in Reconciles /\ rec'.sync = rec.sync \ {i} /\ rec'.remove = rec.remove /\ rec'.pc = rec.pc /\ rec'.write = rec.write
    BY <1>0, <1>5 DEF ConvergeInstall, Reconciles
  <2>2. /\ i \in Interfaces /\ script["rec"].key = disk[i] /\ disk[i] # 0
        /\ script["heal"] = NoScript /\ script'["heal"] = NoScript /\ script'["rec"] = NoScript
        /\ rec.pc = "converge"
    BY <1>0, <1>00, <1>5 DEF ConvergeInstall, Install, OneScript, ScriptInv
  <2>3. OneScript' /\ PhasesInv' /\ ScriptInv'
    BY <1>0, <1>00, <1>5, <2>1, <2>2 DEF ConvergeInstall, OneScript, PhasesInv, ScriptInv
  <2>4. AgreeInv'
    BY <1>0, <1>00, <1>5, <2>1, <2>2 DEF ConvergeInstall, Install, AgreeInv, Pending, NoScript
  <2> QED
    BY <2>3, <2>4 DEF KernelInv
<1>6. CASE Converged \/ SaveCached
  <2>1. rec'.sync = rec.sync /\ rec'.remove = rec.remove /\ rec'.write = rec.write
    BY <1>0, <1>6 DEF Converged, SaveCached, Reconciles
  <2>2. OneScript' /\ AgreeInv'
    BY <1>0, <1>00, <1>6, <2>1 DEF Converged, SaveCached, OneScript, AgreeInv, Pending
  <2>3. PhasesInv' /\ ScriptInv'
    <3>1. CASE Converged
      BY <1>0, <1>00, <3>1, <2>1 DEF Converged, PhasesInv, ScriptInv, Reconciles
    <3>2. CASE SaveCached
      BY <1>0, <1>00, <3>2, <2>1 DEF SaveCached, PhasesInv, ScriptInv, Reconciles
    <3> QED
      BY <1>6, <3>1, <3>2
  <2> QED
    BY <2>2, <2>3 DEF KernelInv
<1>7. ASSUME NEW d \in DesiredStates, Plan(d) PROVE KernelInv'
  BY <1>0, <1>00, <1>7 DEF Plan, KernelInv, OneScript, PhasesInv, ScriptInv, AgreeInv, Pending
<1>8. ASSUME NEW i \in Interfaces, HealCopy(i) PROVE KernelInv'
  BY <1>0, <1>00, <1>8 DEF HealCopy, Copy, MayCopy, KernelInv, OneScript, PhasesInv, ScriptInv, AgreeInv,
                           Pending, NoScript
<1>9. ASSUME NEW i \in Interfaces, HealScriptFails(i) PROVE KernelInv'
  <2>1. script'["heal"] = NoScript /\ script'["rec"] = script["rec"]
    BY <1>0, <1>9 DEF HealScriptFails, ScriptFails
  <2> QED
    BY <1>0, <1>00, <1>9, <2>1 DEF HealScriptFails, KernelInv, OneScript, PhasesInv, ScriptInv, AgreeInv,
                                   Pending, NoScript
<1>10. CASE HealInstall
  <2> DEFINE i == script["heal"].of
  <2>1. /\ i \in Interfaces /\ script["heal"].key # 0
        /\ script["rec"] = NoScript /\ script'["heal"] = NoScript /\ script'["rec"] = NoScript
    BY <1>0, <1>00, <1>10 DEF HealInstall, Install, OneScript, ScriptInv
  <2>2. OneScript' /\ PhasesInv' /\ ScriptInv'
    BY <1>0, <1>00, <1>10, <2>1 DEF HealInstall, OneScript, PhasesInv, ScriptInv
  <2>3. AgreeInv'
    BY <1>0, <1>00, <1>10, <2>1 DEF HealInstall, Install, AgreeInv, Pending, NoScript
  <2> QED
    BY <2>2, <2>3 DEF KernelInv
<1>11. CASE StartRound \/ ProbeLinks \/ CheckLinks \/ ProbeDaemon \/ RestartDaemon \/ VerifyDaemon
            \/ Record \/ ReadHandshakes \/ DaemonDies \/ HostBreaks \/ HostMends
            \/ (\E i \in Interfaces : EndpointMoves(i)) \/ UNCHANGED vars
  <2>1. UNCHANGED <<disk, up, peers, rec, script, torn>>
    BY <1>11 DEF StartRound, ProbeLinks, CheckLinks, ProbeDaemon, RestartDaemon, VerifyDaemon, Record,
                 ReadHandshakes, DaemonDies, HostBreaks, HostMends, EndpointMoves, vars
  <2> QED
    BY <1>00, <2>1 DEF KernelInv, OneScript, PhasesInv, ScriptInv, AgreeInv, Pending
<1>12. ASSUME NEW t \in reset.targets, SetEndpoint(t) PROVE KernelInv'
  <2>1. t[1] \in Interfaces
    BY DEF Types, LoopsOK, Resets
  <2>2. OneScript' /\ PhasesInv' /\ ScriptInv'
    BY <1>00, <1>12 DEF SetEndpoint, OneScript, PhasesInv, ScriptInv
  <2>3. AgreeInv'
    BY <1>0, <1>00, <1>12, <2>1 DEF SetEndpoint, AgreeInv, Pending
  <2> QED
    BY <2>2, <2>3 DEF KernelInv
<1>13. ASSUME NEW i \in Interfaces, LinkDeleted(i) PROVE KernelInv'
  BY <1>0, <1>00, <1>13 DEF LinkDeleted, DeleteLink, KernelInv, OneScript, PhasesInv, ScriptInv, AgreeInv,
                            Pending
<1> QED
  BY <1>1, <1>2, <1>3, <1>4, <1>5, <1>6, <1>7, <1>8, <1>9, <1>10, <1>11, <1>12, <1>13
     DEF Next, Reconcile, Heal, Reresolve

(* Whatever the healing loop, the reconcile and the re-resolution do to    *)
(* each other, a link that is up after the reconcile has exactly the peer  *)
(* of its conf, unless a convergence step on it failed or was overlapped:  *)
(* for any number of interfaces, changes and faults, the flock of the      *)
(* apply scripts is what keeps an older copy from being loaded last.       *)
THEOREM KernelAgrees == Spec => []KernelMatchesDisk
<1>1. Types /\ KernelInv => KernelMatchesDisk
  BY DEF Types, WorldOK, KernelInv, PhasesInv, AgreeInv, Pending, KernelMatchesDisk
<1>2. Spec => [](Types /\ KernelInv)
  BY TypesInit, TypesStep, KernelInit, KernelStep, PTL DEF Spec
<1> QED
  BY <1>1, <1>2, PTL

(***************************************************************************)
(* A repair that is said to have worked.                                   *)
(***************************************************************************)
After == {"daemon", "restart", "verify", "record"}

(* Once all links were missing one, they are complete only after a script  *)
(* made them so, and then seen says it; the daemon likewise.               *)
SeenInv ==
    /\ heal.pc = "probe" => heal.drift = {}
    /\ heal.pc \in {"apply", "daemon"} => "bird" \notin heal.drift
    /\ heal.pc = "apply" /\ heal.expected \subseteq up => seen.links
    /\ heal.pc \in After /\ heal.ok /\ "links" \in heal.drift => seen.links
    /\ heal.pc \in {"verify", "record"} /\ heal.ok /\ "bird" \in heal.drift => seen.bird

LEMMA SeenInit == Init => SeenInv
BY DEF Init, SeenInv, After

LEMMA SeenStep == Types /\ SeenInv /\ [Next]_vars => SeenInv'
<1> SUFFICES ASSUME Types, SeenInv, [Next]_vars PROVE SeenInv'
  OBVIOUS
<1> USE DEF files, world, history
<1>0. /\ heal \in Rounds /\ seen \in [links : BOOLEAN, bird : BOOLEAN] /\ up \subseteq Interfaces
      /\ bird \in BOOLEAN /\ docker \in BOOLEAN /\ broken \in BOOLEAN
  BY DEF Types, LoopsOK, CountersOK, WorldOK
<1>1. CASE StartRound
  BY <1>1 DEF StartRound, SeenInv, After
<1>2. CASE ProbeLinks
  <2>1. heal.drift = {}
    BY <1>2 DEF ProbeLinks, SeenInv
  <2>2. ASSUME ~(heal.expected \subseteq up),
               heal' = [heal EXCEPT !.pc = "apply", !.todo = list, !.drift = {"links"}]
        PROVE  SeenInv'
    <3>1. heal'.pc = "apply" /\ heal'.drift = {"links"} /\ heal'.expected = heal.expected
      BY <1>0, <2>2 DEF Rounds
    <3>2. up' = up
      BY <1>2 DEF ProbeLinks
    <3> QED
      BY <2>2, <3>1, <3>2 DEF SeenInv, After
  <2>3. ASSUME heal' = [heal EXCEPT !.pc = "daemon"] PROVE SeenInv'
    <3>1. heal'.pc = "daemon" /\ heal'.drift = {}
      BY <1>0, <2>1, <2>3 DEF Rounds
    <3> QED
      BY <3>1 DEF SeenInv, After
  <2> QED
    BY <1>2, <2>2, <2>3 DEF ProbeLinks
<1>3. CASE CheckLinks
  BY <1>0, <1>3 DEF CheckLinks, Still, SeenInv, After, Rounds
<1>4. CASE ProbeDaemon
  BY <1>0, <1>4 DEF ProbeDaemon, SeenInv, After, Rounds
<1>5. CASE RestartDaemon
  BY <1>0, <1>5 DEF RestartDaemon, Seen, SeenInv, After, Rounds
<1>6. CASE VerifyDaemon
  BY <1>0, <1>6 DEF VerifyDaemon, SeenInv, After, Rounds
<1>7. CASE Record
  BY <1>0, <1>7 DEF Record, SeenInv, After, Rounds
<1>8. ASSUME NEW i \in Interfaces, HealScriptFails(i) PROVE SeenInv'
  BY <1>0, <1>8 DEF HealScriptFails, SeenInv, After, Rounds
<1>9. CASE HealInstall
  BY <1>0, <1>9 DEF HealInstall, Install, Seen, SeenInv, After, Rounds
<1>10. CASE ConvergeInstall
  BY <1>0, <1>10 DEF ConvergeInstall, Install, Seen, SeenInv, After, Rounds
<1>11. ASSUME NEW i \in Interfaces, ConvergeRemove(i) \/ LinkDeleted(i) PROVE SeenInv'
  BY <1>0, <1>11 DEF ConvergeRemove, LinkDeleted, DeleteLink, SeenInv, After
<1>12. ASSUME UNCHANGED <<heal, seen, up>> PROVE SeenInv'
  BY <1>12 DEF SeenInv, After
<1>13. ASSUME NEW i \in Interfaces, ConvergeCopy(i) \/ ConvergeFails(i) \/ HealCopy(i) \/ EndpointMoves(i)
       PROVE  UNCHANGED <<heal, seen, up>>
  BY <1>13 DEF ConvergeCopy, ConvergeFails, HealCopy, EndpointMoves
<1>14. ASSUME NEW f \in Interfaces \cup {"list"}, WriteFile(f) PROVE UNCHANGED <<heal, seen, up>>
  BY <1>14 DEF WriteFile
<1>15. ASSUME \/ Converged \/ SaveCached \/ ReadHandshakes \/ DaemonDies \/ HostBreaks \/ HostMends
              \/ (\E d \in DesiredStates : Plan(d)) \/ (\E t \in reset.targets : SetEndpoint(t))
              \/ UNCHANGED vars
       PROVE  UNCHANGED <<heal, seen, up>>
  BY <1>15 DEF Converged, SaveCached, ReadHandshakes, DaemonDies, HostBreaks, HostMends, Plan, SetEndpoint, vars
<1> QED
  BY <1>1, <1>2, <1>3, <1>4, <1>5, <1>6, <1>7, <1>8, <1>9, <1>10, <1>11, <1>12, <1>13, <1>14, <1>15
     DEF Next, Reconcile, Heal, Reresolve

(* A round that reports "healed" has seen it: all links it expects were    *)
(* there at one instant since it found one missing, the daemon ran at one  *)
(* since it found it dead, whatever the other loops did in between.        *)
THEOREM HealedIsSeen == Spec => []HealedMeansSeen
<1>1. SeenInv => HealedMeansSeen
  BY DEF SeenInv, After, HealedMeansSeen
<1> QED
  BY <1>1, TypesInit, TypesStep, SeenInit, SeenStep, PTL DEF Spec

(***************************************************************************)
(* The circuit.                                                            *)
(***************************************************************************)
(* The counter of the circuit is the number of rounds that failed in a     *)
(* row, and the sleep follows from it.                                     *)
CircuitInv ==
    /\ circuit.failures = streak
    /\ circuit.escalated <=> streak >= Threshold
    /\ alerts = IF streak >= Threshold THEN 1 ELSE 0
    /\ wait = Backoff(streak)

LEMMA CircuitInit == Init => CircuitInv
BY HealingAssumption DEF Init, CircuitInv, Backoff

LEMMA CircuitStep == Types /\ CircuitInv /\ [Next]_vars => CircuitInv'
<1> SUFFICES ASSUME Types, CircuitInv, [Next]_vars PROVE CircuitInv'
  OBVIOUS
<1> USE HealingAssumption
<1> USE DEF files, world, history
<1>1. CASE Record
  <2> DEFINE good == heal.drift = {} \/ heal.ok
  <2>1. /\ streak \in 0..Saturated /\ Saturated \in Nat /\ Threshold <= Saturated
        /\ circuit.failures = streak /\ circuit.escalated \in BOOLEAN
    BY DEF Types, CountersOK, Circuits, Saturated, CircuitInv
  <2>2. CASE good
    <3>1. /\ circuit' = [failures |-> 0, escalated |-> FALSE]
          /\ wait' = Backoff(0) /\ streak' = 0 /\ alerts' = 0
      BY <1>1, <2>2 DEF Record
    <3> QED
      BY <3>1 DEF CircuitInv
  <2>3. CASE ~good
    <3> DEFINE n == Saturate(streak + 1)
    <3>1. n \in 0..Saturated /\ n >= streak /\ (n >= Threshold => streak + 1 >= Threshold)
      BY <2>1 DEF Saturate
    <3>2. /\ circuit'.failures = n /\ (circuit'.escalated <=> circuit.escalated \/ Escalates(n))
          /\ wait' = Backoff(n) /\ streak' = n
          /\ alerts' = Min({2, alerts + IF Escalates(n) THEN 1 ELSE 0})
      BY <1>1, <2>1, <2>3 DEF Record
    <3>3. circuit'.escalated <=> n >= Threshold
      BY <2>1, <3>1, <3>2 DEF CircuitInv, Escalates
    <3>4. alerts' = IF n >= Threshold THEN 1 ELSE 0
      BY <2>1, <3>1, <3>2, MinOfTwo DEF CircuitInv, Escalates
    <3> QED
      BY <3>2, <3>3, <3>4 DEF CircuitInv
  <2> QED
    BY <2>2, <2>3
<1>2. ASSUME UNCHANGED <<circuit, wait, streak, alerts>> PROVE CircuitInv'
  BY <1>2 DEF CircuitInv
<1>3. ASSUME Next, ~Record PROVE UNCHANGED <<circuit, wait, streak, alerts>>
  <2>1. CASE Reconcile
    BY <2>1, Zenon DEF Reconcile, WriteFile, ConvergeCopy, ConvergeRemove, ConvergeFails, ConvergeInstall,
                Converged, SaveCached
  <2>2. CASE Heal
    BY <1>3, <2>2 DEF Heal, StartRound, ProbeLinks, HealInstall, CheckLinks, HealCopy, HealScriptFails,
                      ProbeDaemon, RestartDaemon, VerifyDaemon
  <2>3. CASE Reresolve
    BY <2>3 DEF Reresolve, ReadHandshakes, SetEndpoint
  <2>4. CASE \E d \in DesiredStates : Plan(d)
    BY <2>4 DEF Plan
  <2>5. CASE \E i \in Interfaces : LinkDeleted(i) \/ EndpointMoves(i)
    BY <2>5 DEF LinkDeleted, EndpointMoves
  <2>6. CASE DaemonDies \/ HostBreaks \/ HostMends
    BY <2>6 DEF DaemonDies, HostBreaks, HostMends
  <2> QED
    BY <1>3, <2>1, <2>2, <2>3, <2>4, <2>5, <2>6, Zenon DEF Next
<1> QED
  BY <1>1, <1>2, <1>3 DEF vars

(* For every interval, limit and threshold, an outage of any length is     *)
(* escalated exactly once, when Threshold rounds in a row have failed, and *)
(* the sleep grows to its limit and no further.                            *)
THEOREM OutageAlertsOnce == Spec => []OneAlertPerOutage
<1>1. Types /\ CircuitInv => OneAlertPerOutage
  <2> SUFFICES ASSUME Types, CircuitInv PROVE OneAlertPerOutage
    OBVIOUS
  <2>1. streak \in Nat /\ wait \in Nat
    BY HealingAssumption DEF Types, CountersOK, Saturated
  <2>2. /\ wait \in Base..MaxBackoff
        /\ streak > 0 => wait >= Min({2 * Base, MaxBackoff})
    BY <2>1, BackoffBounds DEF CircuitInv
  <2>3. Base <= wait /\ wait <= MaxBackoff
    BY <2>2, HealingAssumption
  <2> QED
    BY <2>2, <2>3 DEF CircuitInv, OneAlertPerOutage
<1> QED
  BY <1>1, TypesInit, TypesStep, CircuitInit, CircuitStep, PTL DEF Spec

(***************************************************************************)
(* Re-resolution.                                                          *)
(***************************************************************************)
(* The files a reconcile has written are those of its state.               *)
WrittenInv ==
    /\ rec.pc = "idle" => disk = cached
    /\ rec.pc # "idle" => \A i \in Interfaces \ rec.write : disk[i] = rec.want[i]

(* While a round is alone, what it means to reset is what is on disk, and  *)
(* a link that is up has that peer or a script will load it.               *)
AloneInv ==
    reset.alone =>
        /\ rec.pc = "idle"
        /\ \A w \in Runners : script[w] # NoScript => script[w].key = disk[script[w].of]
        /\ \A t \in reset.targets :
              t[2] = disk[t[1]] /\ (t[1] \in up => t[2] \in peers[t[1]])

LEMMA AloneInit == Init => WrittenInv /\ AloneInv
BY DEF Init, WrittenInv, AloneInv

LEMMA WrittenStep == Types /\ KernelInv /\ WrittenInv /\ [Next]_vars => WrittenInv'
<1> SUFFICES ASSUME Types, KernelInv, WrittenInv, [Next]_vars PROVE WrittenInv'
  OBVIOUS
<1> USE HealingAssumption, WordsAssumption
<1> USE DEF files, world, history
<1>0. disk \in [Interfaces -> Nat] /\ cached \in [Interfaces -> Nat] /\ rec \in Reconciles
  BY DEF Types, FilesOK, LoopsOK
<1>1. ASSUME NEW f \in Interfaces \cup {"list"}, WriteFile(f) PROVE WrittenInv'
  BY <1>0, <1>1 DEF WriteFile, WrittenInv, Reconciles
<1>2. CASE Converged
  BY <1>0, <1>2 DEF Converged, WrittenInv, Reconciles
<1>3. CASE SaveCached
  <2>1. disk = rec.want
    BY <1>0, <1>3 DEF SaveCached, WrittenInv, KernelInv, PhasesInv, Reconciles
  <2> QED
    BY <1>0, <1>3, <2>1 DEF SaveCached, WrittenInv, Reconciles
<1>4. ASSUME NEW d \in DesiredStates, Plan(d) PROVE WrittenInv'
  BY <1>0, <1>4 DEF Plan, WrittenInv
<1>5. ASSUME NEW i \in Interfaces, ConvergeRemove(i) \/ ConvergeFails(i) PROVE WrittenInv'
  BY <1>0, <1>5 DEF ConvergeRemove, ConvergeFails, WrittenInv, Reconciles
<1>6. CASE ConvergeInstall
  BY <1>0, <1>6 DEF ConvergeInstall, WrittenInv, Reconciles
<1>7. ASSUME UNCHANGED <<disk, cached, rec>> PROVE WrittenInv'
  BY <1>7 DEF WrittenInv
<1>8. ASSUME NEW i \in Interfaces, ConvergeCopy(i) \/ LinkDeleted(i) \/ EndpointMoves(i)
      PROVE  UNCHANGED <<disk, cached, rec>>
  BY <1>8 DEF ConvergeCopy, LinkDeleted, EndpointMoves
<1>9. ASSUME Heal PROVE UNCHANGED <<disk, cached, rec>>
  BY <1>9 DEF Heal, StartRound, ProbeLinks, HealInstall, CheckLinks, HealCopy, HealScriptFails,
              ProbeDaemon, RestartDaemon, VerifyDaemon, Record
<1>10. ASSUME Reresolve \/ DaemonDies \/ HostBreaks \/ HostMends \/ UNCHANGED vars
       PROVE  UNCHANGED <<disk, cached, rec>>
  BY <1>10 DEF Reresolve, ReadHandshakes, SetEndpoint, DaemonDies, HostBreaks, HostMends, vars
<1> QED
  BY <1>1, <1>2, <1>3, <1>4, <1>5, <1>6, <1>7, <1>8, <1>9, <1>10 DEF Next, Reconcile

LEMMA AloneStep ==
    Types /\ KernelInv /\ WrittenInv /\ AloneInv /\ [Next]_vars => AloneInv'
<1> SUFFICES ASSUME Types, KernelInv, WrittenInv, AloneInv, [Next]_vars PROVE AloneInv'
  OBVIOUS
<1> USE HealingAssumption
<1> USE DEF files, world, history, Runners
<1>0. /\ disk \in [Interfaces -> Nat] /\ cached \in [Interfaces -> Nat] /\ rec \in Reconciles
      /\ up \subseteq Interfaces /\ peers \in [Interfaces -> SUBSET Nat]
      /\ stale \subseteq up
      /\ script \in [Runners -> Scripts] /\ reset \in Resets
      /\ \A w \in Runners : script[w] = NoScript \/ script[w].of \in Interfaces
      /\ \A t \in reset.targets : t[1] \in Interfaces /\ t[2] \in Nat
  BY DEF Types, FilesOK, LoopsOK, WorldOK, Resets
<1>1. CASE \E d \in DesiredStates : Plan(d)
  BY <1>0, <1>1 DEF Plan, AloneInv, Resets
<1>2. CASE ReadHandshakes
  <2>1. CASE ~(rec.pc = "idle" /\ \A w \in Runners : script[w] = NoScript)
    BY <1>2, <2>1 DEF ReadHandshakes, AloneInv
  <2>2. CASE rec.pc = "idle" /\ \A w \in Runners : script[w] = NoScript
    <3>1. \A t \in Targets : t[2] = disk[t[1]] /\ t[2] \in peers[t[1]]
      BY <1>0, <2>2 DEF Targets, WrittenInv
    <3>2. reset'.targets = Targets /\ UNCHANGED <<disk, up, peers, rec, script>>
      BY <1>2 DEF ReadHandshakes
    <3> QED
      BY <2>2, <3>1, <3>2 DEF AloneInv
  <2> QED
    BY <2>1, <2>2
<1>3. ASSUME NEW t \in reset.targets, SetEndpoint(t) PROVE AloneInv'
  BY <1>0, <1>3 DEF SetEndpoint, AloneInv, Resets
<1>4. ASSUME NEW i \in Interfaces, HealCopy(i) PROVE AloneInv'
  BY <1>0, <1>4 DEF HealCopy, Copy, AloneInv, NoScript
<1>5. ASSUME NEW i \in Interfaces, HealScriptFails(i) PROVE AloneInv'
  BY <1>0, <1>5 DEF HealScriptFails, ScriptFails, AloneInv, NoScript
<1>6. CASE HealInstall
  BY <1>0, <1>6 DEF HealInstall, Install, AloneInv, NoScript
<1>7. ASSUME NEW i \in Interfaces, LinkDeleted(i) PROVE AloneInv'
  BY <1>0, <1>7 DEF LinkDeleted, DeleteLink, AloneInv
<1>8. ASSUME rec.pc # "idle", UNCHANGED reset PROVE AloneInv'
  <2>1. ~reset.alone
    BY <1>8 DEF AloneInv
  <2>2. ~reset'.alone
    BY <1>8, <2>1, Zenon
  <2> QED BY <2>2 DEF AloneInv
<1>9. ASSUME Reconcile PROVE rec.pc # "idle" /\ UNCHANGED reset
  BY <1>9, Zenon DEF Reconcile, WriteFile, ConvergeCopy, ConvergeRemove, ConvergeFails, ConvergeInstall, Install,
              Converged, SaveCached, KernelInv, ScriptInv
<1>10. ASSUME UNCHANGED <<disk, rec, reset, script, up, peers>> PROVE AloneInv'
  BY <1>10 DEF AloneInv
<1>11. ASSUME \/ StartRound \/ ProbeLinks \/ CheckLinks \/ ProbeDaemon \/ RestartDaemon \/ VerifyDaemon
              \/ Record \/ DaemonDies \/ HostBreaks \/ HostMends
              \/ (\E i \in Interfaces : EndpointMoves(i)) \/ UNCHANGED vars
       PROVE  UNCHANGED <<disk, rec, reset, script, up, peers>>
  BY <1>11 DEF StartRound, ProbeLinks, CheckLinks, ProbeDaemon, RestartDaemon, VerifyDaemon, Record,
               DaemonDies, HostBreaks, HostMends, EndpointMoves, vars
<1> QED
  BY <1>1, <1>2, <1>3, <1>4, <1>5, <1>6, <1>7, <1>8, <1>9, <1>10, <1>11 DEF Next, Heal, Reresolve

(* "Never adds a peer" (reresolve.py): a wg set of the re-resolution adds  *)
(* none as long as no reconcile began and no older script ran since the    *)
(* handshakes were read; healing scripts that start meanwhile do no harm.  *)
THEOREM ResetIsHarmless == Spec => ResetAddsNoPeer
<1> DEFINE Inv == Types /\ KernelInv /\ WrittenInv /\ AloneInv
<1>1. Init => Inv
  BY TypesInit, KernelInit, AloneInit
<1>2. Inv /\ [Next]_vars => Inv'
  BY TypesStep, KernelStep, WrittenStep, AloneStep
<1>3. Inv /\ [Next]_vars =>
        [\A t \in reset.targets :
            SetEndpoint(t) /\ reset.alone => peers'[t[1]] = peers[t[1]]]_vars
  <2> SUFFICES ASSUME Inv, NEW t \in reset.targets, SetEndpoint(t), reset.alone
               PROVE  peers'[t[1]] = peers[t[1]]
    OBVIOUS
  <2>1. peers \in [Interfaces -> SUBSET Nat] /\ t[1] \in Interfaces
    BY HealingAssumption DEF Types, WorldOK, LoopsOK, Resets
  <2>2. t[1] \in up => t[2] \in peers[t[1]]
    BY DEF AloneInv
  <2>3. CASE docker /\ t[1] \in up
    <3>1. peers' = [peers EXCEPT ![t[1]] = @ \cup {t[2]}]
      BY <2>3 DEF SetEndpoint
    <3>2. peers'[t[1]] = peers[t[1]] \cup {t[2]}
      BY <2>1, <3>1
    <3> QED BY <2>2, <2>3, <3>2
  <2>4. CASE ~(docker /\ t[1] \in up)
    BY <2>4 DEF SetEndpoint
  <2> QED BY <2>3, <2>4
<1> QED
  BY <1>1, <1>2, <1>3, PTL DEF Spec, ResetAddsNoPeer
=============================================================================
