------------------------------ MODULE Delivery ------------------------------
(***************************************************************************)
(* How a published generation reaches the node.  The control server rings  *)
(* a doorbell over a WebSocket (EventBus, agent_ws); the agent (watch,     *)
(* orchestrator) answers each ring with one reconcile: fetch the latest    *)
(* state over HTTP, apply it, report, and only then record the generation  *)
(* as applied.  Rings may be dropped, connections lost, either process may *)
(* die, any stage may fail; a periodic fallback reconcile is the safety    *)
(* net.  The server's half of the system is GenerationLog.                 *)
(***************************************************************************)
EXTENDS GenerationLog, Integers, Sequences

CONSTANTS
    MaxQueue,       \* EventBus._MAX_QUEUE
    Redis,          \* the control server has a Redis cache (redis_url is set)
    MaxGeneration,  \* bound on the generations of one life of the node
    MaxLives,       \* bound: how often the node is deleted
    MaxFaults       \* bound on crashes, disconnections, failures, revocations

ASSUME MaxQueueAssumption == MaxQueue \in Nat
ASSUME RedisAssumption == Redis \in BOOLEAN
ASSUME DeliveryBounds ==
    MaxGeneration \in Nat /\ MaxLives \in Nat /\ MaxFaults \in Nat

VARIABLES
    life,      \* how often the node has been deleted: names the incarnation
    cache,     \* snapshots in Redis, at most one for a generation number
    reported,  \* generations whose successful apply result the node's history holds
    ws,        \* the agent's connection as the server's handler sees it
    hello,     \* the hello on its way to the agent, or NoHello
    queue,     \* events queued behind it; Snapshot for a snapshot_request
    pc,        \* where the consumer loop of the agent is
    wake,      \* _Doorbell.wake
    stop,      \* the stop event, and whether the last reconcile has begun
    fetched,   \* the state this reconcile works on, and whether its apply worked
    posts,     \* how many of the three reports have been accepted
    identity,  \* identity file: token (as the server judges it), applied_generation
    deployed,  \* what runs on the node; gen 0: nothing, or a half-done apply
    lost,      \* history: a ring was dropped or the reconcile failed since the last fetch
    faults     \* faults so far

agentVars == <<pc, wake, stop, fetched, posts, identity, deployed>>
wsVars == <<ws, hello, queue>>
vars == <<published, pending, life, cache, reported, wsVars, agentVars, lost, faults>>

NoHello == -1
Snapshot == 0
Generations == 0..MaxGeneration
Deployments == [life : 0..MaxLives, gen : Generations]
Nothing == [life |-> 0, gen |-> 0, ok |-> FALSE]

(* ws: off before the client task runs; subscribed between bus.subscribe   *)
(* and the hello.  pc: the reconcile is fetch, apply, report, persist.     *)
DeliveryTypeOK ==
    /\ published \in Generations
    /\ pending \subseteq Generations
    /\ life \in 0..MaxLives
    /\ cache \subseteq Deployments
    /\ reported \subseteq Generations
    /\ ws \in {"off", "down", "subscribed", "open"}
    /\ hello \in Generations \cup {NoHello}
    /\ queue \in Seq(Generations) /\ Len(queue) <= MaxQueue
    /\ pc \in {"down", "top", "wait", "debounce", "fetch", "apply", "report", "persist"}
    /\ wake \in BOOLEAN
    /\ stop \in {"run", "stopping", "last"}
    /\ fetched \in [life : 0..MaxLives, gen : Generations, ok : BOOLEAN]
    /\ posts \in 0..2
    /\ identity \in [token : {"valid", "rejected"}, applied : Generations]
    /\ deployed \in Deployments
    /\ lost \in BOOLEAN
    /\ faults \in 0..MaxFaults

(***************************************************************************)
(* Helpers.                                                                *)
(***************************************************************************)
Fault == faults < MaxFaults /\ faults' = faults + 1

Hangup(next) == ws' = next /\ hello' = NoHello /\ queue' = <<>>

(* EventBus.publish: to the queue of the connection, dropped when full.    *)
EnqueueAlways(event) ==  \* mutant: a queue without maxsize
    /\ queue' = IF ws \in {"subscribed", "open"} THEN Append(queue, event) ELSE queue
    /\ UNCHANGED <<ws, hello, lost>>

Enqueue(event) ==
    LET reached == ws \in {"subscribed", "open"}
        full == Len(queue) >= MaxQueue
    IN  /\ queue' = IF reached /\ ~full THEN Append(queue, event) ELSE queue
        /\ lost' = (lost \/ (reached /\ full /\ event # Snapshot))
        /\ UNCHANGED <<ws, hello>>

(* DesiredStateStore.get: the key names the node and the generation, and   *)
(* outlives the node.  A fill Redis refuses is one that expires at once.   *)
Cached == {snapshot \in cache : snapshot.gen = published}

Latest ==
    IF Cached = {} THEN [life |-> life, gen |-> published]
                   ELSE CHOOSE snapshot \in Cached : TRUE

ReadThrough ==
    cache' = IF Redis /\ published > 0 /\ Cached = {} THEN cache \cup {Latest} ELSE cache

(***************************************************************************)
(* The control server.                                                     *)
(***************************************************************************)
PublishGeneration ==
    /\ published < MaxGeneration
    /\ PublishNext
    /\ UNCHANGED <<life, cache, reported, wsVars, agentVars, lost, faults>>

Broadcast(g) ==
    /\ Announce(g)
    /\ Enqueue(g)
    /\ UNCHANGED <<life, cache, reported, agentVars, faults>>

(* notify with snapshot_request: refused when nobody is subscribed.        *)
RequestSnapshot ==
    /\ published > 0
    /\ ws \in {"subscribed", "open"}
    /\ Enqueue(Snapshot)
    /\ UNCHANGED <<published, pending, life, cache, reported, agentVars, faults>>

(* Deleting the node removes its tokens and its status with it; the open   *)
(* WebSocket stays subscribed to the node's name.                          *)
DeleteNode ==
    /\ life < MaxLives
    /\ pending = {}
    /\ Forget
    /\ life' = life + 1
    /\ reported' = {}
    /\ identity' = [identity EXCEPT !.token = "rejected"]
    /\ UNCHANGED <<cache, wsVars, pc, wake, stop, fetched, posts, deployed, lost, faults>>

(* An administrator revokes or rotates the token, or it expires.           *)
RevokeToken ==
    /\ Fault
    /\ identity.token = "valid"
    /\ identity' = [identity EXCEPT !.token = "rejected"]
    /\ UNCHANGED <<published, pending, life, cache, reported, wsVars,
                   pc, wake, stop, fetched, posts, deployed, lost>>

(* ttl_seconds=3600, or an eviction.                                       *)
Expire(snapshot) ==
    /\ snapshot \in cache
    /\ cache' = cache \ {snapshot}
    /\ UNCHANGED <<published, pending, life, reported, wsVars, agentVars, lost, faults>>

ServerRestart ==
    /\ Fault
    /\ pending' = {}
    /\ Hangup(IF ws = "off" THEN "off" ELSE "down")
    /\ UNCHANGED <<published, life, cache, reported, agentVars, lost>>

(***************************************************************************)
(* The connection.                                                         *)
(***************************************************************************)

(* `_client_loop` dials with the identity on disk, again and again; its    *)
(* backoff only delays the attempt, and the token must be accepted.        *)
ClientDials == ws = "down" /\ identity.token = "valid"

(* The server's handler authenticates, accepts and subscribes ...          *)
SubscribeAfterReading ==  \* mutant: the state is read first, the subscription made after it
    /\ ClientDials
    /\ IF hello = NoHello THEN hello' = published /\ ws' = ws
                          ELSE ws' = "open" /\ hello' = hello
    /\ UNCHANGED <<published, pending, life, cache, reported, queue, agentVars, lost, faults>>

Subscribe ==
    /\ ClientDials
    /\ ws' = "subscribed"
    /\ UNCHANGED <<published, pending, life, cache, reported, hello, queue, agentVars, lost, faults>>

(* ... and only then reads the state its hello speaks of.                  *)
SayHello ==
    /\ ws = "subscribed"
    /\ ws' = "open"
    /\ hello' = published
    /\ ReadThrough
    /\ UNCHANGED <<published, pending, life, reported, queue, agentVars, lost, faults>>

Disconnect ==
    /\ Fault
    /\ ws \in {"subscribed", "open"}
    /\ Hangup("down")
    /\ UNCHANGED <<published, pending, life, cache, reported, agentVars, lost>>

(* _dispatch_event: ring unless the generation is known to be applied.     *)
Rings(event) == event > identity.applied

DispatchHello ==
    /\ ws = "open"
    /\ hello # NoHello
    /\ hello' = NoHello
    /\ wake' = (wake \/ Rings(hello))
    /\ UNCHANGED <<published, pending, life, cache, reported, ws, queue, pc, stop, fetched,
                   posts, identity, deployed, lost, faults>>

DispatchEvent ==
    /\ ws = "open"
    /\ hello = NoHello
    /\ queue # <<>>
    /\ queue' = Tail(queue)
    /\ wake' = (wake \/ Head(queue) = Snapshot \/ Rings(Head(queue)))
    /\ UNCHANGED <<published, pending, life, cache, reported, ws, hello, pc, stop, fetched,
                   posts, identity, deployed, lost, faults>>

(***************************************************************************)
(* The agent's consumer loop.                                              *)
(***************************************************************************)
Only(pcNext) ==
    /\ pc' = pcNext
    /\ UNCHANGED <<published, pending, life, cache, reported, stop, fetched, posts,
                   identity, deployed, lost, faults>>

(* Systemd starts the agent; the first reconcile comes before the client   *)
(* task and the loop.                                                      *)
StartAgent ==
    /\ pc = "down"
    /\ Only("fetch")
    /\ UNCHANGED <<wsVars, wake>>

LoopTop ==
    /\ pc = "top"
    /\ stop = "run"
    /\ Only("wait")
    /\ UNCHANGED <<wsVars, wake>>

Wake ==
    /\ pc = "wait"
    /\ wake
    /\ Only("debounce")
    /\ UNCHANGED <<wsVars, wake>>

WakeByStop ==
    /\ pc = "wait"
    /\ ~wake
    /\ stop # "run"
    /\ Only("top")
    /\ UNCHANGED <<wsVars, wake>>

(* bell.drain() before the reconcile: a ring during it is kept.            *)
Drain ==
    /\ pc = "debounce"
    /\ wake' = FALSE
    /\ Only("fetch")
    /\ UNCHANGED wsVars

(* wait_for(..., fallback_interval) times out; the bell is not drained.    *)
FallbackSkips ==  \* mutant: the timeout goes round the loop without a reconcile
    /\ pc = "wait"
    /\ Only("top")
    /\ UNCHANGED <<wsVars, wake>>

Fallback ==
    /\ pc = "wait"
    /\ Only("fetch")
    /\ UNCHANGED <<wsVars, wake>>

FinalDrain ==
    /\ pc = "top"
    /\ stop = "stopping"
    /\ wake
    /\ wake' = FALSE
    /\ stop' = "last"
    /\ pc' = "fetch"
    /\ UNCHANGED <<published, pending, life, cache, reported, wsVars, fetched, posts,
                   identity, deployed, lost, faults>>

(* The process is gone: bell, connection and progress with it.             *)
ProcessEnds ==
    /\ pc' = "down"
    /\ wake' = FALSE
    /\ stop' = "run"
    /\ fetched' = Nothing
    /\ posts' = 0
    /\ Hangup("off")
    /\ UNCHANGED <<published, pending, life, cache, reported, identity, lost>>

Exit ==
    /\ pc = "top"
    /\ stop = "last" \/ (stop = "stopping" /\ ~wake)
    /\ ProcessEnds
    /\ UNCHANGED <<deployed, faults>>

Stop ==
    /\ Fault
    /\ pc # "down"
    /\ stop = "run"
    /\ stop' = "stopping"
    /\ UNCHANGED <<published, pending, life, cache, reported, wsVars, pc, wake, fetched,
                   posts, identity, deployed, lost>>

(* A crash in the middle of an apply leaves it half done.                  *)
Crash ==
    /\ Fault
    /\ pc # "down"
    /\ \/ UNCHANGED deployed
       \/ pc = "apply" /\ deployed' = [life |-> fetched.life, gen |-> 0]
    /\ ProcessEnds

(***************************************************************************)
(* One reconcile (run_once).                                               *)
(***************************************************************************)

(* After the first reconcile of the process the client task is running.    *)
ReconcileEnds ==
    /\ pc' = "top"
    /\ ws' = IF ws = "off" THEN "down" ELSE ws
    /\ fetched' = Nothing
    /\ posts' = 0
    /\ UNCHANGED <<published, pending, life, cache, hello, queue, wake, stop>>

(* Session.call: a rejected token is replaced by registering again, which  *)
(* starts a fresh identity; the control plane accepts a node that has a    *)
(* published generation.                                                   *)
MayCall == published > 0

Session ==
    IF identity.token = "valid" THEN identity
    ELSE [token |-> "valid", applied |-> 0]

FetchStale ==  \* mutant: an older generation may be served from a cache
    /\ pc = "fetch"
    /\ MayCall
    /\ identity' = Session
    /\ \E g \in 1..published : fetched' = [life |-> life, gen |-> g, ok |-> FALSE]
    /\ lost' = FALSE
    /\ pc' = "apply"
    /\ UNCHANGED <<published, pending, life, cache, reported, wsVars, wake, stop, posts,
                   deployed, faults>>

Fetch ==
    /\ pc = "fetch"
    /\ MayCall
    /\ identity' = Session
    /\ fetched' = [life |-> Latest.life, gen |-> published, ok |-> FALSE]
    /\ ReadThrough
    /\ lost' = FALSE
    /\ pc' = "apply"
    /\ UNCHANGED <<published, pending, life, reported, wsVars, wake, stop, posts,
                   deployed, faults>>

(* render, plan, deploy and converge: all of it, or not.                   *)
ApplySucceeds ==
    /\ pc = "apply"
    /\ deployed' = [life |-> fetched.life, gen |-> fetched.gen]
    /\ fetched' = [fetched EXCEPT !.ok = TRUE]
    /\ pc' = "report"
    /\ UNCHANGED <<published, pending, life, cache, reported, wsVars, wake, stop, posts,
                   identity, lost, faults>>

(* ApplyStatus.FAILED: still reported, applied_generation stays.           *)
ApplyFails ==
    /\ Fault
    /\ pc = "apply"
    /\ deployed' = [life |-> fetched.life, gen |-> 0]
    /\ lost' = TRUE
    /\ pc' = "report"
    /\ UNCHANGED <<published, pending, life, cache, reported, wsVars, wake, stop, fetched,
                   posts, identity>>

(* runtime-snapshot, reconciliation-report, apply-result, in this order.   *)
Post ==
    /\ pc = "report"
    /\ MayCall
    /\ identity' = Session
    /\ IF posts < 2
       THEN posts' = posts + 1 /\ UNCHANGED <<pc, reported>>
       ELSE /\ posts' = 0
            /\ pc' = "persist"
            /\ reported' = reported \cup (IF fetched.ok THEN {fetched.gen} ELSE {})
    /\ UNCHANGED <<published, pending, life, cache, wsVars, wake, stop, fetched, deployed,
                   lost, faults>>

(* _publish before applied_generation is advanced and saved.               *)
PersistFirst ==  \* mutant: the generation is saved as soon as it is applied
    /\ pc = "report"
    /\ fetched.ok
    /\ identity' = [identity EXCEPT !.applied = fetched.gen]
    /\ UNCHANGED <<reported, deployed, lost, faults>>
    /\ ReconcileEnds

Persist ==
    /\ pc = "persist"
    /\ identity' = IF fetched.ok THEN [identity EXCEPT !.applied = fetched.gen]
                                 ELSE identity
    /\ UNCHANGED <<reported, deployed, lost, faults>>
    /\ ReconcileEnds

(* Registration is answered "pending": there is no published state.        *)
NotAccepted ==
    /\ pc \in {"fetch", "report"}
    /\ ~MayCall
    /\ lost' = TRUE
    /\ UNCHANGED <<reported, identity, deployed, faults>>
    /\ ReconcileEnds

(* A request fails, or an exception ends the reconcile.                    *)
ReconcileFails ==
    /\ Fault
    /\ pc \in {"fetch", "apply", "report"}
    /\ \/ UNCHANGED deployed
       \/ pc = "apply" /\ deployed' = [life |-> fetched.life, gen |-> 0]
    /\ lost' = TRUE
    /\ UNCHANGED <<reported, identity>>
    /\ ReconcileEnds

-----------------------------------------------------------------------------
Init ==
    /\ LogInit
    /\ life = 0
    /\ cache = {}
    /\ reported = {}
    /\ ws = "off"
    /\ hello = NoHello
    /\ queue = <<>>
    /\ pc = "down"
    /\ wake = FALSE
    /\ stop = "run"
    /\ fetched = Nothing
    /\ posts = 0
    /\ identity = [token |-> "rejected", applied |-> 0]
    /\ deployed = [life |-> 0, gen |-> 0]
    /\ lost = FALSE
    /\ faults = 0

Server ==
    \/ PublishGeneration
    \/ \E g \in pending : Broadcast(g)
    \/ RequestSnapshot
    \/ DeleteNode
    \/ \E snapshot \in cache : Expire(snapshot)

Connection == Subscribe \/ SayHello \/ DispatchHello \/ DispatchEvent

(* What the agent process does by itself as long as it is alive ...        *)
Consumer ==
    \/ LoopTop \/ Wake \/ WakeByStop \/ Drain \/ Fallback \/ FinalDrain \/ Exit
    \/ Fetch \/ ApplySucceeds \/ Post \/ Persist \/ NotAccepted

(* ... and what happens to it and to the others.                           *)
Faults ==
    \/ RevokeToken \/ ServerRestart \/ Disconnect \/ Stop \/ Crash
    \/ ApplyFails \/ ReconcileFails

Next == Server \/ Connection \/ StartAgent \/ Consumer \/ Faults

Spec == Init /\ [][Next]_vars

(* The event loop keeps running the consumer, its wait has a timeout, and  *)
(* systemd restarts the agent (Restart=always).  Nothing is assumed of the *)
(* doorbell: the connection may never be made.  Redis keeps its TTL.       *)
FairSpec ==
    /\ Spec
    /\ WF_vars(Consumer)
    /\ WF_vars(StartAgent)
    /\ \A snapshot \in Deployments : WF_vars(Expire(snapshot))

-----------------------------------------------------------------------------
(***************************************************************************)
(* Properties.                                                             *)
(***************************************************************************)

(* Everything announced has been dealt with: no event under way, the bell  *)
(* silent, the agent waiting on an open connection.                        *)
Quiet ==
    /\ pc = "wait"
    /\ ~wake
    /\ ws = "open"
    /\ hello = NoHello
    /\ queue = <<>>
    /\ pending = {}

UpToDate == deployed = [life |-> life, gen |-> published]

(* Subscribing before the hello, draining the bell before the fetch and    *)
(* deduplicating by applied_generation together lose no publication: once  *)
(* quiet, the node runs the latest generation, unless a full queue dropped *)
(* a ring or the reconcile it started failed.                              *)
NoLostDoorbell ==
    Quiet /\ ~lost /\ life = 0 /\ published > 0 => UpToDate

(* The reports reach the control plane before the generation is recorded   *)
(* as applied, also across token revocation, deletion and re-registration: *)
(* no generation is skipped as applied that the control plane never heard  *)
(* of (orchestrator.run_once, "report before advancing").                  *)
AdvanceOnlyReported ==
    identity.token = "valid" /\ identity.applied > 0 => identity.applied \in reported

(* Within one life of the node what runs on it never goes back to an older *)
(* generation, whatever order the rings come in.                           *)
NeverOlder ==
    [][deployed'.life = deployed.life /\ deployed'.gen > 0
         => deployed'.gen >= deployed.gen]_vars

(* Once publications and faults end, the node ends up running the latest   *)
(* generation, recorded and reported, even if no doorbell ever rings.      *)
Converges ==
    <>[](published > 0 => /\ UpToDate
                          /\ identity.applied = published
                          /\ published \in reported)
=============================================================================
