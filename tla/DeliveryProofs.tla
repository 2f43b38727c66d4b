--------------------------- MODULE DeliveryProofs ---------------------------
(***************************************************************************)
(* Theorems about Delivery, for every queue length and every number of     *)
(* generations, lives and faults.                                          *)
(***************************************************************************)
EXTENDS Delivery, TLAPS

(***************************************************************************)
(* Types.                                                                  *)
(***************************************************************************)
Fetches == [life : 0..MaxLives, gen : Generations, ok : BOOLEAN]
Identities == [token : {"valid", "rejected"}, applied : Generations]

(* What a process starts with, and what a call leaves of an identity.      *)
LEMMA Values ==
    ASSUME DeliveryTypeOK
    PROVE  /\ Nothing \in Fetches
           /\ [life |-> 0, gen |-> 0] \in Deployments
           /\ <<>> \in Seq(Generations) /\ Len(<<>>) = 0
           /\ Session \in Identities
           /\ Latest \in Deployments
           /\ \A l \in 0..MaxLives, g \in Generations, b \in BOOLEAN :
                 [life |-> l, gen |-> g, ok |-> b] \in Fetches
<1> USE DeliveryBounds DEF Generations, Deployments
<1>1. \A l \in 0..MaxLives, g \in Generations, b \in BOOLEAN :
         [life |-> l, gen |-> g, ok |-> b] \in Fetches
  BY DEF Fetches
<1>2. Nothing \in Fetches
  <2>1. 0 \in 0..MaxLives /\ 0 \in Generations /\ FALSE \in BOOLEAN
    OBVIOUS
  <2> QED
    BY <2>1, Zenon DEF Nothing, Fetches
<1>3. Session \in Identities
  BY DEF Session, Identities, DeliveryTypeOK
<1>4. Latest \in Deployments
  BY DEF Latest, Cached, DeliveryTypeOK
<1> QED
  BY <1>1, <1>2, <1>3, <1>4

(* The same with the sets named, in parts: the provers then need not look  *)
(* into the sets a step leaves alone.                                      *)
ServerOK ==
    /\ published \in Generations /\ pending \subseteq Generations
    /\ life \in 0..MaxLives /\ cache \subseteq Deployments /\ reported \subseteq Generations
SocketOK ==
    /\ ws \in {"off", "down", "subscribed", "open"}
    /\ hello \in Generations \cup {NoHello}
    /\ queue \in Seq(Generations) /\ Len(queue) <= MaxQueue
LoopOK ==
    /\ pc \in {"down", "top", "wait", "debounce", "fetch", "apply", "report", "persist"}
    /\ wake \in BOOLEAN
    /\ stop \in {"run", "stopping", "last"}
RoundOK ==
    /\ fetched \in Fetches /\ posts \in 0..2
    /\ identity \in Identities /\ deployed \in Deployments
Typed ==
    /\ ServerOK /\ SocketOK /\ LoopOK /\ RoundOK
    /\ lost \in BOOLEAN /\ faults \in 0..MaxFaults

LEMMA TypedIsTypeOK == (DeliveryTypeOK <=> Typed) /\ (DeliveryTypeOK' <=> Typed')
  BY DEF DeliveryTypeOK, Typed, ServerOK, SocketOK, LoopOK, RoundOK, Fetches, Identities

(* What the steps store.                                                   *)
LEMMA Stored ==
    ASSUME Typed
    PROVE  /\ 0 \in Generations /\ 0 \in 0..2
           /\ [life |-> fetched.life, gen |-> 0] \in Deployments
           /\ [life |-> fetched.life, gen |-> fetched.gen] \in Deployments
           /\ [fetched EXCEPT !.ok = TRUE] \in Fetches
           /\ [life |-> Latest.life, gen |-> published, ok |-> FALSE] \in Fetches
           /\ [identity EXCEPT !.token = "rejected"] \in Identities
           /\ [identity EXCEPT !.applied = fetched.gen] \in Identities
           /\ fetched.gen \in Generations
<1>1. DeliveryTypeOK /\ fetched \in Fetches /\ identity \in Identities
  BY TypedIsTypeOK DEF Typed, RoundOK
<1>2. 0 \in Generations /\ 0 \in 0..2
  BY DeliveryBounds DEF Generations
<1>3. fetched.life \in 0..MaxLives /\ fetched.gen \in Generations
  BY <1>1 DEF Fetches
<1>4. /\ [life |-> fetched.life, gen |-> 0] \in Deployments
      /\ [life |-> fetched.life, gen |-> fetched.gen] \in Deployments
  BY <1>2, <1>3 DEF Deployments
<1>5. [fetched EXCEPT !.ok = TRUE] \in Fetches
  <2>1. PICK b \in BOOLEAN : b = TRUE
    OBVIOUS
  <2>2. [fetched EXCEPT !.ok = b] \in Fetches
    BY <1>1 DEF Fetches
  <2> QED BY <2>1, <2>2
<1>6. [life |-> Latest.life, gen |-> published, ok |-> FALSE] \in Fetches
  <2>1. Latest \in Deployments /\ published \in Generations
    BY <1>1, Values DEF DeliveryTypeOK
  <2>2. Latest.life \in 0..MaxLives
    BY <2>1 DEF Deployments
  <2> QED BY <1>1, <2>1, <2>2, Values
<1>7. [identity EXCEPT !.token = "rejected"] \in Identities
  BY <1>1 DEF Identities
<1>8. [identity EXCEPT !.applied = fetched.gen] \in Identities
  BY <1>1, <1>3 DEF Identities
<1> QED
  BY <1>2, <1>3, <1>4, <1>5, <1>6, <1>7, <1>8

(* A step that leaves the server, the socket, the loop or the round alone. *)
LEMMA PartsKept ==
    /\ ServerOK /\ UNCHANGED <<published, pending, life, cache, reported>> => ServerOK'
    /\ SocketOK /\ UNCHANGED <<ws, hello, queue>> => SocketOK'
    /\ LoopOK /\ UNCHANGED <<pc, wake, stop>> => LoopOK'
    /\ RoundOK /\ UNCHANGED <<fetched, posts, identity, deployed>> => RoundOK'
  BY DEF ServerOK, SocketOK, LoopOK, RoundOK

(* Every step keeps the types.                                             *)
LEMMA TypeStep == DeliveryTypeOK /\ [Next]_vars => DeliveryTypeOK'
<1> SUFFICES ASSUME Typed, [Next]_vars PROVE Typed'
  BY TypedIsTypeOK
<1>0. DeliveryTypeOK
  BY TypedIsTypeOK
<1> USE DEF wsVars, agentVars
<1>p. /\ ServerOK /\ SocketOK /\ LoopOK /\ RoundOK
      /\ lost \in BOOLEAN /\ faults \in 0..MaxFaults
  BY DEF Typed
<1>1. ASSUME ReadThrough, UNCHANGED <<published, life>>
      PROVE  cache' \subseteq Deployments
  BY <1>0, <1>1, <1>p, Values DEF ReadThrough, ServerOK
<1>2. CASE UNCHANGED vars
  BY <1>2, <1>p, PartsKept DEF vars, Typed
<1>3. ASSUME NEW event \in Generations, Enqueue(event)
      PROVE  SocketOK' /\ lost' \in BOOLEAN
  <2>2. lost' \in BOOLEAN
    BY <1>3, Zenon DEF Enqueue
  <2>4. /\ queue' = queue \/ (queue' = Append(queue, event) /\ Len(queue) < MaxQueue)
        /\ ws' = ws /\ hello' = hello
    <3>1. queue \in Seq(Generations) /\ MaxQueue \in Nat
      BY <1>p, MaxQueueAssumption DEF SocketOK
    <3>2. Len(queue) \in Nat
      BY <3>1
    <3> QED BY <1>3, <3>1, <3>2 DEF Enqueue
  <2>5. CASE queue' = queue
    BY <1>p, <2>2, <2>4, <2>5, PartsKept
  <2>6. CASE queue' = Append(queue, event) /\ Len(queue) < MaxQueue
    <3>1. queue' \in Seq(Generations) /\ Len(queue') = Len(queue) + 1
      BY <1>3, <1>p, <2>6 DEF SocketOK
    <3>2. Len(queue) \in Nat /\ MaxQueue \in Nat
      BY <1>p, MaxQueueAssumption DEF SocketOK
    <3> QED BY <1>p, <2>2, <2>4, <2>6, <3>1, <3>2 DEF SocketOK
  <2> QED
    BY <2>4, <2>5, <2>6
<1>9. ASSUME NEW next \in {"off", "down"}, Hangup(next)
      PROVE  SocketOK'
  <2>1. queue' \in Seq(Generations) /\ Len(queue') <= MaxQueue
    BY <1>9, MaxQueueAssumption DEF Hangup
  <2> QED BY <1>9, <2>1 DEF Hangup, SocketOK
<1>10. ASSUME Fault PROVE faults' \in 0..MaxFaults
  BY <1>10, <1>p, DeliveryBounds DEF Fault
<1>11. ASSUME ReconcileEnds, UNCHANGED reported, identity' \in Identities,
              deployed' \in Deployments
       PROVE  ServerOK' /\ SocketOK' /\ LoopOK' /\ RoundOK'
  <2>1. ServerOK'
    BY <1>11, <1>p, PartsKept DEF ReconcileEnds
  <2>2. SocketOK'
    BY <1>11, <1>p DEF ReconcileEnds, SocketOK
  <2>3. LoopOK'
    BY <1>11, <1>p DEF ReconcileEnds, LoopOK
  <2>4. fetched' \in Fetches /\ posts' \in 0..2
    BY <1>0, <1>11, Values, Stored DEF ReconcileEnds
  <2> QED BY <1>11, <2>1, <2>2, <2>3, <2>4 DEF RoundOK
<1>12. ASSUME ProcessEnds, deployed' \in Deployments
       PROVE  ServerOK' /\ SocketOK' /\ LoopOK' /\ RoundOK' /\ lost' \in BOOLEAN
  <2>1. ServerOK' /\ lost' \in BOOLEAN /\ identity' \in Identities
    BY <1>12, <1>p, PartsKept DEF ProcessEnds, RoundOK
  <2>2. SocketOK'
    BY <1>12, <1>9 DEF ProcessEnds
  <2>3. wake' \in BOOLEAN
    BY <1>12 DEF ProcessEnds
  <2>4. LoopOK'
    BY <1>12, <2>3 DEF ProcessEnds, LoopOK
  <2>5. fetched' \in Fetches /\ posts' \in 0..2
    BY <1>0, <1>12, Values, Stored DEF ProcessEnds
  <2> QED BY <1>12, <2>1, <2>2, <2>4, <2>5 DEF RoundOK
<1>4. CASE Server
  <2>1. CASE PublishGeneration
    <3>1. ServerOK'
      BY <1>p, <2>1, DeliveryBounds DEF PublishGeneration, PublishNext, ServerOK, Generations
    <3> QED BY <1>p, <2>1, <3>1, PartsKept DEF PublishGeneration, Typed
  <2>2. ASSUME NEW g \in pending, Broadcast(g) PROVE Typed'
    <3>1. ServerOK' /\ g \in Generations
      BY <1>p, <2>2 DEF Broadcast, Announce, ServerOK
    <3>2. SocketOK' /\ lost' \in BOOLEAN
      BY <1>3, <2>2, <3>1 DEF Broadcast
    <3> QED BY <1>p, <2>2, <3>1, <3>2, PartsKept DEF Broadcast, Typed
  <2>3. CASE RequestSnapshot
    <3>1. Snapshot \in Generations
      BY Stored DEF Snapshot
    <3>2. SocketOK' /\ lost' \in BOOLEAN
      BY <1>3, <2>3, <3>1 DEF RequestSnapshot
    <3> QED BY <1>p, <2>3, <3>2, PartsKept DEF RequestSnapshot, Typed
  <2>4. CASE DeleteNode
    <3>1. identity' \in Identities
      BY <2>4, Stored DEF DeleteNode
    <3>2. life' \in 0..MaxLives
      BY <1>p, <2>4, DeliveryBounds DEF DeleteNode, ServerOK
    <3>3. ServerOK'
      BY <1>p, <2>4, <3>2, Stored DEF DeleteNode, Forget, ServerOK
    <3>4. RoundOK'
      BY <1>p, <2>4, <3>1 DEF DeleteNode, RoundOK
    <3> QED BY <1>p, <2>4, <3>3, <3>4, PartsKept DEF DeleteNode, Typed
  <2>5. ASSUME NEW snapshot \in cache, Expire(snapshot) PROVE Typed'
    <3>1. ServerOK'
      BY <1>p, <2>5 DEF Expire, ServerOK
    <3> QED BY <1>p, <2>5, <3>1, PartsKept DEF Expire, Typed
  <2> QED
    BY <1>4, <2>1, <2>2, <2>3, <2>4, <2>5 DEF Server
<1>5. CASE Connection
  <2>1. CASE Subscribe
    <3>1. SocketOK'
      BY <1>p, <2>1 DEF Subscribe, SocketOK
    <3> QED BY <1>p, <2>1, <3>1, PartsKept DEF Subscribe, Typed
  <2>2. CASE SayHello
    <3>1. SocketOK'
      BY <1>p, <2>2 DEF SayHello, SocketOK, ServerOK
    <3>2. ServerOK'
      BY <1>1, <1>p, <2>2 DEF SayHello, ServerOK
    <3> QED BY <1>p, <2>2, <3>1, <3>2, PartsKept DEF SayHello, Typed
  <2>3. CASE DispatchHello
    <3>1. wake' \in BOOLEAN
      BY <2>3, Zenon DEF DispatchHello
    <3>2. SocketOK' /\ LoopOK'
      BY <1>p, <2>3, <3>1 DEF DispatchHello, SocketOK, LoopOK
    <3> QED BY <1>p, <2>3, <3>2, PartsKept DEF DispatchHello, Typed
  <2>4. CASE DispatchEvent
    <3>1. wake' \in BOOLEAN
      BY <2>4, Zenon DEF DispatchEvent
    <3>2. queue \in Seq(Generations) /\ queue # <<>> /\ queue' = Tail(queue)
      BY <1>p, <2>4 DEF DispatchEvent, SocketOK
    <3>3. queue' \in Seq(Generations) /\ Len(queue') = Len(queue) - 1
      BY <3>2
    <3>4. SocketOK'
      BY <1>p, <2>4, <3>2, <3>3, MaxQueueAssumption DEF DispatchEvent, SocketOK
    <3>5. LoopOK'
      BY <1>p, <2>4, <3>1 DEF DispatchEvent, LoopOK
    <3> QED BY <1>p, <2>4, <3>4, <3>5, PartsKept DEF DispatchEvent, Typed
  <2> QED
    BY <1>5, <2>1, <2>2, <2>3, <2>4 DEF Connection
<1>13. ASSUME NEW next \in {"top", "wait", "debounce", "fetch"}, Only(next),
              wake' = wake \/ wake' = FALSE, UNCHANGED wsVars
       PROVE  Typed'
  <2>1. wake' \in BOOLEAN
    BY <1>13, <1>p, Zenon DEF LoopOK
  <2>2. LoopOK'
    BY <1>13, <1>p, <2>1 DEF Only, LoopOK
  <2> QED BY <1>13, <1>p, <2>2, PartsKept DEF Only, Typed
<1>6. CASE StartAgent
  BY <1>6, <1>13 DEF StartAgent
<1>7. CASE Consumer
  <2>1. CASE LoopTop \/ Wake \/ WakeByStop \/ Drain \/ Fallback
    BY <1>13, <2>1, Zenon DEF LoopTop, Wake, WakeByStop, Drain, Fallback
  <2>2. CASE FinalDrain
    <3>1. wake' \in BOOLEAN
      BY <2>2 DEF FinalDrain
    <3>2. LoopOK'
      BY <2>2, <3>1 DEF FinalDrain, LoopOK
    <3> QED BY <1>p, <2>2, <3>2, PartsKept DEF FinalDrain, Typed
  <2>3. CASE Exit
    <3>1. ProcessEnds /\ UNCHANGED <<deployed, faults>> /\ deployed' \in Deployments
      BY <1>p, <2>3 DEF Exit, RoundOK
    <3> QED BY <1>p, <1>12, <3>1 DEF Typed
  <2>4. CASE Fetch
    <3>1. fetched' \in Fetches /\ identity' \in Identities
      BY <1>0, <2>4, Values, Stored DEF Fetch
    <3>2. ServerOK'
      BY <1>1, <1>p, <2>4 DEF Fetch, ServerOK
    <3>3. LoopOK' /\ RoundOK' /\ lost' \in BOOLEAN
      BY <1>p, <2>4, <3>1 DEF Fetch, LoopOK, RoundOK
    <3> QED BY <1>p, <2>4, <3>2, <3>3, PartsKept DEF Fetch, Typed
  <2>5. CASE ApplySucceeds
    <3>1. fetched' \in Fetches /\ deployed' \in Deployments
      BY <2>5, Stored DEF ApplySucceeds
    <3>2. LoopOK' /\ RoundOK'
      BY <1>p, <2>5, <3>1 DEF ApplySucceeds, LoopOK, RoundOK
    <3> QED BY <1>p, <2>5, <3>2, PartsKept DEF ApplySucceeds, Typed
  <2>6. CASE Post
    <3>1. identity' \in Identities
      BY <1>0, <2>6, Values DEF Post
    <3>2. reported' \subseteq Generations
      BY <1>p, <2>6, Stored DEF Post, ServerOK
    <3>3. posts' \in 0..2 /\ pc' \in {"report", "persist"}
      BY <1>p, <2>6 DEF Post, RoundOK
    <3>4. ServerOK' /\ LoopOK' /\ RoundOK'
      BY <1>p, <2>6, <3>1, <3>2, <3>3 DEF Post, ServerOK, LoopOK, RoundOK
    <3> QED BY <1>p, <2>6, <3>4, PartsKept DEF Post, Typed
  <2>7. CASE Persist
    <3>1. identity' \in Identities /\ deployed' \in Deployments
      BY <1>p, <2>7, Stored DEF Persist, RoundOK
    <3> QED BY <1>11, <1>p, <2>7, <3>1 DEF Persist, Typed
  <2>8. CASE NotAccepted
    <3>1. /\ identity' \in Identities /\ deployed' \in Deployments
          /\ lost' \in BOOLEAN
      BY <1>p, <2>8 DEF NotAccepted, RoundOK
    <3> QED BY <1>11, <1>p, <2>8, <3>1 DEF NotAccepted, Typed
  <2> QED
    BY <1>7, <2>1, <2>2, <2>3, <2>4, <2>5, <2>6, <2>7, <2>8 DEF Consumer
<1>8. CASE Faults
  <2>1. CASE RevokeToken
    <3>1. RoundOK' /\ faults' \in 0..MaxFaults
      BY <1>10, <1>p, <2>1, Stored DEF RevokeToken, RoundOK
    <3> QED BY <1>p, <2>1, <3>1, PartsKept DEF RevokeToken, Typed
  <2>2. CASE Stop
    <3>1. LoopOK' /\ faults' \in 0..MaxFaults
      BY <1>10, <1>p, <2>2 DEF Stop, LoopOK
    <3> QED BY <1>p, <2>2, <3>1, PartsKept DEF Stop, Typed
  <2>3. CASE Disconnect
    <3>1. SocketOK' /\ faults' \in 0..MaxFaults
      BY <1>9, <1>10, <2>3 DEF Disconnect
    <3> QED BY <1>p, <2>3, <3>1, PartsKept DEF Disconnect, Typed
  <2>4. CASE ServerRestart
    <3>1. Hangup("off") \/ Hangup("down")
      BY <2>4 DEF ServerRestart
    <3>2. SocketOK' /\ faults' \in 0..MaxFaults
      BY <1>9, <1>10, <2>4, <3>1 DEF ServerRestart
    <3>3. ServerOK'
      BY <1>p, <2>4 DEF ServerRestart, ServerOK
    <3> QED BY <1>p, <2>4, <3>2, <3>3, PartsKept DEF ServerRestart, Typed
  <2>5. CASE Crash
    <3>1. ProcessEnds /\ deployed' \in Deployments /\ faults' \in 0..MaxFaults
      BY <1>10, <1>p, <2>5, Stored DEF Crash, RoundOK
    <3> QED BY <1>12, <3>1 DEF Typed
  <2>6. CASE ApplyFails
    <3>1. /\ faults' \in 0..MaxFaults /\ deployed' \in Deployments
          /\ lost' \in BOOLEAN
      BY <1>10, <2>6, Stored DEF ApplyFails
    <3>2. LoopOK' /\ RoundOK'
      BY <1>p, <2>6, <3>1 DEF ApplyFails, LoopOK, RoundOK
    <3> QED BY <1>p, <2>6, <3>1, <3>2, PartsKept DEF ApplyFails, Typed
  <2>7. CASE ReconcileFails
    <3>1. /\ identity' \in Identities /\ deployed' \in Deployments
          /\ lost' \in BOOLEAN /\ faults' \in 0..MaxFaults
      BY <1>10, <1>p, <2>7, Stored DEF ReconcileFails, RoundOK
    <3> QED BY <1>11, <2>7, <3>1 DEF ReconcileFails, Typed
  <2> QED
    BY <1>8, <2>1, <2>2, <2>3, <2>4, <2>5, <2>6, <2>7 DEF Faults
<1> QED
  BY <1>2, <1>4, <1>5, <1>6, <1>7, <1>8 DEF Next

(* Every state of server, connection and agent is well typed; in           *)
(* particular no subscriber queue outgrows its bound (EventBus).           *)
THEOREM DeliveryTypeCorrect == Spec => []DeliveryTypeOK
<1>1. Init => DeliveryTypeOK
  <2> SUFFICES ASSUME Init PROVE DeliveryTypeOK
    OBVIOUS
  <2>1. fetched \in [life : 0..MaxLives, gen : Generations, ok : BOOLEAN]
    BY DeliveryBounds DEF Init, Nothing, Generations
  <2>2. queue \in Seq(Generations) /\ Len(queue) <= MaxQueue
    BY MaxQueueAssumption DEF Init
  <2>3. identity \in [token : {"valid", "rejected"}, applied : Generations]
    BY DeliveryBounds DEF Init, Generations
  <2>4. deployed \in Deployments
    BY DeliveryBounds DEF Init, Deployments, Generations
  <2>5. lost \in BOOLEAN /\ wake \in BOOLEAN
    BY DEF Init
  <2>6. hello \in Generations \cup {NoHello}
    BY DEF Init
  <2> QED
    BY <2>1, <2>2, <2>3, <2>4, <2>5, <2>6, DeliveryBounds
       DEF Init, LogInit, DeliveryTypeOK, Generations, Deployments
<1> QED
  BY <1>1, TypeStep, PTL DEF Spec

(***************************************************************************)
(* Reports come before progress.                                           *)
(***************************************************************************)

(* A reconcile that is about to save a generation has reported it to the   *)
(* node its token belongs to.                                              *)
ReportInv ==
    /\ AdvanceOnlyReported
    /\ pc = "persist" /\ fetched.ok /\ identity.token = "valid"
         => fetched.gen \in reported

(* A call with a rejected token starts a fresh identity; a valid one is    *)
(* kept as it is.                                                          *)
LEMMA SessionKeeps ==
    ASSUME AdvanceOnlyReported
    PROVE  Session.applied > 0 => Session.applied \in reported
<1>1. CASE identity.token = "valid"
  BY <1>1 DEF Session, AdvanceOnlyReported
<1>2. CASE identity.token # "valid"
  BY <1>2 DEF Session
<1> QED
  BY <1>1, <1>2

LEMMA ReportStep == DeliveryTypeOK /\ ReportInv /\ [Next]_vars => ReportInv'
<1> SUFFICES ASSUME DeliveryTypeOK, ReportInv, [Next]_vars PROVE ReportInv'
  OBVIOUS
<1> USE DEF wsVars, agentVars
<1>1. ASSUME UNCHANGED <<pc, identity, fetched, reported>> PROVE ReportInv'
  BY <1>1 DEF ReportInv, AdvanceOnlyReported
<1>2. ASSUME UNCHANGED <<identity, reported>>, pc' # "persist" PROVE ReportInv'
  BY <1>2 DEF ReportInv, AdvanceOnlyReported
<1>3. CASE UNCHANGED vars
  BY <1>1, <1>3 DEF vars
<1>4. CASE Server
  <2>1. CASE DeleteNode
    BY <2>1 DEF DeleteNode, ReportInv, AdvanceOnlyReported, DeliveryTypeOK
  <2>2. CASE PublishGeneration \/ RequestSnapshot
    BY <2>2, <1>1 DEF PublishGeneration, RequestSnapshot
  <2>3. ASSUME NEW g \in pending, Broadcast(g) PROVE ReportInv'
    BY <2>3, <1>1 DEF Broadcast
  <2>4. ASSUME NEW snapshot \in cache, Expire(snapshot) PROVE ReportInv'
    BY <2>4, <1>1 DEF Expire
  <2> QED
    BY <1>4, <2>1, <2>2, <2>3, <2>4 DEF Server
<1>5. CASE Connection
  BY <1>5, <1>1 DEF Connection, Subscribe, ClientDials, SayHello, DispatchHello, DispatchEvent
<1>6. CASE StartAgent
  BY <1>6, <1>2 DEF StartAgent, Only
<1>7. CASE Consumer
  <2>1. CASE LoopTop \/ Wake \/ WakeByStop \/ Drain \/ Fallback \/ FinalDrain
    BY <2>1, <1>2 DEF LoopTop, Wake, WakeByStop, Drain, Fallback, FinalDrain, Only
  <2>2. CASE Exit
    BY <2>2, <1>2 DEF Exit, ProcessEnds
  <2>3. CASE Fetch
    BY <2>3, SessionKeeps DEF Fetch, ReportInv, AdvanceOnlyReported
  <2>4. CASE ApplySucceeds
    BY <2>4, <1>2 DEF ApplySucceeds
  <2>5. CASE Post
    <3>1. reported \subseteq reported' /\ identity' = Session
      BY <2>5 DEF Post
    <3>2. AdvanceOnlyReported'
      BY <3>1, SessionKeeps DEF ReportInv, AdvanceOnlyReported
    <3>3. pc' = "persist" /\ fetched'.ok => fetched'.gen \in reported'
      BY <2>5 DEF Post
    <3> QED
      BY <3>2, <3>3 DEF ReportInv
  <2>6. CASE Persist
    BY <2>6 DEF Persist, ReconcileEnds, ReportInv, AdvanceOnlyReported, DeliveryTypeOK
  <2>7. CASE NotAccepted
    BY <2>7, <1>2 DEF NotAccepted, ReconcileEnds
  <2> QED
    BY <1>7, <2>1, <2>2, <2>3, <2>4, <2>5, <2>6, <2>7 DEF Consumer
<1>8. CASE Faults
  <2>1. CASE RevokeToken
    BY <2>1 DEF RevokeToken, ReportInv, AdvanceOnlyReported, DeliveryTypeOK
  <2>2. CASE ServerRestart \/ Disconnect \/ Stop
    BY <2>2, <1>1 DEF ServerRestart, Disconnect, Stop
  <2>3. CASE Crash \/ ApplyFails \/ ReconcileFails
    BY <2>3, <1>2 DEF Crash, ApplyFails, ReconcileFails, ProcessEnds, ReconcileEnds
  <2> QED
    BY <1>8, <2>1, <2>2, <2>3 DEF Faults
<1> QED
  BY <1>3, <1>4, <1>5, <1>6, <1>7, <1>8 DEF Next

(* Whatever is revoked, deleted, crashed or retried, an agent whose token  *)
(* is accepted has recorded as applied only a generation whose result the  *)
(* control plane holds (run_once reports before it advances).              *)
THEOREM ReportBeforeAdvance == Spec => []AdvanceOnlyReported
<1>1. Init => ReportInv
  BY DEF Init, ReportInv, AdvanceOnlyReported
<1>2. ReportInv => AdvanceOnlyReported
  BY DEF ReportInv
<1> QED
  BY <1>1, <1>2, ReportStep, DeliveryTypeCorrect, PTL DEF Spec

(***************************************************************************)
(* Without Redis the node never goes back.                                 *)
(***************************************************************************)

(* What runs on the node, and what is about to, is at most what its life   *)
(* has published; nothing comes from an earlier life.                      *)
OrderInv ==
    /\ cache = {}
    /\ deployed.life <= life
    /\ deployed.life = life => deployed.gen <= published
    /\ fetched.life <= life
    /\ fetched.life = life => fetched.gen <= published
    /\ pc = "apply" /\ deployed.life = fetched.life => deployed.gen <= fetched.gen

NotOlder ==
    deployed'.life = deployed.life /\ deployed'.gen > 0 => deployed'.gen >= deployed.gen

LEMMA OrderStep ==
    ASSUME ~Redis, DeliveryTypeOK, OrderInv, [Next]_vars
    PROVE  OrderInv' /\ NotOlder
<1> USE DeliveryBounds DEF wsVars, agentVars, Generations, Deployments
<1>n. deployed.gen \in Nat /\ fetched.gen \in Nat /\ life \in Nat /\ published \in Nat
      /\ deployed.life \in Nat /\ fetched.life \in Nat
  BY DEF DeliveryTypeOK
<1>1. ASSUME UNCHANGED <<cache, deployed, life, published, fetched, pc>>
      PROVE  OrderInv' /\ NotOlder
  BY <1>1, <1>n DEF OrderInv, NotOlder
<1>2. ASSUME UNCHANGED <<cache, deployed, life, published>>, pc' # "apply",
             fetched' \in {fetched, Nothing}
      PROVE  OrderInv' /\ NotOlder
  BY <1>2, <1>n DEF OrderInv, NotOlder, Nothing
<1>3. ASSUME UNCHANGED <<cache, life, published>>, pc' # "apply",
             deployed' = [life |-> fetched.life, gen |-> 0],
             fetched' \in {fetched, Nothing}
      PROVE  OrderInv' /\ NotOlder
  BY <1>3, <1>n DEF OrderInv, NotOlder, Nothing
<1>4. CASE UNCHANGED vars
  BY <1>1, <1>4 DEF vars
<1>5. CASE Server
  <2>1. CASE PublishGeneration
    BY <2>1, <1>n DEF PublishGeneration, PublishNext, OrderInv, NotOlder
  <2>2. ASSUME NEW g \in pending, Broadcast(g) PROVE OrderInv' /\ NotOlder
    BY <2>2, <1>1 DEF Broadcast, Announce
  <2>3. CASE RequestSnapshot
    BY <2>3, <1>1 DEF RequestSnapshot
  <2>4. CASE DeleteNode
    BY <2>4, <1>n DEF DeleteNode, OrderInv, NotOlder
  <2>5. ASSUME NEW snapshot \in cache, Expire(snapshot) PROVE OrderInv' /\ NotOlder
    BY <2>5 DEF OrderInv
  <2> QED
    BY <1>5, <2>1, <2>2, <2>3, <2>4, <2>5 DEF Server
<1>6. CASE Connection
  BY <1>6, <1>1
     DEF Connection, Subscribe, ClientDials, SayHello, DispatchHello, DispatchEvent, ReadThrough
<1>7. CASE StartAgent
  BY <1>7, <1>2 DEF StartAgent, Only
<1>8. CASE Consumer
  <2>1. CASE LoopTop \/ Wake \/ WakeByStop \/ Drain \/ Fallback \/ FinalDrain
    BY <2>1, <1>2 DEF LoopTop, Wake, WakeByStop, Drain, Fallback, FinalDrain, Only
  <2>2. CASE Exit
    BY <2>2, <1>2 DEF Exit, ProcessEnds
  <2>3. CASE Fetch
    <3>1. cache' = {} /\ Latest = [life |-> life, gen |-> published]
      BY <2>3 DEF Fetch, ReadThrough, Latest, Cached, OrderInv
    <3>2. fetched' = [life |-> life, gen |-> published, ok |-> FALSE]
      BY <2>3, <3>1 DEF Fetch
    <3> QED
      BY <2>3, <3>1, <3>2, <1>n DEF Fetch, OrderInv, NotOlder
  <2>4. CASE ApplySucceeds
    <3>1. fetched'.life = fetched.life /\ fetched'.gen = fetched.gen
      BY <2>4 DEF ApplySucceeds, DeliveryTypeOK
    <3> QED
      BY <2>4, <3>1, <1>n DEF ApplySucceeds, OrderInv, NotOlder
  <2>5. CASE Post
    BY <2>5, <1>2 DEF Post
  <2>6. CASE Persist \/ NotAccepted
    BY <2>6, <1>2 DEF Persist, NotAccepted, ReconcileEnds
  <2> QED
    BY <1>8, <2>1, <2>2, <2>3, <2>4, <2>5, <2>6 DEF Consumer
<1>9. CASE Faults
  <2>1. CASE RevokeToken \/ ServerRestart \/ Disconnect \/ Stop
    BY <2>1, <1>1 DEF RevokeToken, ServerRestart, Disconnect, Stop
  <2>2. CASE Crash
    BY <2>2, <1>2, <1>3 DEF Crash, ProcessEnds
  <2>3. CASE ApplyFails
    BY <2>3, <1>3 DEF ApplyFails
  <2>4. CASE ReconcileFails
    BY <2>4, <1>2, <1>3 DEF ReconcileFails, ReconcileEnds
  <2> QED
    BY <1>9, <2>1, <2>2, <2>3, <2>4 DEF Faults
<1> QED
  BY <1>4, <1>5, <1>6, <1>7, <1>8, <1>9 DEF Next

(* On a control server without Redis, and in whatever order the rings      *)
(* come, a reconcile never replaces what runs on the node by an older      *)
(* generation of the same life of the node.                                *)
THEOREM WithoutRedisNeverOlder == ~Redis /\ Spec => NeverOlder
<1> SUFFICES ASSUME ~Redis PROVE Spec => NeverOlder
  OBVIOUS
<1>1. Init => OrderInv
  BY DEF Init, LogInit, OrderInv, Nothing
<1>2. DeliveryTypeOK /\ OrderInv /\ [Next]_vars => OrderInv' /\ [NotOlder]_vars
  BY OrderStep
<1> QED
  BY <1>1, <1>2, DeliveryTypeCorrect, PTL DEF Spec, NeverOlder, NotOlder

(***************************************************************************)
(* No publication is lost.                                                 *)
(***************************************************************************)

(* In the first life of the node everything there is belongs to it, and is *)
(* no newer than what is published.                                        *)
FirstLifeInv ==
    /\ \A snapshot \in cache : snapshot.life = 0
    /\ fetched.life = 0 /\ fetched.gen <= published
    /\ deployed.life = 0 /\ deployed.gen <= published
    /\ identity.applied <= published

(* An apply never starts from more than it is about to bring, and a        *)
(* generation is recorded as applied only where it, or a newer one, runs:  *)
(* what makes it safe to ignore the rings for it.  A crashed or failed     *)
(* apply leaves less, and then a reconcile is due or the failure is known. *)
RecordedInv ==
    /\ pc = "apply" => /\ ~fetched.ok
                       /\ identity.applied <= fetched.gen
                       /\ deployed.gen <= fetched.gen
    /\ pc \in {"report", "persist"} /\ fetched.ok => deployed.gen = fetched.gen
    /\ lost \/ pc \in {"down", "fetch", "apply"} \/ identity.applied <= deployed.gen

(* The publication is on its way in one of its forms: not yet announced,   *)
(* to be spoken of by a hello, queued, a ring of the bell, a reconcile     *)
(* that has yet to fetch, or an apply of it.                               *)
OnItsWay ==
    \/ published \in pending
    \/ ws \in {"off", "down", "subscribed"}
    \/ hello = published
    \/ \E i \in 1..Len(queue) : queue[i] = published
    \/ wake
    \/ pc \in {"down", "debounce", "fetch"}
    \/ pc = "apply" /\ fetched.gen = published

DoorbellInv ==
    life = 0 =>
        /\ FirstLifeInv
        /\ RecordedInv
        /\ published > 0 /\ ~lost => OnItsWay \/ deployed.gen = published

(* A step of the first life begins in it, and its numbers are numbers.     *)
LEMMA FirstLifeTypes ==
    ASSUME DeliveryTypeOK
    PROVE  /\ published \in Nat /\ deployed.gen \in Nat /\ deployed.life \in Nat
           /\ fetched \in Fetches /\ identity \in Identities /\ deployed \in Deployments
           /\ fetched.gen \in Nat /\ fetched.life \in Nat /\ identity.applied \in Nat
           /\ life \in Nat
  BY DeliveryBounds DEF DeliveryTypeOK, Generations, Deployments, Fetches, Identities

LEMMA LifeStays ==
    ASSUME DeliveryTypeOK, [Next]_vars, life' = 0
    PROVE  life = 0 /\ ~DeleteNode
<1>1. ~DeleteNode
  BY FirstLifeTypes DEF DeleteNode
<1> QED
  BY <1>1 DEF Next, vars, Server, PublishGeneration, Broadcast, RequestSnapshot, Expire,
              Connection, Subscribe, SayHello, DispatchHello, DispatchEvent,
              StartAgent, Only, Consumer, LoopTop, Wake, WakeByStop, Drain, Fallback,
              FinalDrain, Exit, ProcessEnds, Fetch, ApplySucceeds, Post, Persist,
              NotAccepted, ReconcileEnds, Faults, RevokeToken, ServerRestart,
              Disconnect, Stop, Crash, ApplyFails, ReconcileFails

(* With or without Redis, what the control server serves in the first life *)
(* is of that life.                                                        *)
LEMMA LatestIsFirst ==
    ASSUME life = 0, FirstLifeInv
    PROVE  /\ Latest.life = 0
           /\ ReadThrough => \A snapshot \in cache' : snapshot.life = 0
<1>1. Latest.life = 0
  BY DEF Latest, Cached, FirstLifeInv
<1> QED
  BY <1>1 DEF ReadThrough, FirstLifeInv

LEMMA FirstLifeStep ==
    ASSUME DeliveryTypeOK, life = 0, FirstLifeInv, [Next]_vars, ~DeleteNode
    PROVE  FirstLifeInv'
<1> USE FirstLifeTypes
<1> USE DEF wsVars, agentVars
<1>1. ASSUME cache' \subseteq cache, fetched' \in {fetched, Nothing}, published' = published,
             deployed' = deployed \/ deployed' = [life |-> fetched.life, gen |-> 0]
                \/ deployed' = [life |-> fetched.life, gen |-> fetched.gen],
             identity' = identity \/ identity'.applied = 0
      PROVE  FirstLifeInv'
  BY <1>1 DEF FirstLifeInv, Nothing
<1>s. Session = identity \/ Session.applied = 0
  BY DEF Session
<1>2. CASE UNCHANGED vars
  BY <1>1, <1>2 DEF vars
<1>3. CASE Server
  <2>1. CASE PublishGeneration
    BY <2>1 DEF PublishGeneration, PublishNext, FirstLifeInv
  <2>2. ASSUME NEW g \in pending, Broadcast(g) PROVE FirstLifeInv'
    BY <2>2, <1>1 DEF Broadcast, Announce
  <2>3. CASE RequestSnapshot
    BY <2>3, <1>1 DEF RequestSnapshot
  <2>4. ASSUME NEW snapshot \in cache, Expire(snapshot) PROVE FirstLifeInv'
    BY <2>4, <1>1 DEF Expire
  <2> QED
    BY <1>3, <2>1, <2>2, <2>3, <2>4 DEF Server
<1>4. CASE Connection
  <2>1. CASE SayHello
    BY <2>1, LatestIsFirst DEF SayHello, FirstLifeInv
  <2> QED
    BY <1>4, <2>1, <1>1 DEF Connection, Subscribe, ClientDials, DispatchHello, DispatchEvent
<1>5. CASE StartAgent
  BY <1>5, <1>1 DEF StartAgent, Only
<1>6. CASE Consumer
  <2>1. CASE LoopTop \/ Wake \/ WakeByStop \/ Drain \/ Fallback \/ FinalDrain
    BY <2>1, <1>1 DEF LoopTop, Wake, WakeByStop, Drain, Fallback, FinalDrain, Only
  <2>2. CASE Exit
    BY <2>2, <1>1 DEF Exit, ProcessEnds
  <2>3. CASE Fetch
    BY <2>3, <1>s, LatestIsFirst DEF Fetch, FirstLifeInv
  <2>4. CASE ApplySucceeds
    <3>1. fetched'.life = fetched.life /\ fetched'.gen = fetched.gen
      BY <2>4 DEF ApplySucceeds, Fetches
    <3> QED
      BY <2>4, <3>1 DEF ApplySucceeds, FirstLifeInv
  <2>5. CASE Post
    BY <2>5, <1>s, <1>1 DEF Post
  <2>6. CASE Persist
    <3>1. identity' = identity \/ identity'.applied = fetched.gen
      BY <2>6 DEF Persist, Identities
    <3> QED
      BY <2>6, <3>1 DEF Persist, ReconcileEnds, FirstLifeInv, Nothing
  <2>7. CASE NotAccepted
    BY <2>7, <1>1 DEF NotAccepted, ReconcileEnds
  <2> QED
    BY <1>6, <2>1, <2>2, <2>3, <2>4, <2>5, <2>6, <2>7 DEF Consumer
<1>7. CASE Faults
  <2>1. CASE RevokeToken
    <3>1. identity'.applied = identity.applied
      BY <2>1 DEF RevokeToken, Identities
    <3> QED
      BY <2>1, <3>1 DEF RevokeToken, FirstLifeInv
  <2>2. CASE ServerRestart \/ Disconnect \/ Stop
    BY <2>2, <1>1 DEF ServerRestart, Disconnect, Stop
  <2>3. CASE Crash
    BY <2>3, <1>1 DEF Crash, ProcessEnds
  <2>4. CASE ApplyFails
    BY <2>4, <1>1 DEF ApplyFails
  <2>5. CASE ReconcileFails
    BY <2>5, <1>1 DEF ReconcileFails, ReconcileEnds
  <2> QED
    BY <1>7, <2>1, <2>2, <2>3, <2>4, <2>5 DEF Faults
<1> QED
  BY <1>2, <1>3, <1>4, <1>5, <1>6, <1>7 DEF Next

LEMMA RecordedStep ==
    ASSUME DeliveryTypeOK, life = 0, FirstLifeInv, RecordedInv, [Next]_vars, ~DeleteNode
    PROVE  RecordedInv'
<1> USE FirstLifeTypes
<1> USE DEF wsVars, agentVars
<1>1. ASSUME UNCHANGED <<pc, fetched, identity, deployed>>, lost => lost'
      PROVE  RecordedInv'
  BY <1>1 DEF RecordedInv
<1>2. ASSUME pc' \in {"down", "fetch"} PROVE RecordedInv'
  BY <1>2 DEF RecordedInv
<1>3. ASSUME pc' \notin {"apply", "report", "persist"}, lost' PROVE RecordedInv'
  BY <1>3 DEF RecordedInv
<1>4. ASSUME UNCHANGED <<identity, deployed, lost>>, pc \notin {"down", "fetch", "apply"},
             pc' \notin {"apply", "report", "persist"}
      PROVE  RecordedInv'
  BY <1>4 DEF RecordedInv
<1>s. Session = identity \/ Session.applied = 0
  BY DEF Session
<1>5. CASE UNCHANGED vars
  BY <1>1, <1>5 DEF vars
<1>6. CASE Server
  <2>1. CASE PublishGeneration
    BY <2>1, <1>1 DEF PublishGeneration
  <2>4. CASE RequestSnapshot
    <3>1. lost => lost'
      BY <2>4, Zenon DEF RequestSnapshot, Enqueue
    <3> QED
      BY <2>4, <3>1, <1>1 DEF RequestSnapshot
  <2>2. ASSUME NEW g \in pending, Broadcast(g) PROVE RecordedInv'
    BY <2>2, <1>1 DEF Broadcast, Enqueue
  <2>3. ASSUME NEW snapshot \in cache, Expire(snapshot) PROVE RecordedInv'
    BY <2>3, <1>1 DEF Expire
  <2> QED
    BY <1>6, <2>1, <2>2, <2>3, <2>4 DEF Server
<1>7. CASE Connection
  BY <1>7, <1>1 DEF Connection, Subscribe, ClientDials, SayHello, DispatchHello, DispatchEvent
<1>8. CASE StartAgent
  BY <1>8, <1>2 DEF StartAgent, Only
<1>9. CASE Consumer
  <2>1. CASE LoopTop \/ Wake \/ WakeByStop
    BY <2>1, <1>4 DEF LoopTop, Wake, WakeByStop, Only
  <2>2. CASE Drain \/ Fallback \/ FinalDrain
    BY <2>2, <1>2 DEF Drain, Fallback, FinalDrain, Only
  <2>3. CASE Exit
    BY <2>3, <1>2 DEF Exit, ProcessEnds
  <2>4. CASE Fetch
    BY <2>4, <1>s DEF Fetch, RecordedInv, FirstLifeInv
  <2>5. CASE ApplySucceeds
    <3>1. fetched'.gen = fetched.gen
      BY <2>5 DEF ApplySucceeds, Fetches
    <3> QED
      BY <2>5, <3>1 DEF ApplySucceeds, RecordedInv
  <2>6. CASE Post
    <3>1. pc' \in {"report", "persist"} /\ UNCHANGED <<fetched, deployed, lost>>
      BY <2>6 DEF Post
    <3> QED
      BY <2>6, <3>1, <1>s DEF Post, RecordedInv
  <2>7. CASE Persist
    <3>1. identity' = identity \/ (fetched.ok /\ identity'.applied = fetched.gen)
      BY <2>7 DEF Persist, Identities
    <3> QED
      BY <2>7, <3>1 DEF Persist, ReconcileEnds, RecordedInv
  <2>8. CASE NotAccepted
    BY <2>8, <1>3 DEF NotAccepted, ReconcileEnds
  <2> QED
    BY <1>9, <2>1, <2>2, <2>3, <2>4, <2>5, <2>6, <2>7, <2>8 DEF Consumer
<1>10. CASE Faults
  <2>1. CASE RevokeToken
    <3>1. identity'.applied = identity.applied
      BY <2>1 DEF RevokeToken, Identities
    <3> QED
      BY <2>1, <3>1 DEF RevokeToken, RecordedInv
  <2>2. CASE ServerRestart \/ Disconnect \/ Stop
    BY <2>2, <1>1 DEF ServerRestart, Disconnect, Stop
  <2>3. CASE Crash
    BY <2>3, <1>2 DEF Crash, ProcessEnds
  <2>4. CASE ApplyFails
    BY <2>4 DEF ApplyFails, RecordedInv, Fault
  <2>5. CASE ReconcileFails
    BY <2>5, <1>3 DEF ReconcileFails, ReconcileEnds
  <2> QED
    BY <1>10, <2>1, <2>2, <2>3, <2>4, <2>5 DEF Faults
<1> QED
  BY <1>5, <1>6, <1>7, <1>8, <1>9, <1>10 DEF Next

(* A ring that is ignored speaks of a generation that is already dealt     *)
(* with.                                                                   *)
LEMMA IgnoredIsKnown ==
    ASSUME DeliveryTypeOK, FirstLifeInv, RecordedInv, ~lost, ~Rings(published)
    PROVE  \/ pc \in {"down", "fetch"}
           \/ pc = "apply" /\ fetched.gen = published
           \/ deployed.gen = published
  BY FirstLifeTypes DEF FirstLifeInv, RecordedInv, Rings

(* An event that finds the queue full is lost; any other is queued, behind *)
(* those that are there.                                                   *)
LEMMA EnqueueKeeps ==
    ASSUME DeliveryTypeOK, NEW event \in Generations, Enqueue(event), ~lost', ws = "open"
    PROVE  /\ ~lost
           /\ \A g \in Generations :
                 (\E i \in 1..Len(queue) : queue[i] = g)
                    => \E i \in 1..Len(queue') : queue'[i] = g
           /\ event # Snapshot => \E i \in 1..Len(queue') : queue'[i] = event
<1>1. ~lost /\ (event # Snapshot => Len(queue) < MaxQueue)
  <2>1. ~lost /\ ~(event # Snapshot /\ Len(queue) >= MaxQueue)
    BY Zenon DEF Enqueue
  <2> QED
    BY <2>1, MaxQueueAssumption DEF DeliveryTypeOK
<1>2. queue' = queue \/ queue' = Append(queue, event)
  BY DEF Enqueue
<1>3. event # Snapshot => queue' = Append(queue, event)
  BY <1>1, MaxQueueAssumption DEF Enqueue, DeliveryTypeOK
<1>4. queue \in Seq(Generations)
  BY DEF DeliveryTypeOK
<1>5. ASSUME queue' = Append(queue, event)
      PROVE  /\ Len(queue') = Len(queue) + 1
             /\ \A i \in 1..Len(queue) : queue'[i] = queue[i]
             /\ queue'[Len(queue) + 1] = event
  BY <1>4, <1>5
<1>6. Len(queue) \in Nat
  BY <1>4
<1>7. ASSUME queue' = Append(queue, event)
      PROVE  /\ \A g \in Generations :
                   (\E i \in 1..Len(queue) : queue[i] = g)
                      => \E i \in 1..Len(queue') : queue'[i] = g
             /\ \E i \in 1..Len(queue') : queue'[i] = event
  <2>1. 1..Len(queue) \subseteq 1..Len(queue') /\ Len(queue) + 1 \in 1..Len(queue')
    BY <1>5, <1>6, <1>7
  <2> QED
    BY <2>1, <1>5, <1>7
<1> QED
  BY <1>1, <1>2, <1>3, <1>7

LEMMA DoorbellStep ==
    ASSUME DeliveryTypeOK, DoorbellInv, [Next]_vars
    PROVE  DoorbellInv'
<1> SUFFICES ASSUME life' = 0 PROVE DoorbellInv'
  BY DEF DoorbellInv
<1> USE FirstLifeTypes
<1> USE DEF wsVars, agentVars
<1>l. life = 0 /\ ~DeleteNode
  BY LifeStays
<1>f. FirstLifeInv /\ RecordedInv
  BY <1>l DEF DoorbellInv
<1>g. FirstLifeInv' /\ RecordedInv'
  BY <1>l, <1>f, FirstLifeStep, RecordedStep
<1> SUFFICES ASSUME published' > 0, ~lost' PROVE OnItsWay' \/ deployed'.gen = published'
  BY <1>g DEF DoorbellInv
<1>i. published > 0 /\ ~lost => OnItsWay \/ deployed.gen = published
  BY <1>l DEF DoorbellInv
<1>1. ASSUME ws' \in {"off", "down", "subscribed"} \/ pc' \in {"down", "debounce", "fetch"}
      PROVE  OnItsWay'
  BY <1>1 DEF OnItsWay
<1>2. ASSUME UNCHANGED <<published, pending, wsVars, wake, lost, fetched, deployed>>,
             pc' = pc \/ pc \notin {"down", "debounce", "fetch", "apply"}
      PROVE  OnItsWay' \/ deployed'.gen = published'
  BY <1>2, <1>i DEF OnItsWay
<1>3. CASE UNCHANGED vars
  BY <1>2, <1>3 DEF vars
<1>4. CASE Server
  <2>1. CASE PublishGeneration
    BY <2>1 DEF PublishGeneration, PublishNext, OnItsWay
  <2>2. ASSUME NEW g \in pending, Broadcast(g) PROVE OnItsWay' \/ deployed'.gen = published'
    <3>1. CASE ws # "open"
      BY <2>2, <3>1, <1>1 DEF Broadcast, Enqueue, DeliveryTypeOK
    <3>2. CASE ws = "open"
      <4>1. g \in Generations /\ published \in Generations /\ Snapshot = 0
        BY DEF DeliveryTypeOK, Snapshot
      <4>2. Enqueue(g)
        BY <2>2 DEF Broadcast
      <4>3. /\ ~lost
            /\ (\E i \in 1..Len(queue) : queue[i] = published)
                  => \E i \in 1..Len(queue') : queue'[i] = published
            /\ g # Snapshot => \E i \in 1..Len(queue') : queue'[i] = g
        BY <3>2, <4>1, <4>2, EnqueueKeeps
      <4>4. UNCHANGED <<published, ws, hello, wake, pc, fetched, deployed>>
            /\ pending' = pending \ {g}
        BY <2>2 DEF Broadcast, Announce, Enqueue
      <4>5. OnItsWay \/ deployed.gen = published
        BY <1>i, <4>3, <4>4
      <4>6. CASE g = published
        BY <4>6, <4>1, <4>3, <4>4 DEF OnItsWay
      <4>7. CASE g # published
        BY <4>7, <4>3, <4>4, <4>5 DEF OnItsWay
      <4> QED
        BY <4>6, <4>7
    <3> QED
      BY <3>1, <3>2
  <2>3. CASE RequestSnapshot
    <3>1. CASE ws # "open"
      BY <2>3, <3>1, <1>1 DEF RequestSnapshot, Enqueue, DeliveryTypeOK
    <3>2. CASE ws = "open"
      <4>1. Snapshot \in Generations /\ published \in Generations
        BY DeliveryBounds DEF DeliveryTypeOK, Snapshot, Generations
      <4>2. Enqueue(Snapshot)
        BY <2>3 DEF RequestSnapshot
      <4>3. /\ ~lost
            /\ (\E i \in 1..Len(queue) : queue[i] = published)
                  => \E i \in 1..Len(queue') : queue'[i] = published
        BY <3>2, <4>1, <4>2, EnqueueKeeps
      <4>4. UNCHANGED <<published, pending, ws, hello, wake, pc, fetched, deployed>>
        BY <2>3 DEF RequestSnapshot, Enqueue
      <4>5. OnItsWay \/ deployed.gen = published
        BY <1>i, <4>3, <4>4
      <4> QED
        BY <4>3, <4>4, <4>5 DEF OnItsWay
    <3> QED
      BY <3>1, <3>2
  <2>4. ASSUME NEW snapshot \in cache, Expire(snapshot)
        PROVE  OnItsWay' \/ deployed'.gen = published'
    BY <2>4, <1>2 DEF Expire
  <2> QED
    BY <1>4, <1>l, <2>1, <2>2, <2>3, <2>4 DEF Server
<1>5. CASE Connection
  <2>1. CASE Subscribe
    BY <2>1, <1>1 DEF Subscribe
  <2>2. CASE SayHello
    BY <2>2 DEF SayHello, OnItsWay
  <2>3. CASE DispatchHello
    <3>1. UNCHANGED <<published, pending, ws, queue, pc, fetched, deployed, lost>>
          /\ (wake => wake')
      BY <2>3, Zenon DEF DispatchHello
    <3>2. OnItsWay \/ deployed.gen = published
      BY <1>i, <3>1
    <3>3. CASE hello = published /\ Rings(published)
      <4>1. wake'
        BY <2>3, <3>3, Zenon DEF DispatchHello
      <4> QED
        BY <4>1 DEF OnItsWay
    <3>4. CASE hello = published /\ ~Rings(published)
      BY <3>4, <3>1, <1>f, IgnoredIsKnown DEF OnItsWay
    <3>5. CASE hello # published
      BY <3>1, <3>2, <3>5 DEF OnItsWay
    <3> QED
      BY <3>3, <3>4, <3>5
  <2>4. CASE DispatchEvent
    <3>1. UNCHANGED <<published, pending, ws, hello, pc, fetched, deployed, lost>>
          /\ (wake => wake')
      BY <2>4, Zenon DEF DispatchEvent
    <3>2. OnItsWay \/ deployed.gen = published
      BY <1>i, <3>1
    <3>3. CASE Head(queue) = published /\ Rings(published)
      <4>1. wake'
        BY <2>4, <3>3, Zenon DEF DispatchEvent
      <4> QED
        BY <4>1 DEF OnItsWay
    <3>4. CASE Head(queue) = published /\ ~Rings(published)
      BY <3>4, <3>1, <1>f, IgnoredIsKnown DEF OnItsWay
    <3>5. CASE Head(queue) # published
      <4>1. queue \in Seq(Generations) /\ queue # <<>> /\ queue' = Tail(queue)
        BY <2>4 DEF DispatchEvent, DeliveryTypeOK
      <4>2. /\ Len(queue) \in Nat /\ Len(queue') = Len(queue) - 1
            /\ queue[1] = Head(queue)
            /\ \A i \in 1..Len(queue') : queue'[i] = queue[i + 1]
        BY <4>1
      <4>3. ASSUME NEW i \in 1..Len(queue), queue[i] = published
            PROVE  i - 1 \in 1..Len(queue') /\ queue'[i - 1] = published
        <5>1. i # 1
          BY <4>2, <4>3, <3>5
        <5>2. i - 1 \in 1..Len(queue')
          BY <5>1, <4>2
        <5>3. PICK j \in 1..Len(queue') : j = i - 1
          BY <5>2
        <5>4. queue'[j] = queue[j + 1]
          BY <4>2
        <5>5. j + 1 = i
          BY <4>2, <5>3
        <5> QED
          BY <5>2, <5>3, <5>4, <5>5, <4>3
      <4> QED
        BY <3>1, <3>2, <4>3 DEF OnItsWay
    <3> QED
      BY <3>3, <3>4, <3>5
  <2> QED
    BY <1>5, <2>1, <2>2, <2>3, <2>4 DEF Connection
<1>6. CASE StartAgent
  BY <1>6, <1>1 DEF StartAgent, Only
<1>7. CASE Consumer
  <2>1. CASE LoopTop \/ WakeByStop
    BY <2>1, <1>2 DEF LoopTop, WakeByStop, Only
  <2>2. CASE Wake \/ Drain \/ Fallback \/ FinalDrain
    BY <2>2, <1>1 DEF Wake, Drain, Fallback, FinalDrain, Only
  <2>3. CASE Exit
    BY <2>3, <1>1 DEF Exit, ProcessEnds
  <2>4. CASE Fetch
    BY <2>4 DEF Fetch, OnItsWay
  <2>5. CASE ApplySucceeds
    <3>1. fetched'.gen = fetched.gen
      BY <2>5 DEF ApplySucceeds, Fetches
    <3>2. CASE OnItsWay
      BY <2>5, <3>1, <3>2 DEF ApplySucceeds, OnItsWay
    <3>3. CASE deployed.gen = published
      BY <2>5, <3>3, <1>f DEF ApplySucceeds, RecordedInv, FirstLifeInv
    <3> QED
      BY <2>5, <3>2, <3>3, <1>i DEF ApplySucceeds
  <2>6. CASE Post
    BY <2>6, <1>2 DEF Post
  <2>7. CASE Persist
    <3>1. UNCHANGED <<published, pending, hello, queue, wake, lost, deployed>>
          /\ pc = "persist" /\ ws' = (IF ws = "off" THEN "down" ELSE ws)
      BY <2>7 DEF Persist, ReconcileEnds
    <3> QED
      BY <3>1, <1>i DEF OnItsWay
  <2>8. CASE NotAccepted
    BY <2>8 DEF NotAccepted
  <2> QED
    BY <1>7, <2>1, <2>2, <2>3, <2>4, <2>5, <2>6, <2>7, <2>8 DEF Consumer
<1>8. CASE Faults
  <2>1. CASE RevokeToken \/ Stop
    BY <2>1, <1>2 DEF RevokeToken, Stop
  <2>2. CASE ServerRestart \/ Disconnect
    BY <2>2, <1>1 DEF ServerRestart, Disconnect, Hangup
  <2>3. CASE Crash
    BY <2>3, <1>1 DEF Crash, ProcessEnds
  <2>4. CASE ApplyFails \/ ReconcileFails
    BY <2>4 DEF ApplyFails, ReconcileFails
  <2> QED
    BY <1>8, <2>1, <2>2, <2>3, <2>4 DEF Faults
<1> QED
  BY <1>3, <1>4, <1>5, <1>6, <1>7, <1>8 DEF Next

(* Subscribing before the hello is read, draining the bell before the      *)
(* fetch and ignoring only the rings for what is recorded as applied lose  *)
(* no publication, with or without Redis and whatever crashes, restarts or *)
(* disconnects in between: an agent that waits on an open connection with  *)
(* nothing under way runs the latest generation, unless a full queue       *)
(* dropped a ring or the last reconcile failed.                            *)
THEOREM DoorbellIsEnough == Spec => []NoLostDoorbell
<1>1. Init => DoorbellInv
  BY DEF Init, LogInit, DoorbellInv, FirstLifeInv, RecordedInv, OnItsWay, Nothing
<1>2. DeliveryTypeOK /\ DoorbellInv => NoLostDoorbell
  <2> SUFFICES ASSUME DeliveryTypeOK, DoorbellInv, Quiet, ~lost, life = 0, published > 0
               PROVE  UpToDate
    BY DEF NoLostDoorbell
  <2>1. ~OnItsWay
    BY FirstLifeTypes DEF Quiet, OnItsWay, NoHello
  <2>2. deployed.gen = published /\ deployed.life = life
    BY <2>1 DEF DoorbellInv, FirstLifeInv
  <2> QED
    BY <2>2, FirstLifeTypes DEF UpToDate, Deployments
<1> QED
  BY <1>1, <1>2, DoorbellStep, DeliveryTypeCorrect, PTL DEF Spec

(* Redis can take the node back only to what an earlier life left in it:   *)
(* as long as the node has not been deleted, no reconcile replaces what    *)
(* runs by an older generation, with or without the cache.                 *)
NeverOlderInFirstLife == [][life = 0 => NotOlder]_vars

LEMMA FirstLifeOrder ==
    ASSUME DeliveryTypeOK, DoorbellInv, [Next]_vars, life = 0
    PROVE  NotOlder
<1> USE FirstLifeTypes
<1> USE DEF wsVars, agentVars
<1>0. FirstLifeInv /\ RecordedInv
  BY DEF DoorbellInv
<1>1. ASSUME deployed' = deployed \/ deployed' = [life |-> fetched.life, gen |-> 0]
      PROVE  NotOlder
  BY <1>1 DEF NotOlder
<1>2. CASE UNCHANGED vars
  BY <1>1, <1>2 DEF vars
<1>3. CASE Server
  BY <1>1, <1>3 DEF Server, PublishGeneration, Broadcast, RequestSnapshot, DeleteNode, Expire
<1>4. CASE Connection
  BY <1>1, <1>4 DEF Connection, Subscribe, ClientDials, SayHello, DispatchHello, DispatchEvent
<1>5. CASE StartAgent
  BY <1>1, <1>5 DEF StartAgent, Only
<1>6. CASE Consumer
  <2>1. CASE ApplySucceeds
    <3>1. deployed'.gen = fetched.gen /\ deployed.gen <= fetched.gen
      BY <2>1, <1>0 DEF ApplySucceeds, RecordedInv
    <3> QED
      BY <3>1 DEF NotOlder
  <2>2. CASE Fetch
    BY <2>2, <1>1 DEF Fetch
  <2>3. CASE LoopTop \/ Wake \/ WakeByStop \/ Drain \/ Fallback \/ FinalDrain \/ Exit
    BY <2>3, <1>1 DEF LoopTop, Wake, WakeByStop, Drain, Fallback, FinalDrain, Only, Exit,
                      ProcessEnds
  <2>4. CASE Post \/ Persist \/ NotAccepted
    BY <2>4, <1>1 DEF Post, Persist, NotAccepted
  <2> QED
    BY <1>6, <2>1, <2>2, <2>3, <2>4 DEF Consumer
<1>7. CASE Faults
  <2>1. CASE Crash \/ ApplyFails \/ ReconcileFails
    BY <2>1, <1>1 DEF Crash, ApplyFails, ReconcileFails
  <2>2. CASE RevokeToken \/ ServerRestart \/ Disconnect \/ Stop
    BY <2>2, <1>1 DEF RevokeToken, ServerRestart, Disconnect, Stop
  <2> QED
    BY <1>7, <2>1, <2>2 DEF Faults
<1> QED
  BY <1>2, <1>3, <1>4, <1>5, <1>6, <1>7 DEF Next

(* Until the node is deleted what runs on it never goes back, whatever the *)
(* cache holds and whatever crashes, restarts or fails: the store reads    *)
(* the generation from the row and only the snapshot from Redis, and an    *)
(* apply never starts from more than it brings (RecordedInv).              *)
THEOREM RedisGoesBackOnlyAfterDeletion == Spec => NeverOlderInFirstLife
<1>1. Init => DoorbellInv
  BY DEF Init, LogInit, DoorbellInv, FirstLifeInv, RecordedInv, OnItsWay, Nothing
<1>2. DeliveryTypeOK /\ DoorbellInv /\ [Next]_vars => [life = 0 => NotOlder]_vars
  BY FirstLifeOrder
<1> QED
  BY <1>1, <1>2, DoorbellStep, DeliveryTypeCorrect, PTL DEF Spec, NeverOlderInFirstLife
=============================================================================
