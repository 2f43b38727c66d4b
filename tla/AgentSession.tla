---------------------------- MODULE AgentSession ----------------------------
(***************************************************************************)
(* How the agent keeps an identity the control server accepts.  Session    *)
(* registers, remembers the token in memory and in identity.json, and      *)
(* answers a 401 by dropping the token and registering again.  One Session *)
(* and one ControllerClient are shared, without a lock, by the reconcile   *)
(* and by the side loops (routing, traffic, re-resolution), which run in   *)
(* threads of an executor.  The server's side of a registration is a chain *)
(* of transactions, and the administrator acts between them.               *)
(***************************************************************************)
EXTENDS Integers, Sequences, FiniteSets

CONSTANTS
    Reconciler,  \* the thread of the consumer loop
    SideLoops,   \* the threads of the side loops that report over the Session
    MaxRows,     \* bound on the rows of pending_registrations
    MaxFaults,   \* bound on the administrator's actions, lost answers and restarts
    MaxCalls     \* bound on the calls of the side loops

Threads == SideLoops \cup {Reconciler}

ASSUME ThreadsAssumption == Reconciler \notin SideLoops /\ IsFiniteSet(SideLoops)
ASSUME SessionBounds ==
    MaxRows \in Nat \ {0} /\ MaxFaults \in Nat /\ MaxCalls \in Nat

VARIABLES
    rows,    \* status of the node's pending_registrations rows, by id
    node,    \* the Node row: unknown, created (no generation), published
    epoch,   \* tokens issued since the last revocation: the ones TokenStore.resolve accepts
    ticket,  \* the enrollment token of the agent: the global one, or a one-time ticket
    heap,    \* agent_token of each LocalAgentIdentity object
    mem,     \* Session._identity
    disk,    \* agent_token in identity.json
    tmp,     \* agent_token in identity.json.tmp, or Absent
    client,  \* ControllerClient._token
    th,      \* the threads
    faults,  \* disturbances so far
    calls    \* calls of the side loops so far

serverVars == <<rows, node, epoch, ticket>>
vars == <<serverVars, heap, mem, disk, tmp, client, th, faults, calls>>

(* A token is named after the epoch it was issued in: a revocation, a      *)
(* rotation, an expiry or the deletion of the node ends all tokens issued  *)
(* before it.  Identity objects nothing refers to are collected.           *)
None == 0
Absent == -1
Tokens == 1..(MaxFaults + 1)
NoObject == 0
Objects == 1..(Cardinality(Threads) + 1)

Idle == [pc |-> "idle", goal |-> "call", then |-> "end", again |-> FALSE,
         ref |-> NoObject, prev |-> None, status |-> "none", retry |-> FALSE, token |-> None]

Server == {"resolve", "gate", "known", "record", "insert", "issue", "mark", "reply"}
Registering == Server \cup {"save", "replace", "adopt"}
Steps == Registering \cup {"idle", "ensure", "enter", "send", "accepted", "denied",
                           "failed", "invalidate"}

SessionTypeOK ==
    /\ rows \in Seq({"pending", "approved", "rejected"}) /\ Len(rows) <= MaxRows
    /\ node \in {"unknown", "created", "published"}
    /\ epoch \in Tokens
    /\ ticket \in {"global", "unused", "used"}
    /\ heap \in [Objects -> Tokens \cup {None}]
    /\ mem \in Objects
    /\ disk \in Tokens \cup {None}
    /\ tmp \in Tokens \cup {None, Absent}
    /\ client \in Tokens \cup {None}
    /\ th \in [Threads -> [pc : Steps, goal : {"call", "persist"},
                           then : {"go", "again", "end"}, again : BOOLEAN,
                           ref : Objects \cup {NoObject}, prev : Tokens \cup {None},
                           status : {"none", "pending", "approved"},
                           retry : BOOLEAN, token : Tokens \cup {None}]]
    /\ faults \in 0..MaxFaults
    /\ calls \in 0..MaxCalls

(***************************************************************************)
(* What is referred to, and what is free.                                  *)
(***************************************************************************)
Referenced == {mem} \cup {th[t].ref : t \in Threads}

FreshObject == CHOOSE o \in Objects \ Referenced :
                  \A p \in Objects \ Referenced : o <= p

Collect(h) == heap' = [o \in Objects |-> IF o \in Referenced' THEN h[o] ELSE None]

(* PendingRegistrationStore.status_for: the newest row decides.            *)
StatusFor == IF rows = <<>> THEN "none" ELSE rows[Len(rows)]

PendingRow == \E i \in DOMAIN rows : rows[i] = "pending"

(* Registration is granted: a generation is published, no decision is      *)
(* outstanding and none is negative.                                       *)
Admitted == node = "published" /\ StatusFor \in {"none", "approved"}

Goto(t, pc) == th' = [th EXCEPT ![t].pc = pc]
Fail(t) == th' = [th EXCEPT ![t] = Idle]
(* ensure returned an identity: the call goes on, or persist writes it.    *)
Proceed(t, r) ==
    th' = [th EXCEPT ![t] = [r EXCEPT !.pc = IF r.goal = "call" THEN "enter" ELSE "save",
                                      !.then = "end", !.token = None]]

(***************************************************************************)
(* The administrator.                                                      *)
(***************************************************************************)
Fault == faults < MaxFaults /\ faults' = faults + 1 /\ UNCHANGED calls

Administer == Fault /\ UNCHANGED <<ticket, heap, mem, disk, tmp, client, th>>

CreateNode ==
    /\ Administer
    /\ node = "unknown"
    /\ node' = "created"
    /\ UNCHANGED <<rows, epoch>>

PublishFirst ==
    /\ Administer
    /\ node # "published"
    /\ node' = "published"
    /\ UNCHANGED <<rows, epoch>>

(* The tokens go with the node, the registration requests stay.            *)
DeleteNode ==
    /\ Administer
    /\ node # "unknown"
    /\ node' = "unknown"
    /\ epoch' = epoch + 1
    /\ UNCHANGED rows

(* approve_registration, reject_registration: any row, at any time.  The   *)
(* last row of a full table stays undecided, so that no insert is refused. *)
Decide(i, decision) ==
    /\ Administer
    /\ rows[i] # "pending" \/ Len(rows) < MaxRows
    /\ rows' = [rows EXCEPT ![i] = decision]
    /\ UNCHANGED <<node, epoch>>

(* Revoked, rotated (the new token goes to the administrator) or expired.  *)
RevokeTokens ==
    /\ Administer
    /\ epoch' = epoch + 1
    /\ UNCHANGED <<rows, node>>

(***************************************************************************)
(* POST /agent/register, one action per transaction of the handler.        *)
(***************************************************************************)
Resolve(t) ==
    /\ th[t].pc = "resolve"
    /\ IF ticket # "used" THEN Goto(t, "gate") ELSE Fail(t)
    /\ UNCHANGED <<serverVars, heap, mem, disk, tmp, client, faults, calls>>

GateOpen(t) ==  \* mutant: a rejected node is not turned away
    /\ th[t].pc = "gate"
    /\ th' = [th EXCEPT ![t].pc = "known", ![t].status = StatusFor]
    /\ UNCHANGED <<serverVars, heap, mem, disk, tmp, client, faults, calls>>

(* A rejected node is turned away even if it is provisioned.               *)
Gate(t) ==
    /\ th[t].pc = "gate"
    /\ IF StatusFor = "rejected" THEN Fail(t)
       ELSE th' = [th EXCEPT ![t].pc = "known", ![t].status = StatusFor]
    /\ UNCHANGED <<serverVars, heap, mem, disk, tmp, client, faults, calls>>

(* known_node_ids and desired_state.get, on the status read before.  A     *)
(* node deleted between the two reads is refused, as it is by Issue.       *)
Known(t) ==
    /\ th[t].pc = "known"
    /\ LET Continue(pc) == th' = [th EXCEPT ![t].pc = pc, ![t].status = "none"]
       IN  CASE node = "unknown" /\ th[t].status \in {"none", "pending"} -> Continue("record")
             [] node = "published" /\ th[t].status # "pending" -> Continue("issue")
             [] OTHER -> Fail(t)
    /\ UNCHANGED <<serverVars, heap, mem, disk, tmp, client, faults, calls>>

(* _record_once finds the pending row and refreshes it, or will insert one.*)
Record(t) ==
    /\ th[t].pc = "record"
    /\ IF PendingRow THEN Fail(t) ELSE Goto(t, "insert")
    /\ UNCHANGED <<serverVars, heap, mem, disk, tmp, client, faults, calls>>

InsertAnyway(t) ==  \* mutant: no partial unique index
    /\ th[t].pc = "insert"
    /\ Len(rows) < MaxRows
    /\ rows' = Append(rows, "pending")
    /\ Fail(t)
    /\ UNCHANGED <<node, epoch, ticket, heap, mem, disk, tmp, client, faults, calls>>

(* The partial unique index refuses a second pending row; record tries     *)
(* once more.                                                              *)
Insert(t) ==
    /\ th[t].pc = "insert"
    /\ IF ~PendingRow THEN rows' = Append(rows, "pending") /\ Fail(t)
       ELSE /\ UNCHANGED rows
            /\ IF th[t].retry THEN Fail(t)
               ELSE th' = [th EXCEPT ![t].pc = "record", ![t].retry = TRUE]
    /\ UNCHANGED <<node, epoch, ticket, heap, mem, disk, tmp, client, faults, calls>>

(* TokenStore.issue: the foreign key refuses a node deleted meanwhile.     *)
Issue(t) ==
    /\ th[t].pc = "issue"
    /\ IF node = "unknown" THEN Fail(t)
       ELSE th' = [th EXCEPT ![t].pc = IF ticket = "global" THEN "reply" ELSE "mark", ![t].token = epoch]
    /\ UNCHANGED <<serverVars, heap, mem, disk, tmp, client, faults, calls>>

MarkUsed(t) ==
    /\ th[t].pc = "mark"
    /\ ticket' = "used"
    /\ Goto(t, "reply")
    /\ UNCHANGED <<rows, node, epoch, heap, mem, disk, tmp, client, faults, calls>>

(***************************************************************************)
(* Session, in a thread of the agent.                                      *)
(***************************************************************************)
StartCall(t) ==
    /\ th[t].pc = "idle"
    /\ \/ t = Reconciler /\ UNCHANGED calls
       \/ t \in SideLoops /\ calls < MaxCalls /\ calls' = calls + 1
    /\ Goto(t, "ensure")
    /\ UNCHANGED <<serverVars, heap, mem, disk, tmp, client, faults>>

Ensure(t) ==
    /\ th[t].pc = "ensure"
    /\ IF heap[mem] = None THEN Goto(t, "resolve")
       ELSE Proceed(t, [th[t] EXCEPT !.ref = mem])
    /\ UNCHANGED <<serverVars, mem, disk, tmp, client, faults, calls>>
    /\ Collect(heap)

(* _register: a new identity object, saved and then made the session's.    *)
Receive(t) ==
    /\ th[t].pc = "reply"
    /\ heap' = [heap EXCEPT ![FreshObject] = th[t].token]
    /\ th' = [th EXCEPT ![t].pc = "save", ![t].then = "go", ![t].ref = FreshObject,
                        ![t].token = None]
    /\ UNCHANGED <<serverVars, mem, disk, tmp, client, faults, calls>>

(* save_identity: every writer goes through the same .tmp file.            *)
Save(t) ==
    /\ th[t].pc = "save"
    /\ tmp' = heap[th[t].ref]
    /\ Goto(t, "replace")
    /\ UNCHANGED <<serverVars, heap, mem, disk, client, faults, calls>>

Replace(t) ==
    /\ th[t].pc = "replace"
    /\ IF tmp = Absent THEN Fail(t) /\ UNCHANGED <<disk, tmp>>
       ELSE disk' = tmp /\ tmp' = Absent /\ Goto(t, "adopt")
    /\ UNCHANGED <<serverVars, mem, client, faults, calls>>
    /\ Collect(heap)

Adopt(t) ==
    /\ th[t].pc = "adopt"
    /\ mem' = th[t].ref
    /\ CASE th[t].then = "go" -> Proceed(t, th[t])
         [] th[t].then = "again" -> th' = [th EXCEPT ![t] = [Idle EXCEPT !.pc = "ensure", !.again = TRUE]]
         [] th[t].then = "end" -> Fail(t)
    /\ UNCHANGED <<serverVars, disk, tmp, client, faults, calls>>
    /\ Collect(heap)

(* assert identity.agent_token is not None.  Enter reads the attribute     *)
(* again: an object cleared in between is entered with None.               *)
AssertFails(t) ==
    /\ th[t].pc = "enter"
    /\ heap[th[t].ref] = None
    /\ Fail(t)
    /\ UNCHANGED <<serverVars, mem, disk, tmp, client, faults, calls>>
    /\ Collect(heap)

(* with_token: the token of the client is swapped for the length of a call.*)
Enter(t) ==
    /\ th[t].pc = "enter"
    /\ client' = heap[th[t].ref]
    /\ th' = [th EXCEPT ![t].pc = "send", ![t].prev = client, ![t].ref = NoObject]
    /\ UNCHANGED <<serverVars, mem, disk, tmp, faults, calls>>
    /\ Collect(heap)

(* The header is built from the client's token of this moment.             *)
Send(t) ==
    /\ th[t].pc = "send"
    /\ Goto(t, IF client = epoch THEN "accepted" ELSE "denied")
    /\ UNCHANGED <<serverVars, heap, mem, disk, tmp, client, faults, calls>>

(* The end of the with block, and what call makes of the answer.           *)
Leave(t) ==
    /\ th[t].pc \in {"accepted", "denied", "failed"}
    /\ client' = th[t].prev
    /\ CASE th[t].pc = "accepted" /\ t = Reconciler ->
              th' = [th EXCEPT ![t] = [Idle EXCEPT !.pc = "ensure", !.goal = "persist"]]
         [] th[t].pc = "denied" /\ ~th[t].again ->
              th' = [th EXCEPT ![t] = [Idle EXCEPT !.pc = "invalidate", !.again = TRUE]]
         [] OTHER -> Fail(t)
    /\ UNCHANGED <<serverVars, mem, disk, tmp, faults, calls>>
    /\ Collect(heap)

InvalidateNothing(t) ==  \* mutant: the token stays in the identity
    /\ th[t].pc = "invalidate"
    /\ th' = [th EXCEPT ![t].pc = "save", ![t].ref = mem, ![t].then = "again"]
    /\ UNCHANGED <<serverVars, heap, mem, disk, tmp, client, faults, calls>>

(* invalidate drops whatever token the session holds by now.               *)
Invalidate(t) ==
    /\ th[t].pc = "invalidate"
    /\ heap' = [heap EXCEPT ![mem] = None]
    /\ IF heap[mem] = None THEN Goto(t, "ensure")
       ELSE th' = [th EXCEPT ![t].pc = "save", ![t].ref = mem, ![t].then = "again"]
    /\ UNCHANGED <<serverVars, mem, disk, tmp, client, faults, calls>>

(* A request that gets no answer, or an error that is not a 401.           *)
RequestFails(t) ==
    /\ Fault
    /\ \/ th[t].pc \in {"resolve", "reply"} /\ Fail(t)
       \/ th[t].pc = "send" /\ Goto(t, "failed")
    /\ UNCHANGED <<serverVars, heap, mem, disk, tmp, client>>

Restart ==
    /\ Fault
    /\ mem' = 1
    /\ heap' = [o \in Objects |-> IF o = 1 THEN disk ELSE None]
    /\ client' = None
    /\ th' = [t \in Threads |-> Idle]
    /\ UNCHANGED <<serverVars, disk, tmp>>

(***************************************************************************)
(* The specification.                                                      *)
(***************************************************************************)
Init ==
    /\ rows = <<>>
    /\ node \in {"unknown", "published"}
    /\ epoch = 1
    /\ ticket \in {"global", "unused"}
    /\ heap = [o \in Objects |-> None]
    /\ mem = 1
    /\ disk = None
    /\ tmp = Absent
    /\ client = None
    /\ th = [t \in Threads |-> Idle]
    /\ faults = 0
    /\ calls = 0

Register(t) ==
    \/ Resolve(t) \/ Gate(t) \/ Known(t) \/ Record(t) \/ Insert(t) \/ Issue(t) \/ MarkUsed(t)

Step(t) ==
    \/ Register(t)
    \/ Ensure(t) \/ Receive(t) \/ Save(t) \/ Replace(t) \/ Adopt(t) \/ AssertFails(t)
    \/ Enter(t) \/ Send(t) \/ Leave(t) \/ Invalidate(t)

Admin ==
    \/ CreateNode \/ PublishFirst \/ DeleteNode
    \/ \E i \in DOMAIN rows, d \in {"approved", "rejected"} : Decide(i, d)
    \/ RevokeTokens

Next ==
    \/ Admin \/ Restart
    \/ \E t \in Threads : StartCall(t) \/ Step(t) \/ RequestFails(t)

Spec == Init /\ [][Next]_vars

(* Threads run, and the fallback timer starts the next reconcile.          *)
FairSpec ==
    /\ Spec
    /\ \A t \in Threads : WF_vars(Step(t))
    /\ WF_vars(StartCall(Reconciler))

(***************************************************************************)
(* Properties.                                                             *)
(***************************************************************************)
(* Concurrent registrations leave at most one request of the node open for *)
(* the administrator (PendingRegistration's partial unique index).         *)
AtMostOnePending ==
    \A i, j \in DOMAIN rows : rows[i] = "pending" /\ rows[j] = "pending" => i = j

(* Session's 401 self-healing: whatever threads, crashes, lost answers and *)
(* revocations have done before, once they end a node that would be        *)
(* admitted holds an accepted token for good, in memory and on disk, and   *)
(* registers no more, as long as its enrollment token is good.             *)
Served ==
    /\ heap[mem] = epoch
    /\ disk = heap[mem]
    /\ \A t \in Threads : th[t].pc \notin Server

Heals == <>[](Admitted /\ ticket # "used" => Served)
=============================================================================
