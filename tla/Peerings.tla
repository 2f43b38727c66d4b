------------------------------ MODULE Peerings ------------------------------
(***************************************************************************)
(* Peerings, interfaces, BGP sessions and WireGuard keys of several nodes: *)
(* api/v1/admin/{peerings,interfaces,bgp_sessions}.py, services/           *)
(* {peering_backfill,wireguard_keys,materializer}.py of the control        *)
(* server, and the agent's secrets/wireguard.py.                           *)
(*                                                                         *)
(* A node's snapshot is assembled from its own rows and, for an interface  *)
(* whose peering names another managed node, from that node's registered   *)
(* public key.  An agent reports its key before it applies; the first      *)
(* report of a node stores the key and re-materializes the nodes that peer *)
(* with it, in one transaction that locks several node rows.               *)
(*                                                                         *)
(* Data: a node has one peering, one BGP session and the interfaces Names, *)
(* all WireGuard; of an interface the port and the key of its peer are     *)
(* told apart, and whether the node's link-local address is added to it.   *)
(***************************************************************************)
EXTENDS Integers, FiniteSets

CONSTANTS
    Nodes,
    Agents,         \* the nodes whose agent is running
    Names,          \* interface names
    Ports,          \* listen ports
    Requests,       \* admin requests that may be in progress together
    MaxRequests,    \* bound: admin requests accepted in a behaviour
    MaxKeys         \* bound: private keys an agent generates

ASSUME BoundsAssumption == MaxRequests \in Nat /\ MaxKeys \in Nat \ {0}
ASSUME AgentsAssumption == Agents \subseteq Nodes
ASSUME NamesAssumption ==
    /\ {"peering", "session"} \cap Names = {}
    /\ Names # {} /\ Ports # {}
ASSUME OwnersAssumption ==
    /\ Requests \cap Nodes = {}
    /\ "nobody" \notin Requests \cup Nodes
    /\ "external" \notin Nodes

VARIABLES
    rows,       \* committed rows of each node
    key,        \* Node.wireguard_public_key (0: none)
    gen,        \* Node.current_generation
    snap,       \* the node's newest snapshot
    txn,        \* open transactions, of admin requests and of agents
    lock,       \* node row locked FOR UPDATE
    share,      \* node row locked FOR KEY SHARE (foreign keys)
    accepted,   \* admin requests accepted so far
    keyfile,    \* the agent's node.key (0: no file)
    generated,  \* keys the agent has generated
    gateway,    \* the key its WireGuard container was given (0: none)
    agent,      \* where the agent is in its reconcile
    behind      \* history: nodes whose newest snapshot is known to be old

database == <<rows, key, gen, snap, txn, lock, share, behind>>
agents == <<keyfile, generated, gateway, agent>>
vars == <<database, accepted, agents>>

Nobody == "nobody"
External == "external"
Owners == Requests \cup Nodes
Slots == {"peering", "session"} \cup Names

(* `PeeringIn`: with another network, or with a managed node of the same   *)
(* network.                                                                *)
PeeringIn(n) ==
    {[there |-> TRUE, remote |-> m, internal |-> m # External] :
        m \in (Nodes \ {n}) \cup {External}}

(* A stored peering: updates of `remote_node_id` and `is_internal` that     *)
(* overlap may leave any pair of the two columns.                          *)
PeeringRow(n) ==
    [there : {TRUE}, remote : (Nodes \ {n}) \cup {External}, internal : BOOLEAN]

(* peer: the row's peering_id is set; on: `enabled`.                       *)
InterfaceIn == [there : {TRUE}, peer : BOOLEAN, on : BOOLEAN, port : Ports]
SessionIn == [there : {TRUE}, peer : BOOLEAN, on : BOOLEAN]

NoPeering == [there |-> FALSE, remote |-> External, internal |-> FALSE]
NoInterface == [there |-> FALSE, peer |-> FALSE, on |-> FALSE, port |-> 0]
NoSession == [there |-> FALSE, peer |-> FALSE, on |-> FALSE]

None(slot) ==
    CASE slot = "peering" -> NoPeering
      [] slot = "session" -> NoSession
      [] OTHER -> NoInterface

Idle == [phase |-> "idle"]

(***************************************************************************)
(* Assembly of a snapshot.                                                 *)
(***************************************************************************)
(* The session inserts and deletes rows; an UPDATE sets the columns that   *)
(* differ from what was loaded, and no other.                              *)
Patch(old, found, new) ==
    IF found.there /\ new.there
    THEN [c \in DOMAIN new |-> IF new[c] # found[c] THEN new[c] ELSE old[c]]
    ELSE new

Write(old, t) ==
    [s \in DOMAIN old |->
        IF s \in DOMAIN t.write THEN Patch(old[s], t.found[s], t.write[s]) ELSE old[s]]

(* `_load_peer_public_keys`, `_interface_payload`.                         *)
InterfacePayload(row, peering, keys) ==
    LET own == row.peer /\ peering.there IN
    [port |-> row.port,
     key |-> IF own /\ peering.remote \in Nodes THEN keys[peering.remote] ELSE 0,
     linkLocal |-> own /\ ~peering.internal]

(* Disabled interfaces are left out; a disabled session stays, disabled.   *)
AssembleSnapshot(r, keys) ==
    [interfaces |-> [i \in {j \in Names : r[j].there /\ r[j].on} |->
                        InterfacePayload(r[i], r["peering"], keys)],
     sessions |-> IF r["session"].there THEN {r["session"].on} ELSE {}]

Snapshot(n) == AssembleSnapshot(rows[n], key)

Active == {o \in Owners : txn[o] # Idle}

(***************************************************************************)
(* Admin requests.  A handler loads the node and the rows it is about,     *)
(* checks them (404, 400, 409, 422 otherwise) and prepares its writes.     *)
(***************************************************************************)
Begin(r, n, write, publishes) ==
    /\ txn[r] = Idle
    /\ accepted < MaxRequests
    /\ accepted' = accepted + 1
    /\ txn' = [txn EXCEPT ![r] =
          [phase |-> "loaded", node |-> n, write |-> write, found |-> rows[n],
           publishes |-> publishes, key |-> 0, base |-> gen[n],
           todo |-> {}, out |-> << >>, stale |-> FALSE]]
    /\ UNCHANGED <<rows, key, gen, snap, lock, share, behind, agents>>

(* `_validate_wireguard_port_policy`: checked against the rows as they are *)
(* now, before the node is locked.                                         *)
PortFree(n, i, row) ==
    row.on => \A j \in Names \ {i} :
                 rows[n][j].there /\ rows[n][j].on => rows[n][j].port # row.port

Attaches(n, row) == row.peer => rows[n]["peering"].there

CreatePeering(r, n) ==
    /\ ~rows[n]["peering"].there
    /\ \E p \in PeeringIn(n) : Begin(r, n, [peering |-> p], FALSE)

UpdatePeering(r, n) ==
    /\ rows[n]["peering"].there
    /\ \E p \in PeeringIn(n) : Begin(r, n, [peering |-> p], FALSE)

(* The ORM deletes the interfaces and sessions of the peering with it      *)
(* (cascade="all, delete-orphan").                                         *)
DeletePeering(r, n) ==
    LET gone == {"peering"} \cup {s \in Slots \ {"peering"} : rows[n][s].peer} IN
    /\ rows[n]["peering"].there
    /\ Begin(r, n, [s \in gone |-> None(s)], FALSE)

ProvisionPeering(r, n) ==
    /\ ~rows[n]["peering"].there
    /\ \E p \in PeeringIn(n), i \in Names, row \in InterfaceIn,
          bgp \in {{}, {"session"}} :
        /\ ~rows[n][i].there /\ row.peer /\ PortFree(n, i, row)
        /\ bgp # {} => ~rows[n]["session"].there
        /\ Begin(r, n, [s \in {"peering", i} \cup bgp |->
                          CASE s = "peering" -> p
                            [] s = i -> row
                            [] OTHER -> [there |-> TRUE, peer |-> TRUE, on |-> TRUE]],
                 TRUE)

(* Create or replace: the interface and the session of the payload are     *)
(* upserted and attached, what the peering had besides is deleted.  (Bound: *)
(* payloads with one interface or none.)                                   *)
PutPeeringFull(r, n) ==
    \E p \in PeeringIn(n), new \in {{}} \cup {{i} : i \in Names},
       bgp \in {{}, {"session"}}, port \in Ports :
      LET pruned == {s \in Slots \ ({"peering"} \cup new \cup bgp) :
                        rows[n]["peering"].there /\ rows[n][s].peer}
          item == [there |-> TRUE, peer |-> TRUE, on |-> TRUE, port |-> port]
      IN /\ \A i \in new, j \in Names \ (new \cup pruned) :
               rows[n][j].on => rows[n][j].port # port
         /\ Begin(r, n, [s \in {"peering"} \cup new \cup bgp \cup pruned |->
                           CASE s = "peering" -> p
                             [] s \in pruned -> None(s)
                             [] s \in new -> item
                             [] OTHER -> [there |-> TRUE, peer |-> TRUE, on |-> TRUE]],
                  TRUE)

(* `_anchor_interface` matches a session to an orphan interface by name or *)
(* by address, or to none.                                                 *)
Anchors(n) ==
    {{}} \cup {{i} : i \in {j \in Names : rows[n][j].there /\ ~rows[n][j].peer}}

(* `_apply`: the new peering, and the orphans that become its children.    *)
Adopted(n, p, orphans) ==
    [s \in {"peering"} \cup orphans |->
        IF s = "peering" THEN p ELSE [rows[n][s] EXCEPT !.peer = TRUE]]

(* An orphan session becomes a peering with its anchor, or alone; an       *)
(* interface without a session is skipped.  The remote is read off         *)
(* addresses.                                                              *)
PlannedPeerings(n) ==
    {Adopted(n, p, {"session"} \cup anchor) :
        p \in IF rows[n]["session"].there /\ ~rows[n]["session"].peer THEN PeeringIn(n) ELSE {},
        anchor \in Anchors(n)}

(* (A dry run writes nothing.)                                             *)
BackfillPeerings(r, n) ==
    /\ ~rows[n]["peering"].there
    /\ \E write \in PlannedPeerings(n) : Begin(r, n, write, FALSE)

CreateInterface(r, n, i) ==
    /\ ~rows[n][i].there
    /\ \E row \in InterfaceIn :
         Attaches(n, row) /\ PortFree(n, i, row) /\ Begin(r, n, [s \in {i} |-> row], TRUE)

UpdateInterface(r, n, i) ==
    /\ rows[n][i].there
    /\ \E row \in InterfaceIn :
         /\ row.peer # rows[n][i].peer => Attaches(n, row)
         /\ PortFree(n, i, row)
         /\ Begin(r, n, [s \in {i} |-> row], TRUE)

DeleteInterface(r, n, i) ==
    rows[n][i].there /\ Begin(r, n, [s \in {i} |-> NoInterface], TRUE)

CreateSession(r, n) ==
    /\ ~rows[n]["session"].there
    /\ \E row \in SessionIn :
         Attaches(n, row) /\ Begin(r, n, [session |-> row], TRUE)

UpdateSession(r, n) ==
    /\ rows[n]["session"].there
    /\ \E row \in SessionIn :
         /\ row.peer # rows[n]["session"].peer => Attaches(n, row)
         /\ Begin(r, n, [session |-> row], TRUE)

DeleteSession(r, n) ==
    /\ rows[n]["session"].there
    /\ Begin(r, n, [session |-> NoSession], TRUE)

(***************************************************************************)
(* Row locks.  An insert, or a new remote, takes FOR KEY SHARE on the node *)
(* it refers to; materialize takes FOR UPDATE, which admits neither lock   *)
(* of another transaction.                                                 *)
(***************************************************************************)
Flushed == {o \in Owners : txn[o].phase = "flushed"}

MayShare(o, n) == lock[n] \in {Nobody, o}
MayLock(o, n) == lock[n] \in {Nobody, o} /\ share[n] \subseteq {o}

Release(o) ==
    /\ lock' = [n \in Nodes |-> IF lock[n] = o THEN Nobody ELSE lock[n]]
    /\ share' = [n \in Nodes |-> share[n] \ {o}]

RefersTo(t) ==
    {n \in Nodes :
       \/ n = t.node /\ \E s \in DOMAIN t.write : t.write[s].there /\ ~t.found[s].there
       \/ "peering" \in DOMAIN t.write /\ t.write["peering"].there
          /\ t.write["peering"].remote = n /\ t.found["peering"].remote # n}

Drops(t) == "peering" \in DOMAIN t.write /\ ~t.write["peering"].there
Holds(t) == \E s \in DOMAIN t.write \ {"peering"} : t.write[s].peer

(* Writes of one row exclude each other, and so do the deletion of a       *)
(* peering and a row that refers to it.                                    *)
Excludes(t, u) ==
    /\ t.node = u.node
    /\ \/ DOMAIN t.write \cap DOMAIN u.write # {}
       \/ Drops(t) /\ Holds(u)
       \/ Drops(u) /\ Holds(t)

(* Another request has deleted or inserted one of the rows meanwhile.      *)
Refused(t) ==
    \E s \in DOMAIN t.write \cup (IF Holds(t) THEN {"peering"} ELSE {}) :
        rows[t.node][s].there # t.found[s].there

MayFlush(r) ==
    /\ txn[r].phase = "loaded" /\ r \in Requests
    /\ \A u \in Flushed \cap Requests : ~Excludes(txn[r], txn[u])
    /\ \A n \in RefersTo(txn[r]) : MayShare(r, n)

Flush(r) ==
    /\ MayFlush(r)
    /\ ~Refused(txn[r])
    /\ txn' = [txn EXCEPT ![r].phase = "flushed",
           ![r].todo = IF txn[r].publishes THEN {txn[r].node} ELSE {}]
    /\ share' = [n \in Nodes |-> IF n \in RefersTo(txn[r])
                                 THEN share[n] \cup {r} ELSE share[n]]
    /\ UNCHANGED <<rows, key, gen, snap, lock, behind, accepted, agents>>

Abort(o) ==
    /\ txn' = [txn EXCEPT ![o] = Idle]
    /\ Release(o)
    /\ UNCHANGED <<rows, key, gen, snap, behind, accepted>>

Reject(r) == MayFlush(r) /\ Refused(txn[r]) /\ Abort(r) /\ UNCHANGED agents

(***************************************************************************)
(* materialize: lock the node, then read rows and keys.                    *)
(***************************************************************************)
(* mutant: the session's own writes are not flushed before it reads. *)
RowsSeenUnflushed(t, n) == rows[n]

RowsSeen(t, n) == IF n = t.node THEN Write(rows[n], t) ELSE rows[n]
KeysSeen(t) == IF t.key # 0 THEN [key EXCEPT ![t.node] = t.key] ELSE key

MayMaterialize(o, n) ==
    txn[o].phase = "flushed" /\ n \in txn[o].todo /\ MayLock(o, n)

(* mutant: the generation is taken from the locked row. *)
CollidesNever(t, n) == FALSE

(* The node was loaded before it was locked: whoever published in between  *)
(* has taken generation base + 1.                                          *)
Collides(t, n) == n = t.node /\ t.base # gen[n]

Materialize(o, n) ==
    /\ MayMaterialize(o, n)
    /\ ~Collides(txn[o], n)
    /\ txn' = [txn EXCEPT ![o].todo = @ \ {n},
          ![o].out = [m \in DOMAIN @ \cup {n} |->
             IF m = n THEN AssembleSnapshot(RowsSeen(txn[o], n), KeysSeen(txn[o]))
             ELSE @[m]]]
    /\ lock' = [lock EXCEPT ![n] = o]
    /\ UNCHANGED <<rows, key, gen, snap, share, behind, accepted, agents>>

UniqueViolation(o, n) ==
    MayMaterialize(o, n) /\ Collides(txn[o], n) /\ Abort(o) /\ UNCHANGED agents

(***************************************************************************)
(* An agent's reconcile: report the key (generated on first use) before    *)
(* anything is applied, then hand it to the gateway container.             *)
(***************************************************************************)
HasTunnel(n) == DOMAIN snap[n].interfaces # {}

EnsureNodePrivateKey(n) ==
    /\ keyfile' = [keyfile EXCEPT ![n] = IF @ = 0 THEN generated[n] + 1 ELSE @]
    /\ generated' = [generated EXCEPT ![n] = IF keyfile[n] = 0 THEN @ + 1 ELSE @]

SyncWireguardKeys(n) ==
    /\ n \in Agents /\ agent[n] = "idle" /\ txn[n] = Idle
    /\ HasTunnel(n)
    /\ EnsureNodePrivateKey(n)
    /\ agent' = [agent EXCEPT ![n] = "reporting"]
    /\ txn' = [txn EXCEPT ![n] =
          [phase |-> "loaded", node |-> n, write |-> << >>, found |-> rows[n],
           publishes |-> FALSE, key |-> keyfile'[n], base |-> 0,
           todo |-> {}, out |-> << >>, stale |-> FALSE]]
    /\ UNCHANGED <<rows, key, gen, snap, lock, share, behind, accepted, gateway>>

(* The request is answered; a lost answer, like a failed deployment after  *)
(* it, ends the reconcile before the push.                                 *)
Answered(n, answer) ==
    /\ \E a \in {answer, "idle"} : agent' = [agent EXCEPT ![n] = a]
    /\ UNCHANGED <<keyfile, generated, gateway>>

MayJudge(n) == txn[n].phase = "loaded" /\ n \in Nodes /\ MayLock(n, n)

(* Nodes with an interface whose peering names n.                          *)
Affected(n) ==
    {m \in Nodes \ {n} :
        /\ rows[m]["peering"].there /\ rows[m]["peering"].remote = n
        /\ \E i \in Names : rows[m][i].there /\ rows[m][i].peer}

StoreKey(n) ==
    /\ MayJudge(n)
    /\ key[n] = 0
    /\ txn' = [txn EXCEPT ![n].phase = "flushed", ![n].todo = Affected(n)]
    /\ lock' = [lock EXCEPT ![n] = n]
    /\ UNCHANGED <<rows, key, gen, snap, share, behind, accepted, agents>>

MatchKey(n) ==
    MayJudge(n) /\ key[n] = txn[n].key /\ Abort(n) /\ Answered(n, "accepted")

(* mutant: a report is accepted whatever key is on record. *)
RejectKeyIgnored(n) ==
    MayJudge(n) /\ key[n] \notin {0, txn[n].key} /\ Abort(n) /\ Answered(n, "accepted")

(* 409: the reconcile is given up.                                         *)
RejectKey(n) ==
    MayJudge(n) /\ key[n] \notin {0, txn[n].key} /\ Abort(n) /\ Answered(n, "idle")

(* A missing file is not pushed.                                           *)
PushKey(n) ==
    /\ agent[n] = "accepted"
    /\ agent' = [agent EXCEPT ![n] = "idle"]
    /\ gateway' = [gateway EXCEPT ![n] = IF keyfile[n] = 0 THEN @ ELSE keyfile[n]]
    /\ UNCHANGED <<database, accepted, keyfile, generated>>

LoseKeyFile(n) ==
    /\ keyfile[n] # 0 /\ generated[n] < MaxKeys
    /\ keyfile' = [keyfile EXCEPT ![n] = 0]
    /\ UNCHANGED <<database, accepted, generated, gateway, agent>>

RebuildGateway(n) ==
    /\ gateway[n] # 0
    /\ gateway' = [gateway EXCEPT ![n] = 0]
    /\ UNCHANGED <<database, accepted, keyfile, generated, agent>>

(***************************************************************************)
(* Ends of transactions.                                                   *)
(***************************************************************************)
HeldBy(n) == share[n] \cup {lock[n]}

WaitsFor(o, u) ==
    /\ o # u
    /\ \/ txn[o].phase = "flushed" /\ \E n \in txn[o].todo : u \in HeldBy(n)
       \/ txn[o].phase = "loaded" /\ o \in Nodes /\ u \in HeldBy(o)
       \/ txn[o].phase = "loaded" /\ o \in Requests
          /\ \E n \in RefersTo(txn[o]) : u = lock[n]

(* mutant: the database has no deadlock detector. *)
DeadlockAbortNever(o) == o \notin Owners /\ UNCHANGED vars

(* PostgreSQL ends one transaction of a cycle that waits for itself.       *)
DeadlockAbort(o) ==
    /\ \E u \in Owners : /\ WaitsFor(o, u)
                          /\ \/ WaitsFor(u, o)
                             \/ \E v \in Owners : WaitsFor(u, v) /\ WaitsFor(v, o)
    /\ Abort(o)
    /\ IF o \in Nodes THEN Answered(o, "idle") ELSE UNCHANGED agents

RemoteOf(r) == {r["peering"].remote : i \in {j \in Names : r[j].there /\ r[j].peer}}

(* A session that holds rows of a node is overtaken by a write that        *)
(* publishes nothing; an assembled snapshot is overtaken by the first key  *)
(* of a peer whose report did not find the interface.                      *)
Overtakes(t, u) ==
    \/ t.key = 0 /\ ~t.publishes /\ t.node \in {u.node} \cup DOMAIN u.out
    \/ t.key # 0 /\ \E n \in DOMAIN u.out \ DOMAIN t.out :
                        t.node \in RemoteOf(RowsSeen(u, n))

Missed(o) ==
    LET t == txn[o] IN
    {n \in Nodes :
       \/ t.stale /\ n \in DOMAIN t.out
       \/ t.key = 0 /\ ~t.publishes /\ n = t.node
       \/ n \in DOMAIN t.out
          /\ \E m \in (Flushed \cap Nodes) \ {o} :
               /\ m \in RemoteOf(RowsSeen(t, n))
               /\ n \notin txn[m].todo \cup DOMAIN txn[m].out}

(* mutant: the foreign key of a child is left as it is. *)
DetachedNothing(r) == r

(* ON DELETE SET NULL, for a row that came after the deletion was prepared. *)
Detached(r) ==
    IF r["peering"].there THEN r
    ELSE [s \in Slots |-> IF s = "peering" THEN r[s] ELSE [r[s] EXCEPT !.peer = FALSE]]

Commit(o) ==
    LET t == txn[o] IN
    /\ t.phase = "flushed" /\ t.todo = {}
    /\ rows' = [rows EXCEPT ![t.node] = Detached(Write(@, t))]
    /\ key' = KeysSeen(t)
    /\ snap' = [n \in Nodes |-> IF n \in DOMAIN t.out THEN t.out[n] ELSE snap[n]]
    /\ gen' = [n \in Nodes |-> IF n \in DOMAIN t.out THEN gen[n] + 1 ELSE gen[n]]
    /\ behind' = (behind \ DOMAIN t.out) \cup Missed(o)
    /\ txn' = [u \in Owners |->
                 IF u = o THEN Idle
                 ELSE IF txn[u] # Idle /\ Overtakes(t, txn[u])
                      THEN [txn[u] EXCEPT !.stale = TRUE] ELSE txn[u]]
    /\ Release(o)
    /\ IF o \in Nodes THEN Answered(o, "accepted") ELSE UNCHANGED agents
    /\ UNCHANGED accepted

(***************************************************************************)
(* A fleet as one request after the other may have set it up: a node has   *)
(* no rows, an interface attached to an internal peering, or an orphan interface and *)
(* session (a state imported by db/provision.py).                          *)
(***************************************************************************)
NoRows == [s \in Slots |-> None(s)]

SomeName == CHOOSE i \in Names : TRUE
SomePort == CHOOSE q \in Ports : TRUE

Tunnelled(p) ==
    [NoRows EXCEPT !["peering"] = p,
        ![SomeName] = [there |-> TRUE, peer |-> TRUE, on |-> TRUE, port |-> SomePort]]

Orphaned ==
    [NoRows EXCEPT !["session"] = [there |-> TRUE, peer |-> FALSE, on |-> TRUE],
        ![SomeName] = [there |-> TRUE, peer |-> FALSE, on |-> TRUE, port |-> SomePort]]

InitialRows(n) ==
    {NoRows, Orphaned} \cup {Tunnelled(p) : p \in {x \in PeeringIn(n) : x.internal}}

Init ==
    /\ rows \in {f \in [Nodes -> UNION {InitialRows(n) : n \in Nodes}] :
                    \A n \in Nodes : f[n] \in InitialRows(n)}
    /\ key = [n \in Nodes |-> 0]
    /\ gen = [n \in Nodes |-> 1]
    /\ snap = [n \in Nodes |-> Snapshot(n)]
    /\ txn = [o \in Owners |-> Idle]
    /\ lock = [n \in Nodes |-> Nobody]
    /\ share = [n \in Nodes |-> {}]
    /\ accepted = 0
    /\ keyfile = [n \in Nodes |-> 0]
    /\ generated = [n \in Nodes |-> 0]
    /\ gateway = [n \in Nodes |-> 0]
    /\ agent = [n \in Nodes |-> "idle"]
    /\ behind = {}

Handle(r, n) ==
    \/ CreatePeering(r, n) \/ UpdatePeering(r, n) \/ DeletePeering(r, n)
    \/ ProvisionPeering(r, n) \/ PutPeeringFull(r, n) \/ BackfillPeerings(r, n)
    \/ \E i \in Names :
         CreateInterface(r, n, i) \/ UpdateInterface(r, n, i) \/ DeleteInterface(r, n, i)
    \/ CreateSession(r, n) \/ UpdateSession(r, n) \/ DeleteSession(r, n)

Progress(o) ==
    \/ o \in Requests /\ (Flush(o) \/ Reject(o))
    \/ \E n \in Nodes : Materialize(o, n) \/ UniqueViolation(o, n)
    \/ DeadlockAbort(o) \/ Commit(o)

Agent(n) ==
    \/ SyncWireguardKeys(n) \/ StoreKey(n) \/ MatchKey(n) \/ RejectKey(n)
    \/ PushKey(n)

Next ==
    \/ \E r \in Requests, n \in Nodes : Handle(r, n)
    \/ \E o \in Owners : Progress(o)
    \/ \E n \in Nodes : Agent(n) \/ LoseKeyFile(n) \/ RebuildGateway(n)

(* The event loop serves every request it has accepted and an agent        *)
(* repeats its reconcile.  PostgreSQL queues those who wait for a row      *)
(* lock, so that one which is released again and again is also obtained.   *)
Spec ==
    /\ Init /\ [][Next]_vars
    /\ \A o \in Owners : WF_vars(Progress(o))
    /\ \A o \in Owners : SF_vars(\E n \in Nodes : Materialize(o, n))
    /\ \A n \in Nodes : WF_vars(Agent(n))
    /\ \A n \in Nodes : SF_vars(StoreKey(n))

(***************************************************************************)
(* Properties.                                                             *)
(***************************************************************************)
PeeringsTypeOK ==
    /\ \A n \in Nodes :
         /\ rows[n]["peering"] \in PeeringRow(n) \cup {NoPeering}
         /\ rows[n]["session"] \in SessionIn \cup {NoSession}
         /\ \A i \in Names : rows[n][i] \in InterfaceIn \cup {NoInterface}
         /\ \A s \in Slots \ {"peering"} : rows[n][s].peer => rows[n]["peering"].there
         /\ share[n] \subseteq Flushed
         /\ lock[n] # Nobody => lock[n] \in Flushed
    /\ key \in [Nodes -> 0..MaxKeys]
    /\ keyfile \in [Nodes -> 0..MaxKeys] /\ gateway \in [Nodes -> 0..MaxKeys]
    /\ agent \in [Nodes -> {"idle", "reporting", "accepted"}]

(* Whatever two administrators do at once, no two enabled WireGuard        *)
(* interfaces of a node listen on one port.  The port policy is checked    *)
(* before the node is locked; what makes it safe is that the later of two  *)
(* overlapping writes of a node cannot take its generation number.         *)
PortsDistinct ==
    \A n \in Nodes, i, j \in Names :
        /\ i # j
        /\ rows[n][i].there /\ rows[n][i].on
        /\ rows[n][j].there /\ rows[n][j].on
        => rows[n][i].port # rows[n][j].port

(* A node whose writes all published, and which no first key report        *)
(* overtook, has in its newest snapshot exactly its rows and the keys its  *)
(* peers have registered.                                                  *)
SnapshotIsCurrent ==
    \A n \in Nodes \ behind : snap[n] = Snapshot(n)

(* A tunnel is never brought up with a key other than the one the control  *)
(* server gives to the node's peers, also when the agent has lost its key  *)
(* file and made a new one (orchestrator.py: the report comes before the   *)
(* apply, and a 409 ends the reconcile).                                   *)
TunnelKeysAgree ==
    \A n \in Nodes : gateway[n] # 0 => gateway[n] = key[n]

(* A node that is to have a tunnel gets its key on record, although first  *)
(* reports of several nodes may deadlock on each other's rows.             *)
KeysAreRegistered ==
    \A n \in Nodes : HasTunnel(n) ~> (key[n] # 0 \/ ~HasTunnel(n))

(* What peering_backfill.py:11 and peerings.py:3 say: peering_id and the   *)
(* peerings themselves are metadata that does not enter the DesiredState,  *)
(* so that writing them leaves what a materialization yields unchanged.    *)
PeeringIdIsMetadata ==
    [][\A n \in Nodes :
          /\ key' = key
          /\ \A s \in Slots \ {"peering"} :
                [rows'[n][s] EXCEPT !.peer = FALSE] = [rows[n][s] EXCEPT !.peer = FALSE]
          => AssembleSnapshot(rows'[n], key) = AssembleSnapshot(rows[n], key)]_vars
=============================================================================
