----------------------------- MODULE DnsGroups -----------------------------
(***************************************************************************)
(* Shared DNS groups: api/v1/admin/dns_groups.py and the DNS part of       *)
(* services/materializer.py.                                               *)
(*                                                                         *)
(* A group owns zones and records; a node subscribes to one group.  Every  *)
(* write of a group, a zone or a record re-materializes all the nodes that *)
(* subscribe to the group, in the transaction of the write: this is what   *)
(* keeps the members of an anycast group identical.  Transactions are      *)
(* PostgreSQL READ COMMITTED: a statement sees what is committed when it   *)
(* runs and what its own transaction wrote.  The members are found by one  *)
(* statement, each member is locked and assembled by later ones, and the   *)
(* ORM answers a second read of the group row from the object it already   *)
(* holds.                                                                  *)
(*                                                                         *)
(* Data: a group has one zone and the zone one record, each absent, off    *)
(* (enabled = false) or on; what a zone or a record says is not told       *)
(* apart.  Generation numbers are those of Publication.                    *)
(***************************************************************************)
EXTENDS Integers, FiniteSets

CONSTANTS
    Nodes,
    Groups,
    Requests,       \* admin requests that may be in progress together
    MaxRequests     \* bound: requests accepted in a behaviour

ASSUME MaxRequestsAssumption == MaxRequests \in Nat

(* "nobody" and "no group" stand for NULL: no row has such a key.          *)
ASSUME NamesAssumption ==
    /\ "nobody" \notin Requests \cup Nodes
    /\ "no group" \notin Groups

VARIABLES
    group,      \* committed dns_groups / zones / records rows, per group
    member,     \* committed Node.dns_group_id
    gen,        \* Node.current_generation
    served,     \* the dns section of the node's newest generation
    txn,        \* per request: the handler's progress
    lock,       \* holder of the row lock on a node
    accepted,   \* requests accepted so far
    behind      \* history: nodes published by nobody who saw the last write

vars == <<group, member, gen, served, txn, lock, accepted, behind>>

Presence == {"none", "off", "on"}
NoGroup == "no group"
NoDns == {}
Nobody == "nobody"

GroupRows == [there : BOOLEAN, enabled : BOOLEAN, forwards : BOOLEAN,
              zone : Presence, record : Presence]

Absent == [there |-> FALSE, enabled |-> FALSE, forwards |-> FALSE,
           zone |-> "none", record |-> "none"]

(* What a node of the group serves: its enabled zone if that has an        *)
(* enabled record, and the forwards.  With neither, no DNS is deployed.    *)
DnsSections == SUBSET {"zone", "forwards"}

(* Which row a request writes.                                             *)
Kinds == {"group", "drop_group", "zone", "record", "assign"}

(* fields: the columns the request writes, with their new values; via: the *)
(* group named in the path; found: the rows as the handler found them;     *)
(* held: the columns of the path's group as the session holds them; base:  *)
(* the generation of a node loaded before its lock; todo, out: members yet *)
(* to be materialized and done; stale: history, a commit has overtaken     *)
(* what the session holds.                                                 *)
Idle == [phase |-> "idle"]

(* `_validate_group_config`, `_validate_zone_name`, `_validate_record`     *)
(* refuse a payload before anything is read: such a request has no effect  *)
(* and is left out.                                                        *)
Begin(r, kind, g, via, node, fields) ==
    /\ txn[r] = Idle
    /\ accepted < MaxRequests
    /\ accepted' = accepted + 1
    /\ txn' = [txn EXCEPT ![r] =
           [phase |-> "loaded", kind |-> kind, group |-> g, via |-> via,
            node |-> node, fields |-> fields,
            found |-> IF g \in Groups THEN group[g] ELSE Absent,
            held |-> IF via \in Groups THEN group[via] ELSE Absent,
            base |-> IF node = Nobody THEN 0 ELSE gen[node],
            todo |-> {}, out |-> << >>, stale |-> FALSE]]
    /\ UNCHANGED <<group, member, gen, served, lock, behind>>

Write(row, fields) ==
    [f \in DOMAIN row |-> IF f \in DOMAIN fields THEN fields[f] ELSE row[f]]

(* Identifiers are not reused: the one slot of the model holds a new row   *)
(* only once no open request holds the row it had.                         *)
Unseen(g, part) ==
    \A r \in Requests :
        txn[r] # Idle /\ txn[r].group = g => txn[r].found[part] = Absent[part]

(* No open request holds the row group g had as the group of its path.     *)
Unheld(g) ==
    \A r \in Requests : txn[r] # Idle /\ txn[r].via = g => ~txn[r].held.there

(***************************************************************************)
(* First part of a handler: load the rows it is about (404 otherwise).     *)
(***************************************************************************)
UpdateGroup(r, g) ==
    /\ group[g].there
    /\ \/ \E e \in BOOLEAN : Begin(r, "group", g, g, Nobody, [enabled |-> e])
       \/ \E f \in BOOLEAN : Begin(r, "group", g, g, Nobody, [forwards |-> f])

DeleteGroup(r, g) ==
    /\ group[g].there
    /\ Begin(r, "drop_group", g, g, Nobody, << >>)

CreateZone(r, g) ==
    /\ group[g].there /\ group[g].zone = "none" /\ Unseen(g, "zone")
    /\ \E p \in {"off", "on"} : Begin(r, "zone", g, g, Nobody, [zone |-> p])

UpdateZone(r, g) ==
    /\ group[g].there /\ group[g].zone # "none"
    /\ \E p \in {"off", "on"} : Begin(r, "zone", g, g, Nobody, [zone |-> p])

DeleteZone(r, g) ==
    /\ group[g].there /\ group[g].zone # "none"
    /\ Begin(r, "zone", g, g, Nobody, [zone |-> "none", record |-> "none"])

CreateRecord(r, g) ==
    /\ group[g].there /\ group[g].zone # "none"
    /\ group[g].record = "none" /\ Unseen(g, "record")
    /\ \E p \in {"off", "on"} : Begin(r, "record", g, g, Nobody, [record |-> p])

(* The record is looked up by the zone of the path; that the zone belongs  *)
(* to the path's group is not looked at, only that the group exists.       *)
UpdateRecord(r, g, via) ==
    /\ group[g].there /\ group[via].there
    /\ group[g].record # "none"
    /\ \E p \in {"off", "on"} : Begin(r, "record", g, via, Nobody, [record |-> p])

DeleteRecord(r, g, via) ==
    /\ group[g].there /\ group[via].there
    /\ group[g].record # "none"
    /\ Begin(r, "record", g, via, Nobody, [record |-> "none"])

AssignNodeGroup(r, n, g) ==
    /\ g # NoGroup => group[g].there
    /\ Begin(r, "assign", g, g, n, << >>)

(* Nobody subscribes to a new group: nothing to publish.                   *)
CreateGroup(g) ==
    /\ ~group[g].there /\ Unseen(g, "there") /\ Unheld(g)
    /\ accepted < MaxRequests
    /\ accepted' = accepted + 1
    /\ \E e, f \in BOOLEAN :
         group' = [group EXCEPT ![g] = [there |-> TRUE, enabled |-> e,
                   forwards |-> f, zone |-> "none", record |-> "none"]]
    /\ UNCHANGED <<member, gen, served, txn, lock, behind>>

(***************************************************************************)
(* session.flush(): the row locks of the write, then the members.          *)
(***************************************************************************)
Flushed == {r \in Requests : txn[r].phase = "flushed"}

(* Two writes of one row, or of a row and of what its deletion takes with  *)
(* it, exclude each other.                                                 *)
Excludes(t, u) ==
    /\ t.group = u.group
    /\ \/ "drop_group" \in {t.kind, u.kind}
       \/ t.kind = u.kind /\ t.kind # "assign"
       \/ {t.kind, u.kind} = {"zone", "record"}
          /\ "record" \in DOMAIN t.fields \cap DOMAIN u.fields

NodesOf(g) == {n \in Nodes : member[n] = g}

(* The nodes whose row the write itself changes.                           *)
Rewrites(t) ==
    CASE t.kind = "assign" -> {t.node}
      [] t.kind = "drop_group" -> NodesOf(t.group)
      [] OTHER -> {}

(* `_member_ids` of the group in the path.                                 *)
MemberIds(t) == IF t.kind = "assign" THEN {t.node} ELSE NodesOf(t.via)

(* A row that is gone or a name that is taken meanwhile: 409 or 500.  (A   *)
(* second record, which the database allows, is beyond the model's bound.) *)
Refused(t) ==
    \/ t.group \in Groups /\ ~group[t.group].there
    \/ t.kind = "zone"
       /\ (group[t.group].zone = "none") # (t.found.zone = "none")
    \/ t.kind = "record" /\ \/ group[t.group].zone = "none"
                            \/ (group[t.group].record = "none")
                                  # (t.found.record = "none")

MayFlush(r) ==
    /\ txn[r].phase = "loaded"
    /\ \A u \in Flushed : ~Excludes(txn[r], txn[u])
    /\ \A n \in Rewrites(txn[r]) : lock[n] = Nobody

Flush(r) ==
    /\ MayFlush(r)
    /\ ~Refused(txn[r])
    /\ txn' = [txn EXCEPT ![r].phase = "flushed",
                          ![r].todo = MemberIds(txn[r])]
    /\ lock' = [n \in Nodes |-> IF n \in Rewrites(txn[r]) THEN r ELSE lock[n]]
    /\ UNCHANGED <<group, member, gen, served, accepted, behind>>

Unlocked(r) == [n \in Nodes |-> IF lock[n] = r THEN Nobody ELSE lock[n]]

(* Mutant: the rollback forgets the row locks. *)
AbortKeepsLocks(r) ==
    /\ txn' = [txn EXCEPT ![r] = Idle]
    /\ UNCHANGED <<group, member, gen, served, lock, accepted, behind>>

Abort(r) ==
    /\ txn' = [txn EXCEPT ![r] = Idle]
    /\ lock' = Unlocked(r)
    /\ UNCHANGED <<group, member, gen, served, accepted, behind>>

Reject(r) == MayFlush(r) /\ Refused(txn[r]) /\ Abort(r)

(***************************************************************************)
(* `_rematerialize`: one member after the other, in the order the database *)
(* returned them (no ORDER BY).                                            *)
(***************************************************************************)
(* The group of node n as the transaction sees it.                         *)
GroupSeen(t, n) ==
    CASE t.kind = "assign" -> t.group
      [] t.kind = "drop_group" /\ member[n] = t.group -> NoGroup
      [] OTHER -> member[n]

(* Its rows: the group's own columns come from the object the session      *)
(* holds (with the values this transaction set), zones and records from    *)
(* the database.                                                           *)
RowSeen(t, g) ==
    LET row == Write(group[g], IF t.group = g THEN t.fields ELSE << >>)
        held == Write(t.held, IF t.group = g THEN t.fields ELSE << >>)
    IN IF g = t.via /\ t.held.there
       THEN [row EXCEPT !.enabled = held.enabled, !.forwards = held.forwards]
       ELSE row

DnsOf(row) ==
    {part \in {"zone", "forwards"} :
        /\ row.enabled
        /\ part = "zone" => row.zone = "on" /\ row.record = "on"
        /\ part = "forwards" => row.forwards}

LoadDnsGroup(t, n) ==
    LET g == GroupSeen(t, n) IN
    IF g = NoGroup \/ ~group[g].there THEN NoDns ELSE DnsOf(RowSeen(t, g))

(* Mutant: the member is read without FOR UPDATE. *)
MayMaterializeUnlocked(r, n) ==
    txn[r].phase = "flushed" /\ n \in txn[r].todo

MayMaterialize(r, n) ==
    /\ txn[r].phase = "flushed"
    /\ n \in txn[r].todo
    /\ lock[n] \in {Nobody, r}

(* A node that was loaded before it was locked collides with whoever       *)
(* published in between (UNIQUE(node_id, generation)).                     *)
Collides(t, n) == t.kind = "assign" /\ t.base # gen[n]

Materialize(r, n) ==
    /\ MayMaterialize(r, n)
    /\ ~Collides(txn[r], n)
    /\ txn' = [txn EXCEPT ![r].todo = @ \ {n},
           ![r].out = [m \in DOMAIN @ \cup {n} |->
                          IF m = n THEN LoadDnsGroup(txn[r], n) ELSE @[m]]]
    /\ lock' = [lock EXCEPT ![n] = r]
    /\ UNCHANGED <<group, member, gen, served, accepted, behind>>

UniqueViolation(r, n) ==
    MayMaterialize(r, n) /\ Collides(txn[r], n) /\ Abort(r)

WaitsFor(r, u) ==
    \E n \in Nodes :
        /\ lock[n] = u
        /\ \/ txn[r].phase = "flushed" /\ n \in txn[r].todo
           \/ txn[r].phase = "loaded" /\ n \in Rewrites(txn[r])

(* PostgreSQL ends one of two transactions that wait for each other.       *)
DeadlockAbort(r) ==
    /\ \E u \in Requests \ {r} : WaitsFor(r, u) /\ WaitsFor(u, r)
    /\ Abort(r)

(* What node n should serve, by the committed rows.                        *)
DnsFor(n) ==
    IF member[n] = NoGroup THEN NoDns ELSE DnsOf(group[member[n]])

Serving == [there |-> TRUE, enabled |-> TRUE, forwards |-> FALSE,
            zone |-> "on", record |-> "on"]

(***************************************************************************)
(* Commit.  Only the history variables need words: a session that holds    *)
(* the group's columns is overtaken by a commit that changes them; a node  *)
(* already assembled is overtaken by the commit of a content write that    *)
(* did not count it among the members (and the other way round); a record  *)
(* written through another group's path publishes that group's members     *)
(* instead of its own.                                                     *)
(***************************************************************************)
Content == {"group", "zone", "record"}

Overtakes(t, u) ==
    \/ t.kind = "group" /\ u.via = t.group
    \/ t.kind \in Content
       /\ \E n \in DOMAIN u.out \ DOMAIN t.out : GroupSeen(u, n) = t.group

Missed(r) ==
    LET t == txn[r] IN
    {n \in Nodes :
        \/ t.stale /\ n \in DOMAIN t.out
        \/ n \in DOMAIN t.out
           /\ \E u \in Flushed \ {r} :
                /\ txn[u].kind \in Content
                /\ txn[u].group = GroupSeen(t, n)
                /\ n \notin txn[u].todo \cup DOMAIN txn[u].out
        \/ t.kind = "record" /\ t.via # t.group /\ n \in NodesOf(t.group)}

Commit(r) ==
    LET t == txn[r] IN
    /\ t.phase = "flushed" /\ t.todo = {}
    /\ group' = IF t.kind \in Content
                THEN [group EXCEPT ![t.group] = Write(@, t.fields)]
                ELSE IF t.kind = "drop_group"
                THEN [group EXCEPT ![t.group] = Absent] ELSE group
    /\ member' = [n \in Nodes |-> IF n \in Rewrites(t)
                                  THEN GroupSeen(t, n) ELSE member[n]]
    /\ served' = [n \in Nodes |-> IF n \in DOMAIN t.out THEN t.out[n] ELSE served[n]]
    /\ gen' = [n \in Nodes |-> IF n \in DOMAIN t.out THEN gen[n] + 1 ELSE gen[n]]
    /\ behind' = (behind \ DOMAIN t.out) \cup Missed(r)
    /\ txn' = [u \in Requests |->
                 IF u = r THEN Idle
                 ELSE IF txn[u] # Idle /\ Overtakes(t, txn[u])
                      THEN [txn[u] EXCEPT !.stale = TRUE] ELSE txn[u]]
    /\ lock' = Unlocked(r)
    /\ UNCHANGED accepted

(* A fleet that one request after the other has set up: some groups exist, *)
(* serving a zone with a record, and the nodes subscribe to some of them.  *)
Init ==
    /\ \E G \in SUBSET Groups :
         /\ group = [g \in Groups |-> IF g \in G THEN Serving ELSE Absent]
         /\ member \in [Nodes -> G \cup {NoGroup}]
    /\ gen = [n \in Nodes |-> 1]
    /\ served = [n \in Nodes |-> DnsFor(n)]
    /\ txn = [r \in Requests |-> Idle]
    /\ lock = [n \in Nodes |-> Nobody]
    /\ accepted = 0
    /\ behind = {}

Handle(r) ==
    \/ \E g \in Groups :
         \/ UpdateGroup(r, g) \/ DeleteGroup(r, g)
         \/ CreateZone(r, g) \/ UpdateZone(r, g) \/ DeleteZone(r, g)
         \/ CreateRecord(r, g)
         \/ \E via \in Groups : UpdateRecord(r, g, via) \/ DeleteRecord(r, g, via)
    \/ \E n \in Nodes, g \in Groups \cup {NoGroup} : AssignNodeGroup(r, n, g)

Progress(r) ==
    \/ Flush(r) \/ Reject(r)
    \/ \E n \in Nodes : Materialize(r, n) \/ UniqueViolation(r, n)
    \/ DeadlockAbort(r) \/ Commit(r)

Next ==
    \/ \E g \in Groups : CreateGroup(g)
    \/ \E r \in Requests : Handle(r) \/ Progress(r)

Spec == Init /\ [][Next]_vars

(***************************************************************************)
(* Properties.                                                             *)
(***************************************************************************)
Active == {r \in Requests : txn[r] # Idle}

DnsTypeOK ==
    /\ group \in [Groups -> GroupRows]
    /\ member \in [Nodes -> Groups \cup {NoGroup}]
    /\ gen \in [Nodes -> Nat \ {0}]
    /\ served \in [Nodes -> DnsSections]
    /\ \A r \in Active : txn[r].kind \in Kinds /\ txn[r].todo \subseteq Nodes
    /\ lock \in [Nodes -> Requests \cup {Nobody}]
    /\ \A n \in Nodes : lock[n] # Nobody => txn[lock[n]].phase = "flushed"

(* Unless a write was overtaken in one of the three ways `behind` records, *)
(* every node's newest generation carries exactly the DNS configuration    *)
(* the committed tables give it: concurrent writes of zones, records,      *)
(* memberships and whole groups never publish a mixture, and none is lost  *)
(* (`_rematerialize` under the members' row locks).                        *)
ServedIsCurrent ==
    \A n \in Nodes \ behind : served[n] = DnsFor(n)
=============================================================================
