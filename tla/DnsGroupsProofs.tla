-------------------------- MODULE DnsGroupsProofs --------------------------
(***************************************************************************)
(* Theorems about DnsGroups, for every set of nodes, groups and requests   *)
(* in progress together, and every bound.                                  *)
(***************************************************************************)
EXTENDS DnsGroups, TLAPS

(***************************************************************************)
(* The inductive invariant.                                                *)
(***************************************************************************)
IsOn(f, S) == f = [x \in S |-> f[x]]

IsOpen(t) ==
    t = [phase |-> t.phase, kind |-> t.kind, group |-> t.group, via |-> t.via,
         node |-> t.node, fields |-> t.fields, found |-> t.found,
         held |-> t.held, base |-> t.base, todo |-> t.todo, out |-> t.out,
         stale |-> t.stale]

(* What each kind of request may write.                                    *)
Columns(kind) ==
    IF kind = "group" THEN {"enabled", "forwards"}
    ELSE IF kind \in {"zone", "record"} THEN {"zone", "record"} ELSE {}

FieldsFit(kind, fields) ==
    /\ DOMAIN fields \subseteq Columns(kind)
    /\ \A c \in DOMAIN fields :
         fields[c] \in (IF c \in {"enabled", "forwards"} THEN BOOLEAN ELSE Presence)

(* Which rows a request of each kind is about.                             *)
Proper(kind, g, via, node, fields) ==
    /\ kind \in Kinds
    /\ kind # "assign" => g \in Groups
    /\ kind = "assign" => g \in Groups \cup {NoGroup} /\ node \in Nodes
    /\ via # g => kind = "record"
    /\ FieldsFit(kind, fields)

OpenFits(t) ==
    /\ t.phase \in {"loaded", "flushed"}
    /\ Proper(t.kind, t.group, t.via, t.node, t.fields)
    /\ t.held \in GroupRows
    /\ t.todo \subseteq Nodes
    /\ IsOn(t.out, DOMAIN t.out) /\ DOMAIN t.out \subseteq Nodes
    /\ \A n \in DOMAIN t.out : t.out[n] \in DnsSections
    /\ t.phase = "loaded" => DOMAIN t.out = {}
    /\ t.stale \in BOOLEAN

ShapeInv ==
    /\ group \in [Groups -> GroupRows]
    /\ member \in [Nodes -> Groups \cup {NoGroup}]
    /\ gen \in [Nodes -> Nat \ {0}]
    /\ served \in [Nodes -> DnsSections]
    /\ lock \in [Nodes -> Requests \cup {Nobody}]
    /\ IsOn(txn, Requests)
    /\ \A r \in Requests : txn[r] = Idle \/ (IsOpen(txn[r]) /\ OpenFits(txn[r]))

(* Who holds a node is a request that has flushed; an assembled node is    *)
(* held; so are the node that changes its group and the members of a group *)
(* that is being deleted, and each of them is on the list.                 *)
Holds(r) ==
    LET t == txn[r] IN
    /\ \A n \in DOMAIN t.out : lock[n] = r
    /\ t.kind = "assign" =>
         lock[t.node] = r /\ t.todo \cup DOMAIN t.out = {t.node}
    /\ t.kind = "drop_group" => \A n \in NodesOf(t.group) :
         lock[n] = r /\ n \in t.todo \cup DOMAIN t.out

LockInv ==
    /\ \A n \in Nodes : lock[n] \in Flushed \cup {Nobody}
    /\ \A r \in Flushed : Holds(r)

(* The deletion of a group is alone with it; a group somebody belongs to,  *)
(* or is about to write or join, is there.                                 *)
GroupInv ==
    /\ \A r, q \in Flushed :
         r # q /\ txn[r].group = txn[q].group => txn[r].kind # "drop_group"
    /\ \A r \in Flushed : txn[r].group \in Groups => group[txn[r].group].there
    /\ \A n \in Nodes : member[n] \in Groups => group[member[n]].there

(* The columns a session holds of a group that is still there are the      *)
(* committed ones, unless it was overtaken.                                *)
HeldInv ==
    \A r \in Requests :
      LET t == txn[r] IN
      /\ t # Idle /\ ~t.stale
      /\ t.via \in Groups /\ t.held.there /\ group[t.via].there
      => /\ t.held.enabled = group[t.via].enabled
         /\ t.held.forwards = group[t.via].forwards

(* What was assembled and not overtaken is what the request would assemble *)
(* now; a write of a group has on its list every member that is not behind.*)
AssembledInv ==
    \A r \in Flushed : \A n \in DOMAIN txn[r].out :
        ~txn[r].stale => txn[r].out[n] = LoadDnsGroup(txn[r], n)

ListedInv ==
    \A r \in Flushed : \A n \in Nodes \ behind :
        /\ txn[r].kind \in Content /\ txn[r].via = txn[r].group
        /\ member[n] = txn[r].group
        => n \in txn[r].todo \cup DOMAIN txn[r].out

(***************************************************************************)
(* What each step does to the requests.                                    *)
(***************************************************************************)
Requested(r) ==
    \E kind, g, via, node, fields :
        Proper(kind, g, via, node, fields) /\ Begin(r, kind, g, via, node, fields)

LEMMA EmptyFields == DOMAIN << >> = {} /\ IsOn(<< >>, {})
  BY DEF IsOn

LEMMA HandlersRequest ==
    ASSUME ShapeInv, NEW r \in Requests, Handle(r)
    PROVE  Requested(r)
<1>n. "no group" \notin Groups /\ Kinds = {"group", "drop_group", "zone", "record", "assign"}
  BY NamesAssumption, Zenon DEF Kinds
<1>1. ASSUME NEW g \in Groups, UpdateGroup(r, g)
      PROVE  Requested(r)
  <2>1. ASSUME NEW e \in BOOLEAN, Begin(r, "group", g, g, Nobody, [enabled |-> e])
        PROVE  Requested(r)
    <3>1. FieldsFit("group", [enabled |-> e])
      BY DEF FieldsFit, Columns
    <3>2. Proper("group", g, g, Nobody, [enabled |-> e])
      BY <1>n, <3>1, Zenon DEF Proper
    <3> QED BY <2>1, <3>2 DEF Requested
  <2>2. ASSUME NEW f \in BOOLEAN, Begin(r, "group", g, g, Nobody, [forwards |-> f])
        PROVE  Requested(r)
    <3>1. FieldsFit("group", [forwards |-> f])
      BY DEF FieldsFit, Columns
    <3>2. Proper("group", g, g, Nobody, [forwards |-> f])
      BY <1>n, <3>1, Zenon DEF Proper
    <3> QED BY <2>2, <3>2 DEF Requested
  <2> QED BY <1>1, <2>1, <2>2 DEF UpdateGroup
<1>e. FieldsFit("drop_group", << >>) /\ FieldsFit("assign", << >>)
  BY EmptyFields DEF FieldsFit
<1>2. ASSUME NEW g \in Groups, DeleteGroup(r, g)
      PROVE  Requested(r)
  <2>1. Proper("drop_group", g, g, Nobody, << >>)
    BY <1>n, <1>e, Zenon DEF Proper
  <2> QED BY <1>2, <2>1 DEF DeleteGroup, Requested
<1>z. ASSUME NEW g \in Groups, NEW p \in {"off", "on"}, Begin(r, "zone", g, g, Nobody, [zone |-> p])
      PROVE  Requested(r)
  <2>1. FieldsFit("zone", [zone |-> p])
    BY DEF FieldsFit, Columns, Presence
  <2>2. Proper("zone", g, g, Nobody, [zone |-> p])
    BY <1>n, <2>1, Zenon DEF Proper
  <2> QED BY <1>z, <2>2 DEF Requested
<1>3. ASSUME NEW g \in Groups, CreateZone(r, g) \/ UpdateZone(r, g)
      PROVE  Requested(r)
  BY <1>3, <1>z DEF CreateZone, UpdateZone
<1>4. ASSUME NEW g \in Groups, DeleteZone(r, g)
      PROVE  Requested(r)
  <2>1. FieldsFit("zone", [zone |-> "none", record |-> "none"])
    BY DEF FieldsFit, Columns, Presence
  <2>2. Proper("zone", g, g, Nobody, [zone |-> "none", record |-> "none"])
    BY <1>n, <2>1, Zenon DEF Proper
  <2> QED BY <1>4, <2>2 DEF DeleteZone, Requested
<1>r. ASSUME NEW g \in Groups, NEW via \in Groups, NEW p \in Presence,
             Begin(r, "record", g, via, Nobody, [record |-> p])
      PROVE  Requested(r)
  <2>1. FieldsFit("record", [record |-> p])
    BY DEF FieldsFit, Columns
  <2>2. Proper("record", g, via, Nobody, [record |-> p])
    BY <1>n, <2>1, Zenon DEF Proper
  <2> QED BY <1>r, <2>2 DEF Requested
<1>5. ASSUME NEW g \in Groups, NEW via \in Groups,
             CreateRecord(r, g) \/ UpdateRecord(r, g, via) \/ DeleteRecord(r, g, via)
      PROVE  Requested(r)
  <2>1. "none" \in Presence /\ "off" \in Presence /\ "on" \in Presence
    BY DEF Presence
  <2>2. CASE CreateRecord(r, g)
    BY <2>1, <2>2, <1>r DEF CreateRecord
  <2>3. CASE UpdateRecord(r, g, via)
    BY <2>1, <2>3, <1>r DEF UpdateRecord
  <2>4. CASE DeleteRecord(r, g, via)
    BY <2>1, <2>4, <1>r DEF DeleteRecord
  <2> QED BY <1>5, <2>2, <2>3, <2>4
<1>6. ASSUME NEW n \in Nodes, NEW g \in Groups \cup {NoGroup}, AssignNodeGroup(r, n, g)
      PROVE  Requested(r)
  <2>1. Proper("assign", g, g, n, << >>)
    BY <1>n, <1>e, Zenon DEF Proper
  <2> QED BY <1>6, <2>1 DEF AssignNodeGroup, Requested
<1> QED BY <1>1, <1>2, <1>3, <1>4, <1>5, <1>6 DEF Handle

(* What a step leaves of an open request: everything but `stale`.          *)
Kept(u, t) ==
    /\ u.phase = t.phase /\ u.kind = t.kind /\ u.group = t.group
    /\ u.via = t.via /\ u.node = t.node /\ u.fields = t.fields
    /\ u.held = t.held /\ u.todo = t.todo /\ u.out = t.out

(* The same request further on: another phase, list and outcome.           *)
Further(u, t, p, d, x) ==
    /\ u.phase = p /\ u.kind = t.kind /\ u.group = t.group
    /\ u.via = t.via /\ u.node = t.node /\ u.fields = t.fields
    /\ u.held = t.held /\ u.todo = d /\ u.out = x /\ u.stale = t.stale
    /\ IsOpen(u)

LEMMA Open ==
    ASSUME ShapeInv, NEW r \in Requests
    PROVE  /\ txn[r] = Idle <=> txn[r].phase = "idle"
           /\ txn[r] # Idle => IsOpen(txn[r]) /\ OpenFits(txn[r])
  BY DEF ShapeInv, OpenFits, Idle

LEMMA SetPhase ==
    ASSUME NEW t, IsOpen(t), NEW p, NEW d
    PROVE  Further([[t EXCEPT !.phase = p] EXCEPT !.todo = d], t, p, d, t.out)
<1>1. PICK u : u = [t EXCEPT !.phase = p]
  OBVIOUS
<1>2. u = [phase |-> p, kind |-> t.kind, group |-> t.group, via |-> t.via,
         node |-> t.node, fields |-> t.fields, found |-> t.found,
         held |-> t.held, base |-> t.base, todo |-> t.todo, out |-> t.out,
         stale |-> t.stale]
  BY <1>1 DEF IsOpen
<1>3. PICK v : v = [u EXCEPT !.todo = d]
  OBVIOUS
<1>4. v = [phase |-> p, kind |-> t.kind, group |-> t.group, via |-> t.via,
         node |-> t.node, fields |-> t.fields, found |-> t.found,
         held |-> t.held, base |-> t.base, todo |-> d, out |-> t.out,
         stale |-> t.stale]
  BY <1>2, <1>3
<1>5. Further(v, t, p, d, t.out)
  BY <1>4 DEF Further, IsOpen
<1> QED BY <1>1, <1>3, <1>5

LEMMA SetOut ==
    ASSUME NEW t, IsOpen(t), NEW d, NEW x
    PROVE  Further([[t EXCEPT !.todo = d] EXCEPT !.out = x], t, t.phase, d, x)
<1>1. PICK u : u = [t EXCEPT !.todo = d]
  OBVIOUS
<1>2. u = [phase |-> t.phase, kind |-> t.kind, group |-> t.group, via |-> t.via,
         node |-> t.node, fields |-> t.fields, found |-> t.found,
         held |-> t.held, base |-> t.base, todo |-> d, out |-> t.out,
         stale |-> t.stale]
  BY <1>1 DEF IsOpen
<1>3. PICK v : v = [u EXCEPT !.out = x]
  OBVIOUS
<1>4. v = [phase |-> t.phase, kind |-> t.kind, group |-> t.group, via |-> t.via,
         node |-> t.node, fields |-> t.fields, found |-> t.found,
         held |-> t.held, base |-> t.base, todo |-> d, out |-> x,
         stale |-> t.stale]
  BY <1>2, <1>3
<1>5. Further(v, t, t.phase, d, x)
  BY <1>4 DEF Further, IsOpen
<1> QED BY <1>1, <1>3, <1>5

LEMMA SetStale ==
    ASSUME NEW t, IsOpen(t), NEW v, NEW u, u = [t EXCEPT !.stale = v]
    PROVE  Kept(u, t) /\ IsOpen(u) /\ u.stale = v
<1>1. u = [phase |-> t.phase, kind |-> t.kind, group |-> t.group, via |-> t.via,
         node |-> t.node, fields |-> t.fields, found |-> t.found,
         held |-> t.held, base |-> t.base, todo |-> t.todo, out |-> t.out,
         stale |-> v]
  BY DEF IsOpen
<1> QED BY <1>1 DEF IsOpen, Kept

Marked(t) == [t EXCEPT !.stale = TRUE]

LEMMA MarkedFields ==
    ASSUME NEW t, IsOpen(t), NEW u, u = Marked(t)
    PROVE  Kept(u, t) /\ IsOpen(u) /\ u.stale = TRUE
<1>1. PICK v : v = TRUE
  OBVIOUS
<1>2. u = [t EXCEPT !.stale = v]
  BY <1>1, Zenon DEF Marked
<1> QED BY <1>1, <1>2, SetStale

(* Request r is now u, the others are what they were.                      *)
Turned(r, u) == txn' = [txn EXCEPT ![r] = u]

(* A request has loaded its rows.                                          *)
Fresh(u) ==
    /\ IsOpen(u) /\ OpenFits(u) /\ u.phase = "loaded" /\ u.stale = FALSE
    /\ u.via \in Groups => u.held = group[u.via]

LEMMA RequestedEffect ==
    ASSUME ShapeInv, NEW r \in Requests, Requested(r)
    PROVE  /\ txn[r] = Idle
           /\ \E u : Fresh(u) /\ Turned(r, u)
           /\ UNCHANGED <<group, member, gen, served, lock, behind>>
<1>1. PICK kind, g, via, node, fields :
         Proper(kind, g, via, node, fields) /\ Begin(r, kind, g, via, node, fields)
  BY DEF Requested
<1>2. PICK found, held, base :
        /\ held = (IF via \in Groups THEN group[via] ELSE Absent)
        /\ Turned(r, [phase |-> "loaded", kind |-> kind, group |-> g, via |-> via,
            node |-> node, fields |-> fields, found |-> found, held |-> held, base |-> base,
            todo |-> {}, out |-> << >>, stale |-> FALSE])
  BY <1>1 DEF Begin, Turned
<1>3. PICK u : u = [phase |-> "loaded", kind |-> kind, group |-> g, via |-> via,
            node |-> node, fields |-> fields, found |-> found, held |-> held, base |-> base,
            todo |-> {}, out |-> << >>, stale |-> FALSE]
  OBVIOUS
<1>4. /\ u.phase = "loaded" /\ u.kind = kind /\ u.group = g /\ u.via = via
      /\ u.node = node /\ u.fields = fields /\ u.held = held /\ u.todo = {}
      /\ u.out = << >> /\ u.stale = FALSE /\ IsOpen(u)
  BY <1>3 DEF IsOpen
<1>5. held \in GroupRows
  BY <1>2 DEF ShapeInv, GroupRows, Absent, Presence
<1>6. OpenFits(u)
  BY <1>1, <1>4, <1>5, EmptyFields DEF OpenFits
<1>7. Fresh(u)
  BY <1>2, <1>4, <1>6 DEF Fresh
<1>8. Turned(r, u)
  BY <1>2, <1>3
<1> QED BY <1>1, <1>7, <1>8 DEF Begin

LEMMA FlushEffect ==
    ASSUME ShapeInv, NEW r \in Requests, Flush(r)
    PROVE  /\ txn[r].phase = "loaded" /\ txn[r] # Idle
           /\ \E u : Turned(r, u)
                     /\ Further(u, txn[r], "flushed", MemberIds(txn[r]), txn[r].out)
<1>1. txn[r].phase = "loaded" /\ txn[r] # Idle
  BY DEF Flush, MayFlush, Idle
<1>2. PICK t, d : t = txn[r] /\ d = MemberIds(txn[r])
  OBVIOUS
<1>3. IsOpen(t)
  BY <1>1, <1>2, Open
<1>4. PICK u : u = [[t EXCEPT !.phase = "flushed"] EXCEPT !.todo = d]
  OBVIOUS
<1>5. Further(u, t, "flushed", d, t.out)
  BY <1>3, <1>4, SetPhase, Zenon
<1>6. txn' = [txn EXCEPT ![r].phase = "flushed", ![r].todo = d]
  BY <1>2 DEF Flush
<1>7. Turned(r, u)
  BY <1>2, <1>4, <1>6 DEF ShapeInv, IsOn, Turned
<1> QED BY <1>1, <1>2, <1>5, <1>7

(* Request r has assembled node n.                                         *)
Assembled(r, n, u) ==
    /\ Turned(r, u)
    /\ Further(u, txn[r], "flushed", txn[r].todo \ {n}, u.out)
    /\ IsOn(u.out, DOMAIN u.out) /\ DOMAIN u.out = DOMAIN txn[r].out \cup {n}
    /\ u.out[n] = LoadDnsGroup(txn[r], n)
    /\ \A m \in DOMAIN txn[r].out \ {n} : u.out[m] = txn[r].out[m]

LEMMA MaterializeEffect ==
    ASSUME ShapeInv, NEW r \in Requests, NEW n \in Nodes, Materialize(r, n)
    PROVE  /\ txn[r].phase = "flushed" /\ txn[r] # Idle /\ n \in txn[r].todo
           /\ \E u : Assembled(r, n, u)
<1>1. txn[r].phase = "flushed" /\ txn[r] # Idle /\ n \in txn[r].todo
  BY DEF Materialize, MayMaterialize, Idle
<1>2. PICK a, t : a = LoadDnsGroup(txn[r], n) /\ t = txn[r]
  OBVIOUS
<1>3. IsOpen(t)
  BY <1>1, <1>2, Open
<1>4. PICK x : x = [m \in DOMAIN t.out \cup {n} |-> IF m = n THEN a ELSE t.out[m]]
  OBVIOUS
<1>5. PICK d : d = t.todo \ {n}
  OBVIOUS
<1>6. PICK u : u = [[t EXCEPT !.todo = d] EXCEPT !.out = x]
  OBVIOUS
<1>7. Further(u, t, "flushed", d, x)
  BY <1>1, <1>2, <1>3, <1>6, SetOut, Zenon
<1>8. txn' = [txn EXCEPT ![r].todo = @ \ {n},
          ![r].out = [m \in DOMAIN @ \cup {n} |-> IF m = n THEN a ELSE @[m]]]
  BY <1>2 DEF Materialize
<1>9. Turned(r, u)
  <2>1. [txn EXCEPT ![r].todo = @ \ {n}][r].out = t.out
    BY <1>2, <1>3 DEF ShapeInv, IsOn, IsOpen
  <2> QED BY <1>2, <1>4, <1>5, <1>6, <1>8, <2>1, Zenon DEF ShapeInv, IsOn, Turned
<1>10. IsOn(x, DOMAIN x) /\ DOMAIN x = DOMAIN t.out \cup {n} /\ x[n] = a
      /\ \A m \in DOMAIN t.out \ {n} : x[m] = t.out[m]
  BY <1>4 DEF IsOn
<1>11. u.out = x
  BY <1>7 DEF Further
<1>12. Assembled(r, n, u)
  BY <1>2, <1>5, <1>7, <1>9, <1>10, <1>11 DEF Assembled
<1> QED BY <1>1, <1>12

Aborts(r) == txn[r] # Idle /\ Abort(r)

LEMMA NextCases ==
    ASSUME ShapeInv, [Next]_vars
    PROVE  \/ UNCHANGED vars
           \/ \E g \in Groups : CreateGroup(g)
           \/ \E r \in Requests : Requested(r)
           \/ \E r \in Requests : Flush(r)
           \/ \E r \in Requests, n \in Nodes : Materialize(r, n)
           \/ \E r \in Requests : Aborts(r)
           \/ \E r \in Requests : Commit(r)
<1>1. ASSUME NEW r \in Requests, Handle(r)
      PROVE  Requested(r)
  BY <1>1, HandlersRequest
<1>2. ASSUME NEW r \in Requests, Reject(r)
      PROVE  Aborts(r)
  BY <1>2 DEF Reject, Aborts, MayFlush, Idle
<1>3. ASSUME NEW r \in Requests, NEW n \in Nodes, UniqueViolation(r, n)
      PROVE  Aborts(r)
  BY <1>3 DEF UniqueViolation, MayMaterialize, Aborts, Idle
<1>4. ASSUME NEW r \in Requests, DeadlockAbort(r)
      PROVE  Aborts(r)
  BY <1>4 DEF DeadlockAbort, WaitsFor, Aborts, Idle
<1> QED
  BY <1>1, <1>2, <1>3, <1>4 DEF Next, Progress

LEMMA CommitEffect ==
    ASSUME ShapeInv, NEW r \in Requests, Commit(r)
    PROVE  /\ txn[r].phase = "flushed" /\ txn[r] # Idle /\ txn[r].todo = {}
           /\ IsOn(txn', Requests) /\ txn'[r] = Idle
           /\ \A u \in Requests \ {r} :
                \/ txn'[u] = txn[u]
                \/ txn[u] # Idle /\ txn'[u] = Marked(txn[u])
           /\ \A u \in Requests \ {r} :
                txn[u] # Idle /\ Overtakes(txn[r], txn[u]) => txn'[u] = Marked(txn[u])
<1>1. txn[r].phase = "flushed" /\ txn[r].todo = {}
  BY DEF Commit
<1>2. txn' = [u \in Requests |->
                 IF u = r THEN Idle
                 ELSE IF txn[u] # Idle /\ Overtakes(txn[r], txn[u])
                      THEN Marked(txn[u]) ELSE txn[u]]
  BY DEF Commit, Marked
<1> QED BY <1>1, <1>2 DEF IsOn, Idle


(* A commit leaves the other requests alone but for `stale`.               *)
LEMMA CommitOthers ==
    ASSUME ShapeInv, NEW r \in Requests, Commit(r), NEW u \in Requests \ {r}
    PROVE  /\ txn[u] = Idle => txn'[u] = Idle
           /\ txn[u] # Idle => /\ Kept(txn'[u], txn[u]) /\ IsOpen(txn'[u])
                               /\ txn'[u] # Idle /\ OpenFits(txn'[u])
           /\ txn'[u].phase = txn[u].phase
           /\ txn'[u] # Idle /\ ~txn'[u].stale
              => txn'[u] = txn[u] /\ ~Overtakes(txn[r], txn[u])
<1>1. CASE txn[u] = Idle
  <2>1. txn'[u] = txn[u]
    BY <1>1, CommitEffect
  <2> QED BY <1>1, <2>1
<1>2. CASE txn[u] # Idle
  <2>1. IsOpen(txn[u]) /\ OpenFits(txn[u])
    BY <1>2, Open
  <2>2. PICK t, v, w : t = txn[u] /\ v = Marked(t) /\ w = txn'[u]
    OBVIOUS
  <2>3. IsOpen(t) /\ OpenFits(t)
    BY <2>1, <2>2
  <2>4. Kept(v, t) /\ IsOpen(v) /\ v.stale = TRUE
    BY <2>2, <2>3, MarkedFields
  <2>5. OpenFits(v) /\ v # Idle
    <3>1. v.stale \in BOOLEAN
      BY <2>4
    <3>2. OpenFits(v)
      BY <2>3, <2>4, <3>1 DEF OpenFits, Kept
    <3> QED BY <3>2 DEF OpenFits, Idle
  <2>6. w = t \/ w = v
    BY <2>2, CommitEffect
  <2>7. Overtakes(txn[r], t) => w = v
    BY <2>2, <1>2, CommitEffect
  <2>8. Kept(t, t) /\ t # Idle
    BY <1>2, <2>2 DEF Kept
  <2>9. Kept(w, t) /\ IsOpen(w) /\ OpenFits(w) /\ w # Idle
    BY <2>3, <2>4, <2>5, <2>6, <2>8
  <2>10. w.phase = t.phase
    BY <2>9 DEF Kept
  <2>11. ~w.stale => w = t /\ ~Overtakes(txn[r], t)
    BY <2>4, <2>6, <2>7
  <2> QED BY <1>2, <2>2, <2>9, <2>10, <2>11
<1> QED BY <1>1, <1>2

LEMMA WriteFits ==
    ASSUME NEW row \in GroupRows, NEW kind, NEW fields, FieldsFit(kind, fields),
           NEW w, w = Write(row, fields)
    PROVE  /\ w \in GroupRows /\ w.there = row.there
           /\ \A c \in {"enabled", "forwards", "zone", "record"} :
                w[c] = IF c \in DOMAIN fields THEN fields[c] ELSE row[c]
<1>1. DOMAIN row = {"there", "enabled", "forwards", "zone", "record"}
  BY DEF GroupRows
<1>2. \A c \in DOMAIN row : w[c] = IF c \in DOMAIN fields THEN fields[c] ELSE row[c]
  BY <1>1 DEF Write
<1>3. "there" \notin DOMAIN fields
  BY DEF FieldsFit, Columns
<1>4. w = [there |-> w.there, enabled |-> w.enabled, forwards |-> w.forwards,
           zone |-> w.zone, record |-> w.record]
  BY <1>1 DEF Write
<1>5. /\ w.there = row.there
      /\ \A c \in {"enabled", "forwards", "zone", "record"} :
           w[c] = IF c \in DOMAIN fields THEN fields[c] ELSE row[c]
  BY <1>1, <1>2, <1>3
<1>6. /\ row.there \in BOOLEAN /\ row.enabled \in BOOLEAN /\ row.forwards \in BOOLEAN
      /\ row.zone \in Presence /\ row.record \in Presence
  BY DEF GroupRows
<1>7. /\ w.enabled \in BOOLEAN /\ w.forwards \in BOOLEAN
      /\ w.zone \in Presence /\ w.record \in Presence
  BY <1>5, <1>6 DEF FieldsFit
<1>8. w.there \in BOOLEAN
  BY <1>5, <1>6, Zenon
<1>9. w \in GroupRows
  BY <1>4, <1>7, <1>8 DEF GroupRows
<1> QED BY <1>5, <1>9

(* How a commit changes the rows of the groups.                            *)
LEMMA CommittedGroups ==
    ASSUME ShapeInv, NEW r \in Requests, Commit(r)
    PROVE  LET t == txn[r] IN
           /\ IsOpen(t) /\ OpenFits(t)
           /\ group' \in [Groups -> GroupRows]
           /\ \A g \in Groups \ {t.group} : group'[g] = group[g]
           /\ t.kind \in Content => /\ t.group \in Groups
                                    /\ group'[t.group] = Write(group[t.group], t.fields)
                                    /\ group'[t.group].there = group[t.group].there
           /\ t.kind = "drop_group" => t.group \in Groups /\ group'[t.group] = Absent
           /\ t.kind = "assign" => group' = group
           /\ t.kind \in Content \/ t.kind \in {"drop_group", "assign"}
<1>1. PICK t : t = txn[r]
  OBVIOUS
<1>2. IsOpen(t) /\ OpenFits(t)
  BY <1>1, CommitEffect, Open
<1>3. /\ t.kind # "assign" => t.group \in Groups
      /\ t.kind \in Content \/ t.kind \in {"drop_group", "assign"}
      /\ FieldsFit(t.kind, t.fields)
  BY <1>2 DEF OpenFits, Proper, Kinds, Content
<1>4. group' = IF t.kind \in Content
               THEN [group EXCEPT ![t.group] = Write(@, t.fields)]
               ELSE IF t.kind = "drop_group"
               THEN [group EXCEPT ![t.group] = Absent] ELSE group
  BY <1>1 DEF Commit
<1>5. CASE t.kind \in Content
  <2>1. PICK g, x, w : g = t.group /\ x = group[g] /\ w = Write(x, t.fields)
    OBVIOUS
  <2>2. g \in Groups /\ x \in GroupRows
    BY <1>3, <1>5, <2>1 DEF Content, ShapeInv
  <2>3. w \in GroupRows /\ w.there = x.there
    BY <1>3, <2>1, <2>2, WriteFits
  <2>4. group' = [group EXCEPT ![g] = w]
    BY <1>4, <1>5, <2>1
  <2>5. group' \in [Groups -> GroupRows] /\ group'[g] = w
        /\ \A h \in Groups \ {g} : group'[h] = group[h]
    BY <2>2, <2>3, <2>4 DEF ShapeInv
  <2>6. t.kind # "drop_group" /\ t.kind # "assign"
    BY <1>5 DEF Content
  <2> QED BY <1>1, <1>2, <1>3, <2>1, <2>2, <2>3, <2>5, <2>6
<1>6. CASE t.kind \in {"drop_group", "assign"}
  <2>1. t.kind \notin Content /\ Absent \in GroupRows
    BY <1>6 DEF Content, Absent, GroupRows, Presence
  <2>2. CASE t.kind = "drop_group"
    <3>1. PICK g, x : g = t.group /\ x = Absent
      OBVIOUS
    <3>2. group' = [group EXCEPT ![g] = x] /\ g \in Groups /\ x \in GroupRows
      BY <1>3, <1>4, <2>1, <2>2, <3>1
    <3>3. group' \in [Groups -> GroupRows] /\ group'[g] = x
          /\ \A h \in Groups \ {g} : group'[h] = group[h]
      BY <3>2 DEF ShapeInv
    <3> QED BY <1>1, <1>2, <1>3, <2>1, <2>2, <3>1, <3>2, <3>3
  <2>3. CASE t.kind = "assign"
    BY <1>1, <1>2, <1>3, <1>4, <2>1, <2>3 DEF ShapeInv
  <2> QED BY <1>6, <2>2, <2>3
<1> QED BY <1>3, <1>5, <1>6

LEMMA SectionsAreSets ==
    ASSUME NEW t, NEW n
    PROVE  LoadDnsGroup(t, n) \in DnsSections
  BY DEF LoadDnsGroup, DnsOf, NoDns, DnsSections

LEMMA ShapeStep ==
    ASSUME ShapeInv, [Next]_vars
    PROVE  ShapeInv'
<1>1. CASE UNCHANGED vars
  BY <1>1 DEF ShapeInv, IsOn, vars
<1>2. ASSUME NEW r \in Requests, NEW u, u = Idle \/ (IsOpen(u) /\ OpenFits(u)),
             Turned(r, u), UNCHANGED <<group, member, gen, served>>,
             lock' \in [Nodes -> Requests \cup {Nobody}]
      PROVE  ShapeInv'
  <2>1. IsOn(txn', Requests)
        /\ \A q \in Requests : txn'[q] = IF q = r THEN u ELSE txn[q]
    BY <1>2 DEF ShapeInv, IsOn, Turned
  <2> QED BY <1>2, <2>1 DEF ShapeInv, IsOn
<1>3. ASSUME NEW g \in Groups, CreateGroup(g)
      PROVE  ShapeInv'
  <2>1. PICK x : /\ x \in GroupRows /\ group' = [group EXCEPT ![g] = x]
                 /\ UNCHANGED <<member, gen, served, txn, lock>>
    BY <1>3 DEF CreateGroup, GroupRows, Presence
  <2> QED BY <2>1 DEF ShapeInv, IsOn
<1>4. ASSUME NEW r \in Requests, Requested(r)
      PROVE  ShapeInv'
  <2>1. PICK u : Fresh(u) /\ Turned(r, u)
    BY <1>4, RequestedEffect
  <2>2. UNCHANGED <<group, member, gen, served, lock>>
    BY <1>4, RequestedEffect
  <2> QED BY <1>2, <2>1, <2>2 DEF Fresh, ShapeInv
<1>5. ASSUME NEW r \in Requests, Flush(r)
      PROVE  ShapeInv'
  <2>0. PICK u : Turned(r, u) /\ Further(u, txn[r], "flushed", MemberIds(txn[r]), txn[r].out)
    BY <1>5, FlushEffect
  <2>1. OpenFits(txn[r])
    BY <1>5, FlushEffect, Open
  <2>2. MemberIds(txn[r]) \subseteq Nodes
    BY <2>1 DEF MemberIds, NodesOf, OpenFits, Proper
  <2>3. IsOpen(u) /\ OpenFits(u)
    BY <2>0, <2>1, <2>2 DEF Further, OpenFits
  <2>4. lock' \in [Nodes -> Requests \cup {Nobody}]
    BY <1>5 DEF Flush, ShapeInv
  <2> QED BY <1>2, <1>5, <2>0, <2>3, <2>4 DEF Flush
<1>6. ASSUME NEW r \in Requests, NEW n \in Nodes, Materialize(r, n)
      PROVE  ShapeInv'
  <2>0. PICK u : Assembled(r, n, u)
    BY <1>6, MaterializeEffect
  <2>1. OpenFits(txn[r]) /\ txn[r].phase = "flushed"
    BY <1>6, MaterializeEffect, Open
  <2>2. \A m \in DOMAIN u.out : m \in Nodes /\ u.out[m] \in DnsSections
    BY <2>0, <2>1, SectionsAreSets DEF Assembled, OpenFits
  <2>3. IsOpen(u) /\ OpenFits(u)
    BY <2>0, <2>1, <2>2 DEF Assembled, Further, OpenFits
  <2>4. lock' \in [Nodes -> Requests \cup {Nobody}]
    BY <1>6 DEF Materialize, ShapeInv
  <2> QED BY <1>2, <1>6, <2>0, <2>3, <2>4 DEF Materialize, Assembled
<1>a. ASSUME NEW r \in Requests, lock' = Unlocked(r)
      PROVE  lock' \in [Nodes -> Requests \cup {Nobody}]
  BY <1>a DEF Unlocked, ShapeInv
<1>7. ASSUME NEW r \in Requests, Aborts(r)
      PROVE  ShapeInv'
  BY <1>2, <1>7, <1>a DEF Aborts, Abort, Turned
<1>8. ASSUME NEW r \in Requests, Commit(r)
      PROVE  ShapeInv'
  <2>1. lock' \in [Nodes -> Requests \cup {Nobody}]
    BY <1>8, <1>a DEF Commit
  <2>2. group' \in [Groups -> GroupRows]
    BY <1>8, CommittedGroups
  <2>3. PICK t : t = txn[r]
    OBVIOUS
  <2>4. OpenFits(t)
    BY <1>8, <2>3, CommitEffect, Open
  <2>5. served' \in [Nodes -> DnsSections] /\ gen' \in [Nodes -> Nat \ {0}]
    BY <1>8, <2>3, <2>4 DEF Commit, ShapeInv, OpenFits
  <2>6. member' \in [Nodes -> Groups \cup {NoGroup}]
    <3>1. \A n \in Nodes : GroupSeen(t, n) \in Groups \cup {NoGroup}
      BY <2>4 DEF GroupSeen, ShapeInv, OpenFits, Proper
    <3> QED BY <1>8, <2>3, <3>1 DEF Commit, ShapeInv
  <2>7. IsOn(txn', Requests)
        /\ \A q \in Requests : txn'[q] = Idle \/ (IsOpen(txn'[q]) /\ OpenFits(txn'[q]))
    BY <1>8, CommitEffect, CommitOthers
  <2> QED BY <2>1, <2>2, <2>5, <2>6, <2>7 DEF ShapeInv
<1> QED
  BY <1>1, <1>3, <1>4, <1>5, <1>6, <1>7, <1>8, NextCases


(***************************************************************************)
(* Locks.                                                                  *)
(***************************************************************************)
LEMMA TurnedPhases ==
    ASSUME ShapeInv, NEW r \in Requests, NEW u, Turned(r, u)
    PROVE  /\ txn'[r] = u /\ \A q \in Requests \ {r} : txn'[q] = txn[q]
           /\ \A q \in Requests \ {r} : q \in Flushed' <=> q \in Flushed
           /\ r \in Flushed' <=> u.phase = "flushed"
  BY DEF ShapeInv, IsOn, Turned, Flushed

LEMMA CommitPhases ==
    ASSUME ShapeInv, NEW r \in Requests, Commit(r)
    PROVE  r \in Flushed /\ Flushed' = Flushed \ {r}
<1>1. txn[r].phase = "flushed" /\ txn'[r].phase = "idle"
  BY CommitEffect DEF Idle
<1>2. \A q \in Requests \ {r} : txn'[q].phase = txn[q].phase
  BY CommitOthers
<1> QED BY <1>1, <1>2 DEF Flushed

(* What a commit does to the memberships, which its locks cover.           *)
LEMMA CommittedMembers ==
    ASSUME ShapeInv, LockInv, NEW r \in Requests, Commit(r)
    PROVE  LET t == txn[r] IN
           \A n \in Nodes :
             /\ n \in Rewrites(t) => n \in DOMAIN t.out /\ lock[n] = r
             /\ n \in DOMAIN t.out => lock[n] = r
             /\ n \in DOMAIN t.out => member'[n] = GroupSeen(t, n)
             /\ n \notin DOMAIN t.out => member'[n] = member[n]
             /\ lock[n] # r => member'[n] = member[n]
<1>1. PICK t : t = txn[r]
  OBVIOUS
<1>2. r \in Flushed /\ t.todo = {} /\ OpenFits(t)
  BY <1>1, CommitEffect, Open DEF Flushed
<1>3. Holds(r)
  BY <1>2 DEF LockInv
<1>4. \A n \in DOMAIN t.out : lock[n] = r
  BY <1>1, <1>3 DEF Holds
<1>5. t.kind = "assign" => t.node \in DOMAIN t.out
  BY <1>1, <1>2, <1>3 DEF Holds
<1>6. t.kind = "drop_group" => \A n \in NodesOf(t.group) : n \in DOMAIN t.out
  BY <1>1, <1>2, <1>3 DEF Holds
<1>7. \A n \in Rewrites(t) : n \in DOMAIN t.out
  BY <1>5, <1>6 DEF Rewrites
<1>8. \A n \in Nodes : member'[n] = IF n \in Rewrites(t) THEN GroupSeen(t, n) ELSE member[n]
  BY <1>1 DEF Commit
<1>9. ASSUME NEW n \in DOMAIN t.out, n \notin Rewrites(t)
      PROVE  GroupSeen(t, n) = member[n]
  <2>1. t.kind = "assign" => n = t.node
    BY <1>1, <1>2, <1>3, <1>9 DEF Holds
  <2>2. t.kind # "assign"
    BY <1>9, <2>1 DEF Rewrites
  <2>3. n \in Nodes
    BY <1>2, <1>9 DEF OpenFits
  <2>4. ~(t.kind = "drop_group" /\ member[n] = t.group)
    BY <1>9, <2>3 DEF Rewrites, NodesOf
  <2> QED BY <2>2, <2>4 DEF GroupSeen
<1> QED BY <1>1, <1>4, <1>7, <1>8, <1>9

LEMMA LockStep ==
    ASSUME ShapeInv, LockInv, GroupInv, [Next]_vars
    PROVE  LockInv'
<1>0. Nobody \notin Requests /\ Flushed \subseteq Requests
  BY NamesAssumption, Zenon DEF Nobody, Flushed
<1>1. ASSUME UNCHANGED <<member, txn, lock>>
      PROVE  LockInv'
  BY <1>1 DEF LockInv, Holds, NodesOf, Flushed
<1>2. CASE UNCHANGED vars
  BY <1>1, <1>2 DEF vars
<1>3. ASSUME NEW g \in Groups, CreateGroup(g)
      PROVE  LockInv'
  BY <1>1, <1>3 DEF CreateGroup
<1>4. ASSUME NEW r \in Requests, Requested(r)
      PROVE  LockInv'
  <2>1. PICK u : Fresh(u) /\ Turned(r, u)
    BY <1>4, RequestedEffect
  <2>2. UNCHANGED <<member, lock>> /\ txn[r] = Idle
    BY <1>4, RequestedEffect
  <2>3. r \notin Flushed /\ r \notin Flushed'
    BY <2>1, <2>2, TurnedPhases DEF Fresh, Flushed, Idle
  <2>4. Flushed' = Flushed /\ \A q \in Flushed : txn'[q] = txn[q]
    BY <1>0, <2>1, <2>3, TurnedPhases DEF Flushed
  <2> QED BY <2>2, <2>4 DEF LockInv, Holds, NodesOf
<1>5. ASSUME NEW r \in Requests, Flush(r)
      PROVE  LockInv'
  <2>0. PICK u : Turned(r, u) /\ Further(u, txn[r], "flushed", MemberIds(txn[r]), txn[r].out)
    BY <1>5, FlushEffect
  <2>1. PICK t : t = txn[r]
    OBVIOUS
  <2>2. OpenFits(t) /\ t.phase = "loaded"
    BY <1>5, <2>1, FlushEffect, Open
  <2>3. /\ \A n \in Nodes : lock'[n] = IF n \in Rewrites(t) THEN r ELSE lock[n]
        /\ \A n \in Rewrites(t) : lock[n] = Nobody
        /\ member' = member
    BY <1>5, <2>1 DEF Flush, MayFlush
  <2>4. /\ txn'[r] = u /\ \A q \in Requests \ {r} : txn'[q] = txn[q]
        /\ Flushed' = Flushed \cup {r} /\ r \notin Flushed
    BY <2>0, <2>1, <2>2, TurnedPhases DEF Flushed, Further
  <2>5. \A n \in Nodes : lock[n] # Nobody => lock'[n] = lock[n]
    BY <2>3
  <2>6. \A n \in Nodes : lock'[n] \in Flushed' \cup {Nobody}
    BY <2>3, <2>4 DEF LockInv
  <2>7. ASSUME NEW q \in Flushed PROVE Holds(q)'
    <3>1. txn'[q] = txn[q] /\ Holds(q) /\ q # Nobody /\ OpenFits(txn[q])
      BY <1>0, <2>4, Open DEF LockInv, Flushed, Idle
    <3> QED BY <2>3, <2>5, <3>1 DEF Holds, NodesOf, OpenFits, Proper
  <2>8. Holds(r)'
    <3>1. /\ u.kind = t.kind /\ u.group = t.group /\ u.node = t.node
          /\ u.todo = MemberIds(t) /\ DOMAIN u.out = {}
      BY <2>0, <2>1, <2>2 DEF Further, OpenFits
    <3>2. t.kind = "assign" => t.node \in Nodes /\ Rewrites(t) = {t.node} /\ MemberIds(t) = {t.node}
      BY <2>2 DEF OpenFits, Proper, Rewrites, MemberIds
    <3>3. t.kind = "drop_group" => /\ Rewrites(t) = NodesOf(t.group)
                                   /\ MemberIds(t) = NodesOf(t.group)
      BY <2>2 DEF OpenFits, Proper, Rewrites, MemberIds
    <3>4. NodesOf(t.group)' = NodesOf(t.group) /\ NodesOf(t.group) \subseteq Nodes
      BY <2>3 DEF NodesOf
    <3>5. \A n \in NodesOf(u.group)' : n \in NodesOf(t.group)
      BY <2>3, <3>1 DEF NodesOf
    <3> QED BY <2>3, <2>4, <3>1, <3>2, <3>3, <3>4, <3>5 DEF Holds
  <2> QED BY <2>4, <2>6, <2>7, <2>8 DEF LockInv
<1>6. ASSUME NEW r \in Requests, NEW n \in Nodes, Materialize(r, n)
      PROVE  LockInv'
  <2>0. PICK u : Assembled(r, n, u)
    BY <1>6, MaterializeEffect
  <2>1. OpenFits(txn[r]) /\ r \in Flushed
    BY <1>6, MaterializeEffect, Open DEF Flushed
  <2>2. /\ \A m \in Nodes : lock'[m] = IF m = n THEN r ELSE lock[m]
        /\ lock[n] \in {Nobody, r}
        /\ member' = member
    BY <1>6 DEF Materialize, MayMaterialize, ShapeInv
  <2>3. /\ txn'[r] = u /\ \A q \in Requests \ {r} : txn'[q] = txn[q]
        /\ Flushed' = Flushed
    <3>1. Turned(r, u) /\ u.phase = "flushed"
      BY <2>0 DEF Assembled, Further
    <3> QED BY <2>1, <3>1, TurnedPhases DEF Flushed
  <2>4. \A m \in Nodes : lock[m] # Nobody => lock'[m] = lock[m]
    BY <2>2
  <2>5. \A m \in Nodes : lock'[m] \in Flushed' \cup {Nobody}
    BY <2>1, <2>2, <2>3 DEF LockInv
  <2>6. ASSUME NEW q \in Flushed \ {r} PROVE Holds(q)'
    <3>1. txn'[q] = txn[q] /\ Holds(q) /\ q # Nobody /\ OpenFits(txn[q])
      BY <1>0, <2>3, Open DEF LockInv, Flushed, Idle
    <3> QED BY <2>2, <2>4, <3>1 DEF Holds, NodesOf, OpenFits, Proper
  <2>7. Holds(r)'
    <3>1. PICK t : t = txn[r]
      OBVIOUS
    <3>2. /\ u.kind = t.kind /\ u.group = t.group /\ u.node = t.node
          /\ u.todo = t.todo \ {n} /\ DOMAIN u.out = DOMAIN t.out \cup {n} /\ n \in t.todo
          /\ OpenFits(t)
      BY <1>6, <2>0, <2>1, <3>1, MaterializeEffect DEF Assembled, Further
    <3>3. /\ \A m \in DOMAIN t.out : lock[m] = r
          /\ t.kind = "assign" => lock[t.node] = r /\ t.todo \cup DOMAIN t.out = {t.node}
          /\ t.kind = "drop_group" => \A m \in NodesOf(t.group) :
                lock[m] = r /\ m \in t.todo \cup DOMAIN t.out
      BY <2>1, <3>1 DEF LockInv, Holds
    <3>4. \A m \in NodesOf(u.group)' : m \in NodesOf(t.group)
      BY <2>2, <3>2 DEF NodesOf
    <3>5. \A m \in Nodes : lock[m] = r => lock'[m] = r
      BY <2>2
    <3>6. \A m \in DOMAIN u.out : lock'[m] = r
      BY <2>2, <3>2, <3>3, <3>5 DEF OpenFits
    <3>7. u.kind = "assign" => lock'[u.node] = r /\ u.todo \cup DOMAIN u.out = {u.node}
      BY <3>2, <3>3, <3>5 DEF OpenFits, Proper
    <3>8. u.kind = "drop_group" => \A m \in NodesOf(u.group)' :
                lock'[m] = r /\ m \in u.todo \cup DOMAIN u.out
      BY <3>2, <3>3, <3>4, <3>5 DEF NodesOf
    <3> QED BY <2>3, <3>6, <3>7, <3>8 DEF Holds
  <2> QED BY <2>1, <2>3, <2>5, <2>6, <2>7 DEF LockInv
<1>a. ASSUME NEW r \in Requests, lock' = Unlocked(r), Flushed' = Flushed \ {r}
      PROVE  /\ \A n \in Nodes : lock'[n] \in Flushed' \cup {Nobody}
             /\ \A n \in Nodes : lock[n] # r => lock'[n] = lock[n]
  BY <1>a DEF Unlocked, LockInv, ShapeInv
<1>7. ASSUME NEW r \in Requests, Aborts(r)
      PROVE  LockInv'
  <2>1. Turned(r, Idle) /\ lock' = Unlocked(r) /\ member' = member /\ Idle.phase # "flushed"
    BY <1>7 DEF Aborts, Abort, Turned, Idle
  <2>2. Flushed' = Flushed \ {r} /\ \A q \in Requests \ {r} : txn'[q] = txn[q]
    BY <2>1, TurnedPhases DEF Flushed
  <2>3. ASSUME NEW q \in Flushed \ {r} PROVE Holds(q)'
    <3>1. txn'[q] = txn[q] /\ Holds(q) /\ q # Nobody /\ OpenFits(txn[q])
      BY <1>0, <2>2, Open DEF LockInv, Flushed, Idle
    <3> QED BY <1>a, <2>1, <2>2, <3>1 DEF Holds, NodesOf, OpenFits, Proper
  <2> QED BY <1>a, <2>1, <2>2, <2>3 DEF LockInv
<1>8. ASSUME NEW r \in Requests, Commit(r)
      PROVE  LockInv'
  <2>1. lock' = Unlocked(r) /\ Flushed' = Flushed \ {r} /\ r \in Flushed
    BY <1>8, CommitPhases DEF Commit
  <2>2. ASSUME NEW q \in Flushed \ {r} PROVE Holds(q)'
    <3>1. PICK t, v : t = txn[q] /\ v = txn'[q]
      OBVIOUS
    <3>2. OpenFits(t) /\ Kept(v, t) /\ q \in Requests
      BY <1>0, <1>8, <3>1, Open, CommitOthers DEF Flushed, Idle
    <3>3. /\ \A m \in DOMAIN t.out : lock[m] = q
          /\ t.kind = "assign" => lock[t.node] = q /\ t.todo \cup DOMAIN t.out = {t.node}
          /\ t.kind = "drop_group" => \A m \in NodesOf(t.group) :
                lock[m] = q /\ m \in t.todo \cup DOMAIN t.out
      BY <3>1 DEF LockInv, Holds
    <3>4. \A m \in Nodes : lock[m] = q => lock'[m] = q
      BY <1>a, <2>1
    <3>5. t.kind = "drop_group" => \A m \in NodesOf(t.group)' : m \in NodesOf(t.group)
      <4> SUFFICES ASSUME t.kind = "drop_group", NEW m \in Nodes, member'[m] = t.group
                   PROVE  member[m] = t.group
        BY DEF NodesOf
      <4>1. PICK c : c = txn[r]
        OBVIOUS
      <4>2. c.group # t.group
        BY <2>1, <3>1, <4>1 DEF GroupInv
      <4>3. member'[m] = member[m] \/ member'[m] = GroupSeen(c, m)
        BY <1>8, <4>1, CommittedMembers
      <4>4. GroupSeen(c, m) \in {c.group, NoGroup, member[m]}
        BY DEF GroupSeen
      <4>5. t.group # NoGroup
        BY <3>2, NamesAssumption, Zenon DEF OpenFits, Proper, NoGroup
      <4> QED BY <4>2, <4>3, <4>4, <4>5
    <3>6. v.kind = "drop_group" => \A m \in NodesOf(v.group)' :
                lock'[m] = q /\ m \in v.todo \cup DOMAIN v.out
      BY <3>2, <3>3, <3>4, <3>5 DEF Kept, NodesOf
    <3>7. v.kind = "assign" => lock'[v.node] = q /\ v.todo \cup DOMAIN v.out = {v.node}
      BY <3>2, <3>3, <3>4 DEF Kept, OpenFits, Proper
    <3>8. \A m \in DOMAIN v.out : lock'[m] = q
      BY <3>2, <3>3, <3>4 DEF Kept, OpenFits
    <3> QED BY <3>1, <3>6, <3>7, <3>8 DEF Holds
  <2> QED BY <1>a, <2>1, <2>2 DEF LockInv
<1> QED
  BY <1>2, <1>3, <1>4, <1>5, <1>6, <1>7, <1>8, NextCases


(***************************************************************************)
(* Groups that are there.                                                  *)
(***************************************************************************)
LEMMA GroupStep ==
    ASSUME ShapeInv, LockInv, GroupInv, [Next]_vars
    PROVE  GroupInv'
<1>0. NoGroup \notin Groups /\ Flushed \subseteq Requests
  BY NamesAssumption, Zenon DEF NoGroup, Flushed
<1>1. ASSUME UNCHANGED <<group, member>>, Flushed' \subseteq Flushed,
             \A q \in Flushed' : txn'[q] = txn[q]
      PROVE  GroupInv'
  BY <1>1 DEF GroupInv
<1>2. CASE UNCHANGED vars
  BY <1>1, <1>2 DEF vars, Flushed
<1>3. ASSUME NEW g \in Groups, CreateGroup(g)
      PROVE  GroupInv'
  <2>1. PICK x : x.there = TRUE /\ group' = [group EXCEPT ![g] = x]
    BY <1>3 DEF CreateGroup
  <2>2. \A h \in Groups : group[h].there => group'[h].there
    BY <2>1 DEF ShapeInv
  <2>3. UNCHANGED <<member, txn>> /\ Flushed' = Flushed
    BY <1>3 DEF CreateGroup, Flushed
  <2> QED BY <2>2, <2>3 DEF GroupInv
<1>4. ASSUME NEW r \in Requests, Requested(r)
      PROVE  GroupInv'
  <2>1. PICK u : Fresh(u) /\ Turned(r, u)
    BY <1>4, RequestedEffect
  <2>2. UNCHANGED <<group, member>>
    BY <1>4, RequestedEffect
  <2>3. Flushed' \subseteq Flushed /\ \A q \in Flushed' : txn'[q] = txn[q]
    BY <2>1, TurnedPhases DEF Fresh, Flushed
  <2> QED BY <1>1, <2>2, <2>3
<1>5. ASSUME NEW r \in Requests, Flush(r)
      PROVE  GroupInv'
  <2>0. PICK u : Turned(r, u) /\ Further(u, txn[r], "flushed", MemberIds(txn[r]), txn[r].out)
    BY <1>5, FlushEffect
  <2>1. UNCHANGED <<group, member>> /\ ~Refused(txn[r])
        /\ \A q \in Flushed : ~Excludes(txn[r], txn[q])
    BY <1>5 DEF Flush, MayFlush
  <2>2. u.group = txn[r].group /\ u.kind = txn[r].kind
    BY <2>0 DEF Further
  <2>3. /\ txn'[r] = u /\ \A q \in Requests \ {r} : txn'[q] = txn[q]
        /\ Flushed' = Flushed \cup {r}
    BY <2>0, TurnedPhases DEF Flushed, Further
  <2>4. u.group \in Groups => group[u.group].there
    BY <2>1, <2>2 DEF Refused
  <2>5. \A q \in Flushed : u.group = txn[q].group
           => u.kind # "drop_group" /\ txn[q].kind # "drop_group"
    BY <2>1, <2>2 DEF Excludes
  <2>6. \A q, p \in Flushed' :
          q # p /\ txn'[q].group = txn'[p].group => txn'[q].kind # "drop_group"
    BY <1>0, <2>3, <2>5 DEF GroupInv
  <2>7. \A q \in Flushed' : txn'[q].group \in Groups => group'[txn'[q].group].there
    BY <1>0, <2>1, <2>3, <2>4 DEF GroupInv
  <2> QED BY <2>1, <2>6, <2>7 DEF GroupInv
<1>6. ASSUME NEW r \in Requests, NEW n \in Nodes, Materialize(r, n)
      PROVE  GroupInv'
  <2>0. PICK u : Assembled(r, n, u)
    BY <1>6, MaterializeEffect
  <2>1. Turned(r, u) /\ u.phase = "flushed" /\ u.group = txn[r].group /\ u.kind = txn[r].kind
    BY <2>0 DEF Assembled, Further
  <2>2. r \in Flushed /\ UNCHANGED <<group, member>>
    BY <1>6, MaterializeEffect DEF Flushed, Materialize
  <2>3. Flushed' = Flushed
        /\ \A q \in Flushed : txn'[q].group = txn[q].group /\ txn'[q].kind = txn[q].kind
    BY <2>1, <2>2, TurnedPhases DEF Flushed
  <2> QED BY <2>2, <2>3 DEF GroupInv
<1>7. ASSUME NEW r \in Requests, Aborts(r)
      PROVE  GroupInv'
  <2>1. Turned(r, Idle) /\ UNCHANGED <<group, member>> /\ Idle.phase # "flushed"
    BY <1>7 DEF Aborts, Abort, Turned, Idle
  <2>2. Flushed' \subseteq Flushed /\ \A q \in Flushed' : txn'[q] = txn[q]
    BY <2>1, TurnedPhases DEF Flushed
  <2> QED BY <1>1, <2>1, <2>2
<1>8. ASSUME NEW r \in Requests, Commit(r)
      PROVE  GroupInv'
  <2>1. Flushed' = Flushed \ {r} /\ r \in Flushed
    BY <1>8, CommitPhases
  <2>2. \A q \in Flushed \ {r} : txn'[q].group = txn[q].group /\ txn'[q].kind = txn[q].kind
    BY <1>0, <1>8, CommitOthers DEF Kept, Flushed, Idle
  <2>3. PICK t : t = txn[r]
    OBVIOUS
  <2>4. /\ OpenFits(t) /\ \A g \in Groups \ {t.group} : group'[g] = group[g]
        /\ t.kind \in Content => t.group \in Groups /\ group'[t.group].there = group[t.group].there
        /\ t.kind = "drop_group" => t.group \in Groups /\ group'[t.group] = Absent
        /\ t.kind = "assign" => group' = group
        /\ t.kind \in Content \/ t.kind \in {"drop_group", "assign"}
    BY <1>8, <2>3, CommittedGroups
  <2>5. ASSUME NEW g \in Groups, group[g].there, t.kind = "drop_group" => g # t.group
        PROVE  group'[g].there
    BY <2>4, <2>5
  <2>6. \A q \in Flushed' : txn'[q].group \in Groups => group'[txn'[q].group].there
    BY <2>1, <2>2, <2>3, <2>5 DEF GroupInv
  <2>7. ASSUME NEW n \in Nodes, member'[n] \in Groups
        PROVE  group'[member'[n]].there
    <3>1. Holds(r) /\ t.todo = {}
      BY <1>8, <2>1, <2>3, CommitEffect DEF LockInv
    <3>2. CASE n \in DOMAIN t.out
      <4>1. member'[n] = GroupSeen(t, n)
        BY <1>8, <2>3, <3>2, CommittedMembers
      <4>2. CASE t.kind = "assign"
        <5>1. member'[n] = t.group
          BY <4>1, <4>2 DEF GroupSeen
        <5>2. group[t.group].there
          BY <2>1, <2>3, <2>7, <5>1 DEF GroupInv
        <5> QED BY <2>4, <4>2, <5>1, <5>2
      <4>3. CASE t.kind = "drop_group"
        <5>1. member'[n] = member[n] /\ member[n] # t.group
          BY <1>0, <2>7, <4>1, <4>3 DEF GroupSeen
        <5> QED BY <2>5, <2>7, <5>1 DEF GroupInv
      <4>4. CASE t.kind \in Content
        <5>1. member'[n] = member[n] /\ t.kind # "drop_group"
          BY <4>1, <4>4 DEF GroupSeen, Content
        <5> QED BY <2>5, <2>7, <5>1 DEF GroupInv
      <4> QED BY <2>4, <4>2, <4>3, <4>4
    <3>3. CASE n \notin DOMAIN t.out
      <4>1. member'[n] = member[n]
        BY <1>8, <2>3, <3>3, CommittedMembers
      <4>2. t.kind = "drop_group" => member[n] # t.group
        BY <2>3, <3>1, <3>3 DEF Holds, NodesOf
      <4> QED BY <2>5, <2>7, <4>1, <4>2 DEF GroupInv
    <3> QED BY <3>2, <3>3
  <2>8. \A q, p \in Flushed' :
          q # p /\ txn'[q].group = txn'[p].group => txn'[q].kind # "drop_group"
    BY <2>1, <2>2 DEF GroupInv
  <2> QED BY <2>6, <2>7, <2>8 DEF GroupInv
<1> QED
  BY <1>2, <1>3, <1>4, <1>5, <1>6, <1>7, <1>8, NextCases

(***************************************************************************)
(* What the sessions hold.                                                 *)
(***************************************************************************)
LEMMA HeldStep ==
    ASSUME ShapeInv, HeldInv, [Next]_vars
    PROVE  HeldInv'
<1>1. ASSUME UNCHANGED group, NEW r \in Requests, NEW u, Turned(r, u),
             \/ u = Idle
             \/ Fresh(u)
             \/ /\ txn[r] # Idle /\ u.stale = txn[r].stale
                /\ u.via = txn[r].via /\ u.held = txn[r].held
      PROVE  HeldInv'
  <2>1. txn'[r] = u /\ \A q \in Requests \ {r} : txn'[q] = txn[q]
    BY <1>1, TurnedPhases
  <2>2. CASE u = Idle
    BY <1>1, <2>1, <2>2 DEF HeldInv
  <2>3. CASE Fresh(u)
    BY <1>1, <2>1, <2>3 DEF HeldInv, Fresh
  <2>4. CASE /\ txn[r] # Idle /\ u.stale = txn[r].stale
             /\ u.via = txn[r].via /\ u.held = txn[r].held
    BY <1>1, <2>1, <2>4 DEF HeldInv
  <2> QED BY <1>1, <2>2, <2>3, <2>4
<1>2. CASE UNCHANGED vars
  BY <1>2 DEF HeldInv, vars
<1>3. ASSUME NEW g \in Groups, CreateGroup(g)
      PROVE  HeldInv'
  <2>1. \A h \in Groups \ {g} : group'[h] = group[h]
    BY <1>3 DEF CreateGroup, ShapeInv
  <2>2. txn' = txn /\ Unheld(g)
    BY <1>3 DEF CreateGroup
  <2>3. \A r \in Requests : txn[r] # Idle /\ txn[r].via = g => ~txn[r].held.there
    BY <2>2 DEF Unheld
  <2> QED BY <2>1, <2>2, <2>3 DEF HeldInv
<1>4. ASSUME NEW r \in Requests, Requested(r)
      PROVE  HeldInv'
  <2>1. PICK u : Fresh(u) /\ Turned(r, u)
    BY <1>4, RequestedEffect
  <2>2. UNCHANGED group
    BY <1>4, RequestedEffect
  <2> QED BY <1>1, <2>1, <2>2
<1>5. ASSUME NEW r \in Requests, Flush(r)
      PROVE  HeldInv'
  <2>0. PICK u : Turned(r, u) /\ Further(u, txn[r], "flushed", MemberIds(txn[r]), txn[r].out)
    BY <1>5, FlushEffect
  <2>1. UNCHANGED group /\ txn[r] # Idle
    BY <1>5, FlushEffect DEF Flush
  <2> QED BY <1>1, <2>0, <2>1 DEF Further
<1>6. ASSUME NEW r \in Requests, NEW n \in Nodes, Materialize(r, n)
      PROVE  HeldInv'
  <2>0. PICK u : Assembled(r, n, u)
    BY <1>6, MaterializeEffect
  <2>1. UNCHANGED group /\ txn[r] # Idle
    BY <1>6, MaterializeEffect DEF Materialize
  <2> QED BY <1>1, <2>0, <2>1 DEF Further, Assembled
<1>7. ASSUME NEW r \in Requests, Aborts(r)
      PROVE  HeldInv'
  BY <1>1, <1>7 DEF Aborts, Abort, Turned
<1>8. ASSUME NEW r \in Requests, Commit(r)
      PROVE  HeldInv'
  <2> SUFFICES ASSUME NEW q \in Requests, txn'[q] # Idle, ~txn'[q].stale,
                      txn'[q].via \in Groups, txn'[q].held.there, group'[txn'[q].via].there
               PROVE  /\ txn'[q].held.enabled = group'[txn'[q].via].enabled
                      /\ txn'[q].held.forwards = group'[txn'[q].via].forwards
    BY DEF HeldInv
  <2>1. q # r
    BY <1>8, CommitEffect
  <2>2. txn'[q] = txn[q] /\ ~Overtakes(txn[r], txn[q])
    BY <1>8, <2>1, CommitOthers
  <2>3. PICK t, v : t = txn[r] /\ v = txn[q].via
    OBVIOUS
  <2>4. /\ OpenFits(t) /\ \A g \in Groups \ {t.group} : group'[g] = group[g]
        /\ t.kind \in Content => /\ t.group \in Groups
                                 /\ group'[t.group] = Write(group[t.group], t.fields)
                                 /\ group'[t.group].there = group[t.group].there
        /\ t.kind = "drop_group" => t.group \in Groups /\ group'[t.group] = Absent
        /\ t.kind = "assign" => group' = group
        /\ t.kind \in Content \/ t.kind \in {"drop_group", "assign"}
    BY <1>8, <2>3, CommittedGroups
  <2>5. ~(t.kind = "group" /\ v = t.group)
    BY <2>2, <2>3 DEF Overtakes
  <2>6. CASE v # t.group \/ t.kind = "assign"
    BY <2>2, <2>3, <2>4, <2>6 DEF HeldInv
  <2>7. CASE v = t.group /\ t.kind \in {"zone", "record"}
    <3>1. PICK x, w : x = group[v] /\ w = group'[v]
      OBVIOUS
    <3>2. x \in GroupRows /\ w = Write(x, t.fields) /\ FieldsFit(t.kind, t.fields)
      BY <2>4, <2>7, <3>1 DEF ShapeInv, Content, OpenFits, Proper
    <3>3. "enabled" \notin DOMAIN t.fields /\ "forwards" \notin DOMAIN t.fields
      BY <2>7, <3>2 DEF FieldsFit, Columns
    <3>4. /\ w.there = x.there
          /\ \A c \in {"enabled", "forwards", "zone", "record"} :
                w[c] = IF c \in DOMAIN t.fields THEN t.fields[c] ELSE x[c]
      BY <3>2, WriteFits
    <3>5. w.enabled = x.enabled /\ w.forwards = x.forwards
      BY <3>3, <3>4
    <3>6. txn[q] # Idle /\ ~txn[q].stale /\ v \in Groups /\ txn[q].held.there /\ group[v].there
      BY <2>2, <2>3, <3>1, <3>4
    <3>7. txn[q].held.enabled = x.enabled /\ txn[q].held.forwards = x.forwards
      BY <2>3, <3>1, <3>6 DEF HeldInv
    <3> QED BY <2>2, <2>3, <3>1, <3>5, <3>7
  <2>8. CASE v = t.group /\ t.kind = "drop_group"
    BY <2>2, <2>3, <2>4, <2>8 DEF Absent
  <2> QED BY <2>4, <2>5, <2>6, <2>7, <2>8 DEF Content
<1> QED
  BY <1>2, <1>3, <1>4, <1>5, <1>6, <1>7, <1>8, NextCases


(***************************************************************************)
(* What is assembled.                                                      *)
(***************************************************************************)
(* What a request writes of group g.                                       *)
Written(t, g) == IF t.group = g THEN t.fields ELSE << >>

LEMMA WrittenFits ==
    ASSUME NEW t, OpenFits(t), NEW g
    PROVE  FieldsFit(t.kind, Written(t, g))
  BY EmptyFields DEF OpenFits, Proper, Written, FieldsFit

LEMMA KeepColumns ==
    ASSUME NEW row \in GroupRows, NEW e, NEW f, e = row.enabled, f = row.forwards
    PROVE  [row EXCEPT !.enabled = e, !.forwards = f] = row
<1>1. row = [there |-> row.there, enabled |-> row.enabled, forwards |-> row.forwards,
             zone |-> row.zone, record |-> row.record]
  BY DEF GroupRows
<1>2. [row EXCEPT !.enabled = e] = row
  BY <1>1
<1>3. [row EXCEPT !.forwards = f] = row
  BY <1>1
<1>4. [row EXCEPT !.enabled = e, !.forwards = f] = [[row EXCEPT !.enabled = e] EXCEPT !.forwards = f]
  BY <1>1
<1> QED BY <1>2, <1>3, <1>4

(* A session that was not overtaken sees the committed rows with its own   *)
(* writes.                                                                 *)
LEMMA SeenIsCurrent ==
    ASSUME ShapeInv, HeldInv, NEW r \in Requests, txn[r] # Idle, ~txn[r].stale,
           NEW g \in Groups, group[g].there
    PROVE  RowSeen(txn[r], g) = Write(group[g], Written(txn[r], g))
<1>1. PICK t, x : t = txn[r] /\ x = group[g]
  OBVIOUS
<1>2. OpenFits(t) /\ x \in GroupRows /\ t.held \in GroupRows
  BY <1>1, Open DEF ShapeInv, OpenFits
<1>3. PICK F : F = Written(t, g)
  OBVIOUS
<1>4. FieldsFit(t.kind, F)
  BY <1>2, <1>3, WrittenFits
<1>5. PICK w, h : w = Write(x, F) /\ h = Write(t.held, F)
  OBVIOUS
<1>6. /\ w \in GroupRows
      /\ \A c \in {"enabled", "forwards", "zone", "record"} :
           w[c] = IF c \in DOMAIN F THEN F[c] ELSE x[c]
  BY <1>2, <1>4, <1>5, WriteFits
<1>7. \A c \in {"enabled", "forwards", "zone", "record"} :
           h[c] = IF c \in DOMAIN F THEN F[c] ELSE t.held[c]
  <2>1. PICK y : y = t.held
    OBVIOUS
  <2>2. y \in GroupRows /\ h = Write(y, F)
    BY <1>2, <1>5, <2>1
  <2>3. \A c \in {"enabled", "forwards", "zone", "record"} :
           h[c] = IF c \in DOMAIN F THEN F[c] ELSE y[c]
    BY <1>4, <2>2, WriteFits
  <2> QED BY <2>1, <2>3
<1>8. RowSeen(t, g) = IF g = t.via /\ t.held.there
                      THEN [w EXCEPT !.enabled = h.enabled, !.forwards = h.forwards] ELSE w
  BY <1>1, <1>3, <1>5 DEF RowSeen, Written
<1>9. CASE g = t.via /\ t.held.there
  <2>1. t.held.enabled = x.enabled /\ t.held.forwards = x.forwards
    BY <1>1, <1>9 DEF HeldInv
  <2>2. PICK e, f : e = h.enabled /\ f = h.forwards
    OBVIOUS
  <2>3. e = w.enabled /\ f = w.forwards
    BY <1>6, <1>7, <2>1, <2>2
  <2>4. [w EXCEPT !.enabled = e, !.forwards = f] = w
    BY <1>6, <2>3, KeepColumns, Zenon
  <2> QED BY <1>1, <1>3, <1>5, <1>8, <1>9, <2>2, <2>4
<1>10. CASE ~(g = t.via /\ t.held.there)
  BY <1>1, <1>3, <1>5, <1>8, <1>10
<1> QED BY <1>9, <1>10

(* What is assembled depends on the write and on the rows of the node's    *)
(* group only.                                                             *)
LEMMA LoadOfWork ==
    ASSUME NEW t, NEW u, NEW n, u.kind = t.kind, u.group = t.group, u.via = t.via,
           u.fields = t.fields, u.held = t.held
    PROVE  LoadDnsGroup(u, n) = LoadDnsGroup(t, n)
<1>1. GroupSeen(u, n) = GroupSeen(t, n)
  BY DEF GroupSeen
<1>2. RowSeen(u, GroupSeen(t, n)) = RowSeen(t, GroupSeen(t, n))
  BY DEF RowSeen
<1> QED BY <1>1, <1>2 DEF LoadDnsGroup

LEMMA LoadIsStable ==
    ASSUME NEW t, NEW n, member'[n] = member[n],
           GroupSeen(t, n) # NoGroup => group'[GroupSeen(t, n)] = group[GroupSeen(t, n)]
    PROVE  LoadDnsGroup(t, n)' = LoadDnsGroup(t, n)
<1>1. GroupSeen(t, n)' = GroupSeen(t, n)
  BY DEF GroupSeen
<1>2. PICK g : g = GroupSeen(t, n)
  OBVIOUS
<1>3. g # NoGroup => group'[g] = group[g]
  BY <1>2
<1>4. g # NoGroup => RowSeen(t, g)' = RowSeen(t, g)
  BY <1>3 DEF RowSeen
<1>5. /\ LoadDnsGroup(t, n) = IF g = NoGroup \/ ~group[g].there THEN NoDns ELSE DnsOf(RowSeen(t, g))
      /\ LoadDnsGroup(t, n)' = IF g = NoGroup \/ ~group'[g].there THEN NoDns ELSE DnsOf(RowSeen(t, g)')
  BY <1>1, <1>2 DEF LoadDnsGroup, DnsOf
<1> QED BY <1>3, <1>4, <1>5

LEMMA AssembledStep ==
    ASSUME ShapeInv, LockInv, GroupInv, AssembledInv, [Next]_vars
    PROVE  AssembledInv'
<1>0. NoGroup \notin Groups /\ Flushed \subseteq Requests /\ Nobody \notin Requests
  BY NamesAssumption, Zenon DEF NoGroup, Flushed, Nobody
<1>1. ASSUME NEW q \in Flushed, txn'[q] = txn[q], NEW n \in DOMAIN txn[q].out,
             ~txn[q].stale, member'[n] = member[n],
             GroupSeen(txn[q], n) # NoGroup
               => group'[GroupSeen(txn[q], n)] = group[GroupSeen(txn[q], n)]
      PROVE  txn'[q].out[n] = LoadDnsGroup(txn[q], n)'
  <2>1. PICK t : t = txn[q]
    OBVIOUS
  <2>2. txn'[q] = t /\ t.out[n] = LoadDnsGroup(t, n)
    BY <1>1, <2>1 DEF AssembledInv
  <2>3. LoadDnsGroup(t, n)' = LoadDnsGroup(t, n)
    BY <1>1, <2>1, LoadIsStable
  <2>4. LoadDnsGroup(txn[q], n)' = LoadDnsGroup(t, n)'
    BY <2>2 DEF LoadDnsGroup, GroupSeen, RowSeen
  <2> QED BY <2>2, <2>3, <2>4
<1>2. ASSUME UNCHANGED <<group, member>>, Flushed' \subseteq Flushed,
             \A q \in Flushed' : txn'[q] = txn[q]
      PROVE  AssembledInv'
  BY <1>1, <1>2 DEF AssembledInv
<1>3. CASE UNCHANGED vars
  BY <1>2, <1>3 DEF vars, Flushed
(* A group somebody was assembled for is there: a new one is another.      *)
<1>g. ASSUME NEW q \in Flushed, NEW n \in Nodes, GroupSeen(txn[q], n) # NoGroup
      PROVE  GroupSeen(txn[q], n) \in Groups /\ group[GroupSeen(txn[q], n)].there
  <2>1. PICK t, g : t = txn[q] /\ g = GroupSeen(t, n)
    OBVIOUS
  <2>2. OpenFits(t) /\ member[n] \in Groups \cup {NoGroup}
    BY <2>1, <1>0, Open DEF Flushed, Idle, ShapeInv
  <2>3. CASE t.kind = "assign"
    <3>1. g = t.group /\ t.group \in Groups
      BY <1>g, <2>1, <2>2, <2>3 DEF GroupSeen, OpenFits, Proper
    <3> QED BY <2>1, <3>1 DEF GroupInv
  <2>4. CASE t.kind # "assign"
    <3>1. g = member[n] /\ g \in Groups
      BY <1>g, <2>1, <2>2, <2>4 DEF GroupSeen
    <3> QED BY <2>1, <3>1 DEF GroupInv
  <2> QED BY <2>3, <2>4
<1>4. ASSUME NEW g \in Groups, CreateGroup(g)
      PROVE  AssembledInv'
  <2>1. UNCHANGED <<member, txn>> /\ Flushed' = Flushed /\ ~group[g].there
    BY <1>4 DEF CreateGroup, Flushed
  <2>2. \A h \in Groups \ {g} : group'[h] = group[h]
    BY <1>4 DEF CreateGroup, ShapeInv
  <2>3. ASSUME NEW q \in Flushed, NEW n \in DOMAIN txn[q].out, ~txn[q].stale
        PROVE  txn'[q].out[n] = LoadDnsGroup(txn[q], n)'
    <3>1. n \in Nodes
      BY <2>3, <1>0, Open DEF Flushed, Idle, OpenFits
    <3> QED BY <1>1, <1>g, <2>1, <2>2, <2>3, <3>1
  <2> QED BY <2>1, <2>3 DEF AssembledInv
<1>5. ASSUME NEW r \in Requests, Requested(r)
      PROVE  AssembledInv'
  <2>1. PICK u : Fresh(u) /\ Turned(r, u)
    BY <1>5, RequestedEffect
  <2>2. UNCHANGED <<group, member>>
    BY <1>5, RequestedEffect
  <2>3. Flushed' \subseteq Flushed /\ \A q \in Flushed' : txn'[q] = txn[q]
    BY <2>1, TurnedPhases DEF Fresh, Flushed
  <2> QED BY <1>2, <2>2, <2>3
<1>6. ASSUME NEW r \in Requests, Flush(r)
      PROVE  AssembledInv'
  <2>0. PICK u : Turned(r, u) /\ Further(u, txn[r], "flushed", MemberIds(txn[r]), txn[r].out)
    BY <1>6, FlushEffect
  <2>1. UNCHANGED <<group, member>>
    BY <1>6 DEF Flush
  <2>2. DOMAIN u.out = {}
    BY <1>6, <2>0, FlushEffect, Open DEF Further, OpenFits
  <2>3. txn'[r] = u /\ (\A q \in Requests \ {r} : txn'[q] = txn[q])
        /\ Flushed' = Flushed \cup {r}
    BY <2>0, TurnedPhases DEF Flushed, Further
  <2>4. ASSUME NEW q \in Flushed', NEW n \in DOMAIN txn'[q].out, ~txn'[q].stale
        PROVE  txn'[q].out[n] = LoadDnsGroup(txn[q], n)'
    <3>1. q # r
      BY <2>2, <2>3, <2>4
    <3>2. q \in Flushed /\ txn'[q] = txn[q]
      BY <1>0, <2>3, <3>1
    <3> QED BY <1>1, <2>1, <2>4, <3>2
  <2> QED BY <2>4 DEF AssembledInv
<1>7. ASSUME NEW r \in Requests, NEW n \in Nodes, Materialize(r, n)
      PROVE  AssembledInv'
  <2>0. PICK u : Assembled(r, n, u)
    BY <1>7, MaterializeEffect
  <2>1. UNCHANGED <<group, member>> /\ r \in Flushed
    BY <1>7, MaterializeEffect DEF Materialize, Flushed
  <2>2. /\ u.kind = txn[r].kind /\ u.group = txn[r].group /\ u.via = txn[r].via
        /\ u.fields = txn[r].fields /\ u.held = txn[r].held /\ u.stale = txn[r].stale
        /\ Turned(r, u) /\ u.phase = "flushed"
    BY <2>0 DEF Assembled, Further
  <2>3. txn'[r] = u /\ (\A q \in Requests \ {r} : txn'[q] = txn[q]) /\ Flushed' = Flushed
    BY <2>1, <2>2, TurnedPhases DEF Flushed
  <2>4. ASSUME NEW q \in Flushed', NEW m \in DOMAIN txn'[q].out, ~txn'[q].stale
        PROVE  txn'[q].out[m] = LoadDnsGroup(txn[q], m)'
    <3>1. CASE q # r
      BY <1>0, <1>1, <2>1, <2>3, <2>4, <3>1
    <3>2. CASE q = r
      <4>1. PICK t : t = txn[r]
        OBVIOUS
      <4>2. LoadDnsGroup(u, m) = LoadDnsGroup(t, m)
        BY <2>2, <4>1, LoadOfWork
      <4>3. LoadDnsGroup(u, m)' = LoadDnsGroup(u, m)
        BY <2>1, LoadIsStable
      <4>4. LoadDnsGroup(txn[r], m)' = LoadDnsGroup(u, m)'
        BY <2>3 DEF LoadDnsGroup, GroupSeen, RowSeen
      <4>5. u.out[m] = LoadDnsGroup(t, m)
        <5>1. CASE m = n
          BY <2>0, <4>1, <5>1 DEF Assembled
        <5>2. CASE m # n
          <6>1. m \in DOMAIN t.out /\ u.out[m] = t.out[m] /\ ~t.stale
            BY <2>0, <2>2, <2>3, <2>4, <3>2, <4>1, <5>2 DEF Assembled
          <6> QED BY <2>1, <4>1, <6>1 DEF AssembledInv
        <5> QED BY <5>1, <5>2
      <4> QED BY <2>3, <3>2, <4>2, <4>3, <4>4, <4>5
    <3> QED BY <3>1, <3>2
  <2> QED BY <2>4 DEF AssembledInv
<1>8. ASSUME NEW r \in Requests, Aborts(r)
      PROVE  AssembledInv'
  <2>1. Turned(r, Idle) /\ UNCHANGED <<group, member>> /\ Idle.phase # "flushed"
    BY <1>8 DEF Aborts, Abort, Turned, Idle
  <2>2. Flushed' \subseteq Flushed /\ \A q \in Flushed' : txn'[q] = txn[q]
    BY <2>1, TurnedPhases DEF Flushed
  <2> QED BY <1>2, <2>1, <2>2
<1>9. ASSUME NEW r \in Requests, Commit(r)
      PROVE  AssembledInv'
  <2>1. Flushed' = Flushed \ {r} /\ r \in Flushed
    BY <1>9, CommitPhases
  <2>2. ASSUME NEW q \in Flushed', NEW n \in DOMAIN txn'[q].out, ~txn'[q].stale
        PROVE  txn'[q].out[n] = LoadDnsGroup(txn[q], n)'
    <3>1. q \in Requests \ {r} /\ q \in Flushed /\ txn[q] # Idle
      BY <1>0, <2>1 DEF Flushed, Idle
    <3>2. txn'[q] = txn[q] /\ ~Overtakes(txn[r], txn[q])
      BY <1>9, <2>2, <3>1, CommitOthers
    <3>3. n \in Nodes /\ lock[n] = q
      BY <3>1, <3>2, <2>2, Open DEF OpenFits, LockInv, Holds
    <3>4. member'[n] = member[n] /\ n \notin DOMAIN txn[r].out
      BY <1>9, <3>1, <3>3, CommittedMembers
    <3>5. PICK t, c, g : t = txn[q] /\ c = txn[r] /\ g = GroupSeen(t, n)
      OBVIOUS
    <3>6. ASSUME g # NoGroup PROVE group'[g] = group[g]
      <4>1. g \in Groups
        BY <1>g, <3>1, <3>3, <3>5, <3>6
      <4>2. g # c.group => group'[g] = group[g]
        BY <1>9, <3>5, <4>1, CommittedGroups
      <4>3. ~(c.kind \in Content /\ g = c.group)
        BY <2>2, <3>2, <3>4, <3>5 DEF Overtakes
      <4>4. ~(c.kind = "drop_group" /\ g = c.group)
        <5> SUFFICES ASSUME c.kind = "drop_group", g = c.group PROVE FALSE
          OBVIOUS
        <5>1. t.group # g
          BY <2>1, <3>1, <3>5 DEF GroupInv
        <5>2. member[n] = g
          BY <3>5, <3>6, <5>1 DEF GroupSeen
        <5>3. lock[n] = r
          BY <2>1, <3>3, <3>5, <5>2 DEF LockInv, Holds, NodesOf
        <5> QED BY <3>1, <3>3, <5>3
      <4>5. c.kind = "assign" => group' = group
        BY <1>9, <3>5, CommittedGroups
      <4>6. c.kind \in Content \/ c.kind \in {"drop_group", "assign"}
        BY <1>9, <3>5, CommittedGroups
      <4> QED BY <4>2, <4>3, <4>4, <4>5, <4>6
    <3>7. GroupSeen(txn[q], n) # NoGroup => group'[GroupSeen(txn[q], n)] = group[GroupSeen(txn[q], n)]
      BY <3>5, <3>6
    <3> QED BY <1>1, <2>2, <3>1, <3>2, <3>4, <3>7
  <2> QED BY <2>2 DEF AssembledInv
<1> QED
  BY <1>3, <1>4, <1>5, <1>6, <1>7, <1>8, <1>9, NextCases


(***************************************************************************)
(* Who is on the list.                                                     *)
(***************************************************************************)
LEMMA ListedStep ==
    ASSUME ShapeInv, LockInv, ListedInv, [Next]_vars
    PROVE  ListedInv'
<1>0. Flushed \subseteq Requests
  BY DEF Flushed
<1>1. ASSUME UNCHANGED <<member, behind>>, Flushed' \subseteq Flushed,
             \A q \in Flushed' : txn'[q] = txn[q]
      PROVE  ListedInv'
  BY <1>1 DEF ListedInv
<1>2. CASE UNCHANGED vars
  BY <1>1, <1>2 DEF vars, Flushed
<1>3. ASSUME NEW g \in Groups, CreateGroup(g)
      PROVE  ListedInv'
  BY <1>1, <1>3 DEF CreateGroup, Flushed
<1>4. ASSUME NEW r \in Requests, Requested(r)
      PROVE  ListedInv'
  <2>1. PICK u : Fresh(u) /\ Turned(r, u)
    BY <1>4, RequestedEffect
  <2>2. UNCHANGED <<member, behind>>
    BY <1>4, RequestedEffect
  <2>3. Flushed' \subseteq Flushed /\ \A q \in Flushed' : txn'[q] = txn[q]
    BY <2>1, TurnedPhases DEF Fresh, Flushed
  <2> QED BY <1>1, <2>2, <2>3
<1>5. ASSUME NEW r \in Requests, Flush(r)
      PROVE  ListedInv'
  <2>0. PICK u : Turned(r, u) /\ Further(u, txn[r], "flushed", MemberIds(txn[r]), txn[r].out)
    BY <1>5, FlushEffect
  <2>1. UNCHANGED <<member, behind>>
    BY <1>5 DEF Flush
  <2>2. /\ txn'[r] = u /\ \A q \in Requests \ {r} : txn'[q] = txn[q]
        /\ Flushed' = Flushed \cup {r}
    BY <2>0, TurnedPhases DEF Flushed, Further
  <2>3. u.kind = txn[r].kind /\ u.via = txn[r].via /\ u.todo = MemberIds(txn[r])
    BY <2>0 DEF Further
  <2>4. u.kind \in Content => u.todo = NodesOf(u.via)
    BY <2>3 DEF MemberIds, Content
  <2>5. \A n \in Nodes : u.kind \in Content /\ u.via = u.group /\ member[n] = u.group => n \in u.todo
    BY <2>4 DEF NodesOf
  <2> QED BY <1>0, <2>1, <2>2, <2>5 DEF ListedInv
<1>6. ASSUME NEW r \in Requests, NEW n \in Nodes, Materialize(r, n)
      PROVE  ListedInv'
  <2>0. PICK u : Assembled(r, n, u)
    BY <1>6, MaterializeEffect
  <2>1. UNCHANGED <<member, behind>> /\ r \in Flushed
    BY <1>6, MaterializeEffect DEF Materialize, Flushed
  <2>2. /\ u.kind = txn[r].kind /\ u.group = txn[r].group /\ u.via = txn[r].via
        /\ u.todo = txn[r].todo \ {n} /\ DOMAIN u.out = DOMAIN txn[r].out \cup {n}
        /\ Turned(r, u) /\ u.phase = "flushed"
    BY <2>0 DEF Assembled, Further
  <2>3. txn'[r] = u /\ (\A q \in Requests \ {r} : txn'[q] = txn[q]) /\ Flushed' = Flushed
    BY <2>1, <2>2, TurnedPhases DEF Flushed
  <2> QED BY <1>0, <2>1, <2>2, <2>3 DEF ListedInv
<1>7. ASSUME NEW r \in Requests, Aborts(r)
      PROVE  ListedInv'
  <2>1. Turned(r, Idle) /\ UNCHANGED <<member, behind>> /\ Idle.phase # "flushed"
    BY <1>7 DEF Aborts, Abort, Turned, Idle
  <2>2. Flushed' \subseteq Flushed /\ \A q \in Flushed' : txn'[q] = txn[q]
    BY <2>1, TurnedPhases DEF Flushed
  <2> QED BY <1>1, <2>1, <2>2
<1>8. ASSUME NEW r \in Requests, Commit(r)
      PROVE  ListedInv'
  <2>1. Flushed' = Flushed \ {r} /\ r \in Flushed
    BY <1>8, CommitPhases
  <2>2. SUFFICES ASSUME NEW q \in Flushed', NEW n \in Nodes \ behind',
                        txn'[q].kind \in Content, txn'[q].via = txn'[q].group,
                        member'[n] = txn'[q].group
                 PROVE  n \in txn'[q].todo \cup DOMAIN txn'[q].out
    BY DEF ListedInv
  <2>3. PICK c, t, v : c = txn[r] /\ t = txn[q] /\ v = txn'[q]
    OBVIOUS
  <2>4. Kept(v, t) /\ q \in Flushed \ {r}
    BY <1>0, <1>8, <2>1, <2>3, CommitOthers DEF Flushed, Idle
  <2>5. /\ v.kind = t.kind /\ v.via = t.via /\ v.group = t.group
        /\ v.todo = t.todo /\ v.out = t.out
    BY <2>4 DEF Kept
  <2>6. behind' = (behind \ DOMAIN c.out) \cup Missed(r)
    BY <1>8, <2>3 DEF Commit
  <2>7. CASE n \in DOMAIN c.out
    <3>1. t.group = GroupSeen(c, n)
      BY <1>8, <2>2, <2>3, <2>5, <2>7, CommittedMembers
    <3>2. n \notin Missed(r)
      BY <2>6
    <3>3. n \in txn[q].todo \cup DOMAIN txn[q].out
      BY <2>2, <2>3, <2>4, <2>5, <2>7, <3>1, <3>2 DEF Missed
    <3> QED BY <2>3, <2>5, <3>3
  <2>8. CASE n \notin DOMAIN c.out
    <3>1. member'[n] = member[n] /\ n \notin behind
      BY <1>8, <2>3, <2>6, <2>8, CommittedMembers
    <3> QED BY <2>2, <2>3, <2>4, <2>5, <3>1 DEF ListedInv
  <2> QED BY <2>7, <2>8
<1> QED
  BY <1>2, <1>3, <1>4, <1>5, <1>6, <1>7, <1>8, NextCases

(***************************************************************************)
(* What is served.                                                         *)
(***************************************************************************)
LEMMA ServedStep ==
    ASSUME ShapeInv, LockInv, GroupInv, HeldInv, AssembledInv, ListedInv,
           ServedIsCurrent, [Next]_vars
    PROVE  ServedIsCurrent'
<1>0. NoGroup \notin Groups /\ Flushed \subseteq Requests
  BY NamesAssumption, Zenon DEF NoGroup, Flushed
<1>1. ASSUME UNCHANGED <<group, member, served, behind>>
      PROVE  ServedIsCurrent'
  BY <1>1 DEF ServedIsCurrent, DnsFor, DnsOf
<1>d. ASSUME NEW n \in Nodes, served'[n] = served[n], member'[n] = member[n], n \notin behind,
             member[n] # NoGroup => group'[member[n]] = group[member[n]]
      PROVE  served'[n] = DnsFor(n)'
  <2>1. served[n] = DnsFor(n)
    BY <1>d DEF ServedIsCurrent
  <2>2. PICK g : g = member[n]
    OBVIOUS
  <2>3. CASE g = NoGroup
    BY <1>d, <2>1, <2>2, <2>3 DEF DnsFor
  <2>4. CASE g # NoGroup
    <3>1. PICK x : x = group[g]
      OBVIOUS
    <3>2. group'[g] = x
      BY <1>d, <2>2, <2>4, <3>1
    <3>3. DnsFor(n) = DnsOf(x) /\ DnsFor(n)' = DnsOf(x)
      BY <1>d, <2>2, <2>4, <3>1, <3>2 DEF DnsFor, DnsOf
    <3> QED BY <1>d, <2>1, <3>3
  <2> QED BY <2>3, <2>4
<1>2. ASSUME NEW g \in Groups, CreateGroup(g)
      PROVE  ServedIsCurrent'
  <2>1. UNCHANGED <<member, served, behind>> /\ ~group[g].there
        /\ \A h \in Groups \ {g} : group'[h] = group[h]
    BY <1>2 DEF CreateGroup, ShapeInv
  <2>2. ASSUME NEW n \in Nodes, member[n] # NoGroup
        PROVE  group'[member[n]] = group[member[n]]
    <3>1. member[n] \in Groups
      BY <2>2 DEF ShapeInv
    <3> QED BY <2>1, <3>1 DEF GroupInv
  <2> QED BY <1>d, <2>1, <2>2 DEF ServedIsCurrent
<1>3. ASSUME NEW r \in Requests, Commit(r)
      PROVE  ServedIsCurrent'
  <2> SUFFICES ASSUME NEW n \in Nodes, n \notin behind'
               PROVE  served'[n] = DnsFor(n)'
    BY DEF ServedIsCurrent
  <2>1. PICK t : t = txn[r]
    OBVIOUS
  <2>2. r \in Flushed /\ txn[r] # Idle /\ t.todo = {}
    BY <1>3, <2>1, CommitEffect DEF Flushed
  <2>3. /\ OpenFits(t) /\ \A g \in Groups \ {t.group} : group'[g] = group[g]
        /\ t.kind \in Content => /\ t.group \in Groups
                                 /\ group'[t.group] = Write(group[t.group], t.fields)
        /\ t.kind = "drop_group" => t.group \in Groups /\ group'[t.group] = Absent
        /\ t.kind = "assign" => group' = group
        /\ t.kind \in Content \/ t.kind \in {"drop_group", "assign"}
    BY <1>3, <2>1, CommittedGroups
  <2>4. /\ behind' = (behind \ DOMAIN t.out) \cup Missed(r)
        /\ served'[n] = IF n \in DOMAIN t.out THEN t.out[n] ELSE served[n]
    BY <1>3, <2>1 DEF Commit
  <2>5. CASE n \in DOMAIN t.out
    <3>1. member'[n] = GroupSeen(t, n)
      BY <1>3, <2>1, <2>5, CommittedMembers
    <3>2. ~t.stale
      BY <2>1, <2>4, <2>5 DEF Missed
    <3>3. served'[n] = LoadDnsGroup(t, n)
      BY <2>1, <2>2, <2>4, <2>5, <3>2 DEF AssembledInv
    <3>4. PICK g : g = GroupSeen(t, n)
      OBVIOUS
    <3>5. g = NoGroup \/ (g \in Groups /\ group[g].there)
      <4>1. CASE t.kind = "assign"
        <5>1. g = t.group /\ t.group \in Groups \cup {NoGroup}
          BY <2>3, <3>4, <4>1 DEF GroupSeen, OpenFits, Proper
        <5> QED BY <2>1, <2>2, <5>1 DEF GroupInv
      <4>2. CASE t.kind # "assign"
        <5>1. g = NoGroup \/ g = member[n]
          BY <3>4, <4>2 DEF GroupSeen
        <5> QED BY <5>1 DEF GroupInv, ShapeInv
      <4> QED BY <4>1, <4>2
    <3>6. CASE g = NoGroup
      BY <3>1, <3>3, <3>4, <3>6 DEF LoadDnsGroup, DnsFor
    <3>7. CASE g \in Groups /\ group[g].there
      <4>1. RowSeen(t, g) = Write(group[g], Written(t, g))
        BY <2>1, <2>2, <3>2, <3>7, SeenIsCurrent
      <4>2. group'[g] = Write(group[g], Written(t, g))
        <5>1. PICK x : x = group[g]
          OBVIOUS
        <5>2. x \in GroupRows /\ DOMAIN x = {"there", "enabled", "forwards", "zone", "record"}
          BY <3>7, <5>1 DEF ShapeInv, GroupRows
        <5>e. x = [c \in DOMAIN x |-> x[c]]
          BY <5>1, <3>7 DEF ShapeInv, GroupRows
        <5>3. ASSUME NEW F, DOMAIN F = {} PROVE Write(x, F) = x
          BY <5>3, <5>e DEF Write
        <5>4. CASE t.kind \in Content /\ g = t.group
          BY <2>3, <5>4 DEF Written
        <5>5. CASE t.kind \in Content /\ g # t.group
          <6>1. Written(t, g) = << >> /\ group'[g] = x
            BY <2>3, <3>7, <5>1, <5>5 DEF Written
          <6> QED BY <5>1, <5>3, <6>1, EmptyFields
        <5>6. CASE t.kind = "assign"
          <6>1. DOMAIN Written(t, g) = {}
            BY <2>3, <5>6, EmptyFields DEF Written, OpenFits, Proper, FieldsFit, Columns
          <6>2. PICK F : F = Written(t, g)
            OBVIOUS
          <6>3. group'[g] = x
            BY <2>3, <5>1, <5>6
          <6> QED BY <5>1, <5>3, <6>1, <6>2, <6>3
        <5>7. CASE t.kind = "drop_group"
          <6>1. g # t.group
            BY <1>0, <3>4, <3>7, <5>7 DEF GroupSeen
          <6>2. Written(t, g) = << >> /\ group'[g] = x
            BY <2>3, <3>7, <5>1, <6>1 DEF Written
          <6> QED BY <5>1, <5>3, <6>2, EmptyFields
        <5> QED BY <2>3, <5>4, <5>5, <5>6, <5>7
      <4>3. served'[n] = DnsOf(group'[g])
        BY <1>0, <3>3, <3>4, <3>7, <4>1, <4>2 DEF LoadDnsGroup
      <4>4. DnsFor(n)' = DnsOf(group'[g])
        BY <1>0, <3>1, <3>4, <3>7 DEF DnsFor, DnsOf
      <4> QED BY <4>3, <4>4
    <3> QED BY <3>5, <3>6, <3>7
  <2>6. CASE n \notin DOMAIN t.out
    <3>1. member'[n] = member[n] /\ n \notin behind /\ n \notin Missed(r)
      BY <1>3, <2>1, <2>4, <2>6, CommittedMembers
    <3>2. ASSUME member[n] # NoGroup PROVE group'[member[n]] = group[member[n]]
      <4>1. member[n] \in Groups
        BY <3>2 DEF ShapeInv
      <4>2. CASE member[n] # t.group \/ t.kind = "assign"
        BY <2>3, <4>1, <4>2
      <4>3. CASE member[n] = t.group /\ t.kind = "drop_group"
        <5>1. n \in t.todo \cup DOMAIN t.out
          BY <2>1, <2>2, <4>3 DEF LockInv, Holds, NodesOf
        <5> QED BY <2>2, <2>6, <5>1
      <4>4. CASE member[n] = t.group /\ t.kind \in Content
        <5>1. CASE t.via = t.group
          <6>1. n \in t.todo \cup DOMAIN t.out
            BY <2>1, <2>2, <3>1, <4>4, <5>1 DEF ListedInv
          <6> QED BY <2>2, <2>6, <6>1
        <5>2. CASE t.via # t.group
          <6>1. t.kind = "record" /\ n \in NodesOf(t.group)
            BY <2>3, <4>4, <5>2 DEF OpenFits, Proper, NodesOf
          <6>2. n \in Missed(r)
            BY <2>1, <5>2, <6>1 DEF Missed
          <6> QED BY <3>1, <6>2
        <5> QED BY <5>1, <5>2
      <4> QED BY <2>3, <4>2, <4>3, <4>4
    <3>3. served'[n] = served[n]
      BY <2>4, <2>6
    <3> QED BY <1>d, <3>1, <3>2, <3>3
  <2> QED BY <2>5, <2>6
<1>4. CASE UNCHANGED vars
  BY <1>1, <1>4 DEF vars
<1>5. ASSUME NEW r \in Requests, Requested(r)
      PROVE  ServedIsCurrent'
  BY <1>1, <1>5, RequestedEffect
<1>6. ASSUME NEW r \in Requests, Flush(r) \/ Aborts(r) \/ \E n \in Nodes : Materialize(r, n)
      PROVE  ServedIsCurrent'
  BY <1>1, <1>6 DEF Flush, Aborts, Abort, Materialize
<1> QED
  BY <1>2, <1>3, <1>4, <1>5, <1>6, NextCases

(***************************************************************************)
(* Theorems.                                                               *)
(***************************************************************************)
IInv ==
    /\ ShapeInv
    /\ LockInv
    /\ GroupInv
    /\ HeldInv
    /\ AssembledInv
    /\ ListedInv
    /\ ServedIsCurrent

LEMMA InitIInv == Init => IInv
<1> SUFFICES ASSUME Init PROVE IInv
  OBVIOUS
<1>1. PICK G \in SUBSET Groups :
         /\ group = [g \in Groups |-> IF g \in G THEN Serving ELSE Absent]
         /\ member \in [Nodes -> G \cup {NoGroup}]
  BY DEF Init
<1>2. /\ gen = [n \in Nodes |-> 1] /\ served = [n \in Nodes |-> DnsFor(n)]
      /\ txn = [r \in Requests |-> Idle] /\ lock = [n \in Nodes |-> Nobody]
  BY DEF Init
<1>3. Serving \in GroupRows /\ Absent \in GroupRows /\ Serving.there
  BY DEF Serving, Absent, GroupRows, Presence
<1>4. group \in [Groups -> GroupRows] /\ \A g \in G : group[g].there
  BY <1>1, <1>3
<1>5. served \in [Nodes -> DnsSections]
  BY <1>2 DEF DnsFor, DnsOf, NoDns, DnsSections
<1>6. IsOn(txn, Requests) /\ \A r \in Requests : txn[r] = Idle
  BY <1>2 DEF IsOn
<1>7. ShapeInv
  BY <1>1, <1>2, <1>4, <1>5, <1>6 DEF ShapeInv
<1>8. Flushed = {}
  BY <1>6 DEF Flushed, Idle
<1>9. LockInv /\ HeldInv /\ AssembledInv /\ ListedInv
  BY <1>2, <1>6, <1>8 DEF LockInv, HeldInv, AssembledInv, ListedInv
<1>10. GroupInv
  BY <1>1, <1>4, <1>8, NamesAssumption, Zenon DEF GroupInv, NoGroup
<1>11. ServedIsCurrent
  BY <1>2 DEF ServedIsCurrent
<1> QED BY <1>7, <1>9, <1>10, <1>11 DEF IInv

LEMMA StepIInv == IInv /\ [Next]_vars => IInv'
  BY ShapeStep, LockStep, GroupStep, HeldStep, AssembledStep, ListedStep, ServedStep DEF IInv

(* The tables keep their types, and a row lock is only ever held by a      *)
(* request that has flushed: one that was refused, collided with another   *)
(* publication or was picked as the victim of a deadlock has given its     *)
(* locks back (`_rematerialize` inside the handler's transaction).         *)
THEOREM DnsTypeCorrect == Spec => []DnsTypeOK
<1>1. IInv => DnsTypeOK
  <2> SUFFICES ASSUME IInv PROVE DnsTypeOK
    OBVIOUS
  <2>1. \A r \in Active : txn[r].kind \in Kinds /\ txn[r].todo \subseteq Nodes
    BY Open DEF IInv, Active, OpenFits, Proper
  <2>2. \A n \in Nodes : lock[n] # Nobody => txn[lock[n]].phase = "flushed"
    BY DEF IInv, LockInv, Flushed
  <2> QED BY <2>1, <2>2 DEF IInv, ShapeInv, DnsTypeOK
<1> QED BY <1>1, InitIInv, StepIInv, PTL DEF Spec

(* Unless its last publication was overtaken in one of the three recorded  *)
(* ways, what a node serves is what the committed group, zone and record   *)
(* rows say, for any number of nodes, groups and overlapping requests.     *)
THEOREM ServedFollowsTables == Spec => []ServedIsCurrent
<1>1. IInv => ServedIsCurrent
  BY DEF IInv
<1> QED BY <1>1, InitIInv, StepIInv, PTL DEF Spec

=============================================================================
