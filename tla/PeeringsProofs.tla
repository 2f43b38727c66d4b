--------------------------- MODULE PeeringsProofs ---------------------------
(***************************************************************************)
(* Theorems about Peerings, for every set of nodes, interface names, ports *)
(* and requests in progress together, and every bound.                     *)
(***************************************************************************)
EXTENDS Peerings, TLAPS

(***************************************************************************)
(* The inductive invariant.                                                *)
(***************************************************************************)
IsOn(f, S) == f = [x \in S |-> f[x]]

(* What the row of a slot may hold.                                        *)
Fits(n, s, row) ==
    /\ s = "peering" => row \in PeeringRow(n) \cup {NoPeering}
    /\ s = "session" => row \in SessionIn \cup {NoSession}
    /\ s \in Names => row \in InterfaceIn \cup {NoInterface}

RowsFit(n, r) == IsOn(r, Slots) /\ \A s \in Slots : Fits(n, s, r[s])

(* The foreign key of a child.                                             *)
Attached(r) == \A s \in Slots \ {"peering"} : r[s].peer => r["peering"].there

IsOpen(t) ==
    t = [phase |-> t.phase, node |-> t.node, write |-> t.write, found |-> t.found,
         publishes |-> t.publishes, key |-> t.key, base |-> t.base,
         todo |-> t.todo, out |-> t.out, stale |-> t.stale]

(* A transaction that has loaded its rows.                                 *)
OpenFits(o, t) ==
    /\ t.phase \in {"loaded", "flushed"}
    /\ t.node \in Nodes
    /\ IsOn(t.write, DOMAIN t.write) /\ DOMAIN t.write \subseteq Slots
    /\ \A s \in DOMAIN t.write : Fits(t.node, s, t.write[s])
    /\ RowsFit(t.node, t.found)
    /\ t.publishes \in BOOLEAN
    /\ t.base \in Nat
    /\ t.todo \subseteq Nodes
    /\ IsOn(t.out, DOMAIN t.out) /\ DOMAIN t.out \subseteq Nodes
    /\ t.phase = "loaded" => t.todo = {} /\ DOMAIN t.out = {}
    /\ t.stale \in BOOLEAN
    /\ o \in Requests => t.key = 0
    /\ o \in Nodes => /\ t.node = o /\ DOMAIN t.write = {} /\ ~t.publishes
                      /\ t.key \in 1..MaxKeys

TxnFits(o, t) == t = Idle \/ (IsOpen(t) /\ OpenFits(o, t))

ShapeInv ==
    /\ IsOn(rows, Nodes)
    /\ \A n \in Nodes : RowsFit(n, rows[n]) /\ Attached(rows[n])
    /\ gen \in [Nodes -> Nat]
    /\ IsOn(snap, Nodes)
    /\ lock \in [Nodes -> Owners \cup {Nobody}]
    /\ share \in [Nodes -> SUBSET Owners]
    /\ IsOn(txn, Owners)
    /\ \A o \in Owners : TxnFits(o, txn[o])

AgentInv ==
    /\ key \in [Nodes -> 0..MaxKeys]
    /\ keyfile \in [Nodes -> 0..MaxKeys]
    /\ generated \in [Nodes -> 0..MaxKeys]
    /\ gateway \in [Nodes -> 0..MaxKeys]
    /\ agent \in [Nodes -> {"idle", "reporting", "accepted"}]
    /\ \A n \in Nodes : keyfile[n] = 0 => generated[n] < MaxKeys

(* A report in progress is about the key of the file; a first key is only  *)
(* stored where none is on record.                                         *)
ReportInv ==
    \A n \in Nodes :
      /\ txn[n] # Idle => agent[n] = "reporting" /\ keyfile[n] \in {0, txn[n].key}
      /\ txn[n].phase = "flushed" => key[n] = 0
      /\ agent[n] = "accepted" => keyfile[n] \in {0, key[n]}

(* Who holds a row is a transaction that has flushed; an assembled         *)
(* snapshot holds the row of its node.                                     *)
LockInv ==
    /\ \A n \in Nodes : share[n] \subseteq Flushed /\ lock[n] \in Flushed \cup {Nobody}
    /\ \A o \in Flushed :
         /\ \A n \in DOMAIN txn[o].out : lock[n] = o
         /\ o \in Nodes => lock[o] = o

(* Flushed writes of a node are of different rows, and each is still there *)
(* (or not) as it was loaded.                                              *)
WriteInv ==
    /\ \A r, q \in Flushed \cap Requests :
         r # q /\ txn[r].node = txn[q].node
         => DOMAIN txn[r].write \cap DOMAIN txn[q].write = {}
    /\ \A o \in Flushed : \A s \in DOMAIN txn[o].write :
         rows[txn[o].node][s].there = txn[o].found[s].there

Distinct(r) ==
    \A i, j \in Names :
        /\ i # j
        /\ r[i].there /\ r[i].on
        /\ r[j].there /\ r[j].on
        => r[i].port # r[j].port

(* A write that publishes nothing gives no interface a port: it deletes    *)
(* interfaces, or attaches them to a peering.                              *)
Harmless(t) ==
    \A i \in Names \cap DOMAIN t.write :
        \/ t.write[i] = NoInterface
        \/ t.found[i].there /\ t.write[i] = [t.found[i] EXCEPT !.peer = TRUE]

(* As long as nobody has published its node since, a publishing request    *)
(* leaves the ports distinct; one that has assembled its snapshot is in    *)
(* that case.                                                              *)
PortInv ==
    \A r \in Requests :
      LET t == txn[r] IN
      t # Idle =>
        /\ t.base =< gen[t.node]
        /\ t.publishes /\ t.base = gen[t.node] => Distinct(Write(rows[t.node], t))
        /\ t.publishes /\ t.phase = "flushed" =>
             t.todo = {t.node} \/ (t.node \in DOMAIN t.out /\ t.base = gen[t.node])
        /\ ~t.publishes => Harmless(t)

(* An assembled snapshot that was not overtaken is what its transaction    *)
(* would assemble now; the report of a first key has on its list every     *)
(* node that peers with the reporter.                                      *)
AssembledInv ==
    \A o \in Flushed : \A n \in DOMAIN txn[o].out :
        ~txn[o].stale =>
          txn[o].out[n] = AssembleSnapshot(RowsSeen(txn[o], n), KeysSeen(txn[o]))

ListedInv ==
    \A m \in Flushed \cap Nodes, n \in Nodes \ behind :
        m \in RemoteOf(rows[n]) => n \in txn[m].todo \cup DOMAIN txn[m].out


(***************************************************************************)
(* Admin requests.  What every handler prepares, in one formula: the rows  *)
(* fit their slots; the ports stay distinct if they were, when the request *)
(* publishes; nothing gets a port when it does not.                        *)
(***************************************************************************)
After(r, write) == [s \in DOMAIN r |-> IF s \in DOMAIN write THEN write[s] ELSE r[s]]

Prepared(n, write, publishes) ==
    /\ IsOn(write, DOMAIN write) /\ DOMAIN write \subseteq Slots
    /\ \A s \in DOMAIN write : Fits(n, s, write[s])
    /\ publishes \in BOOLEAN
    /\ publishes /\ Distinct(rows[n]) => Distinct(After(rows[n], write))
    /\ ~publishes => \A i \in Names \cap DOMAIN write :
            \/ write[i] = NoInterface
            \/ rows[n][i].there /\ write[i] = [rows[n][i] EXCEPT !.peer = TRUE]

Requested(r, n) ==
    \E write, publishes :
        Prepared(n, write, publishes) /\ Begin(r, n, write, publishes)

(* A backfill plans peerings only for an orphan session.                   *)
LEMMA PlannedShape ==
    ASSUME NEW n, NEW write \in PlannedPeerings(n)
    PROVE  \E p \in PeeringIn(n), anchor \in Anchors(n) :
              /\ write = Adopted(n, p, {"session"} \cup anchor)
              /\ rows[n]["session"].there
<1>1. CASE rows[n]["session"].there /\ ~rows[n]["session"].peer
  BY <1>1 DEF PlannedPeerings
<1>2. CASE ~(rows[n]["session"].there /\ ~rows[n]["session"].peer)
  BY <1>2 DEF PlannedPeerings
<1> QED BY <1>1, <1>2

LEMMA NoneFits ==
    ASSUME NEW n, NEW s \in Slots
    PROVE  Fits(n, s, None(s))
  BY NamesAssumption DEF Fits, None, Slots

LEMMA PeeringFits ==
    ASSUME NEW n, NEW p \in PeeringIn(n)
    PROVE  Fits(n, "peering", p) /\ "peering" \in Slots /\ "peering" \notin Names
           /\ p \in PeeringRow(n)
<1>1. PICK m \in (Nodes \ {n}) \cup {External} :
         p = [there |-> TRUE, remote |-> m, internal |-> m # External]
  BY DEF PeeringIn
<1>2. (m # External) \in BOOLEAN
  OBVIOUS
<1>3. p \in PeeringRow(n)
  BY <1>1, <1>2 DEF PeeringRow
<1> QED BY <1>3, NamesAssumption DEF Fits, Slots

LEMMA HandlersPrepare ==
    ASSUME ShapeInv, NEW r \in Requests, NEW n \in Nodes, Handle(r, n)
    PROVE  Requested(r, n)
<1>r. RowsFit(n, rows[n])
  BY DEF ShapeInv
<1>p. ASSUME NEW p \in PeeringIn(n), Begin(r, n, [peering |-> p], FALSE)
      PROVE  Requested(r, n)
  <2> DEFINE w == [peering |-> p]
  <2>1. DOMAIN w = {"peering"} /\ IsOn(w, DOMAIN w) /\ w["peering"] = p
    BY DEF IsOn
  <2>2. Prepared(n, w, FALSE)
    BY <2>1, PeeringFits DEF Prepared
  <2> QED BY <1>p, <2>2 DEF Requested
<1>1. CASE CreatePeering(r, n)
  BY <1>1, <1>p DEF CreatePeering
<1>2. CASE UpdatePeering(r, n)
  BY <1>2, <1>p DEF UpdatePeering
<1>3. CASE DeletePeering(r, n)
  <2> DEFINE gone == {"peering"} \cup {s \in Slots \ {"peering"} : rows[n][s].peer}
             w == [s \in gone |-> None(s)]
  <2>1. DOMAIN w = gone /\ gone \subseteq Slots /\ IsOn(w, DOMAIN w)
    BY DEF IsOn, Slots
  <2>2. \A s \in gone : Fits(n, s, w[s])
    BY <2>1, NoneFits
  <2>3. \A i \in Names \cap gone : w[i] = NoInterface
    BY NamesAssumption DEF None
  <2>4. Prepared(n, w, FALSE)
    BY <2>1, <2>2, <2>3 DEF Prepared
  <2> QED BY <1>3, <2>4 DEF DeletePeering, Requested
<1>s. ASSUME NEW row \in SessionIn \cup {NoSession}, Begin(r, n, [session |-> row], TRUE)
      PROVE  Requested(r, n)
  <2> DEFINE w == [session |-> row]
  <2>1. /\ DOMAIN w = {"session"} /\ IsOn(w, DOMAIN w) /\ w["session"] = row
        /\ "session" \in Slots /\ "session" \notin Names
    BY NamesAssumption DEF IsOn, Slots
  <2>2. Distinct(rows[n]) => Distinct(After(rows[n], w))
    BY <1>r, <2>1 DEF Distinct, After, RowsFit, IsOn, Slots
  <2>3. Prepared(n, w, TRUE)
    BY <2>1, <2>2 DEF Prepared, Fits
  <2> QED BY <1>s, <2>3 DEF Requested
<1>4. CASE CreateSession(r, n)
  BY <1>4, <1>s DEF CreateSession
<1>5. CASE UpdateSession(r, n)
  BY <1>5, <1>s DEF UpdateSession
<1>6. CASE DeleteSession(r, n)
  BY <1>6, <1>s DEF DeleteSession
<1>i. ASSUME NEW i \in Names, NEW row \in InterfaceIn \cup {NoInterface},
             row.there => PortFree(n, i, row),
             Begin(r, n, [s \in {i} |-> row], TRUE)
      PROVE  Requested(r, n)
  <2> DEFINE w == [s \in {i} |-> row]
  <2>1. DOMAIN w = {i} /\ IsOn(w, DOMAIN w) /\ w[i] = row /\ i \in Slots
    BY DEF IsOn, Slots
  <2>2. Fits(n, i, row)
    BY NamesAssumption DEF Fits
  <2>3. Distinct(rows[n]) => Distinct(After(rows[n], w))
    BY <1>r, <1>i, <2>1 DEF Distinct, After, RowsFit, IsOn, Slots, PortFree
  <2>4. Prepared(n, w, TRUE)
    BY <2>1, <2>2, <2>3 DEF Prepared
  <2> QED BY <1>i, <2>4 DEF Requested
<1>7. ASSUME NEW i \in Names,
             CreateInterface(r, n, i) \/ UpdateInterface(r, n, i) \/ DeleteInterface(r, n, i)
      PROVE  Requested(r, n)
  BY <1>7, <1>i DEF CreateInterface, UpdateInterface, DeleteInterface, NoInterface
<1>8. CASE ProvisionPeering(r, n)
  <2>1. PICK p \in PeeringIn(n), i \in Names, row \in InterfaceIn, bgp \in {{}, {"session"}} :
          /\ PortFree(n, i, row)
          /\ Begin(r, n, [s \in {"peering", i} \cup bgp |->
                          CASE s = "peering" -> p
                            [] s = i -> row
                            [] OTHER -> [there |-> TRUE, peer |-> TRUE, on |-> TRUE]],
                   TRUE)
    BY <1>8 DEF ProvisionPeering
  <2> DEFINE w == [s \in {"peering", i} \cup bgp |->
                          CASE s = "peering" -> p
                            [] s = i -> row
                            [] OTHER -> [there |-> TRUE, peer |-> TRUE, on |-> TRUE]]
  <2>2. /\ DOMAIN w = {"peering", i} \cup bgp /\ IsOn(w, DOMAIN w) /\ DOMAIN w \subseteq Slots
        /\ i # "peering" /\ i # "session" /\ "session" \notin Names
    BY NamesAssumption DEF IsOn, Slots
  <2>3. /\ w["peering"] = p /\ w[i] = row
        /\ "session" \in bgp => w["session"] \in SessionIn
    BY <2>2 DEF SessionIn
  <2>4. \A s \in DOMAIN w : Fits(n, s, w[s])
    <3>1. Fits(n, i, row)
      BY NamesAssumption DEF Fits
    <3>2. "session" \in bgp => Fits(n, "session", w["session"])
      BY <2>2, <2>3 DEF Fits
    <3> QED BY <2>2, <2>3, <3>1, <3>2, PeeringFits
  <2>5. Distinct(rows[n]) => Distinct(After(rows[n], w))
    <3>1. \A j \in Names : After(rows[n], w)[j] = IF j = i THEN row ELSE rows[n][j]
      <4> HIDE DEF w
      <4> QED BY <1>r, <2>2, <2>3, NamesAssumption DEF After, RowsFit, IsOn, Slots
    <3> QED BY <2>1, <3>1 DEF Distinct, PortFree
  <2>6. Prepared(n, w, TRUE)
    <3> HIDE DEF w
    <3> QED BY <2>2, <2>4, <2>5 DEF Prepared
  <2> QED BY <2>1, <2>6 DEF Requested
<1>9. CASE PutPeeringFull(r, n)
  <2>1. PICK p \in PeeringIn(n), new \in {{}} \cup {{i} : i \in Names},
             bgp \in {{}, {"session"}}, port \in Ports :
          LET pruned == {s \in Slots \ ({"peering"} \cup new \cup bgp) :
                            rows[n]["peering"].there /\ rows[n][s].peer}
              item == [there |-> TRUE, peer |-> TRUE, on |-> TRUE, port |-> port]
          IN /\ \A i \in new, j \in Names \ (new \cup pruned) :
                   rows[n][j].on => rows[n][j].port # port
             /\ Begin(r, n, [s \in {"peering"} \cup new \cup bgp \cup pruned |->
                               CASE s = "peering" -> p
                                 [] s \in pruned -> None(s)
                                 [] s \in new -> item
                                 [] OTHER -> [there |-> TRUE, peer |-> TRUE, on |-> TRUE]],
                      TRUE)
    BY <1>9 DEF PutPeeringFull
  <2> DEFINE pruned == {s \in Slots \ ({"peering"} \cup new \cup bgp) :
                            rows[n]["peering"].there /\ rows[n][s].peer}
             item == [there |-> TRUE, peer |-> TRUE, on |-> TRUE, port |-> port]
             w == [s \in {"peering"} \cup new \cup bgp \cup pruned |->
                               CASE s = "peering" -> p
                                 [] s \in pruned -> None(s)
                                 [] s \in new -> item
                                 [] OTHER -> [there |-> TRUE, peer |-> TRUE, on |-> TRUE]]
  <2>2. /\ DOMAIN w = {"peering"} \cup new \cup bgp \cup pruned /\ IsOn(w, DOMAIN w)
        /\ new \subseteq Names /\ pruned \subseteq Slots /\ DOMAIN w \subseteq Slots
        /\ "peering" \notin Names /\ "session" \notin Names
        /\ "peering" \notin pruned
        /\ new \cap pruned = {} /\ bgp \cap pruned = {} /\ bgp \cap new = {}
    BY NamesAssumption DEF IsOn, Slots
  <2>3. /\ w["peering"] = p
        /\ \A s \in pruned : w[s] = None(s)
        /\ \A s \in new : w[s] = item
        /\ "session" \in bgp => w["session"] = [there |-> TRUE, peer |-> TRUE, on |-> TRUE]
    BY <2>2
  <2>4. item \in InterfaceIn /\ [there |-> TRUE, peer |-> TRUE, on |-> TRUE] \in SessionIn
    BY DEF InterfaceIn, SessionIn
  <2>5. \A i \in new, j \in Names \ (new \cup pruned) :
           rows[n][j].on => rows[n][j].port # port
    BY <2>1
  <2>6. Begin(r, n, w, TRUE)
    BY <2>1
  <2> HIDE DEF pruned, item, w
  <2>7. \A s \in DOMAIN w : Fits(n, s, w[s])
    <3>1. \A s \in new : Fits(n, s, w[s])
      BY <2>2, <2>3, <2>4 DEF Fits
    <3>2. "session" \in bgp => Fits(n, "session", w["session"])
      BY <2>2, <2>3, <2>4 DEF Fits
    <3>3. \A s \in pruned : Fits(n, s, w[s])
      BY <2>2, <2>3, NoneFits
    <3> QED BY <2>2, <2>3, <3>1, <3>2, <3>3, PeeringFits
  <2>8. Distinct(rows[n]) => Distinct(After(rows[n], w))
    <3>1. \A j \in Names : After(rows[n], w)[j] = IF j \in new THEN item
                              ELSE IF j \in pruned THEN NoInterface ELSE rows[n][j]
      BY <1>r, <2>2, <2>3, NamesAssumption DEF After, RowsFit, IsOn, Slots, None
    <3>2. item.port = port /\ ~NoInterface.there
      BY DEF item, NoInterface
    <3>3. \A i, j \in new : i = j
      OBVIOUS
    <3> QED BY <2>5, <3>1, <3>2, <3>3 DEF Distinct
  <2>9. Prepared(n, w, TRUE)
    BY <2>2, <2>7, <2>8 DEF Prepared
  <2> QED BY <2>6, <2>9 DEF Requested
<1>10. CASE BackfillPeerings(r, n)
  <2>1. PICK write \in PlannedPeerings(n) : Begin(r, n, write, FALSE)
    BY <1>10 DEF BackfillPeerings
  <2>2. PICK p \in PeeringIn(n), anchor \in Anchors(n) :
           /\ write = Adopted(n, p, {"session"} \cup anchor)
           /\ rows[n]["session"].there
    BY <2>1, PlannedShape
  <2> DEFINE orphans == {"session"} \cup anchor
  <2>3. /\ anchor \subseteq Names /\ \A i \in anchor : rows[n][i].there
        /\ "peering" \notin Names /\ "session" \notin Names
    BY NamesAssumption DEF Anchors
  <2>4. /\ DOMAIN write = {"peering"} \cup orphans /\ IsOn(write, DOMAIN write)
        /\ write["peering"] = p
        /\ \A s \in orphans : write[s] = [rows[n][s] EXCEPT !.peer = TRUE]
        /\ DOMAIN write \subseteq Slots
    BY <2>2, <2>3 DEF Adopted, IsOn, Slots
  <2>5. Fits(n, "session", write["session"])
    <3>1. rows[n]["session"] \in SessionIn
      BY <1>r, <2>2 DEF RowsFit, Fits, Slots, NoSession
    <3>2. write["session"] \in SessionIn
      BY <3>1, <2>4 DEF SessionIn
    <3> QED BY <3>2, <2>3 DEF Fits
  <2>6. \A i \in anchor : Fits(n, i, write[i])
    <3> SUFFICES ASSUME NEW i \in anchor PROVE Fits(n, i, write[i])
      OBVIOUS
    <3>0. i \in Names /\ i \in Slots /\ rows[n][i].there
      BY <2>3 DEF Slots
    <3>1. rows[n][i] \in InterfaceIn
      BY <1>r, <3>0 DEF RowsFit, Fits, NoInterface
    <3>2. write[i] \in InterfaceIn
      BY <3>1, <2>4 DEF InterfaceIn
    <3> QED BY <3>2, <2>3 DEF Fits
  <2>7. Prepared(n, write, FALSE)
    BY <2>3, <2>4, <2>5, <2>6, PeeringFits DEF Prepared
  <2> QED BY <2>1, <2>7 DEF Requested
<1> QED
  BY <1>1, <1>2, <1>3, <1>4, <1>5, <1>6, <1>7, <1>8, <1>9, <1>10 DEF Handle

(***************************************************************************)
(* Rows.                                                                   *)
(***************************************************************************)
(* A write of a row that is there (or not) as it was loaded yields a row   *)
(* of its slot.                                                            *)
LEMMA PatchFits ==
    ASSUME NEW n, NEW s \in Slots, NEW old, NEW found, NEW new,
           Fits(n, s, old), Fits(n, s, found), Fits(n, s, new),
           old.there = found.there
    PROVE  Fits(n, s, Patch(old, found, new)) /\ Patch(old, found, new).there = new.there
<1>1. CASE ~(found.there /\ new.there)
  BY <1>1 DEF Patch
<1>2. CASE found.there /\ new.there
  <2>0. PICK row : row = Patch(old, found, new)
    OBVIOUS
  <2>a. old.there
    BY <1>2, Zenon
  <2>1. row = [c \in DOMAIN new |-> IF new[c] # found[c] THEN new[c] ELSE old[c]]
    BY <1>2, <2>0 DEF Patch
  <2>2. CASE s = "peering"
    <3>1. old \in PeeringRow(n) /\ found \in PeeringRow(n) /\ new \in PeeringRow(n)
      BY <1>2, <2>a, <2>2 DEF Fits, NoPeering
    <3>2. DOMAIN new = {"there", "remote", "internal"}
      BY <3>1 DEF PeeringRow
    <3>3. row = [there |-> row.there, remote |-> row.remote, internal |-> row.internal]
      BY <2>1, <3>2
    <3>4. /\ row.there = TRUE /\ row.remote \in (Nodes \ {n}) \cup {External}
          /\ row.internal \in BOOLEAN
      BY <2>1, <3>1, <3>2 DEF PeeringRow
    <3>5. row \in PeeringRow(n)
      BY <3>3, <3>4 DEF PeeringRow
    <3> QED BY <1>2, <2>0, <2>2, <3>4, <3>5, NamesAssumption DEF Fits
  <2>3. CASE s = "session"
    <3>1. old \in SessionIn /\ found \in SessionIn /\ new \in SessionIn
      BY <1>2, <2>a, <2>3 DEF Fits, NoSession
    <3>2. DOMAIN new = {"there", "peer", "on"}
      BY <3>1 DEF SessionIn
    <3>3. row = [there |-> row.there, peer |-> row.peer, on |-> row.on]
      BY <2>1, <3>2
    <3>4. row.there = TRUE /\ row.peer \in BOOLEAN /\ row.on \in BOOLEAN
      BY <2>1, <3>1, <3>2 DEF SessionIn
    <3>5. row \in SessionIn
      BY <3>3, <3>4 DEF SessionIn
    <3> QED BY <1>2, <2>0, <2>3, <3>4, <3>5, NamesAssumption DEF Fits
  <2>4. CASE s \in Names
    <3>1. old \in InterfaceIn /\ found \in InterfaceIn /\ new \in InterfaceIn
      BY <1>2, <2>a, <2>4 DEF Fits, NoInterface
    <3>2. DOMAIN new = {"there", "peer", "on", "port"}
      BY <3>1 DEF InterfaceIn
    <3>3. row = [there |-> row.there, peer |-> row.peer, on |-> row.on, port |-> row.port]
      BY <2>1, <3>2
    <3>4. /\ row.there = TRUE /\ row.peer \in BOOLEAN /\ row.on \in BOOLEAN
          /\ row.port \in Ports
      BY <2>1, <3>1, <3>2 DEF InterfaceIn
    <3>5. row \in InterfaceIn
      BY <3>3, <3>4 DEF InterfaceIn
    <3> QED BY <1>2, <2>0, <2>4, <3>4, <3>5, NamesAssumption DEF Fits
  <2> QED BY <2>2, <2>3, <2>4 DEF Slots
<1> QED BY <1>1, <1>2

(* The rows a transaction sees and leaves.                                 *)
LEMMA WriteShape ==
    ASSUME NEW r, IsOn(r, Slots), NEW t
    PROVE  /\ IsOn(Write(r, t), Slots)
           /\ \A s \in Slots : Write(r, t)[s] = IF s \in DOMAIN t.write
                THEN Patch(r[s], t.found[s], t.write[s]) ELSE r[s]
<1>1. DOMAIN r = Slots
  BY DEF IsOn
<1> QED BY <1>1 DEF Write, IsOn

LEMMA WriteFits ==
    ASSUME NEW n, NEW r, RowsFit(n, r), NEW t, RowsFit(n, t.found),
           \A s \in DOMAIN t.write : Fits(n, s, t.write[s]),
           \A s \in DOMAIN t.write : r[s].there = t.found[s].there
    PROVE  RowsFit(n, Write(r, t))
<1>1. PICK w : w = Write(r, t)
  OBVIOUS
<1>2. /\ IsOn(w, Slots)
      /\ \A s \in Slots : w[s] = IF s \in DOMAIN t.write
                THEN Patch(r[s], t.found[s], t.write[s]) ELSE r[s]
  BY <1>1, WriteShape DEF RowsFit
<1>3. ASSUME NEW s \in Slots PROVE Fits(n, s, w[s])
  <2>1. CASE s \notin DOMAIN t.write
    BY <1>2, <2>1 DEF RowsFit
  <2>2. CASE s \in DOMAIN t.write
    <3>1. /\ Fits(n, s, r[s]) /\ Fits(n, s, t.found[s]) /\ Fits(n, s, t.write[s])
          /\ r[s].there = t.found[s].there
      BY <2>2 DEF RowsFit
    <3>2. Fits(n, s, Patch(r[s], t.found[s], t.write[s]))
      BY <3>1, PatchFits
    <3> QED BY <1>2, <2>2, <3>2
  <2> QED BY <2>1, <2>2
<1> QED BY <1>1, <1>2, <1>3 DEF RowsFit

LEMMA SetPeer ==
    ASSUME NEW x, NEW v
    PROVE  /\ x = [there |-> x.there, peer |-> x.peer, on |-> x.on]
              => [x EXCEPT !.peer = v] = [there |-> x.there, peer |-> v, on |-> x.on]
           /\ x = [there |-> x.there, peer |-> x.peer, on |-> x.on, port |-> x.port]
              => [x EXCEPT !.peer = v]
                  = [there |-> x.there, peer |-> v, on |-> x.on, port |-> x.port]
  OBVIOUS

(* The database detaches children of a peering that is gone: nothing else  *)
(* of a row changes.                                                       *)
LEMMA DetachedShape ==
    ASSUME NEW n, NEW r, RowsFit(n, r)
    PROVE  /\ RowsFit(n, Detached(r)) /\ Attached(Detached(r))
           /\ Detached(r)["peering"] = r["peering"]
           /\ \A s \in Slots : Detached(r)[s].there = r[s].there
           /\ \A s \in Slots \ {"peering"} :
                /\ Detached(r)[s].on = r[s].on
                /\ Detached(r)[s].peer = (r[s].peer /\ r["peering"].there)
           /\ \A i \in Names : Detached(r)[i].port = r[i].port
<1>f. "peering" \in Slots /\ "peering" \notin Names /\ "session" \notin Names /\ Names \subseteq Slots
  BY NamesAssumption DEF Slots
<1>t. r["peering"].there \in BOOLEAN
  <2>1. PICK x : x = r["peering"]
    OBVIOUS
  <2>2. x \in PeeringRow(n) \/ x = NoPeering
    BY <2>1, <1>f DEF RowsFit, Fits
  <2>3. CASE x \in PeeringRow(n)
    BY <2>1, <2>3 DEF PeeringRow
  <2>4. CASE x = NoPeering
    BY <2>1, <2>4 DEF NoPeering
  <2> QED BY <2>2, <2>3, <2>4
<1>b. \A s \in Slots \ {"peering"} :
        /\ r[s].peer \in BOOLEAN
        /\ [r[s] EXCEPT !.peer = FALSE].there = r[s].there
        /\ [r[s] EXCEPT !.peer = FALSE].on = r[s].on
        /\ [r[s] EXCEPT !.peer = FALSE].peer = FALSE
        /\ Fits(n, s, [r[s] EXCEPT !.peer = FALSE])
  <2> SUFFICES ASSUME NEW s \in Slots \ {"peering"}
               PROVE  /\ r[s].peer \in BOOLEAN
                      /\ [r[s] EXCEPT !.peer = FALSE].there = r[s].there
                      /\ [r[s] EXCEPT !.peer = FALSE].on = r[s].on
                      /\ [r[s] EXCEPT !.peer = FALSE].peer = FALSE
                      /\ Fits(n, s, [r[s] EXCEPT !.peer = FALSE])
    OBVIOUS
  <2>1. PICK x : x = r[s]
    OBVIOUS
  <2>2. CASE s = "session"
    <3>1. x \in SessionIn \cup {NoSession}
      BY <2>1, <2>2 DEF RowsFit, Fits
    <3>2. /\ x.peer \in BOOLEAN
          /\ [x EXCEPT !.peer = FALSE] \in SessionIn \cup {NoSession}
          /\ [x EXCEPT !.peer = FALSE].there = x.there
          /\ [x EXCEPT !.peer = FALSE].on = x.on
          /\ [x EXCEPT !.peer = FALSE].peer = FALSE
      <4>1. CASE x \in SessionIn
        <5>1. x = [there |-> x.there, peer |-> x.peer, on |-> x.on] /\ x.there = TRUE
          BY <4>1 DEF SessionIn
        <5>2. [x EXCEPT !.peer = FALSE] = [there |-> x.there, peer |-> FALSE, on |-> x.on]
          BY <5>1, SetPeer, Zenon
        <5> QED BY <4>1, <5>1, <5>2 DEF SessionIn
      <4>2. CASE x = NoSession
        <5>1. /\ x = [there |-> x.there, peer |-> x.peer, on |-> x.on] /\ x.peer = FALSE
              /\ x = [there |-> x.there, peer |-> FALSE, on |-> x.on]
          BY <4>2 DEF NoSession
        <5>2. [x EXCEPT !.peer = FALSE] = [there |-> x.there, peer |-> FALSE, on |-> x.on]
          BY <5>1, SetPeer, Zenon
        <5>3. [x EXCEPT !.peer = FALSE] = x
          BY <5>1, <5>2, Zenon
        <5> QED BY <4>2, <5>1, <5>3
      <4> QED BY <3>1, <4>1, <4>2
    <3> QED BY <2>1, <2>2, <3>2, <1>f DEF Fits
  <2>3. CASE s \in Names
    <3>1. x \in InterfaceIn \cup {NoInterface}
      BY <2>1, <2>3 DEF RowsFit, Fits
    <3>2. /\ x.peer \in BOOLEAN
          /\ [x EXCEPT !.peer = FALSE] \in InterfaceIn \cup {NoInterface}
          /\ [x EXCEPT !.peer = FALSE].there = x.there
          /\ [x EXCEPT !.peer = FALSE].on = x.on
          /\ [x EXCEPT !.peer = FALSE].peer = FALSE
      <4>1. CASE x \in InterfaceIn
        <5>1. x = [there |-> x.there, peer |-> x.peer, on |-> x.on, port |-> x.port] /\ x.there = TRUE
          BY <4>1 DEF InterfaceIn
        <5>2. [x EXCEPT !.peer = FALSE] = [there |-> x.there, peer |-> FALSE, on |-> x.on, port |-> x.port]
          BY <5>1, SetPeer, Zenon
        <5> QED BY <4>1, <5>1, <5>2 DEF InterfaceIn
      <4>2. CASE x = NoInterface
        <5>1. /\ x = [there |-> x.there, peer |-> x.peer, on |-> x.on, port |-> x.port] /\ x.peer = FALSE
              /\ x = [there |-> x.there, peer |-> FALSE, on |-> x.on, port |-> x.port]
          BY <4>2 DEF NoInterface
        <5>2. [x EXCEPT !.peer = FALSE] = [there |-> x.there, peer |-> FALSE, on |-> x.on, port |-> x.port]
          BY <5>1, SetPeer, Zenon
        <5>3. [x EXCEPT !.peer = FALSE] = x
          BY <5>1, <5>2, Zenon
        <5> QED BY <4>2, <5>1, <5>3
      <4> QED BY <3>1, <4>1, <4>2
    <3> QED BY <2>1, <2>3, <3>2, <1>f DEF Fits
  <2> QED BY <2>2, <2>3 DEF Slots
<1>p. \A i \in Names : [r[i] EXCEPT !.peer = FALSE].port = r[i].port
  BY <1>f DEF RowsFit, Fits, InterfaceIn, NoInterface
<1>1. CASE r["peering"].there
  BY <1>1, <1>b DEF Detached, Attached
<1>2. CASE ~r["peering"].there
  <2>1. PICK d : d = Detached(r)
    OBVIOUS
  <2>2. d = [s \in Slots |-> IF s = "peering" THEN r[s] ELSE [r[s] EXCEPT !.peer = FALSE]]
    BY <1>2, <2>1 DEF Detached
  <2>3. IsOn(d, Slots) /\ d["peering"] = r["peering"]
        /\ \A s \in Slots \ {"peering"} : d[s] = [r[s] EXCEPT !.peer = FALSE]
    BY <2>2, <1>f DEF IsOn
  <2>4. RowsFit(n, d)
    <3>1. \A s \in Slots : Fits(n, s, d[s])
      BY <2>3, <1>b DEF RowsFit
    <3> QED BY <2>3, <3>1 DEF RowsFit
  <2>5. \A s \in Slots \ {"peering"} : d[s].on = r[s].on /\ d[s].peer = FALSE
                                       /\ d[s].there = r[s].there
    BY <2>3, <1>b
  <2>6. Attached(d)
    BY <2>5 DEF Attached
  <2>7. \A i \in Names : d[i].port = r[i].port
    BY <2>3, <1>p, <1>f
  <2> QED BY <2>1, <2>3, <2>4, <2>5, <2>6, <2>7, <1>2, <1>t
<1> QED BY <1>1, <1>2

(***************************************************************************)
(* What each step does to the transactions.                                *)
(***************************************************************************)
Loaded(n, write, publishes, k, b) ==
    [phase |-> "loaded", node |-> n, write |-> write, found |-> rows[n],
     publishes |-> publishes, key |-> k, base |-> b,
     todo |-> {}, out |-> << >>, stale |-> FALSE]

Moved(t, p, d, x) ==
    [phase |-> p, node |-> t.node, write |-> t.write, found |-> t.found,
     publishes |-> t.publishes, key |-> t.key, base |-> t.base,
     todo |-> d, out |-> x, stale |-> t.stale]

Marked(t) == [t EXCEPT !.stale = TRUE]

LEMMA Open ==
    ASSUME ShapeInv, NEW o \in Owners
    PROVE  /\ txn[o] = Idle <=> txn[o].phase = "idle"
           /\ txn[o] # Idle => IsOpen(txn[o]) /\ OpenFits(o, txn[o])
  BY DEF ShapeInv, TxnFits, OpenFits, Idle

LEMMA MovedFields ==
    ASSUME NEW t, NEW p, NEW d, NEW x, NEW u, u = Moved(t, p, d, x)
    PROVE  /\ IsOpen(u) /\ u.phase = p /\ u.todo = d /\ u.out = x
           /\ u.node = t.node /\ u.write = t.write /\ u.found = t.found
           /\ u.publishes = t.publishes /\ u.key = t.key /\ u.base = t.base
           /\ u.stale = t.stale
  BY DEF Moved, IsOpen

(* Flushing and materializing keep a transaction well formed.              *)
LEMMA MovedFits ==
    ASSUME NEW o, NEW t, OpenFits(o, t), NEW d, d \subseteq Nodes,
           NEW x, IsOn(x, DOMAIN x), DOMAIN x \subseteq Nodes,
           NEW u, u = Moved(t, "flushed", d, x)
    PROVE  OpenFits(o, u) /\ IsOpen(u)
<1>1. /\ IsOpen(u) /\ u.phase = "flushed" /\ u.todo = d /\ u.out = x
      /\ u.node = t.node /\ u.write = t.write /\ u.found = t.found
      /\ u.publishes = t.publishes /\ u.key = t.key /\ u.base = t.base
      /\ u.stale = t.stale
  BY MovedFields
<1>2. /\ u.phase \in {"loaded", "flushed"} /\ u.phase # "loaded"
      /\ u.todo \subseteq Nodes /\ IsOn(u.out, DOMAIN u.out) /\ DOMAIN u.out \subseteq Nodes
  BY <1>1
<1>3. /\ u.node \in Nodes /\ u.base \in Nat
      /\ IsOn(u.write, DOMAIN u.write) /\ DOMAIN u.write \subseteq Slots
      /\ \A s \in DOMAIN u.write : Fits(u.node, s, u.write[s])
      /\ RowsFit(u.node, u.found)
  BY <1>1 DEF OpenFits
<1>4. /\ u.publishes \in BOOLEAN /\ u.stale \in BOOLEAN
      /\ o \in Requests => u.key = 0
      /\ o \in Nodes => /\ u.node = o /\ DOMAIN u.write = {} /\ ~u.publishes
                        /\ u.key \in 1..MaxKeys
  BY <1>1 DEF OpenFits
<1> QED BY <1>1, <1>2, <1>3, <1>4 DEF OpenFits

LEMMA SetStale ==
    ASSUME NEW t, IsOpen(t), NEW v, NEW u, u = [t EXCEPT !.stale = v]
    PROVE  /\ IsOpen(u) /\ u.stale = v
           /\ u.phase = t.phase /\ u.todo = t.todo /\ u.out = t.out
           /\ u.node = t.node /\ u.write = t.write /\ u.found = t.found
           /\ u.publishes = t.publishes /\ u.key = t.key /\ u.base = t.base
<1>1. u = [phase |-> t.phase, node |-> t.node, write |-> t.write, found |-> t.found,
         publishes |-> t.publishes, key |-> t.key, base |-> t.base,
         todo |-> t.todo, out |-> t.out, stale |-> v]
  BY DEF IsOpen
<1> QED BY <1>1 DEF IsOpen

LEMMA MarkedFields ==
    ASSUME NEW t, IsOpen(t), NEW u, u = Marked(t)
    PROVE  /\ IsOpen(u) /\ u.stale /\ u.stale \in BOOLEAN
           /\ u.phase = t.phase /\ u.todo = t.todo /\ u.out = t.out
           /\ u.node = t.node /\ u.write = t.write /\ u.found = t.found
           /\ u.publishes = t.publishes /\ u.key = t.key /\ u.base = t.base
<1>1. PICK v : v = TRUE
  OBVIOUS
<1>2. u = [t EXCEPT !.stale = v]
  BY <1>1, Zenon DEF Marked
<1> QED BY <1>1, <1>2, SetStale

(* Two fields set one after the other.                                     *)
LEMMA MovePhase ==
    ASSUME NEW t, IsOpen(t), NEW p, NEW d
    PROVE  [[t EXCEPT !.phase = p] EXCEPT !.todo = d] = Moved(t, p, d, t.out)
<1>1. PICK u : u = [t EXCEPT !.phase = p]
  OBVIOUS
<1>2. u = Moved(t, p, t.todo, t.out)
  BY <1>1 DEF IsOpen, Moved
<1>3. [u EXCEPT !.todo = d] = Moved(t, p, d, t.out)
  BY <1>2 DEF Moved
<1> QED BY <1>1, <1>3

LEMMA MoveOut ==
    ASSUME NEW t, IsOpen(t), NEW d, NEW x
    PROVE  [[t EXCEPT !.todo = d] EXCEPT !.out = x] = Moved(t, t.phase, d, x)
<1>1. PICK u : u = [t EXCEPT !.todo = d]
  OBVIOUS
<1>2. u = Moved(t, t.phase, d, t.out)
  BY <1>1 DEF IsOpen, Moved
<1>3. [u EXCEPT !.out = x] = Moved(t, t.phase, d, x)
  BY <1>2 DEF Moved
<1> QED BY <1>1, <1>3

LEMMA FlushEffect ==
    ASSUME ShapeInv, NEW r \in Requests, Flush(r)
    PROVE  /\ txn[r].phase = "loaded" /\ txn[r] # Idle
           /\ txn' = [txn EXCEPT ![r] = Moved(txn[r], "flushed",
                 IF txn[r].publishes THEN {txn[r].node} ELSE {}, txn[r].out)]
<1> DEFINE d == IF txn[r].publishes THEN {txn[r].node} ELSE {}
<1>1. r \in Owners /\ txn[r].phase = "loaded" /\ txn[r] # Idle
  BY DEF Flush, MayFlush, Owners, Idle
<1>2. IsOpen(txn[r])
  BY <1>1, Open
<1>3. txn' = [txn EXCEPT ![r].phase = "flushed", ![r].todo = d]
  BY DEF Flush
<1> HIDE DEF d
<1>4. txn' = [txn EXCEPT ![r] = [[txn[r] EXCEPT !.phase = "flushed"] EXCEPT !.todo = d]]
  BY <1>1, <1>3 DEF ShapeInv, IsOn
<1> QED BY <1>1, <1>2, <1>4, MovePhase, Zenon DEF d

LEMMA StoreEffect ==
    ASSUME ShapeInv, NEW n \in Nodes, StoreKey(n)
    PROVE  /\ txn[n].phase = "loaded" /\ txn[n] # Idle
           /\ txn' = [txn EXCEPT ![n] = Moved(txn[n], "flushed", Affected(n), txn[n].out)]
<1>1. n \in Owners /\ txn[n].phase = "loaded" /\ txn[n] # Idle
  BY DEF StoreKey, MayJudge, Owners, Idle
<1>2. IsOpen(txn[n])
  BY <1>1, Open
<1>3. txn' = [txn EXCEPT ![n] = [[txn[n] EXCEPT !.phase = "flushed"] EXCEPT !.todo = Affected(n)]]
  BY <1>1 DEF ShapeInv, IsOn, StoreKey
<1> QED BY <1>1, <1>2, <1>3, MovePhase, Zenon

(* The transaction has x, its snapshots with that of n.                    *)
Assembled(o, n, x) ==
    /\ IsOn(x, DOMAIN x) /\ DOMAIN x = DOMAIN txn[o].out \cup {n}
    /\ x[n] = AssembleSnapshot(RowsSeen(txn[o], n), KeysSeen(txn[o]))
    /\ \A m \in DOMAIN txn[o].out \ {n} : x[m] = txn[o].out[m]
    /\ txn' = [txn EXCEPT ![o] = Moved(txn[o], "flushed", txn[o].todo \ {n}, x)]

LEMMA MaterializeEffect ==
    ASSUME ShapeInv, NEW o \in Owners, NEW n \in Nodes, Materialize(o, n)
    PROVE  /\ txn[o].phase = "flushed" /\ txn[o] # Idle
           /\ \E x : Assembled(o, n, x)
<1>1. txn[o].phase = "flushed" /\ txn[o] # Idle
  BY DEF Materialize, MayMaterialize, Idle
<1>2. IsOpen(txn[o])
  BY <1>1, Open
<1> DEFINE a == AssembleSnapshot(RowsSeen(txn[o], n), KeysSeen(txn[o]))
           x == [m \in DOMAIN txn[o].out \cup {n} |-> IF m = n THEN a ELSE txn[o].out[m]]
<1>3. txn' = [txn EXCEPT ![o].todo = @ \ {n},
          ![o].out = [m \in DOMAIN @ \cup {n} |-> IF m = n THEN a ELSE @[m]]]
  BY DEF Materialize
<1> HIDE DEF a
<1>4. txn' = [txn EXCEPT ![o] = [[txn[o] EXCEPT !.todo = txn[o].todo \ {n}] EXCEPT !.out = x]]
  <2>1. [txn EXCEPT ![o].todo = @ \ {n}][o].out = txn[o].out
    BY <1>2 DEF ShapeInv, IsOn, IsOpen
  <2> QED BY <1>3, <2>1, Zenon DEF ShapeInv, IsOn
<1>5. IsOn(x, DOMAIN x) /\ DOMAIN x = DOMAIN txn[o].out \cup {n} /\ x[n] = a
      /\ \A m \in DOMAIN txn[o].out \ {n} : x[m] = txn[o].out[m]
  BY DEF IsOn
<1> HIDE DEF x
<1>6. PICK t : t = txn[o]
  OBVIOUS
<1>7. [[t EXCEPT !.todo = t.todo \ {n}] EXCEPT !.out = x] = Moved(t, t.phase, t.todo \ {n}, x)
  <2>1. IsOpen(t)
    BY <1>2, <1>6
  <2>2. PICK d, z : d = t.todo \ {n} /\ z = x
    OBVIOUS
  <2>3. [[t EXCEPT !.todo = d] EXCEPT !.out = z] = Moved(t, t.phase, d, z)
    BY <2>1, MoveOut, Zenon
  <2> QED BY <2>2, <2>3
<1>8. txn' = [txn EXCEPT ![o] = Moved(txn[o], "flushed", txn[o].todo \ {n}, x)]
  BY <1>1, <1>4, <1>6, <1>7
<1>9. Assembled(o, n, x)
  BY <1>5, <1>8 DEF a, Assembled
<1> QED BY <1>1, <1>9

(* A transaction is given up; an agent whose report it was is answered.    *)
Aborts(o) ==
    /\ txn[o] # Idle
    /\ Abort(o)
    /\ \/ UNCHANGED agents
       \/ o \in Nodes /\ Answered(o, "idle")
       \/ o \in Nodes /\ key[o] = txn[o].key /\ Answered(o, "accepted")

LEMMA NextCases ==
    ASSUME ShapeInv, [Next]_vars
    PROVE  \/ UNCHANGED vars
           \/ \E r \in Requests, n \in Nodes : Requested(r, n)
           \/ \E r \in Requests : Flush(r)
           \/ \E o \in Owners, n \in Nodes : Materialize(o, n)
           \/ \E o \in Owners : Aborts(o)
           \/ \E o \in Owners : Commit(o)
           \/ \E n \in Nodes : SyncWireguardKeys(n)
           \/ \E n \in Nodes : StoreKey(n)
           \/ \E n \in Nodes : PushKey(n) \/ LoseKeyFile(n) \/ RebuildGateway(n)
<1>0. Requests \subseteq Owners /\ Nodes \subseteq Owners
  BY DEF Owners
<1>1. ASSUME NEW r \in Requests, NEW n \in Nodes, Handle(r, n)
      PROVE  \E q \in Requests, m \in Nodes : Requested(q, m)
  BY <1>1, HandlersPrepare
<1>2. ASSUME NEW r \in Requests, Reject(r)
      PROVE  Aborts(r)
  BY <1>2 DEF Reject, Aborts, MayFlush, Idle
<1>3. ASSUME NEW o \in Owners, NEW n \in Nodes, UniqueViolation(o, n)
      PROVE  Aborts(o)
  BY <1>3 DEF UniqueViolation, MayMaterialize, Aborts, Idle
<1>4. ASSUME NEW o \in Owners, DeadlockAbort(o)
      PROVE  Aborts(o)
  BY <1>4 DEF DeadlockAbort, WaitsFor, Aborts, Idle
<1>5. ASSUME NEW n \in Nodes, MatchKey(n) \/ RejectKey(n)
      PROVE  Aborts(n)
  BY <1>5 DEF MatchKey, RejectKey, MayJudge, Aborts, Idle
<1> QED
  BY <1>0, <1>1, <1>2, <1>3, <1>4, <1>5 DEF Next, Progress, Agent

LEMMA CommitEffect ==
    ASSUME ShapeInv, NEW o \in Owners, Commit(o)
    PROVE  /\ o \in Flushed /\ txn[o] # Idle /\ txn[o].todo = {}
           /\ IsOn(txn', Owners) /\ txn'[o] = Idle
           /\ \A u \in Owners \ {o} :
                \/ txn'[u] = txn[u]
                \/ txn[u] # Idle /\ txn'[u] = Marked(txn[u])
           /\ \A u \in Owners \ {o} :
                txn[u] # Idle /\ Overtakes(txn[o], txn[u]) => txn'[u] = Marked(txn[u])
<1>1. txn[o].phase = "flushed" /\ txn[o].todo = {}
  BY DEF Commit
<1>2. txn' = [u \in Owners |->
                 IF u = o THEN Idle
                 ELSE IF txn[u] # Idle /\ Overtakes(txn[o], txn[u])
                      THEN Marked(txn[u]) ELSE txn[u]]
  BY DEF Commit, Marked
<1> QED BY <1>1, <1>2 DEF Flushed, IsOn, Idle

(* How a committed transaction changes the rows of its node.               *)
LEMMA CommittedRows ==
    ASSUME ShapeInv, WriteInv, NEW o \in Owners, Commit(o)
    PROVE  LET n == txn[o].node w == Write(rows[n], txn[o]) IN
           /\ n \in Nodes /\ RowsFit(n, w)
           /\ IsOn(rows', Nodes) /\ rows'[n] = Detached(w)
           /\ \A m \in Nodes \ {n} : rows'[m] = rows[m]
           /\ RowsFit(n, rows'[n]) /\ Attached(rows'[n])
           /\ \A s \in Slots \ DOMAIN txn[o].write : rows'[n][s].there = rows[n][s].there
<1>1. PICK t : t = txn[o]
  OBVIOUS
<1>2. PICK n : n = t.node
  OBVIOUS
<1>3. o \in Flushed /\ IsOpen(t) /\ OpenFits(o, t)
  BY <1>1, CommitEffect, Open
<1>4. n \in Nodes /\ RowsFit(n, rows[n]) /\ RowsFit(n, t.found)
      /\ \A s \in DOMAIN t.write : Fits(n, s, t.write[s])
  BY <1>2, <1>3 DEF OpenFits, ShapeInv
<1>5. \A s \in DOMAIN t.write : rows[n][s].there = t.found[s].there
  BY <1>1, <1>2, <1>3 DEF WriteInv
<1>6. PICK r : r = rows[n]
  OBVIOUS
<1>7. PICK w : w = Write(r, t)
  OBVIOUS
<1>8. RowsFit(n, w)
  BY <1>4, <1>5, <1>6, <1>7, WriteFits
<1>9. rows' = [rows EXCEPT ![n] = Detached(w)]
  BY <1>1, <1>2, <1>6, <1>7 DEF Commit
<1>10. IsOn(rows', Nodes) /\ rows'[n] = Detached(w) /\ \A m \in Nodes \ {n} : rows'[m] = rows[m]
  BY <1>4, <1>9 DEF ShapeInv, IsOn
<1>11. RowsFit(n, Detached(w)) /\ Attached(Detached(w))
  BY <1>8, DetachedShape, ZenonT(30)
<1>12. \A s \in Slots \ DOMAIN t.write : w[s] = r[s]
  <2>1. IsOn(r, Slots)
    BY <1>4, <1>6 DEF RowsFit
  <2>2. \A s \in Slots : w[s] = IF s \in DOMAIN t.write
                THEN Patch(r[s], t.found[s], t.write[s]) ELSE r[s]
    BY <1>7, <2>1, WriteShape
  <2> QED BY <2>2
<1>13. \A s \in Slots : Detached(w)[s].there = w[s].there
  BY <1>8, DetachedShape, ZenonT(30)
<1>14. \A s \in Slots \ DOMAIN t.write : rows'[n][s].there = rows[n][s].there
  BY <1>6, <1>10, <1>12, <1>13
<1> QED BY <1>1, <1>2, <1>4, <1>6, <1>7, <1>8, <1>10, <1>11, <1>14

LEMMA ShapeStep ==
    ASSUME ShapeInv, AgentInv, WriteInv, [Next]_vars
    PROVE  ShapeInv'
<1>0. /\ Requests \subseteq Owners /\ Nodes \subseteq Owners /\ Requests \cap Nodes = {}
      /\ DOMAIN << >> = {} /\ IsOn(<< >>, {})
  BY OwnersAssumption DEF Owners, IsOn
<1>1. ASSUME UNCHANGED <<rows, gen, snap, txn, lock, share>>
      PROVE  ShapeInv'
  BY <1>1 DEF ShapeInv, IsOn
<1>2. ASSUME UNCHANGED <<rows, gen, snap>>,
             lock' \in [Nodes -> Owners \cup {Nobody}], share' \in [Nodes -> SUBSET Owners],
             NEW o \in Owners, NEW t, TxnFits(o, t), txn' = [txn EXCEPT ![o] = t]
      PROVE  ShapeInv'
  <2>1. IsOn(txn', Owners) /\ \A u \in Owners : TxnFits(u, txn'[u])
    BY <1>2 DEF ShapeInv, IsOn
  <2> QED BY <1>2, <2>1 DEF ShapeInv, IsOn
<1>3. CASE UNCHANGED vars
  BY <1>3, <1>1 DEF vars, database
<1>4. ASSUME NEW r \in Requests, NEW n \in Nodes, Requested(r, n)
      PROVE  ShapeInv'
  <2>1. PICK w, p : Prepared(n, w, p) /\ Begin(r, n, w, p)
    BY <1>4 DEF Requested
  <2>2. PICK t : t = Loaded(n, w, p, 0, gen[n])
    OBVIOUS
  <2>3. txn' = [txn EXCEPT ![r] = t] /\ UNCHANGED <<rows, gen, snap, lock, share>>
    BY <2>1, <2>2 DEF Begin, Loaded
  <2>4. /\ IsOpen(t) /\ t.phase = "loaded" /\ t.node = n /\ t.write = w /\ t.found = rows[n]
        /\ t.publishes = p /\ t.key = 0 /\ t.base = gen[n] /\ t.todo = {} /\ t.out = << >>
        /\ t.stale = FALSE
    BY <2>2 DEF Loaded, IsOpen
  <2>5. OpenFits(r, t)
    <3>1. /\ IsOn(w, DOMAIN w) /\ DOMAIN w \subseteq Slots
          /\ p \in BOOLEAN
          /\ \A s \in DOMAIN w : Fits(n, s, w[s])
      BY <2>1 DEF Prepared
    <3>2. RowsFit(n, rows[n]) /\ gen[n] \in Nat
      BY <1>4 DEF ShapeInv
    <3>3. r \notin Nodes
      BY <1>0, <1>4
    <3>4. /\ t.phase \in {"loaded", "flushed"} /\ t.node \in Nodes /\ t.base \in Nat
          /\ IsOn(t.write, DOMAIN t.write) /\ DOMAIN t.write \subseteq Slots
          /\ \A s \in DOMAIN t.write : Fits(t.node, s, t.write[s])
          /\ RowsFit(t.node, t.found)
      BY <1>4, <2>4, <3>1, <3>2
    <3>5. t.todo \subseteq Nodes /\ t.todo = {}
      BY <2>4
    <3>6. DOMAIN t.out = {} /\ IsOn(t.out, DOMAIN t.out) /\ DOMAIN t.out \subseteq Nodes
      BY <1>0, <2>4
    <3>7. t.publishes \in BOOLEAN /\ t.stale \in BOOLEAN /\ t.key = 0
      BY <2>4, <3>1
    <3> QED BY <3>3, <3>4, <3>5, <3>6, <3>7 DEF OpenFits
  <2>6. lock' \in [Nodes -> Owners \cup {Nobody}] /\ share' \in [Nodes -> SUBSET Owners]
    BY <2>3 DEF ShapeInv
  <2>7. TxnFits(r, t)
    BY <2>4, <2>5 DEF TxnFits
  <2> QED BY <1>0, <1>2, <2>3, <2>6, <2>7
<1>5. ASSUME NEW r \in Requests, Flush(r)
      PROVE  ShapeInv'
  <2>1. PICK d : d = IF txn[r].publishes THEN {txn[r].node} ELSE {}
    OBVIOUS
  <2>2. PICK t : t = Moved(txn[r], "flushed", d, txn[r].out)
    OBVIOUS
  <2>3. txn[r] # Idle /\ txn' = [txn EXCEPT ![r] = t]
    BY <1>5, <2>1, <2>2, FlushEffect
  <2>4. OpenFits(r, txn[r])
    BY <2>3, <1>0, Open
  <2>5. OpenFits(r, t) /\ IsOpen(t)
    <3>1. d \subseteq Nodes
      BY <2>1, <2>4 DEF OpenFits
    <3>2. IsOn(txn[r].out, DOMAIN txn[r].out) /\ DOMAIN txn[r].out \subseteq Nodes
      BY <2>4 DEF OpenFits
    <3> QED BY <2>2, <2>4, <3>1, <3>2, MovedFits
  <2>6. lock' \in [Nodes -> Owners \cup {Nobody}] /\ share' \in [Nodes -> SUBSET Owners]
    BY <1>0, <1>5 DEF Flush, ShapeInv
  <2>7. TxnFits(r, t) /\ UNCHANGED <<rows, gen, snap>>
    BY <1>5, <2>5 DEF TxnFits, Flush
  <2> QED BY <1>0, <1>2, <2>3, <2>6, <2>7
<1>6. ASSUME NEW o \in Owners, NEW n \in Nodes, Materialize(o, n)
      PROVE  ShapeInv'
  <2>0. PICK x : Assembled(o, n, x)
    BY <1>6, MaterializeEffect
  <2>1. /\ IsOn(x, DOMAIN x) /\ DOMAIN x = DOMAIN txn[o].out \cup {n}
        /\ txn' = [txn EXCEPT ![o] = Moved(txn[o], "flushed", txn[o].todo \ {n}, x)]
    BY <2>0 DEF Assembled
  <2>2. PICK t : t = Moved(txn[o], "flushed", txn[o].todo \ {n}, x)
    OBVIOUS
  <2>3. txn[o] # Idle
    BY <1>6, MaterializeEffect
  <2>4. OpenFits(o, txn[o])
    BY <2>3, Open
  <2>5. OpenFits(o, t) /\ IsOpen(t)
    <3>1. txn[o].todo \ {n} \subseteq Nodes /\ DOMAIN x \subseteq Nodes
      BY <1>6, <2>1, <2>4 DEF OpenFits
    <3> QED BY <2>1, <2>2, <2>4, <3>1, MovedFits
  <2>6. lock' \in [Nodes -> Owners \cup {Nobody}] /\ share' \in [Nodes -> SUBSET Owners]
    BY <1>6 DEF Materialize, ShapeInv
  <2>7. TxnFits(o, t) /\ UNCHANGED <<rows, gen, snap>> /\ txn' = [txn EXCEPT ![o] = t]
    BY <1>6, <2>1, <2>2, <2>5 DEF TxnFits, Materialize
  <2> QED BY <1>2, <2>6, <2>7
<1>a. ASSUME NEW o \in Owners, Release(o)
      PROVE  lock' \in [Nodes -> Owners \cup {Nobody}] /\ share' \in [Nodes -> SUBSET Owners]
  BY <1>a DEF Release, ShapeInv
<1>7. ASSUME NEW o \in Owners, Aborts(o)
      PROVE  ShapeInv'
  <2>1. TxnFits(o, Idle)
    BY DEF TxnFits
  <2>2. txn' = [txn EXCEPT ![o] = Idle] /\ Release(o) /\ UNCHANGED <<rows, gen, snap>>
    BY <1>7 DEF Aborts, Abort
  <2> QED BY <1>2, <1>a, <2>1, <2>2
<1>8. ASSUME NEW o \in Owners, Commit(o)
      PROVE  ShapeInv'
  <2>1. lock' \in [Nodes -> Owners \cup {Nobody}] /\ share' \in [Nodes -> SUBSET Owners]
    BY <1>8, <1>a DEF Commit
  <2>2. IsOn(snap', Nodes) /\ gen' \in [Nodes -> Nat]
    BY <1>8 DEF Commit, ShapeInv, IsOn
  <2>3. IsOn(rows', Nodes) /\ \A n \in Nodes : RowsFit(n, rows'[n]) /\ Attached(rows'[n])
    BY <1>8, CommittedRows DEF ShapeInv
  <2>4. IsOn(txn', Owners)
    BY <1>8, CommitEffect
  <2>5. ASSUME NEW u \in Owners PROVE TxnFits(u, txn'[u])
    <3>1. CASE u = o
      BY <1>8, <3>1, CommitEffect DEF TxnFits
    <3>2. CASE u # o /\ txn'[u] = txn[u]
      BY <3>2 DEF ShapeInv
    <3>3. CASE u # o /\ txn[u] # Idle /\ txn'[u] = Marked(txn[u])
      <4>1. IsOpen(txn[u]) /\ OpenFits(u, txn[u])
        BY <3>3, Open
      <4>2. PICK t, v : t = txn[u] /\ v = Marked(t)
        OBVIOUS
      <4>a. /\ IsOpen(v) /\ v.phase = t.phase /\ v.todo = t.todo /\ v.out = t.out
            /\ v.node = t.node /\ v.write = t.write /\ v.found = t.found
            /\ v.publishes = t.publishes /\ v.key = t.key /\ v.base = t.base
            /\ v.stale \in BOOLEAN
        <5>1. IsOpen(t)
          BY <4>1, <4>2
        <5> QED BY <4>2, <5>1, MarkedFields
      <4>3. IsOpen(v) /\ OpenFits(u, v)
        BY <4>1, <4>2, <4>a DEF OpenFits
      <4> QED BY <3>3, <4>2, <4>3 DEF TxnFits
    <3> QED BY <1>8, <3>1, <3>2, <3>3, CommitEffect
  <2> QED BY <2>1, <2>2, <2>3, <2>4, <2>5 DEF ShapeInv
<1>9. ASSUME NEW n \in Nodes, SyncWireguardKeys(n)
      PROVE  ShapeInv'
  <2>1. PICK k : k = keyfile'[n]
    OBVIOUS
  <2>2. k \in 1..MaxKeys
    BY <1>9, <2>1, BoundsAssumption DEF SyncWireguardKeys, EnsureNodePrivateKey, AgentInv
  <2>3. PICK t : t = Loaded(n, << >>, FALSE, k, 0)
    OBVIOUS
  <2>4. txn' = [txn EXCEPT ![n] = t] /\ UNCHANGED <<rows, gen, snap, lock, share>>
    BY <1>9, <2>1, <2>3 DEF SyncWireguardKeys, Loaded
  <2>5. /\ IsOpen(t) /\ t.phase = "loaded" /\ t.node = n /\ t.write = << >> /\ t.found = rows[n]
        /\ t.publishes = FALSE /\ t.key = k /\ t.base = 0 /\ t.todo = {} /\ t.out = << >>
        /\ t.stale = FALSE
    BY <2>3 DEF Loaded, IsOpen
  <2>a. /\ DOMAIN t.write = {} /\ IsOn(t.write, DOMAIN t.write)
        /\ DOMAIN t.out = {} /\ IsOn(t.out, DOMAIN t.out)
        /\ t.publishes \in BOOLEAN /\ ~t.publishes /\ t.stale \in BOOLEAN
    BY <1>0, <2>5
  <2>6. OpenFits(n, t)
    BY <1>0, <2>2, <2>5, <2>a DEF OpenFits, ShapeInv
  <2>7. lock' \in [Nodes -> Owners \cup {Nobody}] /\ share' \in [Nodes -> SUBSET Owners]
    BY <2>4 DEF ShapeInv
  <2>8. TxnFits(n, t)
    BY <2>5, <2>6 DEF TxnFits
  <2> QED BY <1>0, <1>2, <2>4, <2>7, <2>8
<1>10. ASSUME NEW n \in Nodes, StoreKey(n)
      PROVE  ShapeInv'
  <2>1. PICK d : d = Affected(n)
    OBVIOUS
  <2>2. PICK t : t = Moved(txn[n], "flushed", d, txn[n].out)
    OBVIOUS
  <2>3. txn[n] # Idle /\ txn' = [txn EXCEPT ![n] = t]
    BY <1>10, <2>1, <2>2, StoreEffect
  <2>4. OpenFits(n, txn[n])
    BY <2>3, <1>0, Open
  <2>5. OpenFits(n, t) /\ IsOpen(t)
    <3>1. d \subseteq Nodes
      BY <2>1 DEF Affected
    <3>2. IsOn(txn[n].out, DOMAIN txn[n].out) /\ DOMAIN txn[n].out \subseteq Nodes
      BY <2>4 DEF OpenFits
    <3> QED BY <2>2, <2>4, <3>1, <3>2, MovedFits
  <2>6. lock' \in [Nodes -> Owners \cup {Nobody}] /\ share' \in [Nodes -> SUBSET Owners]
    BY <1>0, <1>10 DEF StoreKey, ShapeInv
  <2>7. TxnFits(n, t) /\ UNCHANGED <<rows, gen, snap>>
    BY <1>10, <2>5 DEF TxnFits, StoreKey
  <2> QED BY <1>0, <1>2, <2>3, <2>6, <2>7
<1>11. ASSUME NEW n \in Nodes, PushKey(n) \/ LoseKeyFile(n) \/ RebuildGateway(n)
      PROVE  ShapeInv'
  BY <1>11, <1>1 DEF PushKey, LoseKeyFile, RebuildGateway, database
<1> QED
  BY <1>3, <1>4, <1>5, <1>6, <1>7, <1>8, <1>9, <1>10, <1>11, NextCases

(***************************************************************************)
(* Keys.                                                                   *)
(***************************************************************************)
(* A commit stores at most one key, that of the node which reports it.     *)
LEMMA CommittedKeys ==
    ASSUME ShapeInv, AgentInv, NEW o \in Owners, Commit(o)
    PROVE  /\ key' \in [Nodes -> 0..MaxKeys]
           /\ o \in Requests => key' = key
           /\ o \in Nodes => key'[o] = txn[o].key /\ \A m \in Nodes \ {o} : key'[m] = key[m]
<1>1. PICK t : t = txn[o]
  OBVIOUS
<1>2. OpenFits(o, t)
  BY <1>1, CommitEffect, Open
<1>3. key' = IF t.key # 0 THEN [key EXCEPT ![t.node] = t.key] ELSE key
  BY <1>1 DEF Commit, KeysSeen
<1>4. CASE o \in Requests
  BY <1>2, <1>3, <1>4, OwnersAssumption DEF OpenFits, AgentInv
<1>5. CASE o \in Nodes
  BY <1>1, <1>2, <1>3, <1>5, OwnersAssumption, BoundsAssumption DEF OpenFits, AgentInv
<1> QED BY <1>4, <1>5 DEF Owners

LEMMA AgentStep ==
    ASSUME ShapeInv, AgentInv, [Next]_vars
    PROVE  AgentInv'
<1>1. ASSUME UNCHANGED <<key, agents>>
      PROVE  AgentInv'
  BY <1>1 DEF AgentInv, agents
<1>2. ASSUME NEW n \in Nodes, NEW a \in {"idle", "accepted"}, Answered(n, a),
             key' \in [Nodes -> 0..MaxKeys]
      PROVE  AgentInv'
  BY <1>2 DEF AgentInv, Answered
<1>3. CASE UNCHANGED vars
  BY <1>3, <1>1 DEF vars, database
<1>4. ASSUME NEW r \in Requests, NEW n \in Nodes, Requested(r, n)
      PROVE  AgentInv'
  BY <1>4, <1>1 DEF Requested, Begin
<1>5. ASSUME NEW r \in Requests, Flush(r)
      PROVE  AgentInv'
  BY <1>5, <1>1 DEF Flush
<1>6. ASSUME NEW o \in Owners, NEW n \in Nodes, Materialize(o, n)
      PROVE  AgentInv'
  BY <1>6, <1>1 DEF Materialize
<1>7. ASSUME NEW o \in Owners, Aborts(o)
      PROVE  AgentInv'
  <2>1. key' = key /\ key' \in [Nodes -> 0..MaxKeys]
    BY <1>7 DEF Aborts, Abort, AgentInv
  <2> QED BY <1>7, <1>1, <1>2, <2>1 DEF Aborts
<1>8. ASSUME NEW o \in Owners, Commit(o)
      PROVE  AgentInv'
  <2>1. key' \in [Nodes -> 0..MaxKeys]
    BY <1>8, CommittedKeys
  <2>2. CASE o \in Nodes
    BY <1>8, <2>1, <2>2, <1>2 DEF Commit
  <2>3. CASE o \notin Nodes
    <3>1. UNCHANGED agents
      BY <1>8, <2>3 DEF Commit
    <3> QED BY <2>1, <3>1 DEF AgentInv, agents
  <2> QED BY <2>2, <2>3
<1>9. ASSUME NEW n \in Nodes, SyncWireguardKeys(n)
      PROVE  AgentInv'
  BY <1>9, BoundsAssumption DEF SyncWireguardKeys, EnsureNodePrivateKey, AgentInv
<1>10. ASSUME NEW n \in Nodes, StoreKey(n)
      PROVE  AgentInv'
  BY <1>10, <1>1 DEF StoreKey
<1>11. ASSUME NEW n \in Nodes, PushKey(n) \/ LoseKeyFile(n) \/ RebuildGateway(n)
      PROVE  AgentInv'
  BY <1>11, BoundsAssumption DEF PushKey, LoseKeyFile, RebuildGateway, database, AgentInv
<1> QED
  BY <1>3, <1>4, <1>5, <1>6, <1>7, <1>8, <1>9, <1>10, <1>11, NextCases

LEMMA ReportStep ==
    ASSUME ShapeInv, AgentInv, ReportInv, TunnelKeysAgree, [Next]_vars
    PROVE  ReportInv' /\ TunnelKeysAgree'
<1>0. /\ Requests \subseteq Owners /\ Nodes \subseteq Owners
      /\ \A r \in Requests, n \in Nodes : r # n
      /\ \A n \in Nodes : txn[n] = Idle <=> txn[n].phase = "idle"
      /\ Idle.phase = "idle"
  BY OwnersAssumption, Open DEF Owners, Idle
<1>1. ASSUME \A n \in Nodes : txn'[n] = txn[n], UNCHANGED <<key, agents>>
      PROVE  ReportInv' /\ TunnelKeysAgree'
  BY <1>1 DEF ReportInv, TunnelKeysAgree, agents
<1>2. CASE UNCHANGED vars
  BY <1>2, <1>1 DEF vars, database
<1>3. ASSUME NEW r \in Requests, NEW n \in Nodes, Requested(r, n)
      PROVE  ReportInv' /\ TunnelKeysAgree'
  BY <1>3, <1>1, <1>0 DEF Requested, Begin
<1>4. ASSUME NEW r \in Requests, Flush(r)
      PROVE  ReportInv' /\ TunnelKeysAgree'
  <2>0. \E t : txn' = [txn EXCEPT ![r] = t]
    BY <1>4, FlushEffect
  <2>1. \A n \in Nodes : txn'[n] = txn[n]
    BY <2>0, <1>0 DEF ShapeInv, IsOn
  <2> QED BY <1>4, <1>1, <2>1 DEF Flush
<1>5. ASSUME NEW o \in Owners, NEW n \in Nodes, Materialize(o, n)
      PROVE  ReportInv' /\ TunnelKeysAgree'
  <2>0. PICK x : Assembled(o, n, x)
    BY <1>5, MaterializeEffect
  <2>1. /\ IsOn(x, DOMAIN x) /\ DOMAIN x = DOMAIN txn[o].out \cup {n}
        /\ txn' = [txn EXCEPT ![o] = Moved(txn[o], "flushed", txn[o].todo \ {n}, x)]
    BY <2>0 DEF Assembled
  <2>2. PICK t : t = Moved(txn[o], "flushed", txn[o].todo \ {n}, x)
    OBVIOUS
  <2>a. t.phase = "flushed" /\ t.key = txn[o].key
    BY <2>2, MovedFields
  <2>3. t.phase = "flushed" /\ t.key = txn[o].key /\ txn[o].phase = "flushed" /\ txn[o] # Idle
    BY <1>5, <2>a, MaterializeEffect
  <2>4. \A m \in Nodes : /\ txn'[m] # Idle => txn[m] # Idle
                         /\ txn'[m].key = txn[m].key /\ txn'[m].phase = txn[m].phase
    BY <2>1, <2>2, <2>3, <1>0 DEF ShapeInv, IsOn
  <2>5. UNCHANGED <<key, agents>>
    BY <1>5 DEF Materialize
  <2> QED BY <2>4, <2>5 DEF ReportInv, TunnelKeysAgree, agents
<1>6. ASSUME NEW o \in Owners, Aborts(o)
      PROVE  ReportInv' /\ TunnelKeysAgree'
  <2>1. /\ txn' = [txn EXCEPT ![o] = Idle] /\ key' = key /\ txn[o] # Idle
    BY <1>6 DEF Aborts, Abort
  <2>2. \A m \in Nodes : txn'[m] = IF m = o THEN Idle ELSE txn[m]
    BY <2>1, <1>0 DEF ShapeInv, IsOn
  <2>3. CASE UNCHANGED agents
    BY <2>1, <2>2, <2>3, <1>0 DEF ReportInv, TunnelKeysAgree, agents
  <2>4. ASSUME o \in Nodes, NEW a \in {"idle", "accepted"}, Answered(o, a),
               a = "accepted" => key[o] = txn[o].key
        PROVE  ReportInv' /\ TunnelKeysAgree'
    BY <2>1, <2>2, <2>4, <1>0 DEF ReportInv, TunnelKeysAgree, Answered, AgentInv
  <2> QED BY <1>6, <2>3, <2>4 DEF Aborts
<1>7. ASSUME NEW o \in Owners, Commit(o)
      PROVE  ReportInv' /\ TunnelKeysAgree'
  <2>1. o \in Flushed /\ txn[o] # Idle /\ txn'[o] = Idle /\ txn[o].phase = "flushed"
    BY <1>7, CommitEffect DEF Flushed
  <2>2. ASSUME NEW m \in Nodes \ {o}
        PROVE  /\ txn'[m] # Idle => txn[m] # Idle
               /\ txn[m] # Idle => txn'[m].key = txn[m].key
               /\ txn'[m].phase = txn[m].phase
    <3>1. CASE txn'[m] = txn[m]
      BY <3>1
    <3>2. CASE txn[m] # Idle /\ txn'[m] = Marked(txn[m])
      <4>1. PICK t, v : t = txn[m] /\ v = Marked(t)
        OBVIOUS
      <4>2. IsOpen(t)
        BY <3>2, <4>1, <1>0, Open
      <4> QED BY <3>2, <4>1, <4>2, MarkedFields
    <3> QED BY <1>7, <3>1, <3>2, <1>0, CommitEffect
  <2>3. CASE o \in Requests
    <3>1. key' = key /\ UNCHANGED agents
      BY <1>7, <1>0, <2>3, CommittedKeys DEF Commit
    <3> QED BY <2>2, <2>3, <3>1, <1>0 DEF ReportInv, TunnelKeysAgree, agents
  <2>4. CASE o \in Nodes
    <3>1. /\ key'[o] = txn[o].key /\ \A m \in Nodes \ {o} : key'[m] = key[m]
          /\ \E a \in {"accepted", "idle"} : agent' = [agent EXCEPT ![o] = a]
          /\ UNCHANGED <<keyfile, gateway>>
      BY <1>7, <2>4, CommittedKeys DEF Commit, Answered
    <3>2. gateway[o] = 0 /\ keyfile[o] \in {0, txn[o].key}
      BY <2>1, <2>4 DEF ReportInv, TunnelKeysAgree
    <3>3. TunnelKeysAgree'
      BY <3>1, <3>2 DEF TunnelKeysAgree
    <3>4. ReportInv'
      BY <2>1, <2>2, <2>4, <3>1, <3>2, <1>0 DEF ReportInv, AgentInv
    <3> QED BY <3>3, <3>4
  <2> QED BY <2>3, <2>4 DEF Owners
<1>8. ASSUME NEW n \in Nodes, SyncWireguardKeys(n)
      PROVE  ReportInv' /\ TunnelKeysAgree'
  <2>1. PICK t : t = Loaded(n, << >>, FALSE, keyfile'[n], 0)
    OBVIOUS
  <2>2. txn' = [txn EXCEPT ![n] = t] /\ t.key = keyfile'[n] /\ t.phase = "loaded"
    BY <1>8, <2>1 DEF SyncWireguardKeys, Loaded
  <2>3. \A m \in Nodes : txn'[m] = IF m = n THEN t ELSE txn[m]
    BY <2>2, <1>0 DEF ShapeInv, IsOn
  <2>4. /\ agent' = [agent EXCEPT ![n] = "reporting"]
        /\ \A m \in Nodes \ {n} : keyfile'[m] = keyfile[m]
        /\ UNCHANGED <<key, gateway>>
    BY <1>8 DEF SyncWireguardKeys, EnsureNodePrivateKey, AgentInv
  <2> QED BY <2>2, <2>3, <2>4, <1>0 DEF ReportInv, TunnelKeysAgree, AgentInv
<1>9. ASSUME NEW n \in Nodes, StoreKey(n)
      PROVE  ReportInv' /\ TunnelKeysAgree'
  <2>1. PICK t : t = Moved(txn[n], "flushed", Affected(n), txn[n].out)
    OBVIOUS
  <2>2. txn[n] # Idle /\ txn' = [txn EXCEPT ![n] = t]
    BY <1>9, <2>1, StoreEffect
  <2>3. t.key = txn[n].key
    BY <2>1, MovedFields
  <2>4. \A m \in Nodes : txn'[m] = IF m = n THEN t ELSE txn[m]
    BY <2>2, <1>0 DEF ShapeInv, IsOn
  <2>5. key[n] = 0 /\ UNCHANGED <<key, keyfile, gateway, agent>>
    BY <1>9 DEF StoreKey, agents
  <2> QED BY <2>2, <2>3, <2>4, <2>5 DEF ReportInv, TunnelKeysAgree
<1>10. ASSUME NEW n \in Nodes, PushKey(n) \/ LoseKeyFile(n) \/ RebuildGateway(n)
      PROVE  ReportInv' /\ TunnelKeysAgree'
  <2>1. UNCHANGED <<txn, key>>
    BY <1>10 DEF PushKey, LoseKeyFile, RebuildGateway, database
  <2>2. CASE PushKey(n)
    BY <2>1, <2>2 DEF PushKey, ReportInv, TunnelKeysAgree, AgentInv
  <2>3. CASE LoseKeyFile(n) \/ RebuildGateway(n)
    BY <2>1, <2>3 DEF LoseKeyFile, RebuildGateway, ReportInv, TunnelKeysAgree, AgentInv
  <2> QED BY <1>10, <2>2, <2>3
<1> QED
  BY <1>2, <1>3, <1>4, <1>5, <1>6, <1>7, <1>8, <1>9, <1>10, NextCases

(***************************************************************************)
(* Locks.                                                                  *)
(***************************************************************************)
(* The transactions other than o after a step of o.                        *)
Others(o) ==
    \A u \in Owners \ {o} :
        /\ txn'[u].phase = txn[u].phase
        /\ txn[u] # Idle =>
             /\ txn'[u].node = txn[u].node /\ txn'[u].write = txn[u].write
             /\ txn'[u].found = txn[u].found /\ txn'[u].publishes = txn[u].publishes
             /\ txn'[u].key = txn[u].key /\ txn'[u].base = txn[u].base
             /\ txn'[u].todo = txn[u].todo /\ txn'[u].out = txn[u].out

LEMMA SetOthers ==
    ASSUME ShapeInv, NEW o \in Owners, NEW t, txn' = [txn EXCEPT ![o] = t]
    PROVE  Others(o) /\ txn'[o] = t /\ \A u \in Owners \ {o} : txn'[u] = txn[u]
  BY DEF Others, ShapeInv, IsOn

LEMMA CommitOthers ==
    ASSUME ShapeInv, NEW o \in Owners, Commit(o)
    PROVE  Others(o) /\ \A u \in Owners \ {o} : txn'[u] # Idle <=> txn[u] # Idle
<1> SUFFICES ASSUME NEW u \in Owners \ {o}
             PROVE  /\ txn'[u].phase = txn[u].phase
                    /\ txn'[u] # Idle <=> txn[u] # Idle
                    /\ txn[u] # Idle =>
                         /\ txn'[u].node = txn[u].node /\ txn'[u].write = txn[u].write
                         /\ txn'[u].found = txn[u].found /\ txn'[u].publishes = txn[u].publishes
                         /\ txn'[u].key = txn[u].key /\ txn'[u].base = txn[u].base
                         /\ txn'[u].todo = txn[u].todo /\ txn'[u].out = txn[u].out
  BY DEF Others
<1>1. CASE txn'[u] = txn[u]
  BY <1>1
<1>2. CASE txn[u] # Idle /\ txn'[u] = Marked(txn[u])
  <2>1. PICK t, v : t = txn[u] /\ v = Marked(t)
    OBVIOUS
  <2>2. IsOpen(t) /\ t.phase # "idle" /\ Idle.phase = "idle"
    BY <1>2, <2>1, Open DEF Idle
  <2>3. /\ v.phase = t.phase /\ v.todo = t.todo /\ v.out = t.out
        /\ v.node = t.node /\ v.write = t.write /\ v.found = t.found
        /\ v.publishes = t.publishes /\ v.key = t.key /\ v.base = t.base
    BY <2>1, <2>2, MarkedFields
  <2> QED BY <1>2, <2>1, <2>2, <2>3
<1> QED BY <1>1, <1>2, CommitEffect

LEMMA LockStep ==
    ASSUME ShapeInv, LockInv, [Next]_vars
    PROVE  LockInv'
<1>0. /\ Requests \subseteq Owners /\ Nodes \subseteq Owners /\ Nobody \notin Owners
      /\ \A r \in Requests, n \in Nodes : r # n
      /\ Flushed \subseteq Owners /\ Idle.phase = "idle"
      /\ \A o \in Owners : o \in Flushed <=> txn[o].phase = "flushed"
      /\ \A o \in Owners : o \in Flushed' <=> txn'[o].phase = "flushed"
      /\ Flushed' \subseteq Owners
      /\ \A o \in Flushed : txn[o] # Idle
  BY OwnersAssumption DEF Owners, Nobody, Flushed, Idle
<1>1. ASSUME UNCHANGED <<txn, lock, share>>
      PROVE  LockInv'
  BY <1>1 DEF LockInv, Flushed
<1>2. CASE UNCHANGED vars
  BY <1>2, <1>1 DEF vars, database
<1>b. ASSUME NEW o \in Owners, txn[o] = Idle, NEW t, t.phase = "loaded",
             txn' = [txn EXCEPT ![o] = t], UNCHANGED <<lock, share>>
      PROVE  LockInv'
  <2>1. txn'[o] = t /\ \A u \in Owners \ {o} : txn'[u] = txn[u]
    BY <1>b, SetOthers
  <2>2. Flushed' = Flushed /\ o \notin Flushed
    <3>1. txn'[o].phase = "loaded" /\ txn[o].phase = "idle"
      BY <1>0, <1>b, <2>1
    <3>2. \A u \in Owners : u \in Flushed' <=> u \in Flushed
      BY <1>0, <2>1, <3>1
    <3> QED BY <1>0, <3>1, <3>2
  <2> QED BY <1>0, <1>b, <2>1, <2>2 DEF LockInv
<1>3. ASSUME NEW r \in Requests, NEW n \in Nodes, Requested(r, n)
      PROVE  LockInv'
  <2>1. PICK w, p : Begin(r, n, w, p)
    BY <1>3 DEF Requested
  <2>2. PICK t : t = Loaded(n, w, p, 0, gen[n])
    OBVIOUS
  <2>3. /\ txn[r] = Idle /\ txn' = [txn EXCEPT ![r] = t] /\ UNCHANGED <<lock, share>>
        /\ t.phase = "loaded"
    BY <2>1, <2>2 DEF Begin, Loaded
  <2> QED BY <1>0, <1>b, <2>3
<1>4. ASSUME NEW r \in Requests, Flush(r)
      PROVE  LockInv'
  <2>1. PICK d : d = IF txn[r].publishes THEN {txn[r].node} ELSE {}
    OBVIOUS
  <2>2. PICK t : t = Moved(txn[r], "flushed", d, txn[r].out)
    OBVIOUS
  <2>3. txn[r] # Idle /\ txn[r].phase = "loaded" /\ txn' = [txn EXCEPT ![r] = t]
    BY <1>4, <2>1, <2>2, FlushEffect
  <2>4. txn'[r] = t /\ \A u \in Owners \ {r} : txn'[u] = txn[u]
    BY <1>0, <2>3, SetOthers
  <2>5. DOMAIN txn[r].out = {}
    BY <1>0, <2>3, Open DEF OpenFits
  <2>6. t.phase = "flushed" /\ t.out = txn[r].out
    BY <2>2, MovedFields
  <2>7. Flushed' = Flushed \cup {r}
    BY <1>0, <2>4, <2>6
  <2>8. lock' = lock /\ \A n \in Nodes : share'[n] \subseteq share[n] \cup {r}
    BY <1>4 DEF Flush
  <2> QED BY <1>0, <2>4, <2>5, <2>6, <2>7, <2>8 DEF LockInv
<1>5. ASSUME NEW o \in Owners, NEW n \in Nodes, Materialize(o, n)
      PROVE  LockInv'
  <2>0. PICK x : Assembled(o, n, x)
    BY <1>5, MaterializeEffect
  <2>1. PICK t : t = Moved(txn[o], "flushed", txn[o].todo \ {n}, x)
    OBVIOUS
  <2>2. txn' = [txn EXCEPT ![o] = t] /\ DOMAIN x = DOMAIN txn[o].out \cup {n}
    BY <2>0, <2>1 DEF Assembled
  <2>3. t.phase = "flushed" /\ t.out = x
    BY <2>1, MovedFields
  <2>4. txn'[o] = t /\ \A u \in Owners \ {o} : txn'[u] = txn[u]
    BY <2>2, SetOthers
  <2>5. o \in Flushed
    BY <1>5, <1>0, MaterializeEffect
  <2>6. Flushed' = Flushed
    BY <1>0, <2>3, <2>4, <2>5
  <2>7. /\ lock[n] \in {Nobody, o} /\ lock'[n] = o /\ share' = share
        /\ \A m \in Nodes \ {n} : lock'[m] = lock[m]
    BY <1>5 DEF Materialize, MayMaterialize, MayLock, ShapeInv
  <2>8. \A u \in Flushed : DOMAIN txn[u].out \subseteq Nodes
    BY <1>0, Open DEF OpenFits
  <2>9. \A m \in Nodes : share'[m] \subseteq Flushed' /\ lock'[m] \in Flushed' \cup {Nobody}
    BY <1>0, <2>5, <2>6, <2>7 DEF LockInv
  <2>10. \A u \in Flushed \ {o} : /\ \A m \in DOMAIN txn[u].out : lock'[m] = u
                                  /\ u \in Nodes => lock'[u] = u
    BY <1>0, <2>7, <2>8 DEF LockInv
  <2>11. /\ \A m \in DOMAIN x : lock'[m] = o
         /\ o \in Nodes => lock'[o] = o
    BY <1>0, <2>2, <2>5, <2>7, <2>8 DEF LockInv
  <2> QED BY <1>0, <2>3, <2>4, <2>6, <2>9, <2>10, <2>11 DEF LockInv
<1>r. ASSUME NEW o \in Owners, Release(o), Others(o), txn'[o] = Idle
      PROVE  LockInv'
  <2>1. Flushed' = Flushed \ {o}
    BY <1>0, <1>r DEF Others
  <2>2. \A n \in Nodes : lock'[n] = (IF lock[n] = o THEN Nobody ELSE lock[n])
                         /\ share'[n] = share[n] \ {o}
    BY <1>r DEF Release
  <2>3. \A u \in Flushed : DOMAIN txn[u].out \subseteq Nodes
    BY <1>0, Open DEF OpenFits
  <2>4. \A u \in Flushed \ {o} : txn'[u].out = txn[u].out
    BY <1>0, <1>r DEF Others
  <2> QED BY <1>0, <2>1, <2>2, <2>3, <2>4 DEF LockInv
<1>6. ASSUME NEW o \in Owners, Aborts(o)
      PROVE  LockInv'
  <2>1. txn' = [txn EXCEPT ![o] = Idle] /\ Release(o)
    BY <1>6 DEF Aborts, Abort
  <2> QED BY <1>r, <2>1, SetOthers
<1>7. ASSUME NEW o \in Owners, Commit(o)
      PROVE  LockInv'
  BY <1>r, <1>7, CommitOthers, CommitEffect DEF Commit
<1>8. ASSUME NEW n \in Nodes, SyncWireguardKeys(n)
      PROVE  LockInv'
  <2>1. PICK t : t = Loaded(n, << >>, FALSE, keyfile'[n], 0)
    OBVIOUS
  <2>2. /\ txn[n] = Idle /\ txn' = [txn EXCEPT ![n] = t] /\ UNCHANGED <<lock, share>>
        /\ t.phase = "loaded"
    BY <1>8, <2>1 DEF SyncWireguardKeys, Loaded
  <2> QED BY <1>0, <1>b, <2>2
<1>9. ASSUME NEW n \in Nodes, StoreKey(n)
      PROVE  LockInv'
  <2>1. PICK t : t = Moved(txn[n], "flushed", Affected(n), txn[n].out)
    OBVIOUS
  <2>2. txn[n] # Idle /\ txn[n].phase = "loaded" /\ txn' = [txn EXCEPT ![n] = t]
    BY <1>9, <2>1, StoreEffect
  <2>3. txn'[n] = t /\ \A u \in Owners \ {n} : txn'[u] = txn[u]
    BY <1>0, <2>2, SetOthers
  <2>4. DOMAIN txn[n].out = {}
    BY <1>0, <2>2, Open DEF OpenFits
  <2>5. t.phase = "flushed" /\ t.out = txn[n].out
    BY <2>1, MovedFields
  <2>6. Flushed' = Flushed \cup {n} /\ n \notin Flushed
    BY <1>0, <2>2, <2>3, <2>5
  <2>7. /\ lock[n] \in {Nobody, n} /\ lock'[n] = n /\ share' = share
        /\ \A m \in Nodes \ {n} : lock'[m] = lock[m]
    BY <1>9 DEF StoreKey, MayJudge, MayLock, ShapeInv
  <2>8. \A u \in Flushed : DOMAIN txn[u].out \subseteq Nodes
    BY <1>0, Open DEF OpenFits
  <2>9. \A u \in Flushed : /\ \A m \in DOMAIN txn[u].out : lock'[m] = u
                           /\ u \in Nodes => lock'[u] = u
    BY <1>0, <2>6, <2>7, <2>8 DEF LockInv
  <2> QED BY <1>0, <2>3, <2>4, <2>5, <2>6, <2>7, <2>9 DEF LockInv
<1>10. ASSUME NEW n \in Nodes, PushKey(n) \/ LoseKeyFile(n) \/ RebuildGateway(n)
      PROVE  LockInv'
  BY <1>10, <1>1 DEF PushKey, LoseKeyFile, RebuildGateway, database
<1> QED
  BY <1>2, <1>3, <1>4, <1>5, <1>6, <1>7, <1>8, <1>9, <1>10, NextCases

LEMMA WriteStep ==
    ASSUME ShapeInv, WriteInv, [Next]_vars
    PROVE  WriteInv'
<1>0. /\ Requests \subseteq Owners /\ Nodes \subseteq Owners /\ Owners = Requests \cup Nodes
      /\ \A r \in Requests, n \in Nodes : r # n
      /\ Flushed \subseteq Owners /\ Idle.phase = "idle"
      /\ \A o \in Owners : o \in Flushed <=> txn[o].phase = "flushed"
      /\ \A o \in Owners : o \in Flushed' <=> txn'[o].phase = "flushed"
      /\ Flushed' \subseteq Owners
      /\ \A o \in Flushed : txn[o] # Idle
  BY OwnersAssumption DEF Owners, Flushed, Idle
<1>1. ASSUME UNCHANGED <<txn, rows>>
      PROVE  WriteInv'
  BY <1>1 DEF WriteInv, Flushed
<1>2. CASE UNCHANGED vars
  BY <1>2, <1>1 DEF vars, database
<1>a. ASSUME NEW o \in Owners, Others(o), rows' = rows, o \notin Flushed'
      PROVE  WriteInv'
  <2>1. \A u \in Flushed' : /\ u \in Flushed /\ txn'[u].node = txn[u].node
                            /\ txn'[u].write = txn[u].write /\ txn'[u].found = txn[u].found
    BY <1>0, <1>a DEF Others
  <2> QED BY <1>a, <2>1 DEF WriteInv
<1>b. ASSUME NEW o \in Nodes, Others(o), rows' = rows, DOMAIN txn'[o].write = {}
      PROVE  WriteInv'
  <2>1. \A u \in Flushed' \ {o} : /\ u \in Flushed /\ txn'[u].node = txn[u].node
                            /\ txn'[u].write = txn[u].write /\ txn'[u].found = txn[u].found
    BY <1>0, <1>b DEF Others
  <2> QED BY <1>0, <1>b, <2>1 DEF WriteInv
<1>3. ASSUME NEW r \in Requests, NEW n \in Nodes, Requested(r, n)
      PROVE  WriteInv'
  <2>1. PICK w, p : Begin(r, n, w, p)
    BY <1>3 DEF Requested
  <2>2. PICK t : t = Loaded(n, w, p, 0, gen[n])
    OBVIOUS
  <2>3. txn' = [txn EXCEPT ![r] = t] /\ rows' = rows /\ t.phase = "loaded"
    BY <2>1, <2>2 DEF Begin, Loaded
  <2>4. Others(r) /\ txn'[r] = t
    <3>1. r \in Owners
      BY <1>0, <1>3
    <3> QED BY <2>3, <3>1, SetOthers
  <2>5. r \notin Flushed'
    BY <1>0, <2>3, <2>4
  <2> QED BY <1>0, <1>a, <2>3, <2>4, <2>5
<1>4. ASSUME NEW r \in Requests, Flush(r)
      PROVE  WriteInv'
  <2>1. PICK d : d = IF txn[r].publishes THEN {txn[r].node} ELSE {}
    OBVIOUS
  <2>2. PICK t : t = Moved(txn[r], "flushed", d, txn[r].out)
    OBVIOUS
  <2>3. txn[r] # Idle /\ txn[r].phase = "loaded" /\ txn' = [txn EXCEPT ![r] = t]
    BY <1>4, <2>1, <2>2, FlushEffect
  <2>4. txn'[r] = t /\ \A u \in Owners \ {r} : txn'[u] = txn[u]
    BY <1>0, <2>3, SetOthers
  <2>5. t.node = txn[r].node /\ t.write = txn[r].write /\ t.found = txn[r].found
    BY <2>2, MovedFields
  <2>6. rows' = rows
    BY <1>4 DEF Flush
  <2>7. \A u \in Flushed \cap Requests : txn[r].node = txn[u].node
           => DOMAIN txn[r].write \cap DOMAIN txn[u].write = {}
    BY <1>4 DEF Flush, MayFlush, Excludes
  <2>8. \A s \in DOMAIN txn[r].write : rows[txn[r].node][s].there = txn[r].found[s].there
    BY <1>4 DEF Flush, Refused
  <2>9. Flushed' \ {r} \subseteq Flushed
    BY <1>0, <2>4
  <2>10. \A q, u \in Flushed' \cap Requests :
           q # u /\ txn'[q].node = txn'[u].node
           => DOMAIN txn'[q].write \cap DOMAIN txn'[u].write = {}
    BY <1>0, <2>4, <2>5, <2>7, <2>9 DEF WriteInv
  <2>11. \A o \in Flushed' : \A s \in DOMAIN txn'[o].write :
           rows'[txn'[o].node][s].there = txn'[o].found[s].there
    BY <1>0, <2>4, <2>5, <2>6, <2>8, <2>9 DEF WriteInv
  <2> QED BY <2>10, <2>11 DEF WriteInv
<1>5. ASSUME NEW o \in Owners, NEW n \in Nodes, Materialize(o, n)
      PROVE  WriteInv'
  <2>0. PICK x : Assembled(o, n, x)
    BY <1>5, MaterializeEffect
  <2>1. PICK t : t = Moved(txn[o], "flushed", txn[o].todo \ {n}, x)
    OBVIOUS
  <2>2. txn' = [txn EXCEPT ![o] = t]
    BY <2>0, <2>1 DEF Assembled
  <2>3. t.node = txn[o].node /\ t.write = txn[o].write /\ t.found = txn[o].found
    BY <2>1, MovedFields
  <2>4. txn'[o] = t /\ \A u \in Owners \ {o} : txn'[u] = txn[u]
    BY <2>2, SetOthers
  <2>5. o \in Flushed /\ rows' = rows
    BY <1>5, <1>0, MaterializeEffect DEF Materialize
  <2>6. \A u \in Flushed' : /\ u \in Flushed /\ txn'[u].node = txn[u].node
                            /\ txn'[u].write = txn[u].write /\ txn'[u].found = txn[u].found
    BY <1>0, <2>3, <2>4, <2>5
  <2> QED BY <2>5, <2>6 DEF WriteInv
<1>6. ASSUME NEW o \in Owners, Aborts(o)
      PROVE  WriteInv'
  <2>1. txn' = [txn EXCEPT ![o] = Idle] /\ rows' = rows
    BY <1>6 DEF Aborts, Abort
  <2>2. Others(o) /\ o \notin Flushed'
    BY <1>0, <2>1, SetOthers
  <2> QED BY <1>a, <2>1, <2>2
<1>7. ASSUME NEW o \in Owners, Commit(o)
      PROVE  WriteInv'
  <2>1. o \in Flushed /\ txn[o] # Idle /\ txn'[o] = Idle
    BY <1>7, CommitEffect
  <2>2. \A u \in Flushed' : /\ u \in Flushed \ {o} /\ txn'[u].node = txn[u].node
                            /\ txn'[u].write = txn[u].write /\ txn'[u].found = txn[u].found
    BY <1>0, <1>7, <2>1, CommitOthers DEF Others
  <2>3. PICK n, w : n = txn[o].node /\ w = Write(rows[n], txn[o])
    OBVIOUS
  <2>4. /\ n \in Nodes /\ RowsFit(n, w) /\ rows'[n] = Detached(w)
        /\ \A m \in Nodes \ {n} : rows'[m] = rows[m]
    BY <1>7, <2>3, CommittedRows
  <2>5. ASSUME NEW u \in Flushed', NEW s \in DOMAIN txn'[u].write
        PROVE  rows'[txn'[u].node][s].there = txn'[u].found[s].there
    <3>1. /\ u \in Flushed \ {o} /\ s \in DOMAIN txn[u].write
          /\ txn'[u].node = txn[u].node /\ txn'[u].found = txn[u].found
      BY <2>2, <2>5
    <3>2. rows[txn[u].node][s].there = txn[u].found[s].there
      BY <3>1 DEF WriteInv
    <3>3. OpenFits(u, txn[u]) /\ OpenFits(o, txn[o])
      BY <1>0, <2>1, <3>1, Open
    <3>4. txn[u].node \in Nodes /\ s \in Slots /\ u \in Requests
      BY <1>0, <3>1, <3>3 DEF OpenFits
    <3>5. CASE txn[u].node # n
      BY <2>4, <3>1, <3>2, <3>4, <3>5
    <3>6. CASE txn[u].node = n
      <4>1. s \notin DOMAIN txn[o].write
        <5>1. CASE o \in Nodes
          BY <3>3, <5>1 DEF OpenFits
        <5>2. CASE o \in Requests
          BY <2>1, <2>3, <3>1, <3>4, <3>6, <5>2 DEF WriteInv
        <5> QED BY <1>0, <5>1, <5>2
      <4>2. rows'[n][s].there = rows[n][s].there
        BY <1>7, <2>3, <3>4, <4>1, CommittedRows
      <4> QED BY <3>1, <3>2, <3>6, <4>2
    <3> QED BY <3>5, <3>6
  <2> QED BY <2>2, <2>5 DEF WriteInv
<1>8. ASSUME NEW n \in Nodes, SyncWireguardKeys(n)
      PROVE  WriteInv'
  <2>1. PICK t : t = Loaded(n, << >>, FALSE, keyfile'[n], 0)
    OBVIOUS
  <2>2. txn' = [txn EXCEPT ![n] = t] /\ rows' = rows /\ t.phase = "loaded"
    BY <1>8, <2>1 DEF SyncWireguardKeys, Loaded
  <2>3. n \in Owners
    BY <1>0
  <2>4. Others(n) /\ txn'[n] = t
    BY <2>2, <2>3, SetOthers
  <2>5. n \notin Flushed'
    BY <1>0, <2>2, <2>3, <2>4
  <2> QED BY <1>a, <2>2, <2>3, <2>4, <2>5
<1>9. ASSUME NEW n \in Nodes, StoreKey(n)
      PROVE  WriteInv'
  <2>1. PICK t : t = Moved(txn[n], "flushed", Affected(n), txn[n].out)
    OBVIOUS
  <2>2. txn[n] # Idle /\ txn' = [txn EXCEPT ![n] = t]
    BY <1>9, <2>1, StoreEffect
  <2>3. Others(n) /\ txn'[n] = t
    BY <1>0, <2>2, SetOthers
  <2>4. t.write = txn[n].write
    BY <2>1, MovedFields
  <2>5. DOMAIN txn[n].write = {}
    BY <1>0, <2>2, Open DEF OpenFits
  <2>6. rows' = rows
    BY <1>9 DEF StoreKey
  <2> QED BY <1>b, <2>3, <2>4, <2>5, <2>6
<1>10. ASSUME NEW n \in Nodes, PushKey(n) \/ LoseKeyFile(n) \/ RebuildGateway(n)
      PROVE  WriteInv'
  BY <1>10, <1>1 DEF PushKey, LoseKeyFile, RebuildGateway, database
<1> QED
  BY <1>2, <1>3, <1>4, <1>5, <1>6, <1>7, <1>8, <1>9, <1>10, NextCases

(***************************************************************************)
(* The base of the invariant, and the theorems that follow from it.        *)
(***************************************************************************)
BaseInv == ShapeInv /\ AgentInv /\ ReportInv /\ TunnelKeysAgree /\ LockInv /\ WriteInv

LEMMA InitialRowsFit ==
    ASSUME NEW n \in Nodes, NEW r \in InitialRows(n)
    PROVE  RowsFit(n, r) /\ Attached(r) /\ Distinct(r)
<1>0. /\ "peering" \notin Names /\ "session" \notin Names
      /\ SomeName \in Names /\ SomePort \in Ports
      /\ Names \subseteq Slots /\ {"peering", "session"} \subseteq Slots
  BY NamesAssumption DEF Slots, SomeName, SomePort
<1>1. /\ IsOn(NoRows, Slots) /\ NoRows["peering"] = NoPeering /\ NoRows["session"] = NoSession
      /\ \A i \in Names : NoRows[i] = NoInterface
  BY <1>0 DEF NoRows, None, IsOn
<1>2. ~NoPeering.there /\ ~NoSession.peer /\ ~NoInterface.peer /\ ~NoInterface.there
  BY DEF NoPeering, NoSession, NoInterface
<1>3. CASE r = NoRows
  <2>1. \A s \in Slots : Fits(n, s, r[s])
    BY <1>1, <1>3 DEF Fits, Slots
  <2>2. Attached(r)
    BY <1>1, <1>2, <1>3 DEF Attached, Slots
  <2>3. Distinct(r)
    BY <1>1, <1>2, <1>3 DEF Distinct
  <2> QED BY <1>1, <1>3, <2>1, <2>2, <2>3 DEF RowsFit
<1>4. ASSUME NEW p \in PeeringIn(n), NEW i \in Names, NEW q \in Ports,
             r = [NoRows EXCEPT !["peering"] = p,
                    ![i] = [there |-> TRUE, peer |-> TRUE, on |-> TRUE, port |-> q]]
      PROVE  RowsFit(n, r) /\ Attached(r) /\ Distinct(r)
  <2>1. PICK row : row = [there |-> TRUE, peer |-> TRUE, on |-> TRUE, port |-> q]
    OBVIOUS
  <2>2. /\ IsOn(r, Slots) /\ r["peering"] = p /\ r["session"] = NoSession
        /\ r[i] = row /\ \A j \in Names \ {i} : r[j] = NoInterface
    BY <1>0, <1>1, <1>4, <2>1 DEF IsOn
  <2>3. p \in PeeringRow(n) /\ row \in InterfaceIn
    BY <2>1, PeeringFits DEF InterfaceIn
  <2>4. \A s \in Slots : Fits(n, s, r[s])
    BY <1>0, <2>2, <2>3 DEF Fits, Slots
  <2>5. p.there
    BY <2>3 DEF PeeringRow
  <2>6. Attached(r)
    BY <1>0, <1>2, <2>2, <2>5 DEF Attached, Slots
  <2>7. Distinct(r)
    BY <1>2, <2>2 DEF Distinct
  <2> QED BY <2>2, <2>4, <2>6, <2>7 DEF RowsFit
<1>5. ASSUME NEW i \in Names, NEW q \in Ports,
             r = [NoRows EXCEPT !["session"] = [there |-> TRUE, peer |-> FALSE, on |-> TRUE],
                    ![i] = [there |-> TRUE, peer |-> FALSE, on |-> TRUE, port |-> q]]
      PROVE  RowsFit(n, r) /\ Attached(r) /\ Distinct(r)
  <2>1. PICK row, ses : /\ row = [there |-> TRUE, peer |-> FALSE, on |-> TRUE, port |-> q]
                        /\ ses = [there |-> TRUE, peer |-> FALSE, on |-> TRUE]
    OBVIOUS
  <2>2. /\ IsOn(r, Slots) /\ r["peering"] = NoPeering /\ r["session"] = ses
        /\ r[i] = row /\ \A j \in Names \ {i} : r[j] = NoInterface
    BY <1>0, <1>1, <1>5, <2>1 DEF IsOn
  <2>3. ses \in SessionIn /\ row \in InterfaceIn /\ ~ses.peer /\ ~row.peer
    BY <2>1 DEF InterfaceIn, SessionIn
  <2>4. \A s \in Slots : Fits(n, s, r[s])
    BY <1>0, <2>2, <2>3 DEF Fits, Slots
  <2>6. Attached(r)
    BY <1>0, <1>2, <2>2, <2>3 DEF Attached, Slots
  <2>7. Distinct(r)
    BY <1>2, <2>2 DEF Distinct
  <2> QED BY <2>2, <2>4, <2>6, <2>7 DEF RowsFit
<1>6. CASE r = Orphaned
  BY <1>0, <1>5, <1>6 DEF Orphaned
<1>7. ASSUME NEW p \in PeeringIn(n), r = Tunnelled(p)
      PROVE  RowsFit(n, r) /\ Attached(r) /\ Distinct(r)
  BY <1>0, <1>4, <1>7 DEF Tunnelled
<1> QED BY <1>3, <1>6, <1>7 DEF InitialRows

LEMMA BaseInit == Init => BaseInv
<1> SUFFICES ASSUME Init PROVE BaseInv
  OBVIOUS
<1>0. \A o \in Owners : txn[o] = Idle /\ txn[o].phase = "idle"
  BY DEF Init, Idle
<1>1. Flushed = {} /\ Nodes \subseteq Owners
  BY <1>0 DEF Flushed, Owners
<1>2. ShapeInv
  <2>1. IsOn(rows, Nodes) /\ \A n \in Nodes : rows[n] \in InitialRows(n)
    BY DEF Init, IsOn
  <2>2. \A n \in Nodes : RowsFit(n, rows[n]) /\ Attached(rows[n])
    BY <2>1, InitialRowsFit
  <2>3. /\ gen \in [Nodes -> Nat] /\ IsOn(snap, Nodes) /\ IsOn(txn, Owners)
        /\ lock \in [Nodes -> Owners \cup {Nobody}] /\ share \in [Nodes -> SUBSET Owners]
    BY DEF Init, IsOn
  <2>4. \A o \in Owners : TxnFits(o, txn[o])
    BY <1>0 DEF TxnFits
  <2> QED BY <2>1, <2>2, <2>3, <2>4 DEF ShapeInv
<1>3. AgentInv /\ TunnelKeysAgree
  BY BoundsAssumption DEF Init, AgentInv, TunnelKeysAgree
<1>4. ReportInv
  BY <1>0, <1>1 DEF Init, ReportInv
<1>5. LockInv /\ WriteInv
  BY <1>1 DEF Init, LockInv, WriteInv
<1> QED BY <1>2, <1>3, <1>4, <1>5 DEF BaseInv

LEMMA BaseStep == BaseInv /\ [Next]_vars => BaseInv'
  BY ShapeStep, AgentStep, ReportStep, LockStep, WriteStep DEF BaseInv

LEMMA BaseIsTyped == BaseInv => PeeringsTypeOK
<1> SUFFICES ASSUME BaseInv PROVE PeeringsTypeOK
  OBVIOUS
<1>1. ASSUME NEW n \in Nodes
      PROVE  /\ rows[n]["peering"] \in PeeringRow(n) \cup {NoPeering}
             /\ rows[n]["session"] \in SessionIn \cup {NoSession}
             /\ \A i \in Names : rows[n][i] \in InterfaceIn \cup {NoInterface}
             /\ \A s \in Slots \ {"peering"} : rows[n][s].peer => rows[n]["peering"].there
             /\ share[n] \subseteq Flushed
             /\ lock[n] # Nobody => lock[n] \in Flushed
  <2>1. RowsFit(n, rows[n]) /\ Attached(rows[n])
    BY DEF BaseInv, ShapeInv
  <2>2. /\ rows[n]["peering"] \in PeeringRow(n) \cup {NoPeering}
        /\ rows[n]["session"] \in SessionIn \cup {NoSession}
        /\ \A i \in Names : rows[n][i] \in InterfaceIn \cup {NoInterface}
    BY <2>1 DEF RowsFit, Fits, Slots
  <2>3. share[n] \subseteq Flushed /\ (lock[n] # Nobody => lock[n] \in Flushed)
    BY DEF BaseInv, LockInv
  <2> QED BY <2>1, <2>2, <2>3 DEF Attached
<1>2. /\ key \in [Nodes -> 0..MaxKeys]
      /\ keyfile \in [Nodes -> 0..MaxKeys] /\ gateway \in [Nodes -> 0..MaxKeys]
      /\ agent \in [Nodes -> {"idle", "reporting", "accepted"}]
  BY DEF BaseInv, AgentInv
<1> QED BY <1>1, <1>2 DEF PeeringsTypeOK

(* Rows are of their slot's type whatever requests overlap, although an    *)
(* UPDATE writes single columns of a row that others may have changed, and *)
(* no child refers to a peering that is gone; a lock is held by a          *)
(* transaction that has flushed and not ended.                             *)
THEOREM PeeringsTypeCorrect == Spec => []PeeringsTypeOK
  BY BaseInit, BaseStep, BaseIsTyped, PTL DEF Spec

(* No gateway has a key other than the one on record: an agent that made a *)
(* new key after losing its file is refused before it applies anything.    *)
THEOREM KeysOfTunnelsAgree == Spec => []TunnelKeysAgree
<1>1. BaseInv => TunnelKeysAgree
  BY DEF BaseInv
<1> QED BY <1>1, BaseInit, BaseStep, PTL DEF Spec

(***************************************************************************)
(* Ports.                                                                  *)
(***************************************************************************)
(* Every interface of r is one of q, as enabled as there and on its port.  *)
Within(r, q) ==
    \A i \in Names : r[i].there => /\ q[i].there
                                   /\ r[i].on = q[i].on
                                   /\ r[i].port = q[i].port

LEMMA WithinDistinct ==
    ASSUME NEW r, NEW q, Within(r, q), Distinct(q)
    PROVE  Distinct(r)
<1> SUFFICES ASSUME NEW i \in Names, NEW j \in Names, i # j,
                    r[i].there, r[i].on, r[j].there, r[j].on
             PROVE  r[i].port # r[j].port
  BY DEF Distinct
<1>1. /\ q[i].there /\ q[j].there /\ r[i].on = q[i].on /\ r[j].on = q[j].on
      /\ r[i].port = q[i].port /\ r[j].port = q[j].port
  BY DEF Within
<1>2. q[i].on /\ q[j].on
  BY <1>1, Zenon
<1> QED BY <1>1, <1>2 DEF Distinct

(* An UPDATE of an interface, column by column.                            *)
LEMMA PatchFields ==
    ASSUME NEW old, NEW found, NEW new \in InterfaceIn \cup {NoInterface},
           found.there, new.there, found \in InterfaceIn \cup {NoInterface}
    PROVE  /\ Patch(old, found, new).there = old.there
           /\ Patch(old, found, new).on = IF new.on # found.on THEN new.on ELSE old.on
           /\ Patch(old, found, new).port = IF new.port # found.port THEN new.port ELSE old.port
<1>1. Patch(old, found, new) = [c \in DOMAIN new |-> IF new[c] # found[c] THEN new[c] ELSE old[c]]
  BY DEF Patch
<1>2. new \in InterfaceIn /\ found \in InterfaceIn
  BY DEF NoInterface
<1>3. DOMAIN new = {"there", "peer", "on", "port"} /\ new.there = TRUE /\ found.there = TRUE
  BY <1>2 DEF InterfaceIn
<1> QED BY <1>1, <1>3

LEMMA WriteWithin ==
    ASSUME NEW n, NEW r, NEW q, RowsFit(n, r), RowsFit(n, q), Within(r, q),
           NEW t, RowsFit(n, t.found), \A s \in DOMAIN t.write : Fits(n, s, t.write[s])
    PROVE  Within(Write(r, t), Write(q, t))
<1>1. PICK v, w : v = Write(r, t) /\ w = Write(q, t)
  OBVIOUS
<1>2. \A s \in Slots : v[s] = IF s \in DOMAIN t.write
                THEN Patch(r[s], t.found[s], t.write[s]) ELSE r[s]
  BY <1>1, WriteShape DEF RowsFit
<1>3. \A s \in Slots : w[s] = IF s \in DOMAIN t.write
                THEN Patch(q[s], t.found[s], t.write[s]) ELSE q[s]
  BY <1>1, WriteShape DEF RowsFit
<1>4. ASSUME NEW i \in Names, v[i].there
      PROVE  w[i].there /\ v[i].on = w[i].on /\ v[i].port = w[i].port
  <2>0. i \in Slots
    BY DEF Slots
  <2>1. CASE i \notin DOMAIN t.write
    BY <1>2, <1>3, <1>4, <2>0, <2>1 DEF Within
  <2>2. CASE i \in DOMAIN t.write
    <3>1. PICK f, new : f = t.found[i] /\ new = t.write[i]
      OBVIOUS
    <3>2. f \in InterfaceIn \cup {NoInterface} /\ new \in InterfaceIn \cup {NoInterface}
      BY <2>0, <2>2, <3>1 DEF RowsFit, Fits
    <3>3. v[i] = Patch(r[i], f, new) /\ w[i] = Patch(q[i], f, new)
      BY <1>2, <1>3, <2>0, <2>2, <3>1
    <3>4. CASE ~(f.there /\ new.there)
      BY <1>4, <3>3, <3>4 DEF Patch
    <3>5. CASE f.there /\ new.there
      <4>1. PICK a, b : a = r[i] /\ b = q[i]
        OBVIOUS
      <4>2. /\ v[i].there = a.there /\ w[i].there = b.there
            /\ v[i].on = IF new.on # f.on THEN new.on ELSE a.on
            /\ w[i].on = IF new.on # f.on THEN new.on ELSE b.on
            /\ v[i].port = IF new.port # f.port THEN new.port ELSE a.port
            /\ w[i].port = IF new.port # f.port THEN new.port ELSE b.port
        BY <3>2, <3>3, <3>5, <4>1, PatchFields
      <4>3. a.there
        BY <1>4, <4>2, Zenon
      <4>4. b.there /\ a.on = b.on /\ a.port = b.port
        BY <4>1, <4>3 DEF Within
      <4>5. w[i].there
        BY <4>2, <4>4, Zenon
      <4>6. v[i].on = w[i].on
        <5>1. CASE new.on # f.on
          BY <4>2, <5>1, Zenon
        <5>2. CASE ~(new.on # f.on)
          BY <4>2, <4>4, <5>2, Zenon
        <5> QED BY <5>1, <5>2
      <4>7. v[i].port = w[i].port
        BY <4>2, <4>4
      <4> QED BY <4>5, <4>6, <4>7
    <3> QED BY <3>4, <3>5
  <2> QED BY <2>1, <2>2
<1> QED BY <1>1, <1>4 DEF Within

LEMMA DetachedWithin ==
    ASSUME NEW n, NEW r, RowsFit(n, r)
    PROVE  Within(Detached(r), r)
<1>1. \A i \in Names : i \in Slots \ {"peering"}
  BY NamesAssumption DEF Slots
<1>2. PICK d : d = Detached(r)
  OBVIOUS
<1>3. \A i \in Names : d[i].there = r[i].there /\ d[i].on = r[i].on /\ d[i].port = r[i].port
  <2>1. /\ \A s \in Slots : d[s].there = r[s].there
        /\ \A s \in Slots \ {"peering"} : d[s].on = r[s].on
        /\ \A i \in Names : d[i].port = r[i].port
    BY <1>2, DetachedShape, ZenonT(30)
  <2> QED BY <1>1, <2>1, Zenon
<1>4. \A i \in Names : d[i].there => r[i].there
  BY <1>3, Zenon
<1> QED BY <1>2, <1>3, <1>4 DEF Within

(* Writes that publish nothing.                                            *)
LEMMA HarmlessWithin ==
    ASSUME NEW n, NEW r, RowsFit(n, r), NEW t, RowsFit(n, t.found),
           \A s \in DOMAIN t.write : Fits(n, s, t.write[s]),
           Harmless(t)
    PROVE  Within(Write(r, t), r)
<1>1. PICK v : v = Write(r, t)
  OBVIOUS
<1>2. \A s \in Slots : v[s] = IF s \in DOMAIN t.write
                THEN Patch(r[s], t.found[s], t.write[s]) ELSE r[s]
  BY <1>1, WriteShape DEF RowsFit
<1>3. ASSUME NEW i \in Names, v[i].there
      PROVE  r[i].there /\ v[i].on = r[i].on /\ v[i].port = r[i].port
  <2>0. i \in Slots
    BY DEF Slots
  <2>1. CASE i \notin DOMAIN t.write
    BY <1>2, <1>3, <2>0, <2>1
  <2>2. CASE i \in DOMAIN t.write
    <3>1. PICK f, new : f = t.found[i] /\ new = t.write[i]
      OBVIOUS
    <3>2. f \in InterfaceIn \cup {NoInterface} /\ new \in InterfaceIn \cup {NoInterface}
      BY <2>0, <2>2, <3>1 DEF RowsFit, Fits
    <3>3. v[i] = Patch(r[i], f, new)
      BY <1>2, <2>0, <2>2, <3>1
    <3>4. CASE new = NoInterface
      <4>1. v[i] = NoInterface
        BY <3>3, <3>4 DEF Patch, NoInterface
      <4> QED BY <1>3, <4>1 DEF NoInterface
    <3>5. CASE f.there /\ new = [f EXCEPT !.peer = TRUE]
      <4>1. f \in InterfaceIn
        BY <3>2, <3>5 DEF NoInterface
      <4>2. f = [there |-> f.there, peer |-> f.peer, on |-> f.on, port |-> f.port]
        BY <4>1 DEF InterfaceIn
      <4>3. new = [there |-> f.there, peer |-> TRUE, on |-> f.on, port |-> f.port]
        BY <3>5, <4>2, SetPeer, Zenon
      <4>4. new.there = f.there /\ new.on = f.on /\ new.port = f.port
        BY <4>3
      <4>5. new.there
        BY <3>5, <4>4, Zenon
      <4>a. f.there
        BY <3>5, Zenon
      <4>6. PICK a : a = r[i]
        OBVIOUS
      <4>7. /\ v[i].there = a.there
            /\ v[i].on = IF new.on # f.on THEN new.on ELSE a.on
            /\ v[i].port = IF new.port # f.port THEN new.port ELSE a.port
        BY <3>2, <3>3, <4>a, <4>5, <4>6, PatchFields
      <4>8. a.there /\ v[i].on = a.on /\ v[i].port = a.port
        BY <1>3, <4>4, <4>7, Zenon
      <4> QED BY <4>6, <4>8
    <3> QED BY <2>2, <3>1, <3>4, <3>5 DEF Harmless
  <2> QED BY <2>1, <2>2
<1> QED BY <1>1, <1>3 DEF Within

(* A write to the rows it was prepared on.                                 *)
LEMMA WriteAfter ==
    ASSUME NEW n, NEW r, RowsFit(n, r), NEW t, t.found = r,
           \A s \in DOMAIN t.write : Fits(n, s, t.write[s]),
           Distinct(After(r, t.write))
    PROVE  Distinct(Write(r, t))
<1>1. PICK v, w : v = Write(r, t) /\ w = After(r, t.write)
  OBVIOUS
<1>2. \A s \in Slots : v[s] = IF s \in DOMAIN t.write
                THEN Patch(r[s], t.found[s], t.write[s]) ELSE r[s]
  BY <1>1, WriteShape DEF RowsFit
<1>3. \A s \in Slots : w[s] = IF s \in DOMAIN t.write THEN t.write[s] ELSE r[s]
  BY <1>1 DEF After, RowsFit, IsOn
<1>4. ASSUME NEW i \in Names, v[i].there
      PROVE  w[i].there /\ v[i].on = w[i].on /\ v[i].port = w[i].port
  <2>0. i \in Slots
    BY DEF Slots
  <2>1. CASE i \notin DOMAIN t.write
    BY <1>2, <1>3, <1>4, <2>0, <2>1
  <2>2. CASE i \in DOMAIN t.write
    <3>1. PICK f, new : f = r[i] /\ new = t.write[i]
      OBVIOUS
    <3>2. f \in InterfaceIn \cup {NoInterface} /\ new \in InterfaceIn \cup {NoInterface}
      BY <2>0, <2>2, <3>1 DEF RowsFit, Fits
    <3>3. v[i] = Patch(f, f, new) /\ w[i] = new
      BY <1>2, <1>3, <2>0, <2>2, <3>1
    <3>4. CASE ~(f.there /\ new.there)
      BY <1>4, <3>3, <3>4 DEF Patch
    <3>5. CASE f.there /\ new.there
      <4>1. /\ v[i].on = IF new.on # f.on THEN new.on ELSE f.on
            /\ v[i].port = IF new.port # f.port THEN new.port ELSE f.port
        BY <3>2, <3>3, <3>5, PatchFields
      <4>2. v[i].on = new.on /\ v[i].port = new.port
        BY <4>1, Zenon
      <4> QED BY <3>3, <3>5, <4>2
    <3> QED BY <3>4, <3>5
  <2> QED BY <2>1, <2>2
<1>5. Within(v, w) /\ Distinct(w)
  BY <1>1, <1>4 DEF Within
<1> QED BY <1>1, <1>5, WithinDistinct

LEMMA SameWrite ==
    ASSUME NEW t, NEW u, t.write = u.write, t.found = u.found
    PROVE  /\ \A r : Write(r, t) = Write(r, u)
           /\ Harmless(t) <=> Harmless(u)
  BY DEF Write, Harmless

(* What PortInv says of one open request.                                  *)
PortsOf(t) ==
    /\ t.base =< gen[t.node]
    /\ t.publishes /\ t.base = gen[t.node] => Distinct(Write(rows[t.node], t))
    /\ t.publishes /\ t.phase = "flushed" =>
         t.todo = {t.node} \/ (t.node \in DOMAIN t.out /\ t.base = gen[t.node])
    /\ ~t.publishes => Harmless(t)

LEMMA PortInvOf == PortInv <=> \A r \in Requests : txn[r] # Idle => PortsOf(txn[r])
  BY DEF PortInv, PortsOf

(* What a commit leaves of the ports of its node, and which generations it *)
(* takes.                                                                  *)
LEMMA CommittedPorts ==
    ASSUME ShapeInv, WriteInv, LockInv, PortInv, PortsDistinct, NEW o \in Owners, Commit(o)
    PROVE  /\ PortsDistinct'
           /\ \/ Within(rows'[txn[o].node], rows[txn[o].node])
              \/ txn[o].publishes /\ txn[o].node \in DOMAIN txn[o].out
           /\ \A m \in Nodes : gen'[m] = IF m \in DOMAIN txn[o].out THEN gen[m] + 1 ELSE gen[m]
<1>0. /\ o \in Flushed /\ txn[o] # Idle /\ txn[o].todo = {} /\ txn[o].phase = "flushed"
  BY CommitEffect DEF Flushed
<1>1. PICK t, n, r, w : t = txn[o] /\ n = t.node /\ r = rows[n] /\ w = Write(r, t)
  OBVIOUS
<1>2. /\ n \in Nodes /\ RowsFit(n, w) /\ rows'[n] = Detached(w)
      /\ \A m \in Nodes \ {n} : rows'[m] = rows[m]
  BY <1>1, CommittedRows
<1>3. OpenFits(o, t)
  BY <1>0, <1>1, Open
<1>4. RowsFit(n, r) /\ RowsFit(n, t.found) /\ \A s \in DOMAIN t.write : Fits(n, s, t.write[s])
  BY <1>1, <1>2, <1>3 DEF OpenFits, ShapeInv
<1>5. Within(Detached(w), w)
  BY <1>2, DetachedWithin
<1>6. Distinct(r) /\ \A m \in Nodes : Distinct(rows[m])
  <2>1. \A m \in Nodes : Distinct(rows[m])
    BY DEF PortsDistinct, Distinct
  <2> QED BY <1>1, <1>2, <2>1
<1>a. \A m \in Nodes : gen'[m] = IF m \in DOMAIN t.out THEN gen[m] + 1 ELSE gen[m]
  <2>1. gen' = [m \in Nodes |-> IF m \in DOMAIN txn[o].out THEN gen[m] + 1 ELSE gen[m]]
    BY DEF Commit
  <2> QED BY <1>1, <2>1
<1>b. ASSUME Distinct(Detached(w))
      PROVE  PortsDistinct'
  <2>1. \A m \in Nodes : Distinct(rows'[m])
    BY <1>2, <1>6, <1>b
  <2> QED BY <2>1 DEF PortsDistinct, Distinct
<1>7. CASE ~t.publishes
  <2>1. Harmless(t)
    <3>1. CASE o \in Nodes
      BY <1>3, <3>1 DEF OpenFits, Harmless
    <3>2. CASE o \in Requests
      BY <1>0, <1>1, <1>7, <3>2, PortInvOf DEF PortsOf
    <3> QED BY <3>1, <3>2 DEF Owners
  <2>2. Within(w, r)
    BY <1>1, <1>4, <2>1, HarmlessWithin
  <2>3. Within(Detached(w), r)
    <3> SUFFICES ASSUME NEW i \in Names, Detached(w)[i].there
                 PROVE  /\ r[i].there /\ Detached(w)[i].on = r[i].on
                        /\ Detached(w)[i].port = r[i].port
      BY DEF Within
    <3>1. /\ w[i].there /\ Detached(w)[i].on = w[i].on /\ Detached(w)[i].port = w[i].port
      BY <1>5 DEF Within
    <3>2. r[i].there /\ w[i].on = r[i].on /\ w[i].port = r[i].port
      BY <2>2, <3>1 DEF Within
    <3> QED BY <3>1, <3>2
  <2>4. Distinct(Detached(w))
    BY <1>6, <2>3, WithinDistinct
  <2> QED BY <1>1, <1>2, <1>a, <1>b, <2>3, <2>4
<1>8. CASE t.publishes
  <2>1. o \in Requests
    BY <1>3, <1>8 DEF OpenFits, Owners
  <2>2. PortsOf(t)
    BY <1>0, <1>1, <2>1, PortInvOf
  <2>3. n \in DOMAIN t.out /\ Distinct(w)
    BY <1>0, <1>1, <1>8, <2>2 DEF PortsOf
  <2>4. Distinct(Detached(w))
    BY <1>5, <2>3, WithinDistinct
  <2> QED BY <1>1, <1>8, <1>a, <1>b, <2>3, <2>4
<1> QED BY <1>7, <1>8

LEMMA PortStep ==
    ASSUME ShapeInv, WriteInv, LockInv, PortInv, PortsDistinct, [Next]_vars
    PROVE  PortInv' /\ PortsDistinct'
<1>0. /\ Requests \subseteq Owners /\ Nodes \subseteq Owners /\ Owners = Requests \cup Nodes
      /\ \A r \in Requests, n \in Nodes : r # n
      /\ Idle.phase = "idle"
      /\ \A r \in Requests : txn[r] # Idle => PortsOf(txn[r])
  BY OwnersAssumption, PortInvOf DEF Owners, Idle
<1>p. (\A r \in Requests : txn'[r] # Idle => PortsOf(txn[r])') => PortInv'
  BY DEF PortInv, PortsOf
<1>q. rows' = rows => PortsDistinct'
  BY DEF PortsDistinct
<1>1. ASSUME \A r \in Requests : txn'[r] = txn[r], UNCHANGED <<rows, gen>>
      PROVE  PortInv' /\ PortsDistinct'
  BY <1>1, <1>q DEF PortInv
<1>a. ASSUME NEW r \in Requests, NEW t, txn' = [txn EXCEPT ![r] = t], UNCHANGED <<rows, gen>>,
             t # Idle => PortsOf(t)
      PROVE  PortInv' /\ PortsDistinct'
  <2>1. txn'[r] = t /\ \A u \in Owners \ {r} : txn'[u] = txn[u]
    BY <1>0, <1>a, SetOthers
  <2>2. \A u \in Requests : txn'[u] # Idle => PortsOf(txn[u])'
    BY <1>0, <1>a, <2>1 DEF PortsOf
  <2> QED BY <1>p, <1>q, <1>a, <2>2
<1>2. CASE UNCHANGED vars
  BY <1>2, <1>1 DEF vars, database
<1>3. ASSUME NEW r \in Requests, NEW n \in Nodes, Requested(r, n)
      PROVE  PortInv' /\ PortsDistinct'
  <2>1. PICK w, p : Prepared(n, w, p) /\ Begin(r, n, w, p)
    BY <1>3 DEF Requested
  <2>2. PICK t : t = Loaded(n, w, p, 0, gen[n])
    OBVIOUS
  <2>3. txn' = [txn EXCEPT ![r] = t] /\ UNCHANGED <<rows, gen>>
    BY <2>1, <2>2 DEF Begin, Loaded
  <2>4. /\ t.phase = "loaded" /\ t.node = n /\ t.write = w /\ t.found = rows[n]
        /\ t.publishes = p /\ t.base = gen[n]
    BY <2>2 DEF Loaded
  <2>5. RowsFit(n, rows[n]) /\ gen[n] \in Nat /\ Distinct(rows[n])
    BY DEF ShapeInv, PortsDistinct, Distinct
  <2>6. p => Distinct(Write(rows[n], t))
    <3>1. PICK q : q = rows[n]
      OBVIOUS
    <3>2. /\ RowsFit(n, q) /\ t.found = q /\ \A s \in DOMAIN t.write : Fits(n, s, t.write[s])
          /\ p => Distinct(After(q, t.write))
      BY <2>1, <2>4, <2>5, <3>1 DEF Prepared
    <3>3. p => Distinct(Write(q, t))
      BY <3>2, WriteAfter
    <3> QED BY <3>1, <3>3
  <2>7. ~p => Harmless(t)
    BY <2>1, <2>4 DEF Prepared, Harmless
  <2>8. PortsOf(t)
    BY <2>4, <2>5, <2>6, <2>7 DEF PortsOf
  <2> QED BY <1>a, <2>3, <2>8
<1>4. ASSUME NEW r \in Requests, Flush(r)
      PROVE  PortInv' /\ PortsDistinct'
  <2>1. PICK u, d : u = txn[r] /\ d = IF u.publishes THEN {u.node} ELSE {}
    OBVIOUS
  <2>2. PICK t : t = Moved(u, "flushed", d, u.out)
    OBVIOUS
  <2>3. u # Idle /\ txn' = [txn EXCEPT ![r] = t]
    BY <1>4, <2>1, <2>2, FlushEffect
  <2>4. /\ t.node = u.node /\ t.write = u.write /\ t.found = u.found
        /\ t.publishes = u.publishes /\ t.base = u.base /\ t.todo = d
    BY <2>2, MovedFields
  <2>5. UNCHANGED <<rows, gen>>
    BY <1>4 DEF Flush
  <2>6. PortsOf(u) /\ (\A q : Write(q, t) = Write(q, u)) /\ (Harmless(t) <=> Harmless(u))
    BY <1>0, <2>1, <2>3, <2>4, SameWrite
  <2>7. PortsOf(t)
    BY <2>1, <2>4, <2>6 DEF PortsOf
  <2> QED BY <1>a, <2>3, <2>5, <2>7
<1>5. ASSUME NEW o \in Owners, NEW n \in Nodes, Materialize(o, n)
      PROVE  PortInv' /\ PortsDistinct'
  <2>0. PICK x : Assembled(o, n, x)
    BY <1>5, MaterializeEffect
  <2>1. PICK u : u = txn[o]
    OBVIOUS
  <2>2. PICK t : t = Moved(u, "flushed", u.todo \ {n}, x)
    OBVIOUS
  <2>3. txn' = [txn EXCEPT ![o] = t] /\ DOMAIN x = DOMAIN u.out \cup {n}
    BY <2>0, <2>1, <2>2 DEF Assembled
  <2>4. u # Idle /\ u.phase = "flushed" /\ UNCHANGED <<rows, gen>>
        /\ n \in u.todo /\ (n = u.node => u.base = gen[n])
    BY <1>5, <2>1, MaterializeEffect DEF Materialize, MayMaterialize, Collides
  <2>5. CASE o \in Nodes
    <3>1. \A r \in Requests : txn'[r] = txn[r]
      BY <1>0, <2>3, <2>5, SetOthers
    <3> QED BY <1>1, <2>4, <3>1
  <2>6. CASE o \in Requests
    <3>1. /\ t.node = u.node /\ t.write = u.write /\ t.found = u.found
          /\ t.publishes = u.publishes /\ t.base = u.base /\ t.todo = u.todo \ {n}
          /\ t.out = x
      BY <2>2, MovedFields
    <3>2. PortsOf(u) /\ (\A q : Write(q, t) = Write(q, u)) /\ (Harmless(t) <=> Harmless(u))
      BY <1>0, <2>1, <2>4, <2>6, <3>1, SameWrite
    <3>3. PortsOf(t)
      BY <2>3, <2>4, <3>1, <3>2 DEF PortsOf
    <3> QED BY <1>a, <2>3, <2>4, <2>6, <3>3
  <2> QED BY <1>0, <2>5, <2>6
<1>6. ASSUME NEW o \in Owners, Aborts(o)
      PROVE  PortInv' /\ PortsDistinct'
  <2>1. txn' = [txn EXCEPT ![o] = Idle] /\ UNCHANGED <<rows, gen>>
    BY <1>6 DEF Aborts, Abort
  <2>2. CASE o \in Requests
    BY <1>a, <2>1, <2>2
  <2>3. CASE o \in Nodes
    <3>1. \A r \in Requests : txn'[r] = txn[r]
      BY <1>0, <2>1, <2>3, SetOthers
    <3> QED BY <1>1, <2>1, <3>1
  <2> QED BY <1>0, <2>2, <2>3
<1>7. ASSUME NEW o \in Owners, Commit(o)
      PROVE  PortInv' /\ PortsDistinct'
  <2>1. PICK t, n : t = txn[o] /\ n = t.node
    OBVIOUS
  <2>2. /\ PortsDistinct'
        /\ Within(rows'[n], rows[n]) \/ n \in DOMAIN t.out
        /\ \A m \in Nodes : gen'[m] = IF m \in DOMAIN t.out THEN gen[m] + 1 ELSE gen[m]
    BY <1>7, <2>1, CommittedPorts
  <2>3. /\ n \in Nodes /\ \A m \in Nodes \ {n} : rows'[m] = rows[m]
        /\ RowsFit(n, rows'[n]) /\ RowsFit(n, rows[n])
    BY <1>7, <2>1, CommittedRows DEF ShapeInv
  <2>4. txn'[o] = Idle /\ o \in Flushed
    BY <1>7, CommitEffect
  <2>5. ASSUME NEW r \in Requests, txn'[r] # Idle
        PROVE  PortsOf(txn[r])'
    <3>1. PICK u, v : u = txn[r] /\ v = txn'[r]
      OBVIOUS
    <3>2. r # o /\ u # Idle
      BY <1>0, <1>7, <2>4, <2>5, <3>1, CommitOthers
    <3>3. /\ v.node = u.node /\ v.write = u.write /\ v.found = u.found
          /\ v.publishes = u.publishes /\ v.base = u.base /\ v.todo = u.todo /\ v.out = u.out
          /\ v.phase = u.phase
      BY <1>0, <1>7, <3>1, <3>2, CommitOthers DEF Others
    <3>4. PortsOf(u) /\ OpenFits(r, u)
      BY <1>0, <3>1, <3>2, Open
    <3>5. (\A q : Write(q, v) = Write(q, u)) /\ (Harmless(v) <=> Harmless(u))
      BY <3>3, SameWrite
    <3>6. PICK m : m = u.node
      OBVIOUS
    <3>7. m \in Nodes /\ u.base \in Nat /\ gen[m] \in Nat /\ RowsFit(m, u.found)
          /\ \A s \in DOMAIN u.write : Fits(m, s, u.write[s])
      BY <3>4, <3>6 DEF OpenFits, ShapeInv
    <3>8. v.base =< gen'[v.node]
      BY <2>2, <3>3, <3>4, <3>6, <3>7 DEF PortsOf
    <3>9. v.publishes /\ v.base = gen'[v.node] => Distinct(Write(rows'[v.node], v))
      <4> SUFFICES ASSUME u.publishes, u.base = gen'[m]
                   PROVE  Distinct(Write(rows'[m], u))
        BY <3>3, <3>5, <3>6
      <4>1. u.base = gen[m] /\ m \notin DOMAIN t.out
        BY <2>2, <3>4, <3>6, <3>7 DEF PortsOf
      <4>2. Distinct(Write(rows[m], u))
        BY <3>4, <3>6, <4>1 DEF PortsOf
      <4>3. CASE m # n
        BY <2>3, <3>7, <4>2, <4>3
      <4>4. CASE m = n
        <5>1. PICK a, b : a = rows'[m] /\ b = rows[m]
          OBVIOUS
        <5>2. Within(a, b) /\ RowsFit(m, a) /\ RowsFit(m, b)
          BY <2>2, <2>3, <4>1, <4>4, <5>1
        <5>3. Within(Write(a, u), Write(b, u))
          BY <3>7, <5>2, WriteWithin
        <5>4. Distinct(Write(b, u))
          BY <4>2, <5>1
        <5>5. Distinct(Write(a, u))
          BY <5>3, <5>4, WithinDistinct
        <5> QED BY <5>1, <5>5
      <4> QED BY <4>3, <4>4
    <3>10. v.publishes /\ v.phase = "flushed" =>
             v.todo = {v.node} \/ (v.node \in DOMAIN v.out /\ v.base = gen'[v.node])
      <4> SUFFICES ASSUME u.publishes, u.phase = "flushed", m \in DOMAIN u.out, u.base = gen[m]
                   PROVE  gen'[m] = gen[m]
        BY <3>3, <3>4, <3>6 DEF PortsOf
      <4>1. lock[m] = r
        BY <1>0, <3>1 DEF LockInv, Flushed
      <4>2. m \in DOMAIN t.out => lock[m] = o
        BY <2>1, <2>4 DEF LockInv
      <4> QED BY <2>2, <3>2, <3>7, <4>1, <4>2
    <3>11. ~v.publishes => Harmless(v)
      BY <3>3, <3>4, <3>5 DEF PortsOf
    <3> QED BY <3>1, <3>8, <3>9, <3>10, <3>11 DEF PortsOf
  <2> QED BY <1>p, <2>2, <2>5
<1>8. ASSUME NEW n \in Nodes, SyncWireguardKeys(n)
      PROVE  PortInv' /\ PortsDistinct'
  <2>1. UNCHANGED <<rows, gen>> /\ \E t : txn' = [txn EXCEPT ![n] = t]
    BY <1>8 DEF SyncWireguardKeys
  <2>2. \A r \in Requests : txn'[r] = txn[r]
    BY <1>0, <2>1, SetOthers
  <2> QED BY <1>1, <2>1, <2>2
<1>9. ASSUME NEW n \in Nodes, StoreKey(n)
      PROVE  PortInv' /\ PortsDistinct'
  <2>1. UNCHANGED <<rows, gen>>
    BY <1>9 DEF StoreKey
  <2>2. \E t : txn' = [txn EXCEPT ![n] = t]
    BY <1>9, StoreEffect
  <2>3. \A r \in Requests : txn'[r] = txn[r]
    BY <1>0, <2>2, SetOthers
  <2> QED BY <1>1, <2>1, <2>3
<1>10. ASSUME NEW n \in Nodes, PushKey(n) \/ LoseKeyFile(n) \/ RebuildGateway(n)
      PROVE  PortInv' /\ PortsDistinct'
  BY <1>10, <1>1 DEF PushKey, LoseKeyFile, RebuildGateway, database
<1> QED
  BY <1>2, <1>3, <1>4, <1>5, <1>6, <1>7, <1>8, <1>9, <1>10, NextCases

LEMMA PortInit == Init => PortInv /\ PortsDistinct
<1> SUFFICES ASSUME Init PROVE PortInv /\ PortsDistinct
  OBVIOUS
<1>1. \A r \in Requests : txn[r] = Idle
  BY DEF Init, Owners
<1>2. \A n \in Nodes : rows[n] \in InitialRows(n)
  BY DEF Init
<1>3. \A n \in Nodes : Distinct(rows[n])
  BY <1>2, InitialRowsFit
<1> QED BY <1>1, <1>3 DEF PortInv, PortsDistinct, Distinct

(* However administrators' requests overlap, the ports of a node's enabled *)
(* interfaces stay distinct: the check made before the node was locked is  *)
(* still good for a request that gets its generation.                      *)
THEOREM PortsStayDistinct == Spec => []PortsDistinct
<1> DEFINE Inv == BaseInv /\ PortInv /\ PortsDistinct
<1>1. Init => Inv
  BY BaseInit, PortInit
<1>2. Inv /\ [Next]_vars => Inv'
  BY BaseStep, PortStep DEF BaseInv
<1>3. Inv => PortsDistinct
  OBVIOUS
<1> QED BY <1>1, <1>2, <1>3, PTL DEF Spec

(***************************************************************************)
(* Snapshots.                                                              *)
(***************************************************************************)
(* What of the rows and keys an assembly depends on.                       *)
LEMMA AssembleSame ==
    ASSUME NEW a, NEW b, NEW k, NEW l,
           a["peering"] = b["peering"],
           \A s \in Names \cup {"session"} : a[s].there = b[s].there /\ a[s].on = b[s].on,
           \A i \in Names : /\ a[i].port = b[i].port
                            /\ (a[i].peer /\ b["peering"].there)
                                 <=> (b[i].peer /\ b["peering"].there),
           \A i \in Names : b[i].there /\ b[i].peer /\ b["peering"].remote \in Nodes
                              => k[b["peering"].remote] = l[b["peering"].remote]
    PROVE  AssembleSnapshot(a, k) = AssembleSnapshot(b, l)
<1>1. PICK p : p = b["peering"]
  OBVIOUS
<1>2. {j \in Names : a[j].there /\ a[j].on} = {j \in Names : b[j].there /\ b[j].on}
  <2>1. \A j \in Names : a[j].there /\ a[j].on <=> b[j].there /\ b[j].on
    BY Zenon
  <2> QED BY <2>1
<1>3. PICK D : D = {j \in Names : b[j].there /\ b[j].on}
  OBVIOUS
<1>4. ASSUME NEW i \in D
      PROVE  InterfacePayload(a[i], p, k) = InterfacePayload(b[i], p, l)
  <2>1. i \in Names /\ b[i].there
    BY <1>3
  <2>2. (a[i].peer /\ p.there) <=> (b[i].peer /\ p.there)
    BY <1>1, <2>1
  <2>3. a[i].port = b[i].port
    BY <2>1
  <2>4. b[i].peer /\ p.remote \in Nodes => k[p.remote] = l[p.remote]
    BY <1>1, <2>1
  <2>5. (IF (a[i].peer /\ p.there) /\ p.remote \in Nodes THEN k[p.remote] ELSE 0)
        = (IF (b[i].peer /\ p.there) /\ p.remote \in Nodes THEN l[p.remote] ELSE 0)
    BY <2>2, <2>4
  <2>6. ((a[i].peer /\ p.there) /\ ~p.internal) = ((b[i].peer /\ p.there) /\ ~p.internal)
    BY <2>2, Zenon
  <2> QED BY <2>3, <2>5, <2>6, Zenon DEF InterfacePayload
<1>5. [i \in D |-> InterfacePayload(a[i], p, k)] = [i \in D |-> InterfacePayload(b[i], p, l)]
  BY <1>4, Zenon
<1>6. (IF a["session"].there THEN {a["session"].on} ELSE {})
      = (IF b["session"].there THEN {b["session"].on} ELSE {})
  <2>1. a["session"].there = b["session"].there /\ a["session"].on = b["session"].on
    OBVIOUS
  <2> QED BY <2>1, Zenon
<1> QED BY <1>1, <1>2, <1>3, <1>5, <1>6, Zenon DEF AssembleSnapshot

(* A child of no peering is assembled as an orphan.                        *)
LEMMA AssembleDetached ==
    ASSUME NEW n, NEW r, RowsFit(n, r), NEW k
    PROVE  AssembleSnapshot(Detached(r), k) = AssembleSnapshot(r, k)
<1>1. PICK d : d = Detached(r)
  OBVIOUS
<1>2. /\ d["peering"] = r["peering"]
      /\ \A s \in Slots : d[s].there = r[s].there
      /\ \A s \in Slots \ {"peering"} :
           d[s].on = r[s].on /\ d[s].peer = (r[s].peer /\ r["peering"].there)
      /\ \A i \in Names : d[i].port = r[i].port
  BY <1>1, DetachedShape, ZenonT(30)
<1>3. Names \cup {"session"} \subseteq Slots \ {"peering"}
  BY NamesAssumption DEF Slots
<1>4. \A s \in Names \cup {"session"} : d[s].there = r[s].there /\ d[s].on = r[s].on
  BY <1>2, <1>3, Zenon
<1>5. \A i \in Names : (d[i].peer /\ r["peering"].there) <=> (r[i].peer /\ r["peering"].there)
  <2> SUFFICES ASSUME NEW i \in Names
               PROVE  (d[i].peer /\ r["peering"].there) <=> (r[i].peer /\ r["peering"].there)
    OBVIOUS
  <2>1. d[i].peer = (r[i].peer /\ r["peering"].there)
    BY <1>2, <1>3
  <2> QED BY <2>1, Zenon
<1>6. AssembleSnapshot(d, k) = AssembleSnapshot(r, k)
  BY <1>2, <1>4, <1>5, AssembleSame
<1> QED BY <1>1, <1>6

(* The key of a node that no interface peers with is not in the snapshot.  *)
LEMMA AssembleOtherKey ==
    ASSUME NEW r, NEW k, NEW l, NEW m, m \notin RemoteOf(r),
           \A x \in Nodes \ {m} : k[x] = l[x]
    PROVE  AssembleSnapshot(r, k) = AssembleSnapshot(r, l)
<1>1. \A i \in Names : r[i].there /\ r[i].peer /\ r["peering"].remote \in Nodes
                              => k[r["peering"].remote] = l[r["peering"].remote]
  BY DEF RemoteOf
<1>2. /\ r["peering"] = r["peering"]
      /\ \A s \in Names \cup {"session"} : r[s].there = r[s].there /\ r[s].on = r[s].on
      /\ \A i \in Names : /\ r[i].port = r[i].port
                          /\ (r[i].peer /\ r["peering"].there)
                               <=> (r[i].peer /\ r["peering"].there)
  OBVIOUS
<1> QED BY <1>1, <1>2, AssembleSame

LEMMA DetachedRemote ==
    ASSUME NEW n, NEW r, RowsFit(n, r)
    PROVE  RemoteOf(Detached(r)) \subseteq RemoteOf(r)
<1>1. PICK d : d = Detached(r)
  OBVIOUS
<1>2. \A i \in Names : i \in Slots \ {"peering"}
  BY NamesAssumption DEF Slots
<1>3. d["peering"] = r["peering"]
  BY <1>1, DetachedShape, ZenonT(30)
<1>4. ASSUME NEW i \in Names, d[i].there /\ d[i].peer PROVE r[i].there /\ r[i].peer
  <2>1. d[i].there = r[i].there /\ d[i].peer = (r[i].peer /\ r["peering"].there)
    <3>1. /\ \A s \in Slots : d[s].there = r[s].there
          /\ \A s \in Slots \ {"peering"} : d[s].peer = (r[s].peer /\ r["peering"].there)
      BY <1>1, DetachedShape, ZenonT(30)
    <3> QED BY <1>2, <3>1, Zenon
  <2> QED BY <1>4, <2>1, Zenon
<1>5. RemoteOf(d) \subseteq RemoteOf(r)
  BY <1>3, <1>4 DEF RemoteOf
<1> QED BY <1>1, <1>5

(* The rows a commit leaves are those its transaction saw.                 *)
LEMMA CommittedSeen ==
    ASSUME BaseInv, PortInv, NEW o \in Owners, Commit(o)
    PROVE  /\ \A m \in Nodes : \A k :
                AssembleSnapshot(rows'[m], k) = AssembleSnapshot(RowsSeen(txn[o], m), k)
           /\ \A m \in Nodes : RemoteOf(rows'[m]) \subseteq RemoteOf(RowsSeen(txn[o], m))
           /\ o \in Nodes => \A m \in Nodes : RowsSeen(txn[o], m) = rows[m]
           /\ \A m \in Nodes \ {txn[o].node} : RowsSeen(txn[o], m) = rows[m] /\ rows'[m] = rows[m]
           /\ o \in Requests /\ txn[o].node \notin DOMAIN txn[o].out
                => ~txn[o].publishes /\ txn[o].node \in Missed(o)
           /\ \A u \in Flushed \ {o} : \A m \in DOMAIN txn[u].out :
                m \in Nodes /\ m \notin DOMAIN txn[o].out /\ (o \in Nodes => m # o)
<1>0. ShapeInv /\ WriteInv /\ LockInv
  BY DEF BaseInv
<1>1. PICK t, n, r, w : t = txn[o] /\ n = t.node /\ r = rows[n] /\ w = Write(r, t)
  OBVIOUS
<1>2. /\ n \in Nodes /\ RowsFit(n, w) /\ rows'[n] = Detached(w)
      /\ \A m \in Nodes \ {n} : rows'[m] = rows[m]
  BY <1>0, <1>1, CommittedRows
<1>3. o \in Flushed /\ t # Idle /\ t.todo = {} /\ t.phase = "flushed" /\ OpenFits(o, t)
  BY <1>0, <1>1, CommitEffect, Open DEF Flushed
<1>4. RowsSeen(t, n) = w /\ \A m \in Nodes \ {n} : RowsSeen(t, m) = rows[m]
  BY <1>1 DEF RowsSeen
<1>5. \A k : AssembleSnapshot(Detached(w), k) = AssembleSnapshot(w, k)
  BY <1>2, AssembleDetached
<1>6. RemoteOf(Detached(w)) \subseteq RemoteOf(w)
  BY <1>2, DetachedRemote
<1>7. \A m \in Nodes : \A k : AssembleSnapshot(rows'[m], k) = AssembleSnapshot(RowsSeen(t, m), k)
  <2> TAKE m \in Nodes
  <2> TAKE k
  <2>1. CASE m = n
    BY <1>2, <1>4, <1>5, <2>1
  <2>2. CASE m # n
    BY <1>2, <1>4, <2>2
  <2> QED BY <2>1, <2>2
<1>8. \A m \in Nodes : RemoteOf(rows'[m]) \subseteq RemoteOf(RowsSeen(t, m))
  BY <1>2, <1>4, <1>6
<1>9. o \in Nodes => w = r
  <2> SUFFICES ASSUME o \in Nodes PROVE w = r
    OBVIOUS
  <2>1. DOMAIN t.write = {}
    BY <1>3 DEF OpenFits
  <2>2. IsOn(r, Slots)
    BY <1>0, <1>1, <1>2 DEF ShapeInv, RowsFit
  <2>3. /\ IsOn(w, Slots)
        /\ \A s \in Slots : w[s] = IF s \in DOMAIN t.write
                THEN Patch(r[s], t.found[s], t.write[s]) ELSE r[s]
    <3>1. w = Write(r, t)
      BY <1>1
    <3> QED BY <2>2, <3>1, WriteShape
  <2>4. \A s \in Slots : w[s] = r[s]
    BY <2>1, <2>3
  <2> QED BY <2>2, <2>3, <2>4 DEF IsOn
<1>10. o \in Nodes => \A m \in Nodes : RowsSeen(t, m) = rows[m]
  BY <1>1, <1>4, <1>9
<1>11. o \in Requests /\ n \notin DOMAIN t.out => ~t.publishes /\ n \in Missed(o)
  <2> SUFFICES ASSUME o \in Requests, n \notin DOMAIN t.out
               PROVE  ~t.publishes /\ n \in Missed(o)
    OBVIOUS
  <2>1. PortsOf(t)
    BY <1>1, <1>3, PortInvOf
  <2>2. ~t.publishes
    BY <1>1, <1>3, <2>1 DEF PortsOf
  <2>3. t.key = 0
    BY <1>3 DEF OpenFits
  <2> QED BY <1>1, <1>2, <2>2, <2>3 DEF Missed
<1>12. ASSUME NEW u \in Flushed \ {o}, NEW m \in DOMAIN txn[u].out
       PROVE  m \in Nodes /\ m \notin DOMAIN t.out /\ (o \in Nodes => m # o)
  <2>1. u \in Owners /\ txn[u] # Idle
    BY DEF Flushed, Idle
  <2>2. m \in Nodes
    BY <1>0, <2>1, Open DEF OpenFits
  <2>3. lock[m] = u
    BY <1>0 DEF LockInv
  <2>4. m \in DOMAIN t.out => lock[m] = o
    BY <1>0, <1>1, <1>3 DEF LockInv
  <2>5. o \in Nodes => lock[o] = o
    BY <1>0, <1>3 DEF LockInv
  <2> QED BY <2>2, <2>3, <2>4, <2>5
<1> QED BY <1>1, <1>2, <1>4, <1>7, <1>8, <1>10, <1>11, <1>12

LEMMA CommitSnapshot ==
    ASSUME BaseInv, PortInv, SnapshotIsCurrent, AssembledInv, ListedInv,
           NEW o \in Owners, Commit(o)
    PROVE  SnapshotIsCurrent'
<1>0. ShapeInv /\ AgentInv /\ o \in Flushed /\ txn[o].todo = {}
  BY CommitEffect DEF BaseInv
<1>1. PICK t, n0 : t = txn[o] /\ n0 = t.node
  OBVIOUS
<1>2. /\ key' = KeysSeen(t) /\ behind' = (behind \ DOMAIN t.out) \cup Missed(o)
      /\ snap' = [n \in Nodes |-> IF n \in DOMAIN t.out THEN t.out[n] ELSE snap[n]]
  BY <1>1 DEF Commit
<1>3. \A m \in Nodes : \A k : AssembleSnapshot(rows'[m], k) = AssembleSnapshot(RowsSeen(t, m), k)
  BY <1>1, CommittedSeen
<1> SUFFICES ASSUME NEW n \in Nodes \ behind'
             PROVE  snap'[n] = AssembleSnapshot(rows'[n], key')
  BY DEF SnapshotIsCurrent, Snapshot
<1>4. n \notin Missed(o) /\ (n \in DOMAIN t.out \/ n \notin behind)
  BY <1>2
<1>5. CASE n \in DOMAIN t.out
  <2>1. ~t.stale
    BY <1>1, <1>4, <1>5 DEF Missed
  <2>2. t.out[n] = AssembleSnapshot(RowsSeen(t, n), KeysSeen(t))
    BY <1>0, <1>1, <1>5, <2>1 DEF AssembledInv
  <2> QED BY <1>2, <1>3, <1>5, <2>2
<1>6. CASE n \notin DOMAIN t.out
  <2>1. snap'[n] = AssembleSnapshot(rows[n], key)
    BY <1>2, <1>4, <1>6 DEF SnapshotIsCurrent, Snapshot
  <2>2. CASE o \in Requests
    <3>1. n # n0
      BY <1>1, <1>4, <1>6, <2>2, CommittedSeen
    <3>2. rows'[n] = rows[n]
      BY <1>1, <3>1, CommittedSeen
    <3>3. key' = key
      BY <1>0, <2>2, CommittedKeys
    <3> QED BY <2>1, <3>2, <3>3
  <2>3. CASE o \in Nodes
    <3>1. RowsSeen(t, n) = rows[n]
      BY <1>1, <2>3, CommittedSeen
    <3>2. o \notin RemoteOf(rows[n])
      BY <1>0, <1>1, <1>4, <1>6, <2>3 DEF ListedInv
    <3>3. \A x \in Nodes \ {o} : key'[x] = key[x]
      BY <1>0, <2>3, CommittedKeys
    <3>4. PICK k, l, q : k = key' /\ l = key /\ q = rows[n]
      OBVIOUS
    <3>5. AssembleSnapshot(q, k) = AssembleSnapshot(q, l)
      BY <3>2, <3>3, <3>4, AssembleOtherKey
    <3>6. AssembleSnapshot(rows'[n], k) = AssembleSnapshot(q, k)
      BY <1>3, <3>1, <3>4
    <3> QED BY <2>1, <3>4, <3>5, <3>6
  <2> QED BY <2>2, <2>3 DEF Owners
<1> QED BY <1>5, <1>6

LEMMA CommitAssembled ==
    ASSUME BaseInv, PortInv, AssembledInv, NEW o \in Owners, Commit(o)
    PROVE  AssembledInv'
<1>0. ShapeInv /\ AgentInv /\ o \in Flushed
  BY CommitEffect DEF BaseInv
<1>1. PICK t : t = txn[o]
  OBVIOUS
<1> SUFFICES ASSUME NEW u \in Flushed', NEW m \in DOMAIN txn'[u].out, ~txn'[u].stale
             PROVE  txn'[u].out[m]
                    = AssembleSnapshot(RowsSeen(txn[u], m)', KeysSeen(txn[u])')
  BY DEF AssembledInv
<1>2. u \in Owners /\ txn'[u].phase = "flushed" /\ Idle.phase = "idle"
  BY DEF Flushed, Idle
<1>3. u # o
  BY <1>0, <1>2, CommitEffect
<1>4. txn[u] # Idle
  <2>1. txn[u].phase = "flushed"
    BY <1>0, <1>2, <1>3, CommitOthers DEF Others
  <2> QED BY <1>2, <2>1
<1>5. txn'[u] # Marked(txn[u])
  <2>1. PICK v, x : v = txn[u] /\ x = Marked(v)
    OBVIOUS
  <2>2. IsOpen(v)
    BY <1>0, <1>2, <1>4, <2>1, Open
  <2>3. x.stale
    BY <2>1, <2>2, MarkedFields
  <2> QED BY <2>1, <2>3, Zenon
<1>6. txn'[u] = txn[u] /\ ~Overtakes(t, txn[u])
  BY <1>0, <1>1, <1>2, <1>3, <1>4, <1>5, CommitEffect
<1>7. PICK v : v = txn[u]
  OBVIOUS
<1>8. u \in Flushed \ {o} /\ m \in DOMAIN v.out /\ ~v.stale
  BY <1>2, <1>3, <1>6, <1>7 DEF Flushed
<1>9. v.out[m] = AssembleSnapshot(RowsSeen(v, m), KeysSeen(v))
  BY <1>7, <1>8 DEF AssembledInv
<1>10. m \in Nodes /\ m \notin DOMAIN t.out /\ (o \in Nodes => m # o)
  BY <1>1, <1>7, <1>8, CommittedSeen
<1>11. OpenFits(o, t) /\ OpenFits(u, v)
  BY <1>0, <1>1, <1>2, <1>4, <1>7, CommitEffect, Open
<1>12. m # t.node
  <2>1. CASE o \in Nodes
    BY <1>10, <1>11, <2>1 DEF OpenFits
  <2>2. CASE o \in Requests
    <3> SUFFICES ASSUME m = t.node PROVE FALSE
      OBVIOUS
    <3>1. ~t.publishes
      BY <1>1, <1>10, <2>2, CommittedSeen
    <3>2. t.key = 0
      BY <1>11, <2>2 DEF OpenFits
    <3> QED BY <1>6, <1>7, <1>8, <3>1, <3>2 DEF Overtakes
  <2> QED BY <2>1, <2>2 DEF Owners
<1>13. rows'[m] = rows[m]
  BY <1>1, <1>10, <1>12, CommittedSeen
<1>14. RowsSeen(txn[u], m)' = RowsSeen(v, m)
  BY <1>6, <1>7, <1>13 DEF RowsSeen
<1>15. KeysSeen(txn[u])' = IF v.key # 0 THEN [key' EXCEPT ![v.node] = v.key] ELSE key'
  BY <1>6, <1>7 DEF KeysSeen
<1>16. CASE o \in Requests
  <2>1. key' = key
    BY <1>0, <1>16, CommittedKeys
  <2> QED BY <1>6, <1>7, <1>9, <1>14, <1>15, <2>1 DEF KeysSeen
<1>17. CASE o \in Nodes
  <2>1. t.node = o /\ t.key # 0
    BY <1>11, <1>17, BoundsAssumption DEF OpenFits
  <2>2. o \notin RemoteOf(RowsSeen(v, m))
    BY <1>6, <1>7, <1>8, <1>10, <2>1 DEF Overtakes
  <2>3. PICK k, l, q : k = KeysSeen(txn[u])' /\ l = KeysSeen(v) /\ q = RowsSeen(v, m)
    OBVIOUS
  <2>4. key' \in [Nodes -> 0..MaxKeys] /\ \A x \in Nodes \ {o} : key'[x] = key[x]
    BY <1>0, <1>17, CommittedKeys
  <2>5. \A x \in Nodes \ {o} : k[x] = l[x]
    BY <1>0, <1>15, <2>3, <2>4 DEF KeysSeen, AgentInv
  <2>6. AssembleSnapshot(q, k) = AssembleSnapshot(q, l)
    BY <2>2, <2>3, <2>5, AssembleOtherKey
  <2> QED BY <1>6, <1>7, <1>9, <1>14, <2>3, <2>6
<1> QED BY <1>16, <1>17 DEF Owners

LEMMA CommitListed ==
    ASSUME BaseInv, PortInv, ListedInv, NEW o \in Owners, Commit(o)
    PROVE  ListedInv'
<1>0. ShapeInv
  BY DEF BaseInv
<1>1. PICK t : t = txn[o]
  OBVIOUS
<1> SUFFICES ASSUME NEW m \in Flushed' \cap Nodes, NEW n \in Nodes \ behind',
                    m \in RemoteOf(rows'[n])
             PROVE  n \in txn'[m].todo \cup DOMAIN txn'[m].out
  BY DEF ListedInv
<1>2. m \in Owners /\ txn'[m].phase = "flushed" /\ Idle.phase = "idle"
  BY DEF Flushed, Idle
<1>3. m # o
  BY <1>0, <1>2, CommitEffect
<1>4. m \in Flushed /\ txn[m] # Idle
  <2>1. txn[m].phase = "flushed"
    BY <1>0, <1>2, <1>3, CommitOthers DEF Others
  <2> QED BY <1>2, <2>1 DEF Flushed
<1>5. txn'[m].todo = txn[m].todo /\ txn'[m].out = txn[m].out
  BY <1>0, <1>2, <1>3, <1>4, CommitOthers DEF Others
<1>6. m \in RemoteOf(RowsSeen(t, n))
  BY <1>1, CommittedSeen
<1>7. n \notin Missed(o) /\ (n \in DOMAIN t.out \/ n \notin behind)
  BY <1>1 DEF Commit
<1>8. CASE n \in DOMAIN t.out
  BY <1>1, <1>3, <1>4, <1>5, <1>6, <1>7, <1>8 DEF Missed
<1>9. CASE n \notin DOMAIN t.out
  <2>1. RowsSeen(t, n) = rows[n]
    <3>1. CASE o \in Nodes
      BY <1>1, <3>1, CommittedSeen
    <3>2. CASE o \in Requests
      <4>1. n # t.node
        BY <1>1, <1>7, <1>9, <3>2, CommittedSeen
      <4> QED BY <1>1, <4>1, CommittedSeen
    <3> QED BY <3>1, <3>2 DEF Owners
  <2> QED BY <1>4, <1>5, <1>6, <1>7, <1>9, <2>1 DEF ListedInv
<1> QED BY <1>8, <1>9

(* No other step touches rows, keys or snapshots.                          *)
LEMMA SnapshotStep ==
    ASSUME BaseInv, PortInv, SnapshotIsCurrent, AssembledInv, ListedInv, [Next]_vars
    PROVE  SnapshotIsCurrent' /\ AssembledInv' /\ ListedInv'
<1>i. ShapeInv
  BY DEF BaseInv
<1>0. /\ Requests \subseteq Owners /\ Nodes \subseteq Owners
      /\ \A r \in Requests, n \in Nodes : r # n
      /\ Flushed \subseteq Owners /\ Idle.phase = "idle"
      /\ \A o \in Owners : o \in Flushed <=> txn[o].phase = "flushed"
      /\ \A o \in Owners : o \in Flushed' <=> txn'[o].phase = "flushed"
      /\ Flushed' \subseteq Owners
      /\ \A o \in Flushed : txn[o] # Idle
  BY OwnersAssumption DEF Owners, Flushed, Idle
<1>1. ASSUME UNCHANGED <<rows, key, snap, behind>>, NEW o \in Owners,
             \A u \in Owners \ {o} : txn'[u] = txn[u],
             o \in Flushed' =>
               /\ \A n \in DOMAIN txn'[o].out : ~txn'[o].stale =>
                    txn'[o].out[n] = AssembleSnapshot(RowsSeen(txn'[o], n), KeysSeen(txn'[o]))
               /\ o \in Nodes => \A n \in Nodes \ behind : o \in RemoteOf(rows[n])
                                    => n \in txn'[o].todo \cup DOMAIN txn'[o].out
      PROVE  SnapshotIsCurrent' /\ AssembledInv' /\ ListedInv'
  <2>1. SnapshotIsCurrent'
    BY <1>1 DEF SnapshotIsCurrent, Snapshot
  <2>2. \A u \in Flushed' \ {o} : u \in Flushed
    BY <1>0, <1>1
  <2>4. ASSUME NEW u \in Flushed', NEW n \in DOMAIN txn'[u].out, ~txn'[u].stale
        PROVE  txn'[u].out[n] = AssembleSnapshot(RowsSeen(txn'[u], n), KeysSeen(txn'[u]))
    <3>1. CASE u = o
      BY <1>1, <2>4, <3>1
    <3>2. CASE u # o
      <4>1. txn'[u] = txn[u] /\ u \in Flushed
        BY <1>0, <1>1, <2>2, <3>2
      <4> QED BY <2>4, <4>1 DEF AssembledInv
    <3> QED BY <3>1, <3>2
  <2>5. AssembledInv'
    BY <1>1, <2>4, ZenonT(30) DEF AssembledInv, RowsSeen, KeysSeen
  <2>6. ListedInv'
    BY <1>0, <1>1, <2>2 DEF ListedInv
  <2> QED BY <2>1, <2>5, <2>6
<1>2. ASSUME UNCHANGED <<rows, key, snap, behind, txn>>
      PROVE  SnapshotIsCurrent' /\ AssembledInv' /\ ListedInv'
  BY <1>2 DEF SnapshotIsCurrent, Snapshot, AssembledInv, RowsSeen, KeysSeen, ListedInv, Flushed
<1>3. ASSUME UNCHANGED <<rows, key, snap, behind>>, NEW o \in Owners, NEW t,
             txn' = [txn EXCEPT ![o] = t], t.phase # "flushed"
      PROVE  SnapshotIsCurrent' /\ AssembledInv' /\ ListedInv'
  <2>1. txn'[o] = t /\ \A u \in Owners \ {o} : txn'[u] = txn[u]
    BY <1>i, <1>3, SetOthers
  <2>2. o \notin Flushed'
    BY <1>0, <1>3, <2>1
  <2> QED BY <1>1, <1>3, <2>1, <2>2
<1>4. CASE UNCHANGED vars
  BY <1>2, <1>4 DEF vars, database
<1>5. ASSUME NEW r \in Requests, NEW n \in Nodes, Requested(r, n)
      PROVE  SnapshotIsCurrent' /\ AssembledInv' /\ ListedInv'
  <2>1. PICK w, p : Begin(r, n, w, p)
    BY <1>5 DEF Requested
  <2>2. PICK t : t = Loaded(n, w, p, 0, gen[n])
    OBVIOUS
  <2>3. /\ txn' = [txn EXCEPT ![r] = t] /\ UNCHANGED <<rows, key, snap, behind>>
        /\ t.phase = "loaded"
    BY <2>1, <2>2 DEF Begin, Loaded
  <2> QED BY <1>0, <1>3, <2>3
<1>6. ASSUME NEW r \in Requests, Flush(r)
      PROVE  SnapshotIsCurrent' /\ AssembledInv' /\ ListedInv'
  <2>1. PICK d : d = IF txn[r].publishes THEN {txn[r].node} ELSE {}
    OBVIOUS
  <2>2. PICK t : t = Moved(txn[r], "flushed", d, txn[r].out)
    OBVIOUS
  <2>3. txn[r] # Idle /\ txn[r].phase = "loaded" /\ txn' = [txn EXCEPT ![r] = t]
    BY <1>i, <1>6, <2>1, <2>2, FlushEffect
  <2>4. txn'[r] = t /\ \A u \in Owners \ {r} : txn'[u] = txn[u]
    BY <1>i, <1>0, <2>3, SetOthers
  <2>5. DOMAIN txn[r].out = {}
    BY <1>i, <1>0, <2>3, Open DEF OpenFits
  <2>6. DOMAIN txn'[r].out = {}
    BY <2>2, <2>4, <2>5, MovedFields
  <2>7. UNCHANGED <<rows, key, snap, behind>>
    BY <1>6 DEF Flush
  <2> QED BY <1>0, <1>1, <2>4, <2>6, <2>7
<1>7. ASSUME NEW o \in Owners, NEW n \in Nodes, Materialize(o, n)
      PROVE  SnapshotIsCurrent' /\ AssembledInv' /\ ListedInv'
  <2>0. PICK x : Assembled(o, n, x)
    BY <1>i, <1>7, MaterializeEffect
  <2>1. PICK u : u = txn[o]
    OBVIOUS
  <2>2. PICK t : t = Moved(u, "flushed", u.todo \ {n}, x)
    OBVIOUS
  <2>3. /\ txn' = [txn EXCEPT ![o] = t] /\ DOMAIN x = DOMAIN u.out \cup {n}
        /\ x[n] = AssembleSnapshot(RowsSeen(u, n), KeysSeen(u))
        /\ \A m \in DOMAIN u.out \ {n} : x[m] = u.out[m]
    BY <2>0, <2>1, <2>2 DEF Assembled
  <2>4. o \in Flushed /\ UNCHANGED <<rows, key, snap, behind>> /\ n \in u.todo
    BY <1>i, <1>0, <1>7, <2>1, MaterializeEffect DEF Materialize, MayMaterialize
  <2>5. txn'[o] = t /\ \A v \in Owners \ {o} : txn'[v] = txn[v]
    BY <1>i, <2>3, SetOthers
  <2>6. /\ t.node = u.node /\ t.write = u.write /\ t.found = u.found /\ t.key = u.key
        /\ t.todo = u.todo \ {n} /\ t.out = x /\ t.stale = u.stale
    BY <2>2, MovedFields
  <2>7. (\A m : RowsSeen(t, m) = RowsSeen(u, m)) /\ KeysSeen(t) = KeysSeen(u)
    BY <2>6, SameWrite DEF RowsSeen, KeysSeen
  <2>8. ASSUME NEW m \in DOMAIN t.out, ~t.stale
        PROVE  t.out[m] = AssembleSnapshot(RowsSeen(t, m), KeysSeen(t))
    <3>1. CASE m = n
      BY <2>3, <2>6, <2>7, <3>1
    <3>2. CASE m # n
      <4>1. m \in DOMAIN u.out /\ ~u.stale /\ t.out[m] = u.out[m]
        BY <2>3, <2>6, <2>8, <3>2
      <4>2. u.out[m] = AssembleSnapshot(RowsSeen(u, m), KeysSeen(u))
        BY <2>1, <2>4, <4>1 DEF AssembledInv
      <4> QED BY <2>7, <4>1, <4>2
    <3> QED BY <3>1, <3>2
  <2>9. ASSUME o \in Nodes, NEW m \in Nodes \ behind, o \in RemoteOf(rows[m])
        PROVE  m \in t.todo \cup DOMAIN t.out
    <3>1. m \in u.todo \cup DOMAIN u.out
      BY <2>1, <2>4, <2>9 DEF ListedInv
    <3> QED BY <2>3, <2>6, <3>1
  <2> QED BY <1>1, <2>4, <2>5, <2>8, <2>9
<1>8. ASSUME NEW o \in Owners, Aborts(o)
      PROVE  SnapshotIsCurrent' /\ AssembledInv' /\ ListedInv'
  BY <1>0, <1>3, <1>8 DEF Aborts, Abort
<1>9. ASSUME NEW o \in Owners, Commit(o)
      PROVE  SnapshotIsCurrent' /\ AssembledInv' /\ ListedInv'
  BY <1>9, CommitSnapshot, CommitAssembled, CommitListed
<1>10. ASSUME NEW n \in Nodes, SyncWireguardKeys(n)
      PROVE  SnapshotIsCurrent' /\ AssembledInv' /\ ListedInv'
  <2>1. PICK t : t = Loaded(n, << >>, FALSE, keyfile'[n], 0)
    OBVIOUS
  <2>2. /\ txn' = [txn EXCEPT ![n] = t] /\ UNCHANGED <<rows, key, snap, behind>>
        /\ t.phase = "loaded"
    BY <1>10, <2>1 DEF SyncWireguardKeys, Loaded
  <2> QED BY <1>0, <1>3, <2>2
<1>11. ASSUME NEW n \in Nodes, StoreKey(n)
      PROVE  SnapshotIsCurrent' /\ AssembledInv' /\ ListedInv'
  <2>1. PICK d : d = Affected(n)
    OBVIOUS
  <2>2. PICK t : t = Moved(txn[n], "flushed", d, txn[n].out)
    OBVIOUS
  <2>3. txn[n] # Idle /\ txn[n].phase = "loaded" /\ txn' = [txn EXCEPT ![n] = t]
    BY <1>i, <1>11, <2>1, <2>2, StoreEffect
  <2>4. txn'[n] = t /\ \A u \in Owners \ {n} : txn'[u] = txn[u]
    BY <1>i, <1>0, <2>3, SetOthers
  <2>5. DOMAIN txn[n].out = {}
    BY <1>i, <1>0, <2>3, Open DEF OpenFits
  <2>6. t.out = txn[n].out /\ t.todo = d
    BY <2>2, MovedFields
  <2>7. UNCHANGED <<rows, key, snap, behind>>
    BY <1>11 DEF StoreKey
  <2>8. ASSUME NEW m \in Nodes, n \in RemoteOf(rows[m])
        PROVE  m \in d
    <3>1. rows[m]["peering"].remote = n /\ \E i \in Names : rows[m][i].there /\ rows[m][i].peer
      BY <2>8 DEF RemoteOf
    <3>2. RowsFit(m, rows[m]) /\ Attached(rows[m])
      BY <1>i DEF ShapeInv
    <3>3. rows[m]["peering"].there
      <4>1. \A i \in Names : i \in Slots \ {"peering"}
        BY NamesAssumption DEF Slots
      <4> QED BY <3>1, <3>2, <4>1 DEF Attached
    <3>4. m # n
      <4>1. rows[m]["peering"] \in PeeringRow(m) \cup {NoPeering}
        BY <3>2 DEF RowsFit, Fits, Slots
      <4>2. rows[m]["peering"] \in PeeringRow(m)
        BY <3>3, <4>1 DEF NoPeering
      <4>3. rows[m]["peering"].remote # m
        BY <4>2, OwnersAssumption DEF PeeringRow, External
      <4> QED BY <3>1, <4>3
    <3> QED BY <2>1, <3>1, <3>3, <3>4 DEF Affected
  <2> QED BY <1>0, <1>1, <2>4, <2>5, <2>6, <2>7, <2>8
<1>12. ASSUME NEW n \in Nodes, PushKey(n) \/ LoseKeyFile(n) \/ RebuildGateway(n)
      PROVE  SnapshotIsCurrent' /\ AssembledInv' /\ ListedInv'
  BY <1>2, <1>12 DEF PushKey, LoseKeyFile, RebuildGateway, database
<1> QED
  BY <1>i, <1>4, <1>5, <1>6, <1>7, <1>8, <1>9, <1>10, <1>11, <1>12, NextCases

(* The newest snapshot of a node is what its rows and its peers' keys give *)
(* now, unless one of its writes published nothing or the first key of a   *)
(* peer overtook it: a first key report misses no node that peers with the *)
(* reporter, and a snapshot is not assembled from rows that have changed.  *)
THEOREM SnapshotsAreCurrent == Spec => []SnapshotIsCurrent
<1> DEFINE Inv == /\ BaseInv /\ PortInv /\ PortsDistinct
                  /\ SnapshotIsCurrent /\ AssembledInv /\ ListedInv
<1>1. Init => Inv
  <2> SUFFICES ASSUME Init PROVE Inv
    OBVIOUS
  <2>1. BaseInv /\ PortInv /\ PortsDistinct
    BY BaseInit, PortInit
  <2>2. Flushed = {}
    BY DEF Init, Flushed, Idle
  <2>3. SnapshotIsCurrent
    BY DEF Init, SnapshotIsCurrent
  <2> QED BY <2>1, <2>2, <2>3 DEF AssembledInv, ListedInv
<1>2. Inv /\ [Next]_vars => Inv'
  BY BaseStep, PortStep, SnapshotStep DEF BaseInv
<1>3. Inv => SnapshotIsCurrent
  OBVIOUS
<1> QED BY <1>1, <1>2, <1>3, PTL DEF Spec

=============================================================================
