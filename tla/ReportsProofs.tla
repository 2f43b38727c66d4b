--------------------------- MODULE ReportsProofs ----------------------------
(***************************************************************************)
(* Theorems about Reports, for every number of requests in progress, every *)
(* set of generations and tables, every history length and budget.         *)
(***************************************************************************)
EXTENDS Reports, TLAPS, FiniteSetTheorems

(***************************************************************************)
(* Shapes.                                                                 *)
(***************************************************************************)
Outcomes ==
    [stage : {-1, 0, 1, 2, 3}, desired : Nat, observed : Nat,
     result : {None, "succeeded", "failed"}, drift : {None, "warning", "critical"}]

Columns == {"there", "desired", "observed", "report", "apply", "drift", "health"}

(* A node_status row, whatever its columns hold.                           *)
IsStatus(row) == row = [c \in Columns |-> row[c]]

(* A request that has read its row.                                        *)
IsOpen(t) ==
    t = [phase |-> t.phase, kind |-> t.kind, payload |-> t.payload, loaded |-> t.loaded,
         id |-> t.id, dropped |-> t.dropped, deleted |-> t.deleted]

(* What is known of a request in each of its phases.                       *)
RequestShape(t) ==
    /\ t.phase \in {"idle", "sent", "loaded", "flushed", "committed"}
    /\ t.phase = "idle" => t = Idle
    /\ t.phase # "idle" => t.kind \in Kinds
    /\ t.phase \in {"loaded", "flushed"} => IsOpen(t)
    /\ t.phase \in {"loaded", "flushed"} /\ t.kind # "routing" => IsStatus(t.loaded)

IsOn(f, S) == f = [x \in S |-> f[x]]

ShapeInv ==
    /\ IsStatus(status)
    /\ agent \in Outcomes
    /\ applied \in Nat
    /\ posting \in [Loops -> Requests \cup {Nobody}]
    /\ IsOn(txn, Requests) /\ IsOn(cache, Keys) /\ IsOn(reader, Keys)
    /\ \A r \in Requests : RequestShape(txn[r])

(* The shape of a request as it is sent, reads its row and ends.           *)
LEMMA RequestShapes ==
    /\ RequestShape(Idle)
    /\ \A k \in Kinds : RequestShape([phase |-> "committed", kind |-> k])
    /\ \A k \in Kinds : \A p : RequestShape([phase |-> "sent", kind |-> k, payload |-> p])
  BY DEF RequestShape, Idle

(* Posting gives a free request to the loop and touches no other.          *)
LEMMA SendShape ==
    ASSUME ShapeInv, NEW r \in Requests, NEW kind \in Kinds, NEW payload,
           Send(r, kind, payload)
    PROVE  ShapeInv'
<1>1. /\ IsStatus(status)' /\ agent' \in Outcomes /\ applied' \in Nat
      /\ IsOn(cache, Keys)' /\ IsOn(reader, Keys)'
  BY DEF ShapeInv, Send, store, IsStatus, IsOn
<1>2. posting' \in [Loops -> Requests \cup {Nobody}]
  BY DEF ShapeInv, Send
<1>3. IsOn(txn, Requests)' /\ \A q \in Requests : RequestShape(txn[q])'
  BY RequestShapes DEF ShapeInv, Send, IsOn
<1> QED
  BY <1>1, <1>2, <1>3 DEF ShapeInv

(* An answer moves the loop that waits for it.                             *)
LEMMA AnsweredShape ==
    ASSUME ShapeInv, NEW r \in Requests, NEW ok \in BOOLEAN, Answered(r, ok)
    PROVE  /\ agent' \in Outcomes /\ applied' \in Nat
           /\ posting' \in [Loops -> Requests \cup {Nobody}]
<1> USE DEF ShapeInv
<1>1. NotReconciling \in Outcomes
  BY DEF NotReconciling, Outcomes
<1>2. posting' \in [Loops -> Requests \cup {Nobody}]
  BY DEF Answered
<1>3. applied' \in Nat
  BY DEF Answered, Outcomes
<1>4. agent' \in Outcomes
  <2>1. \/ agent' = agent
        \/ agent' = NotReconciling
        \/ agent.stage # 3 /\ agent' = [agent EXCEPT !.stage = @ + 1]
    BY DEF Answered
  <2>2. agent.stage \in {-1, 0, 1, 2, 3}
    BY DEF Outcomes
  <2> QED
    BY <1>1, <2>1, <2>2 DEF Outcomes
<1> QED
  BY <1>2, <1>3, <1>4

(* Writing the changed columns keeps the columns.                          *)
LEMMA PatchShape ==
    ASSUME NEW row, NEW loaded, NEW new, IsStatus(row)
    PROVE  /\ IsStatus(Patch(row, loaded, new))
           /\ \A c \in Columns : Patch(row, loaded, new)[c]
                                  = IF new[c] # loaded[c] THEN new[c] ELSE row[c]
<1>1. DOMAIN row = Columns
  BY DEF IsStatus
<1> QED
  BY <1>1 DEF Patch, IsStatus

(* A request that has flushed: one field after the other is set.           *)
Flushed(t, i, d, e) ==
    [t EXCEPT !.phase = "flushed", !.id = i, !.dropped = d, !.deleted = e]

LEMMA FlushedShape ==
    ASSUME NEW t, IsOpen(t), NEW i, NEW d, NEW e
    PROVE  Flushed(t, i, d, e)
           = [phase |-> "flushed", kind |-> t.kind, payload |-> t.payload,
              loaded |-> t.loaded, id |-> i, dropped |-> d, deleted |-> e]
<1>1. PICK u : u = [t EXCEPT !.phase = "flushed"]
  OBVIOUS
<1>2. u = [phase |-> "flushed", kind |-> t.kind, payload |-> t.payload,
           loaded |-> t.loaded, id |-> t.id, dropped |-> t.dropped, deleted |-> t.deleted]
  BY <1>1 DEF IsOpen
<1>3. PICK v : v = [u EXCEPT !.id = i]
  OBVIOUS
<1>4. v = [phase |-> "flushed", kind |-> t.kind, payload |-> t.payload,
           loaded |-> t.loaded, id |-> i, dropped |-> t.dropped, deleted |-> t.deleted]
  BY <1>2, <1>3
<1>5. PICK w : w = [v EXCEPT !.dropped = d]
  OBVIOUS
<1>6. w = [phase |-> "flushed", kind |-> t.kind, payload |-> t.payload,
           loaded |-> t.loaded, id |-> i, dropped |-> d, deleted |-> t.deleted]
  BY <1>4, <1>5
<1>7. [w EXCEPT !.deleted = e]
         = [phase |-> "flushed", kind |-> t.kind, payload |-> t.payload,
            loaded |-> t.loaded, id |-> i, dropped |-> d, deleted |-> e]
  BY <1>6
<1>8. Flushed(t, i, d, e) = [w EXCEPT !.deleted = e]
  BY <1>1, <1>3, <1>5 DEF Flushed
<1> QED
  BY <1>7, <1>8

LEMMA FlushEffect ==
    ASSUME ShapeInv, NEW r \in Requests, Flush(r)
    PROVE  /\ txn[r].phase = "loaded"
           /\ \E i, d : txn' = [txn EXCEPT ![r] =
                 [phase |-> "flushed", kind |-> txn[r].kind, payload |-> txn[r].payload,
                  loaded |-> txn[r].loaded, id |-> i, dropped |-> d,
                  deleted |-> IF Rewrites(txn[r]) THEN entries ELSE {}]]
<1> DEFINE e == IF Rewrites(txn[r]) THEN entries ELSE {}
<1>1. PICK i, d : txn' = [txn EXCEPT ![r].phase = "flushed", ![r].id = i,
                                     ![r].dropped = d, ![r].deleted = e]
  BY Zenon DEF Flush
<1> HIDE DEF e
<1>2. txn[r].phase = "loaded" /\ IsOpen(txn[r])
  BY DEF Flush, MayFlush, ShapeInv, RequestShape
<1>3. txn' = [txn EXCEPT ![r] = Flushed(txn[r], i, d, e)]
  BY <1>1 DEF ShapeInv, IsOn, Flushed
<1>4. Flushed(txn[r], i, d, e)
        = [phase |-> "flushed", kind |-> txn[r].kind, payload |-> txn[r].payload,
           loaded |-> txn[r].loaded, id |-> i, dropped |-> d, deleted |-> e]
  BY <1>2, FlushedShape
<1> QED
  BY <1>2, <1>3, <1>4 DEF e

LEMMA ShapeStep == ShapeInv /\ [Next]_vars => ShapeInv'
<1> SUFFICES ASSUME ShapeInv, [Next]_vars PROVE ShapeInv'
  OBVIOUS
<1> USE DEF store, loops
<1>0. NotReconciling \in Outcomes
  BY DEF NotReconciling, Outcomes
<1>1. ASSUME UNCHANGED <<status, agent, applied, posting, txn, cache, reader>>
      PROVE  ShapeInv'
  BY <1>1 DEF ShapeInv, IsStatus, IsOn
<1>2. ASSUME UNCHANGED <<status, txn>>, agent' \in Outcomes, applied' \in Nat,
             posting' \in [Loops -> Requests \cup {Nobody}],
             IsOn(cache, Keys)', IsOn(reader, Keys)'
      PROVE  ShapeInv'
  BY <1>2 DEF ShapeInv, IsStatus, IsOn
<1>3. ASSUME IsStatus(status)', NEW r \in Requests, NEW t, RequestShape(t),
             txn' = [txn EXCEPT ![r] = t], agent' \in Outcomes, applied' \in Nat,
             posting' \in [Loops -> Requests \cup {Nobody}],
             IsOn(cache, Keys)', IsOn(reader, Keys)'
      PROVE  ShapeInv'
  BY <1>3 DEF ShapeInv, IsOn
<1>4. CASE UNCHANGED vars
  BY <1>1, <1>4 DEF vars
<1>5. CASE Reconcile
  <2>1. agent' \in Outcomes
    BY <1>5, GensAssumption DEF Reconcile, Outcomes, ShapeInv, None
  <2> QED
    BY <1>5, <2>1, <1>2 DEF Reconcile, ShapeInv, IsOn
<1>6. CASE Restart
  <2>1. IsStatus(status)' /\ applied' \in Nat /\ agent' \in Outcomes
    BY <1>6, <1>0 DEF Restart, ShapeInv, IsStatus
  <2>2. /\ IsOn(txn, Requests)' /\ IsOn(cache, Keys)' /\ IsOn(reader, Keys)'
        /\ \A r \in Requests : RequestShape(txn[r])'
    BY <1>6, RequestShapes DEF Restart, ShapeInv, IsOn
  <2>3. posting' \in [Loops -> Requests \cup {Nobody}]
    BY <1>6 DEF Restart
  <2> QED
    BY <2>1, <2>2, <2>3 DEF ShapeInv
<1>7. CASE Tick
  BY <1>7, <1>1 DEF Tick
<1>8. ASSUME NEW k \in Keys, Misses(k) PROVE ShapeInv'
  BY <1>8, <1>2 DEF Misses, ShapeInv, IsOn
<1>9. ASSUME NEW r \in Requests, Publish(r) \/ PostReresolve(r) \/ PostRouting(r)
      PROVE  ShapeInv'
  <2>1. CASE Publish(r)
    <3>1. Stages[agent.stage] \in Kinds
      BY <2>1 DEF Publish, Stages, Kinds, StatusKinds
    <3> QED
      BY <2>1, <3>1, SendShape DEF Publish
  <2>2. CASE PostReresolve(r)
    BY <2>2, SendShape DEF PostReresolve, Kinds, StatusKinds
  <2>3. CASE PostRouting(r)
    BY <2>3, SendShape DEF PostRouting, Kinds
  <2> QED
    BY <1>9, <2>1, <2>2, <2>3
<1>10. ASSUME NEW r \in Requests, Serve(r) PROVE ShapeInv'
  <2>0. RequestShape(txn[r])
    BY DEF ShapeInv
  <2>1. CASE Load(r)
    <3> DEFINE t == [phase |-> "loaded", kind |-> txn[r].kind, payload |-> txn[r].payload,
                     loaded |-> RowOf(txn[r].kind), id |-> 0, dropped |-> {}, deleted |-> {}]
    <3>1. txn[r].kind \in Kinds
      BY <2>0, <2>1 DEF Load, RequestShape
    <3>2. RequestShape(t)
      BY <3>1 DEF RequestShape, IsOpen, RowOf, ShapeInv
    <3>3. txn' = [txn EXCEPT ![r] = t]
      BY <2>1 DEF Load
    <3> HIDE DEF t
    <3>4. IsStatus(status)' /\ IsOn(cache, Keys)' /\ IsOn(reader, Keys)'
      BY <2>1 DEF Load, ShapeInv, IsStatus, IsOn
    <3> QED
      BY <2>1, <3>2, <3>3, <3>4, <1>3 DEF Load, ShapeInv
  <2>2. CASE Flush(r)
    <3>1. PICK i, d : txn' = [txn EXCEPT ![r] =
               [phase |-> "flushed", kind |-> txn[r].kind, payload |-> txn[r].payload,
                loaded |-> txn[r].loaded, id |-> i, dropped |-> d,
                deleted |-> IF Rewrites(txn[r]) THEN entries ELSE {}]]
      BY <2>2, FlushEffect
    <3> DEFINE t == [phase |-> "flushed", kind |-> txn[r].kind, payload |-> txn[r].payload,
                     loaded |-> txn[r].loaded, id |-> i, dropped |-> d,
                     deleted |-> IF Rewrites(txn[r]) THEN entries ELSE {}]
    <3>4. RequestShape(t)
      BY <2>0, <2>2, FlushEffect DEF RequestShape, IsOpen
    <3>3. txn' = [txn EXCEPT ![r] = t]
      BY <3>1
    <3> HIDE DEF t
    <3>5. IsStatus(status)' /\ IsOn(cache, Keys)' /\ IsOn(reader, Keys)'
      BY <2>2 DEF Flush, ShapeInv, IsStatus, IsOn
    <3> QED
      BY <2>2, <3>3, <3>4, <3>5, <1>3 DEF Flush, ShapeInv
  <2>3. CASE UniqueViolation(r)
    <3>1. IsStatus(status)' /\ IsOn(cache, Keys)' /\ IsOn(reader, Keys)'
      BY <2>3 DEF UniqueViolation, ShapeInv, IsStatus, IsOn
    <3> QED
      BY <2>3, <3>1, <1>3, RequestShapes, AnsweredShape DEF UniqueViolation
  <2>4. CASE Commit(r)
    <3>1. IsStatus(status)'
      BY <2>4, PatchShape DEF Commit, ShapeInv, RowOf, IsStatus
    <3>2. IsOn(cache, Keys)' /\ IsOn(reader, Keys)'
      BY <2>4 DEF Commit, ShapeInv, IsOn
    <3>3. agent' \in Outcomes /\ applied' \in Nat
          /\ posting' \in [Loops -> Requests \cup {Nobody}]
      BY <2>4, AnsweredShape DEF Commit, ShapeInv
    <3>4. txn[r].kind \in Kinds
      BY <2>0, <2>4 DEF Commit, RequestShape
    <3>5. PICK t : RequestShape(t) /\ txn' = [txn EXCEPT ![r] = t]
      BY <2>4, <3>4, RequestShapes DEF Commit
    <3> QED
      BY <3>1, <3>2, <3>3, <3>5, <1>3
  <2>5. CASE Bust(r)
    <3>1. IsStatus(status)' /\ IsOn(cache, Keys)' /\ IsOn(reader, Keys)'
      BY <2>5 DEF Bust, ShapeInv, IsStatus, IsOn
    <3> QED
      BY <2>5, <3>1, <1>3, RequestShapes, AnsweredShape DEF Bust
  <2> QED
    BY <1>10, <2>1, <2>2, <2>3, <2>4, <2>5 DEF Serve
<1>11. ASSUME NEW l \in Loops, Abandon(l) PROVE ShapeInv'
  <2>1. posting' \in [Loops -> Requests \cup {Nobody}]
    BY <1>11 DEF Abandon, ShapeInv
  <2> QED
    BY <1>11, <2>1, <1>0, <1>2 DEF Abandon, ShapeInv, IsOn
<1>12. ASSUME NEW k \in Keys, Fill(k) \/ Expire(k) PROVE ShapeInv'
  BY <1>12, <1>2 DEF Fill, Expire, ShapeInv, IsOn
<1> QED
  BY <1>4, <1>5, <1>6, <1>7, <1>8, <1>9, <1>10, <1>11, <1>12
     DEF Next, ReadHealth, ReadRouting, Keys

LEMMA ShapeInit == Init => ShapeInv
<1> SUFFICES ASSUME Init PROVE ShapeInv
  OBVIOUS
<1>1. IsStatus(status)
  BY DEF Init, NoStatus, IsStatus, Columns
<1>2. agent \in Outcomes /\ applied \in Nat
  BY DEF Init, NotReconciling, Outcomes
<1>3. /\ IsOn(txn, Requests) /\ IsOn(cache, Keys) /\ IsOn(reader, Keys)
      /\ posting \in [Loops -> Requests \cup {Nobody}]
  BY DEF Init, IsOn
<1>4. \A r \in Requests : RequestShape(txn[r])
  BY RequestShapes DEF Init
<1> QED
  BY <1>1, <1>2, <1>3, <1>4 DEF ShapeInv

(***************************************************************************)
(* The detail of the routing table.                                        *)
(***************************************************************************)

(* The row lock lets one routing report at a time be between its flush and *)
(* its commit, so what it deletes is what is there when it commits.        *)
TableInv ==
    /\ \A s, t \in entries : s = t
    /\ \A r, u \in Requests :
         /\ txn[r].phase = "flushed" /\ txn[r].kind = "routing"
         /\ txn[u].phase = "flushed" /\ txn[u].kind = "routing"
         => r = u
    /\ \A r \in Requests :
         txn[r].phase = "flushed" /\ Rewrites(txn[r]) => txn[r].deleted = entries

LEMMA TableStep == ShapeInv /\ TableInv /\ [Next]_vars => TableInv'
<1> SUFFICES ASSUME ShapeInv, TableInv, [Next]_vars PROVE TableInv'
  OBVIOUS
<1> USE DEF store, loops
<1>1. ASSUME entries' = entries,
             \A q \in Requests : txn'[q] = txn[q] \/ txn'[q].phase # "flushed"
      PROVE  TableInv'
  BY <1>1 DEF TableInv, Rewrites
<1>2. ASSUME entries' = entries, txn' = txn PROVE TableInv'
  BY <1>1, <1>2
<1>3. ASSUME entries' = entries, NEW r \in Requests, NEW t, t.phase # "flushed",
             txn' = [txn EXCEPT ![r] = t]
      PROVE  TableInv'
  BY <1>1, <1>3 DEF ShapeInv, IsOn
<1>i. Idle.phase # "flushed"
  BY DEF Idle
<1>4. ASSUME NEW r \in Requests, NEW kind, NEW payload, Send(r, kind, payload)
      PROVE  TableInv'
  BY <1>4, <1>3 DEF Send
<1>5. ASSUME NEW r \in Requests, Flush(r) PROVE TableInv'
  <2>1. PICK i, d : txn' = [txn EXCEPT ![r] =
             [phase |-> "flushed", kind |-> txn[r].kind, payload |-> txn[r].payload,
              loaded |-> txn[r].loaded, id |-> i, dropped |-> d,
              deleted |-> IF Rewrites(txn[r]) THEN entries ELSE {}]]
    BY <1>5, FlushEffect
  <2>2. /\ entries' = entries
        /\ \A q \in Requests \ {r} : txn'[q] = txn[q]
        /\ txn'[r].kind = txn[r].kind
        /\ Rewrites(txn'[r]) => txn'[r].deleted = entries
    <3>1. PICK t : t = [phase |-> "flushed", kind |-> txn[r].kind, payload |-> txn[r].payload,
                        loaded |-> txn[r].loaded, id |-> i, dropped |-> d,
                        deleted |-> IF Rewrites(txn[r]) THEN entries ELSE {}]
      OBVIOUS
    <3>2. /\ t.kind = txn[r].kind /\ t.payload = txn[r].payload /\ t.loaded = txn[r].loaded
          /\ t.deleted = IF Rewrites(txn[r]) THEN entries ELSE {}
      BY <3>1
    <3>3. txn' = [txn EXCEPT ![r] = t]
      BY <2>1, <3>1
    <3>4. txn'[r] = t /\ \A q \in Requests \ {r} : txn'[q] = txn[q]
      BY <3>3 DEF ShapeInv, IsOn
    <3>5. Rewrites(t) <=> Rewrites(txn[r])
      BY <3>2 DEF Rewrites
    <3>6. entries' = entries
      BY <1>5 DEF Flush
    <3> QED BY <3>2, <3>4, <3>5, <3>6
  <2>3. ASSUME txn[r].kind = "routing"
        PROVE  \A u \in Requests \ {r} :
                  ~(txn[u].phase = "flushed" /\ txn[u].kind = "routing")
    BY <1>5, <2>3 DEF Flush, MayFlush, WritesRow, KeyOf
  <2> QED
    BY <2>2, <2>3 DEF TableInv, Rewrites
<1>6. ASSUME NEW r \in Requests, Commit(r) PROVE TableInv'
  <2>1. PICK t : t.phase # "flushed" /\ txn' = [txn EXCEPT ![r] = t]
    BY <1>6, <1>i DEF Commit
  <2>2. CASE ~Rewrites(txn[r])
    BY <1>6, <2>1, <2>2, <1>3 DEF Commit
  <2>3. CASE Rewrites(txn[r])
    <3>1. entries' = (entries \ entries) \cup {txn[r].payload.table}
      BY <1>6, <2>3 DEF Commit, TableInv
    <3>2. \A q \in Requests : ~(txn'[q].phase = "flushed" /\ txn'[q].kind = "routing")
      BY <1>6, <2>1, <2>3 DEF Commit, TableInv, Rewrites, ShapeInv, IsOn
    <3> QED
      BY <3>1, <3>2 DEF TableInv, Rewrites
  <2> QED
    BY <2>2, <2>3
<1>7. ASSUME NEW r \in Requests, Load(r) PROVE TableInv'
  BY <1>7, <1>3 DEF Load
<1>8. ASSUME NEW r \in Requests, UniqueViolation(r) \/ Bust(r) PROVE TableInv'
  BY <1>8, <1>3, <1>i DEF UniqueViolation, Bust
<1>9. CASE Restart
  BY <1>9, <1>1, <1>i DEF Restart
<1>10. CASE Reconcile \/ Tick \/ ReadHealth \/ ReadRouting \/ UNCHANGED vars
  BY <1>10, <1>2 DEF Reconcile, Tick, ReadHealth, ReadRouting, Misses, vars
<1>11. ASSUME NEW r \in Requests, Publish(r) \/ PostReresolve(r) \/ PostRouting(r)
       PROVE  TableInv'
  BY <1>11, <1>4 DEF Publish, PostReresolve, PostRouting
<1>12. ASSUME NEW l \in Loops, Abandon(l) PROVE TableInv'
  BY <1>12, <1>2 DEF Abandon
<1>13. ASSUME NEW k \in Keys, Fill(k) \/ Expire(k) PROVE TableInv'
  BY <1>13, <1>2 DEF Fill, Expire
<1> QED
  BY <1>5, <1>6, <1>7, <1>8, <1>9, <1>10, <1>11, <1>12, <1>13 DEF Next, Serve

(* However reports of different tables overlap, the stored routes are      *)
(* those of one of them (services/routing.py `record_routing`: the update  *)
(* of the node's row holds its lock until the commit).                     *)
THEOREM RoutesAreOfOneTable == Spec => []DetailIsOneTable
<1>1. Init => TableInv
  BY DEF Init, TableInv, Idle
<1>2. TableInv => DetailIsOneTable
  <2> SUFFICES ASSUME TableInv PROVE Cardinality(entries) <= 1
    BY DEF DetailIsOneTable
  <2>1. CASE entries = {}
    BY <2>1, FS_EmptySet
  <2>2. CASE entries # {}
    <3>1. PICK t : t \in entries
      BY <2>2
    <3>2. entries = {t}
      BY <3>1 DEF TableInv
    <3> QED
      BY <3>2, FS_Singleton
  <2> QED
    BY <2>1, <2>2
<1> QED
  BY <1>1, <1>2, ShapeInit, ShapeStep, TableStep, PTL DEF Spec

(***************************************************************************)
(* The cache.                                                              *)
(***************************************************************************)

(* Only rows that exist are read, so the row a re-resolution creates is in *)
(* nobody's cache.                                                         *)
CacheInv ==
    /\ CacheIsFresh
    /\ \A k \in Keys : cache[k] # NoEntry => cache[k].view.row.there
    /\ \A k \in Keys : reader[k] # Idle => reader[k].view.row.there

(* A re-resolution writes no column but the existence of the row, and the  *)
(* row as a whole only when it was missing.                                *)
LEMMA ReresolveWrites ==
    ASSUME ShapeInv, NEW r \in Requests, Commit(r), txn[r].kind = "reresolve"
    PROVE  /\ \A c \in Columns \ {"there"} : status'[c] = status[c]
           /\ status.there = TRUE => status' = status
           /\ routing' = routing
<1> DEFINE loaded == txn[r].loaded
           new == RecordReresolve(loaded)
<1>1. IsStatus(loaded) /\ IsStatus(status)
  BY DEF Commit, ShapeInv, RequestShape
<1>2. status' = Patch(status, loaded, new) /\ routing' = routing
  BY DEF Commit, RowOf, Recorded
<1>3. /\ IsStatus(status')
      /\ \A c \in Columns : status'[c] = IF new[c] # loaded[c] THEN new[c] ELSE status[c]
  BY <1>1, <1>2, PatchShape
<1>4. new["there"] = TRUE /\ \A c \in Columns \ {"there"} : new[c] = loaded[c]
  BY <1>1 DEF RecordReresolve, IsStatus, Columns
<1> HIDE DEF new, loaded
<1>5. \A c \in Columns \ {"there"} : status'[c] = status[c]
  BY <1>3, <1>4
<1>6. ASSUME status.there = TRUE PROVE status' = status
  <2>1. \A c \in Columns : status'[c] = status[c]
    BY <1>3, <1>4, <1>5, <1>6
  <2> QED
    BY <1>1, <1>3, <2>1 DEF IsStatus
<1> QED
  BY <1>2, <1>5, <1>6

LEMMA CacheStep == ShapeInv /\ CacheInv /\ [Next]_vars => CacheInv'
<1> SUFFICES ASSUME ShapeInv, CacheInv, [Next]_vars PROVE CacheInv'
  OBVIOUS
<1> USE DEF store, loops
<1>v. View("routing").row = routing /\ View("health").row = status
      /\ View("routing")'.row = routing' /\ View("health")'.row = status'
  BY DEF View
<1>k. Keys = {"health", "routing"} /\ \A kind : KeyOf(kind) \in Keys
  BY DEF Keys, KeyOf
<1>1. ASSUME UNCHANGED <<status, routing, cache, reader>>, missed \subseteq missed',
             \A q \in Requests : txn[q].phase = "committed" => txn'[q] = txn[q]
      PROVE  CacheInv'
  BY <1>1, <1>v, <1>k DEF CacheInv, CacheIsFresh
<1>2. ASSUME UNCHANGED <<status, routing, cache, reader, txn, missed>> PROVE CacheInv'
  BY <1>1, <1>2
<1>3. ASSUME UNCHANGED <<status, routing, cache, reader, missed>>,
             NEW r \in Requests, txn[r].phase # "committed", NEW t,
             txn' = [txn EXCEPT ![r] = t]
      PROVE  CacheInv'
  BY <1>1, <1>3 DEF ShapeInv, IsOn
<1>4. ASSUME NEW r \in Requests, NEW kind, NEW payload, Send(r, kind, payload)
      PROVE  CacheInv'
  <2>1. txn[r].phase # "committed"
    BY <1>4 DEF Send, Free, Idle
  <2> QED
    BY <1>4, <2>1, <1>3 DEF Send
<1>5. ASSUME NEW r \in Requests, Serve(r) PROVE CacheInv'
  <2>1. CASE Load(r)
    BY <2>1, <1>3 DEF Load
  <2>2. CASE Flush(r)
    <3>1. PICK t : txn' = [txn EXCEPT ![r] = t]
      BY <2>2, FlushEffect
    <3> QED
      BY <2>2, <3>1, <1>3, FlushEffect, Zenon DEF Flush
  <2>3. CASE UniqueViolation(r)
    BY <2>3, <1>3 DEF UniqueViolation, MayFlush
  <2>4. CASE Commit(r)
    <3>0. UNCHANGED <<cache, reader>> /\ \A q \in Requests \ {r} : txn'[q] = txn[q]
      BY <2>4 DEF Commit, ShapeInv, IsOn
    <3>1. txn[r].kind \in Kinds /\ txn[r].phase = "flushed"
      BY <2>4 DEF Commit, ShapeInv, RequestShape
    <3> SUFFICES ASSUME NEW k \in Keys, k \notin missed', cache[k] # NoEntry,
                        \A q \in Requests : txn'[q].phase = "committed"
                                              => KeyOf(txn'[q].kind) # k
                 PROVE  cache[k].view.row = View(k)'.row
      BY <3>0 DEF CacheInv, CacheIsFresh
    <3>2. k \notin missed
      BY <2>4 DEF Commit
    <3>3. cache[k].view.row = View(k).row /\ cache[k].view.row.there
      BY <3>0, <3>1, <3>2 DEF CacheInv, CacheIsFresh
    <3>4. CASE Busts(txn[r])
      <4>1. txn'[r] = [phase |-> "committed", kind |-> txn[r].kind]
        BY <2>4, <3>4 DEF Commit, ShapeInv, IsOn
      <4>2. KeyOf(txn[r].kind) # k
        BY <4>1
      <4> QED
        BY <2>4, <3>3, <4>2, <1>v, <1>k DEF Commit, KeyOf
    <3>5. CASE ~Busts(txn[r]) /\ txn[r].kind = "routing"
      <4>1. "routing" \in missed' /\ status' = status
        BY <2>4, <3>5 DEF Commit
      <4> QED
        BY <3>3, <4>1, <1>v, <1>k
    <3>6. CASE txn[r].kind = "reresolve"
      <4>1. CASE k = "health"
        BY <2>4, <3>3, <3>6, <4>1, <1>v, ReresolveWrites
      <4>2. CASE k = "routing"
        BY <2>4, <3>3, <3>6, <4>2, <1>v, ReresolveWrites
      <4> QED
        BY <4>1, <4>2, <1>k
    <3> QED
      BY <3>4, <3>5, <3>6 DEF Busts
  <2>5. CASE Bust(r)
    <3>1. /\ \A k \in Keys \ {KeyOf(txn[r].kind)} : cache'[k] = cache[k]
          /\ cache'[KeyOf(txn[r].kind)] = NoEntry
          /\ missed' = missed \ {KeyOf(txn[r].kind)}
          /\ \A q \in Requests \ {r} : txn'[q] = txn[q]
          /\ UNCHANGED <<status, routing, reader>>
      BY <2>5, <1>k DEF Bust, ShapeInv, IsOn
    <3> QED
      BY <3>1, <1>v, <1>k DEF CacheInv, CacheIsFresh
  <2> QED
    BY <1>5, <2>1, <2>2, <2>3, <2>4, <2>5 DEF Serve
<1>6. CASE Restart
  <2>1. /\ UNCHANGED <<status, routing, cache>>
        /\ \A k \in Keys : reader'[k] = Idle
        /\ missed' = missed \cup {KeyOf(txn[r].kind) :
                          r \in {q \in Requests : txn[q].phase = "committed"}}
    BY <1>6 DEF Restart
  <2> QED
    BY <2>1, <1>v, <1>k DEF CacheInv, CacheIsFresh
<1>7. CASE Reconcile \/ Tick \/ UNCHANGED vars
  BY <1>7, <1>2 DEF Reconcile, Tick, vars
<1>8. ASSUME NEW k \in Keys, Misses(k) PROVE CacheInv'
  <2>1. /\ UNCHANGED <<status, routing, cache, txn, missed>>
        /\ reader'[k].view.row = View(k).row /\ View(k).row.there
        /\ \A j \in Keys \ {k} : reader'[j] = reader[j]
    BY <1>8 DEF Misses, ShapeInv, IsOn
  <2> QED
    BY <2>1, <1>v, <1>k DEF CacheInv, CacheIsFresh
<1>9. ASSUME NEW r \in Requests, Publish(r) \/ PostReresolve(r) \/ PostRouting(r)
      PROVE  CacheInv'
  BY <1>9, <1>4 DEF Publish, PostReresolve, PostRouting
<1>10. ASSUME NEW l \in Loops, Abandon(l) PROVE CacheInv'
  BY <1>10, <1>2 DEF Abandon
<1>11. ASSUME NEW k \in Keys, Fill(k) PROVE CacheInv'
  <2>1. /\ UNCHANGED <<status, routing, txn>>
        /\ cache'[k].view = reader[k].view
        /\ \A j \in Keys \ {k} : cache'[j] = cache[j] /\ reader'[j] = reader[j]
        /\ reader'[k] = Idle /\ reader[k] # Idle
        /\ missed' = IF reader[k].view.row = View(k).row THEN missed ELSE missed \cup {k}
    BY <1>11 DEF Fill, ShapeInv, IsOn
  <2> QED
    BY <2>1, <1>v, <1>k DEF CacheInv, CacheIsFresh
<1>12. ASSUME NEW k \in Keys, Expire(k) PROVE CacheInv'
  <2>1. /\ UNCHANGED <<status, routing, txn, reader>>
        /\ cache'[k] = NoEntry /\ missed' = missed \ {k}
        /\ \A j \in Keys \ {k} : cache'[j] = cache[j]
    BY <1>12 DEF Expire, ShapeInv, IsOn
  <2> QED
    BY <2>1, <1>v, <1>k DEF CacheInv, CacheIsFresh
<1> QED
  BY <1>5, <1>6, <1>7, <1>8, <1>9, <1>10, <1>11, <1>12
     DEF Next, ReadHealth, ReadRouting, Keys

(* For any number of requests in progress: once the reports of a key are   *)
(* answered, what Redis holds for it is the row as it is, unless a reader  *)
(* overtaken by a report stored what it had read, the server died before   *)
(* the deletion, or a report without a table came (the _HEALTH_TTL and     *)
(* _ROUTING_TTL bound those).                                              *)
THEOREM CacheFollowsRows == Spec => []CacheIsFresh
<1>1. Init => CacheInv
  BY DEF Init, CacheInv, CacheIsFresh
<1>2. CacheInv => CacheIsFresh
  BY DEF CacheInv
<1> QED
  BY <1>1, <1>2, ShapeInit, ShapeStep, CacheStep, PTL DEF Spec

(***************************************************************************)
(* What the agent was told is shown.                                       *)
(***************************************************************************)

(* The request the reconcile loop waits for carries its outcome.           *)
PostingInv ==
    LET r == posting["reconcile"] IN
    r # Nobody =>
        /\ agent.stage \in 1..3
        /\ txn[r].phase # "idle"
        /\ txn[r].kind = Stages[agent.stage]
        /\ txn[r].phase # "committed" => txn[r].payload = agent

Waits(phases) == posting["reconcile"] # Nobody /\ txn[posting["reconcile"]].phase \in phases

(* What it has read is the row as it is, but for a re-resolution that has  *)
(* created it meanwhile, as long as no late request came.                  *)
LoadedInv ==
    told # Late /\ Waits({"loaded", "flushed"}) =>
        \A c \in Columns \ {"there"} : txn[posting["reconcile"]].loaded[c] = status[c]

ReportShown ==
    /\ status.desired = agent.desired /\ status.observed = agent.observed
    /\ status.report = ReportStatus(agent.result, agent.drift)
    /\ status.drift = IF agent.drift = None THEN 0 ELSE 1

ApplyShown == status.apply = agent.result /\ status.health = DeriveHealth(status)

(* The posts that were committed are in the row.                           *)
ShownInv ==
    /\ agent.stage \in 0..3
    /\ agent.stage > 0 =>
         /\ agent.result # None
         /\ agent.result = "succeeded" => agent.observed = agent.desired
    /\ told # Late /\ (agent.stage = 3 \/ (agent.stage = 2 /\ Waits({"committed"})))
         => ReportShown
    /\ told # Late /\ agent.stage = 3 /\ Waits({"committed"}) => ApplyShown
    /\ told.stage = 3 => agent.stage = 0

ToldInv == PostingInv /\ LoadedInv /\ ShownInv /\ ToldIsShown

(* The columns a post sets, on top of the row it has read; the health is   *)
(* derived from all of them.                                               *)
LEMMA ReportColumns ==
    ASSUME NEW row, IsStatus(row), NEW p, NEW new, new = Recorded("report", row, p)
    PROVE  /\ new.desired = p.desired
           /\ new.observed = p.observed
           /\ new.report = ReportStatus(p.result, p.drift)
           /\ new.drift = IF p.drift = None THEN 0 ELSE 1
<1> DEFINE report == RecordReport(row, p)
<1>1. /\ DOMAIN report = Columns
      /\ report.desired = p.desired
      /\ report.observed = p.observed
      /\ report.report = ReportStatus(p.result, p.drift)
      /\ report.drift = IF p.drift = None THEN 0 ELSE 1
  BY DEF RecordReport, IsStatus, Columns
<1>2. new = [report EXCEPT !.health = DeriveHealth(report)]
  BY DEF Recorded, RecomputeHealth
<1> HIDE DEF report
<1> QED
  BY <1>1, <1>2 DEF Columns

LEMMA ApplyColumns ==
    ASSUME NEW row, IsStatus(row), NEW p, NEW new, new = Recorded("apply", row, p)
    PROVE  /\ new.desired = p.desired
           /\ new.apply = p.result
           /\ \A c \in {"observed", "report", "drift"} : new[c] = row[c]
           /\ new.health = DeriveHealth(new)
<1> DEFINE apply == RecordApply(row, p)
<1>1. /\ DOMAIN apply = Columns
      /\ apply.desired = p.desired
      /\ apply.apply = p.result
      /\ \A c \in {"observed", "report", "drift"} : apply[c] = row[c]
  BY DEF RecordApply, IsStatus, Columns
<1>2. new = [apply EXCEPT !.health = DeriveHealth(apply)]
  BY DEF Recorded, RecomputeHealth
<1> HIDE DEF apply
<1>3. (\A c \in Columns \ {"health"} : new[c] = apply[c]) /\ new.health = DeriveHealth(apply)
  BY <1>1, <1>2 DEF Columns
<1>4. DeriveHealth(new) = DeriveHealth(apply)
  BY <1>3 DEF DeriveHealth, Columns
<1> QED
  BY <1>1, <1>3, <1>4 DEF Columns

(* The health a row with both results in it deserves.                      *)
LEMMA DeservedHealth ==
    ASSUME ReportShown, ApplyShown, agent \in Outcomes, agent.result # None,
           agent.result = "succeeded" => agent.observed = agent.desired
    PROVE  status.health = IF agent.result = "succeeded" /\ agent.drift = None
                           THEN "ok" ELSE "degraded"
<1>1. /\ agent.result \in {"succeeded", "failed"}
      /\ agent.drift \in {None, "warning", "critical"}
  BY DEF Outcomes
<1>2. /\ status.desired = agent.desired /\ status.observed = agent.observed
      /\ status.report = ReportStatus(agent.result, agent.drift)
      /\ status.drift = IF agent.drift = None THEN 0 ELSE 1
      /\ status.apply = agent.result
      /\ status.health = DeriveHealth(status)
  BY DEF ReportShown, ApplyShown
<1>3. CASE agent.result = "failed"
  <2>1. "failed" \in {status.report, status.apply} \cap {"failed", "degraded"}
    BY <1>2, <1>3
  <2> QED
    BY <2>1, <1>2, <1>3 DEF DeriveHealth, None
<1>4. CASE agent.result = "succeeded" /\ agent.drift = "critical"
  <2>1. status.report = "degraded"
    BY <1>2, <1>4 DEF ReportStatus
  <2> QED
    BY <2>1, <1>2, <1>4 DEF DeriveHealth, None
<1>5. CASE agent.result = "succeeded" /\ agent.drift = "warning"
  <2>1. status.report = "succeeded" /\ status.apply = "succeeded" /\ status.drift = 1
    BY <1>2, <1>5 DEF ReportStatus, None
  <2> QED
    BY <2>1, <1>2, <1>5 DEF DeriveHealth, None
<1>6. CASE agent.result = "succeeded" /\ agent.drift = None
  <2>1. /\ status.report = "succeeded" /\ status.apply = "succeeded" /\ status.drift = 0
        /\ status.desired = status.observed
    BY <1>2, <1>6 DEF ReportStatus, None
  <2> QED
    BY <2>1, <1>2, <1>6 DEF DeriveHealth, None
<1> QED
  BY <1>1, <1>3, <1>4, <1>5, <1>6

(* The commit of the request the reconcile loop waits for, when nothing    *)
(* came late.                                                              *)
LEMMA AwaitedCommit ==
    ASSUME ShapeInv, ToldInv, NEW r \in Requests, Commit(r), posting["reconcile"] = r,
           told # Late
    PROVE  /\ agent.stage = 2 => ReportShown'
           /\ agent.stage = 3 => ReportShown' /\ ApplyShown'
<1>0. r # Nobody /\ Waits({"flushed"})
  BY RequestsAssumption DEF Waits, Nobody, Commit
<1>1. /\ agent.stage \in 1..3 /\ txn[r].kind = Stages[agent.stage]
      /\ txn[r].payload = agent
  BY <1>0 DEF ToldInv, PostingInv, Commit
<1>2. txn[r].kind \in {"snapshot", "report", "apply"}
  BY <1>1 DEF Stages
<1>3. IsStatus(txn[r].loaded) /\ IsStatus(status)
  BY <1>2 DEF Commit, ShapeInv, RequestShape
<1>4. \A c \in Columns \ {"there"} : txn[r].loaded[c] = status[c]
  BY <1>0 DEF ToldInv, LoadedInv, Waits
<1> DEFINE new == Recorded(txn[r].kind, txn[r].loaded, agent)
<1>5. status' = Patch(status, txn[r].loaded, new) /\ agent' = agent
  BY <1>1, <1>2 DEF Commit, RowOf, Busts, loops
<1> HIDE DEF new
<1>6. \A c \in Columns \ {"there"} : status'[c] = new[c]
  BY <1>3, <1>4, <1>5, PatchShape
<1>7. CASE agent.stage = 2
  <2>1. new = Recorded("report", txn[r].loaded, agent)
    BY <1>1, <1>7 DEF new, Stages
  <2>2. /\ new.desired = agent.desired
        /\ new.observed = agent.observed
        /\ new.report = ReportStatus(agent.result, agent.drift)
        /\ new.drift = IF agent.drift = None THEN 0 ELSE 1
    <3>1. PICK l, a, n : l = txn[r].loaded /\ a = agent /\ n = new
      OBVIOUS
    <3>2. IsStatus(l) /\ n = Recorded("report", l, a)
      BY <3>1, <1>3, <2>1
    <3>3. /\ n.desired = a.desired /\ n.observed = a.observed
          /\ n.report = ReportStatus(a.result, a.drift)
          /\ n.drift = IF a.drift = None THEN 0 ELSE 1
      BY <3>2, ReportColumns
    <3> QED
      BY <3>1, <3>3
  <2>3. \A c \in {"desired", "observed", "report", "drift"} : status'[c] = new[c]
    BY <1>6 DEF Columns
  <2> QED
    BY <2>2, <2>3, <1>5, <1>7 DEF ReportShown, ReportStatus
<1>8. CASE agent.stage = 3
  <2>1. new = Recorded("apply", txn[r].loaded, agent)
    BY <1>1, <1>8 DEF new, Stages
  <2>2. ReportShown
    BY <1>8 DEF ToldInv, ShownInv
  <2>6. /\ new.desired = agent.desired
        /\ new.apply = agent.result
        /\ \A c \in {"observed", "report", "drift"} : new[c] = txn[r].loaded[c]
        /\ new.health = DeriveHealth(new)
    <3>1. PICK l, a, n : l = txn[r].loaded /\ a = agent /\ n = new
      OBVIOUS
    <3>2. IsStatus(l) /\ n = Recorded("apply", l, a)
      BY <3>1, <1>3, <2>1
    <3>3. /\ n.desired = a.desired /\ n.apply = a.result
          /\ \A c \in {"observed", "report", "drift"} : n[c] = l[c]
          /\ n.health = DeriveHealth(n)
      BY <3>2, ApplyColumns
    <3> QED
      BY <3>1, <3>3
  <2>7. \A c \in {"desired", "observed", "report", "drift", "apply", "health"} :
           status'[c] = new[c]
    BY <1>6 DEF Columns
  <2>8. \A c \in {"observed", "report", "drift"} : status'[c] = status[c]
    BY <1>4, <2>6, <2>7 DEF Columns
  <2>3. ReportShown'
    BY <2>2, <2>6, <2>7, <2>8, <1>5 DEF ReportShown, ReportStatus
  <2>4. status'.apply = agent'.result /\ status'.health = DeriveHealth(new)
    BY <2>6, <2>7, <1>5
  <2>5. DeriveHealth(status') = DeriveHealth(new)
    BY <1>6 DEF DeriveHealth, Columns
  <2> QED
    BY <1>8, <2>3, <2>4, <2>5 DEF ApplyShown, DeriveHealth
<1> QED
  BY <1>1, <1>7, <1>8

(* An answer to another request than the one the reconcile loop waits for  *)
(* does not touch that loop.                                               *)
LEMMA AnswerElsewhere ==
    ASSUME ShapeInv, NEW r \in Requests, NEW ok \in BOOLEAN, Answered(r, ok),
           posting["reconcile"] # r
    PROVE  UNCHANGED <<agent, told>> /\ posting'["reconcile"] = posting["reconcile"]
<1>1. CASE LoopOf(txn[r].kind) = "reconcile"
  BY <1>1 DEF Answered
<1>2. CASE LoopOf(txn[r].kind) # "reconcile"
  <2>1. UNCHANGED <<agent, told>>
    BY <1>2 DEF Answered
  <2>2. posting'["reconcile"] = posting["reconcile"]
    BY <1>2 DEF Answered, ShapeInv, Loops
  <2> QED
    BY <2>1, <2>2
<1> QED
  BY <1>1, <1>2

LEMMA ToldStep == ShapeInv /\ ToldInv /\ [Next]_vars => ToldInv'
<1> SUFFICES ASSUME ShapeInv, ToldInv, [Next]_vars PROVE ToldInv'
  OBVIOUS
<1> USE DEF store, loops
<1> DEFINE R == posting["reconcile"]
<1>n. Nobody \notin Requests
  BY RequestsAssumption DEF Nobody
<1>r. R \in Requests \cup {Nobody}
  BY DEF ShapeInv, Loops
<1>l. Late.stage = -1 /\ NotReconciling.stage = 0 /\ Late # NotReconciling
  BY DEF Late, NotReconciling
<1>0. ASSUME UNCHANGED <<agent, told>>, posting'["reconcile"] = R,
             \A c \in Columns \ {"there"} : status'[c] = status[c],
             R # Nobody => txn'[R] = txn[R]
      PROVE  ToldInv'
  <2>1. PostingInv'
    BY <1>0 DEF ToldInv, PostingInv
  <2>2. \A phases : Waits(phases)' <=> Waits(phases)
    BY <1>0 DEF Waits
  <2>3. LoadedInv'
    BY <1>0, <2>2 DEF ToldInv, LoadedInv, Waits
  <2>4. /\ status'.desired = status.desired /\ status'.observed = status.observed
        /\ status'.report = status.report /\ status'.drift = status.drift
        /\ status'.apply = status.apply /\ status'.health = status.health
    BY <1>0 DEF Columns
  <2>5. ReportShown' <=> ReportShown
    BY <1>0, <2>4 DEF ReportShown
  <2>6. DeriveHealth(status)' = DeriveHealth(status)
    BY <2>4 DEF DeriveHealth
  <2>7. ApplyShown' <=> ApplyShown
    BY <1>0, <2>4, <2>6 DEF ApplyShown
  <2>8. ShownInv'
    BY <1>0, <2>2, <2>5, <2>7 DEF ToldInv, ShownInv
  <2>9. ToldIsShown'
    BY <1>0, <2>4 DEF ToldInv, ToldIsShown
  <2> QED
    BY <2>1, <2>3, <2>8, <2>9 DEF ToldInv
<1>1. ASSUME UNCHANGED <<agent, told, status>>, posting'["reconcile"] = R,
             R # Nobody => txn'[R] = txn[R]
      PROVE  ToldInv'
  BY <1>0, <1>1
<1>2. ASSUME UNCHANGED <<told, status>>, posting'["reconcile"] = Nobody,
             agent' = NotReconciling
      PROVE  ToldInv'
  BY <1>2, <1>l DEF ToldInv, PostingInv, LoadedInv, ShownInv, ToldIsShown, Waits
<1>3. CASE Reconcile
  <2>1. /\ R = Nobody /\ posting' = posting /\ told' = NotReconciling
        /\ agent'.stage = 1 /\ agent'.result # None
        /\ agent'.result = "succeeded" => agent'.observed = agent'.desired
    BY <1>3 DEF Reconcile, None
  <2> QED
    BY <2>1, <1>l DEF ToldInv, PostingInv, LoadedInv, ShownInv, ToldIsShown, Waits
<1>4. CASE Restart
  <2>1. UNCHANGED <<told, status>> /\ posting'["reconcile"] = Nobody
        /\ agent' = (IF R = Nobody THEN agent ELSE NotReconciling)
    BY <1>4 DEF Restart, Loops
  <2>2. CASE R = Nobody
    BY <2>1, <2>2, <1>1
  <2>3. CASE R # Nobody
    BY <2>1, <2>3, <1>2
  <2> QED
    BY <2>2, <2>3
<1>5. CASE Tick \/ UNCHANGED vars
  BY <1>5, <1>1 DEF Tick, vars
<1>6. ASSUME NEW k \in Keys, Misses(k) \/ Fill(k) \/ Expire(k) PROVE ToldInv'
  BY <1>6, <1>1 DEF Misses, Fill, Expire
<1>7. ASSUME NEW l \in Loops, Abandon(l) PROVE ToldInv'
  <2>1. CASE l = "reconcile"
    <3>1. UNCHANGED <<told, status>> /\ posting'["reconcile"] = Nobody
          /\ agent' = NotReconciling
      BY <1>7, <2>1 DEF Abandon, ShapeInv
    <3> QED
      BY <3>1, <1>2
  <2>2. CASE l # "reconcile"
    <3>1. UNCHANGED <<told, status, agent, txn>> /\ posting'["reconcile"] = R
      BY <1>7, <2>2 DEF Abandon, ShapeInv, Loops
    <3> QED
      BY <3>1, <1>1
  <2> QED
    BY <2>1, <2>2
<1>8. ASSUME NEW r \in Requests, Publish(r) PROVE ToldInv'
  <2>1. /\ UNCHANGED <<told, status, agent>> /\ posting'["reconcile"] = r
        /\ agent.stage \in 1..3
        /\ txn'[r] = [phase |-> "sent", kind |-> Stages[agent.stage], payload |-> agent]
    <3>1. agent.stage \in 1..3 /\ LoopOf(Stages[agent.stage]) = "reconcile"
      BY <1>8 DEF Publish, Stages, LoopOf
    <3> QED
      BY <1>8, <3>1 DEF Publish, Send, ShapeInv, IsOn, Loops
  <2>2. PostingInv'
    BY <2>1 DEF PostingInv
  <2>3. ~Waits({"committed"})' /\ ~Waits({"loaded", "flushed"})'
    BY <2>1 DEF Waits
  <2>4. LoadedInv'
    BY <2>3 DEF LoadedInv
  <2>5. ShownInv'
    BY <2>1, <2>3 DEF ToldInv, ShownInv, ReportShown
  <2>6. ToldIsShown'
    BY <2>1 DEF ToldInv, ToldIsShown
  <2> QED
    BY <2>2, <2>4, <2>5, <2>6 DEF ToldInv
<1>9. ASSUME NEW r \in Requests, PostReresolve(r) \/ PostRouting(r) PROVE ToldInv'
  <2>1. PICK kind \in {"reresolve", "routing"} : \E payload : Send(r, kind, payload)
    BY <1>9 DEF PostReresolve, PostRouting
  <2>2. R # r
    BY <2>1, <1>n DEF Send, Free, Idle, ToldInv, PostingInv
  <2>3. LoopOf(kind) # "reconcile" /\ LoopOf(kind) \in Loops
    BY DEF LoopOf, Loops
  <2>4. UNCHANGED <<told, status, agent>> /\ posting'["reconcile"] = R
    BY <2>1, <2>3 DEF Send, ShapeInv, Loops
  <2>5. R # Nobody => txn'[R] = txn[R]
    BY <2>1, <2>2, <1>r DEF Send, ShapeInv, IsOn
  <2> QED
    BY <2>4, <2>5, <1>1
<1>10. ASSUME NEW r \in Requests, r # R, Load(r) \/ Flush(r) PROVE ToldInv'
  <2>1. PICK t : txn' = [txn EXCEPT ![r] = t]
    BY <1>10, FlushEffect DEF Load
  <2>2. UNCHANGED <<told, status, agent, posting>>
    BY <1>10 DEF Load, Flush
  <2>3. R # Nobody => txn'[R] = txn[R]
    BY <2>1, <1>10, <1>r DEF ShapeInv, IsOn
  <2> QED
    BY <2>2, <2>3, <1>1
<1>11. ASSUME NEW r \in Requests, r # R, UniqueViolation(r) \/ Bust(r) PROVE ToldInv'
  <2>1. UNCHANGED <<agent, told>> /\ posting'["reconcile"] = R
    BY <1>11, AnswerElsewhere DEF UniqueViolation, Bust
  <2>2. status' = status /\ (R # Nobody => txn'[R] = txn[R])
    BY <1>11, <1>r DEF UniqueViolation, Bust, ShapeInv, IsOn
  <2> QED
    BY <2>1, <2>2, <1>1
<1>12. ASSUME NEW r \in Requests, r # R, Commit(r) PROVE ToldInv'
  <2>1. R # Nobody => txn'[R] = txn[R]
    BY <1>12, <1>r DEF Commit, ShapeInv, IsOn
  <2>2. txn[r].kind \in Kinds
    BY <1>12 DEF Commit, ShapeInv, RequestShape
  <2>3. CASE txn[r].kind \in {"snapshot", "report", "apply"}
    <3>1. UNCHANGED <<agent, posting>> /\ told' = Late
      BY <1>12, <2>3 DEF Commit, Busts, LoopOf, StatusKinds
    <3>2. PostingInv'
      BY <2>1, <3>1 DEF ToldInv, PostingInv
    <3> QED
      BY <3>1, <3>2, <1>l DEF ToldInv, LoadedInv, ShownInv, ToldIsShown
  <2>4. CASE txn[r].kind = "reresolve"
    <3>1. Answered(r, TRUE)
      BY <1>12, <2>4 DEF Commit, Busts
    <3>2. UNCHANGED <<agent, told>> /\ posting'["reconcile"] = R
      BY <1>12, <3>1, AnswerElsewhere
    <3> QED
      BY <1>12, <2>1, <2>4, <3>2, <1>0, ReresolveWrites
  <2>5. CASE txn[r].kind = "routing"
    <3>1. status' = status
      BY <1>12, <2>5 DEF Commit
    <3>2. UNCHANGED <<agent, told>> /\ posting'["reconcile"] = R
      <4>1. CASE Busts(txn[r])
        BY <1>12, <2>5, <4>1 DEF Commit, StatusKinds
      <4>2. CASE ~Busts(txn[r])
        BY <1>12, <4>2, AnswerElsewhere DEF Commit
      <4> QED
        BY <4>1, <4>2
    <3> QED
      BY <2>1, <3>1, <3>2, <1>1
  <2> QED
    BY <2>2, <2>3, <2>4, <2>5 DEF Kinds, StatusKinds
<1>13. ASSUME NEW r \in Requests, r = R, Serve(r) PROVE ToldInv'
  <2>0. /\ R # Nobody /\ agent.stage \in 1..3 /\ txn[r].kind = Stages[agent.stage]
        /\ txn[r].phase # "committed" => txn[r].payload = agent
    BY <1>13, <1>n DEF ToldInv, PostingInv
  <2>1. txn[r].kind \in {"snapshot", "report", "apply"} /\ LoopOf(txn[r].kind) = "reconcile"
    BY <2>0 DEF Stages, LoopOf
  <2>t. told.stage # 3
    BY <2>0 DEF ToldInv, ShownInv
  <2>2. CASE Load(r)
    <3>1. /\ UNCHANGED <<told, status, agent, posting>>
          /\ txn'[r].phase = "loaded" /\ txn'[r].kind = txn[r].kind
          /\ txn'[r].payload = agent /\ txn'[r].loaded = status
      BY <2>0, <2>1, <2>2 DEF Load, RowOf, ShapeInv, IsOn
    <3>2. ~Waits({"committed"})'
      BY <3>1, <1>13 DEF Waits
    <3>3. PostingInv' /\ LoadedInv'
      BY <2>0, <3>1, <1>13 DEF PostingInv, LoadedInv
    <3> QED
      BY <2>t, <3>1, <3>2, <3>3 DEF ToldInv, ShownInv, ToldIsShown, ReportShown
  <2>3. CASE Flush(r)
    <3>1. /\ UNCHANGED <<told, status, agent, posting>> /\ txn[r].phase = "loaded"
          /\ txn'[r].phase = "flushed" /\ txn'[r].kind = txn[r].kind
          /\ txn'[r].payload = txn[r].payload /\ txn'[r].loaded = txn[r].loaded
      <4>1. PICK i, d : txn' = [txn EXCEPT ![r] =
                 [phase |-> "flushed", kind |-> txn[r].kind, payload |-> txn[r].payload,
                  loaded |-> txn[r].loaded, id |-> i, dropped |-> d,
                  deleted |-> IF Rewrites(txn[r]) THEN entries ELSE {}]]
        BY <2>3, FlushEffect
      <4>2. UNCHANGED <<told, status, agent, posting>> /\ txn[r].phase = "loaded"
        BY <2>3 DEF Flush, MayFlush
      <4> QED
        BY <4>1, <4>2 DEF ShapeInv, IsOn
    <3>2. ~Waits({"committed"})' /\ Waits({"loaded", "flushed"})
      BY <2>0, <3>1, <1>13 DEF Waits
    <3>3. PostingInv'
      BY <2>0, <3>1, <1>13 DEF PostingInv
    <3>4. LoadedInv'
      BY <3>1, <3>2, <1>13 DEF ToldInv, LoadedInv
    <3> QED
      BY <2>t, <3>1, <3>2, <3>3, <3>4 DEF ToldInv, ShownInv, ToldIsShown, ReportShown
  <2>4. CASE UniqueViolation(r)
    <3>1. /\ UNCHANGED <<told, status>> /\ posting'["reconcile"] = Nobody
          /\ agent' = NotReconciling
      BY <1>13, <2>1, <2>4 DEF UniqueViolation, Answered, ShapeInv, Loops
    <3> QED
      BY <3>1, <1>2
  <2>5. CASE Commit(r)
    <3>1. /\ UNCHANGED <<told, agent, posting>>
          /\ txn'[r] = [phase |-> "committed", kind |-> txn[r].kind]
      BY <1>13, <2>1, <2>5 DEF Commit, Busts, ShapeInv, IsOn
    <3>2. PostingInv'
      BY <2>0, <3>1, <1>13 DEF PostingInv
    <3>3. LoadedInv' /\ Waits({"committed"})'
      BY <2>0, <3>1, <1>13 DEF LoadedInv, Waits
    <3>4. told # Late => /\ agent.stage = 2 => ReportShown'
                         /\ agent.stage = 3 => ReportShown' /\ ApplyShown'
      BY <1>13, <2>5, AwaitedCommit
    <3>5. ShownInv'
      BY <3>1, <3>4 DEF ToldInv, ShownInv
    <3>6. ToldIsShown'
      BY <2>t, <3>1 DEF ToldIsShown
    <3> QED
      BY <3>2, <3>3, <3>5, <3>6 DEF ToldInv
  <2>6. CASE Bust(r)
    <3>1. /\ posting'["reconcile"] = Nobody /\ status' = status
          /\ agent' = (IF agent.stage = 3 THEN NotReconciling
                       ELSE [agent EXCEPT !.stage = @ + 1])
          /\ told' = (IF agent.stage = 3 /\ told # Late THEN agent ELSE told)
      BY <1>13, <2>1, <2>6 DEF Bust, Answered, ShapeInv, Loops
    <3>2. Waits({"committed"})
      BY <1>13, <2>0, <2>6 DEF Bust, Waits
    <3>3. PostingInv' /\ LoadedInv' /\ \A phases : ~Waits(phases)'
      BY <3>1 DEF PostingInv, LoadedInv, Waits
    <3>4. CASE agent.stage = 3 /\ told # Late
      <4>1. ReportShown /\ ApplyShown
        BY <3>2, <3>4 DEF ToldInv, ShownInv
      <4>2. /\ agent.result # None
            /\ agent.result = "succeeded" => agent.observed = agent.desired
        BY <3>4 DEF ToldInv, ShownInv
      <4>3. status.health = IF agent.result = "succeeded" /\ agent.drift = None
                            THEN "ok" ELSE "degraded"
        BY <4>1, <4>2, DeservedHealth DEF ShapeInv
      <4>4. ToldIsShown'
        BY <3>1, <3>4, <4>1, <4>3 DEF ToldIsShown, ReportShown
      <4>5. ShownInv'
        BY <3>1, <3>3, <3>4, <1>l DEF ShownInv
      <4> QED
        BY <3>3, <4>4, <4>5 DEF ToldInv
    <3>5. CASE agent.stage = 3 /\ told = Late
      BY <3>1, <3>5, <1>2, <1>l
    <3>6. CASE agent.stage # 3
      <4>1. /\ agent'.stage = agent.stage + 1 /\ agent'.desired = agent.desired
            /\ agent'.observed = agent.observed /\ agent'.result = agent.result
            /\ agent'.drift = agent.drift /\ told' = told
        BY <3>1, <3>6 DEF ShapeInv, Outcomes
      <4>2. agent'.stage = 3 /\ told # Late => ReportShown'
        BY <2>0, <3>1, <3>2, <3>6, <4>1 DEF ToldInv, ShownInv, ReportShown
      <4>3. ShownInv'
        BY <2>0, <2>t, <3>3, <3>6, <4>1, <4>2 DEF ToldInv, ShownInv
      <4>4. ToldIsShown'
        BY <2>t, <4>1 DEF ToldIsShown
      <4> QED
        BY <3>3, <4>3, <4>4 DEF ToldInv
    <3> QED
      BY <3>4, <3>5, <3>6
  <2> QED
    BY <1>13, <2>2, <2>3, <2>4, <2>5, <2>6 DEF Serve
<1> QED
  BY <1>3, <1>4, <1>5, <1>6, <1>7, <1>8, <1>9, <1>10, <1>11, <1>12, <1>13
     DEF Next, ReadHealth, ReadRouting, Serve, Keys

(* When the agent's three posts were answered the dashboard's row shows    *)
(* that reconcile, with the health it deserves, for any number of requests *)
(* in progress beside them; only a request the agent had given up on can   *)
(* change that (node_status.py).                                           *)
THEOREM AnsweredIsShown == Spec => []ToldIsShown
<1>1. Init => ToldInv
  <2> SUFFICES ASSUME Init PROVE ToldInv
    OBVIOUS
  <2>1. posting["reconcile"] = Nobody /\ agent = NotReconciling /\ told = NotReconciling
    BY DEF Init, Loops
  <2> QED
    BY <2>1 DEF ToldInv, PostingInv, LoadedInv, ShownInv, ToldIsShown, Waits, NotReconciling
<1>2. ToldInv => ToldIsShown
  BY DEF ToldInv
<1> QED
  BY <1>1, <1>2, ShapeInit, ShapeStep, ToldStep, PTL DEF Spec
=============================================================================
