------------------------------ MODULE Reports -------------------------------
(***************************************************************************)
(* What an agent reports and what the control server shows of it: the      *)
(* reconcile loop's three posts (agent/orchestrator.py `_publish`), the    *)
(* re-resolution and routing loops, the stores services/node_status.py and *)
(* services/routing.py, and the cached views the dashboard reads.          *)
(*                                                                         *)
(* Every post is a transaction that reads its row without locking it, sets *)
(* some columns and flushes only those that differ from what it has read;  *)
(* the flush locks the row.  The cache entries are deleted after the       *)
(* commit.  The agent waits http_timeout_seconds for an answer, then gives *)
(* up; the request goes on without it.                                     *)
(*                                                                         *)
(* Data: one node (rows of different nodes do not meet); of a routing      *)
(* table its identity, of a payload what the stores read of it.  "health"  *)
(* and "routing" stand for the node's and the fleet's cache entry, which   *)
(* are filled and deleted alike.                                           *)
(***************************************************************************)
EXTENDS Integers, FiniteSets

CONSTANTS
    Requests,       \* HTTP requests in progress
    Gens,           \* generations the control server has published
    Tables,         \* routing tables BIRD may show
    HistoryKeep,    \* _HISTORY_KEEP
    Budgets         \* bounds: how often a loop posts, the server dies, a GET misses

ASSUME RequestsAssumption == "nobody" \notin Requests
ASSUME KeepAssumption == HistoryKeep \in Nat \ {0}
ASSUME GensAssumption == Gens \subseteq Nat \ {0}
ASSUME BudgetsAssumption ==
    Budgets \subseteq [reconcile : Nat, reresolve : Nat, routing : Nat, restart : Nat,
                read : Nat]

VARIABLES
    status,     \* node_status row
    age,        \* time since its updated_at, by threshold
    events,     \* node_status_events and node_routing_events, by kind
    nextId,     \* the sequence that numbers them
    routing,    \* node_routing row
    entries,    \* node_route_entries: the tables its rows were taken from
    txn,        \* the requests
    cache,      \* Redis
    reader,     \* a GET that fills the cache
    agent,      \* the reconcile loop
    applied,    \* identity.applied_generation (0: None)
    posting,    \* the request each loop of the agent waits for
    left,       \* what is left of the budget
    told,       \* history: the last reconcile answered to its end
    missed      \* history: keys whose entry may be older than its row

store == <<status, age, events, nextId, routing, entries>>
loops == <<agent, applied, posting, left>>
vars == <<store, txn, cache, reader, loops, told, missed>>

Nobody == "nobody"
None == "none"
Idle == [phase |-> "idle"]

Stages == <<"snapshot", "report", "apply">>
StatusKinds == {"snapshot", "report", "apply", "reresolve"}
Kinds == StatusKinds \cup {"routing"}
Keys == {"health", "routing"}
Loops == {"reconcile", "reresolve", "routing"}

KeyOf(kind) == IF kind = "routing" THEN "routing" ELSE "health"
LoopOf(kind) == IF kind \in {"reresolve", "routing"} THEN kind ELSE "reconcile"

NoStatus == [there |-> FALSE, desired |-> 0, observed |-> 0, report |-> None,
             apply |-> None, drift |-> 0, health |-> "unknown"]
NoTable == [table |-> None, prefilter |-> 0]
NoRouting == [there |-> FALSE, observation |-> "not-observed", aggregates |-> NoTable]
NoEntry == [ttl |-> FALSE]

RowOf(kind) == IF kind = "routing" THEN routing ELSE status

(***************************************************************************)
(* Health.                                                                 *)
(***************************************************************************)
(* mutant: drift is shown, but does not count. *)
DeriveHealthNoDrift(row) ==
    IF {row.report, row.apply} = {None} THEN "unknown"
    ELSE IF {row.report, row.apply} \cap {"failed", "degraded"} # {} THEN "degraded"
    ELSE IF 0 \notin {row.desired, row.observed} /\ row.desired # row.observed THEN "stale"
    ELSE "ok"

(* The first rule that applies: a failure hides a generation behind.       *)
DeriveHealth(row) ==
    IF {row.report, row.apply} = {None} THEN "unknown"
    ELSE IF {row.report, row.apply} \cap {"failed", "degraded"} # {} \/ row.drift > 0
         THEN "degraded"
    ELSE IF 0 \notin {row.desired, row.observed} /\ row.desired # row.observed THEN "stale"
    ELSE "ok"

(* `_row_to_dict`: what a silent node is shown as. *)
ShownHealth(health, silence) ==
    CASE health # "unknown" /\ silence = "down" -> "down"
      [] health = "ok" /\ silence = "stale" -> "stale"
      [] OTHER -> health

View(key) ==
    IF key = "routing" THEN [row |-> routing]
    ELSE [row |-> status, shown |-> ShownHealth(status.health, age)]

(***************************************************************************)
(* The agent.  A reconcile has an outcome, from which the three payloads   *)
(* are built; it posts them in order and stops at the first that fails.    *)
(***************************************************************************)
(* `build_reconciliation_report`: critical drift degrades a success.       *)
ReportStatus(result, severity) ==
    IF severity = "critical" /\ result \in {"succeeded", "skipped"} THEN "degraded" ELSE result

NotReconciling == [stage |-> 0, desired |-> 0, observed |-> 0, result |-> None, drift |-> None]

Late == [NotReconciling EXCEPT !.stage = -1]

Reconcile ==
    /\ agent.stage = 0 /\ posting["reconcile"] = Nobody
    /\ left["reconcile"] > 0
    /\ \E g \in Gens, result \in {"succeeded", "failed"},
          severity \in {None, "warning", "critical"} :
         agent' = [stage |-> 1, desired |-> g, result |-> result, drift |-> severity,
                   observed |-> IF result = "succeeded" THEN g ELSE applied]
    /\ left' = [left EXCEPT !["reconcile"] = @ - 1]
    /\ told' = NotReconciling
    /\ UNCHANGED <<store, txn, cache, reader, applied, posting, missed>>

(* Requests are anonymous: any free one will do.                           *)
Free(r) == txn[r] = Idle /\ r = CHOOSE q \in Requests : txn[q] = Idle

Send(r, kind, payload) ==
    /\ Free(r)
    /\ posting[LoopOf(kind)] = Nobody
    /\ txn' = [txn EXCEPT ![r] = [phase |-> "sent", kind |-> kind, payload |-> payload]]
    /\ posting' = [posting EXCEPT ![LoopOf(kind)] = r]
    /\ UNCHANGED <<store, cache, reader, agent, applied, missed, told>>

Publish(r) ==
    /\ agent.stage \in 1..3
    /\ Send(r, Stages[agent.stage], agent)
    /\ UNCHANGED left

PostReresolve(r) ==
    /\ left["reresolve"] > 0
    /\ left' = [left EXCEPT !["reresolve"] = @ - 1]
    /\ Send(r, "reresolve", NoTable)

(* The distribution before the filters (`prefilter`) may change while the  *)
(* table does not.                                                         *)
PostRouting(r) ==
    /\ left["routing"] > 0
    /\ left' = [left EXCEPT !["routing"] = @ - 1]
    /\ \/ \E t \in Tables, p \in {0, 1} :
            Send(r, "routing", [table |-> t, prefilter |-> p])
       \/ Send(r, "routing", NoTable)

(* A timeout, or the end of the agent's process.                           *)
Abandon(l) ==
    /\ posting[l] # Nobody
    /\ posting' = [posting EXCEPT ![l] = Nobody]
    /\ agent' = IF l = "reconcile" THEN NotReconciling ELSE agent
    /\ UNCHANGED <<store, txn, cache, reader, applied, left, missed, told>>

(* The answer reaches the loop that waits for it; after the third the      *)
(* generation is recorded as applied.                                      *)
Answered(r, ok) ==
    LET l == LoopOf(txn[r].kind)
        waited == posting[l] = r
        done == waited /\ l = "reconcile" /\ ok /\ agent.stage = 3
    IN /\ posting' = IF waited THEN [posting EXCEPT ![l] = Nobody] ELSE posting
       /\ agent' = IF ~waited \/ l # "reconcile" THEN agent
                   ELSE IF ok /\ ~done THEN [agent EXCEPT !.stage = @ + 1]
                   ELSE NotReconciling
       /\ applied' = IF done THEN agent.observed ELSE applied
       /\ told' = IF done /\ told # Late THEN agent ELSE told
       /\ UNCHANGED left

(***************************************************************************)
(* The stores.                                                             *)
(***************************************************************************)
RecordSnapshot(row, p) ==
    [row EXCEPT !.there = TRUE, !.observed = IF p.observed # 0 THEN p.observed ELSE @]

RecordReport(row, p) ==
    [row EXCEPT !.there = TRUE, !.desired = p.desired, !.observed = p.observed,
                !.report = ReportStatus(p.result, p.drift),
                !.drift = IF p.drift = None THEN 0 ELSE 1]

RecordApply(row, p) ==
    [row EXCEPT !.there = TRUE, !.desired = p.desired, !.apply = p.result]

RecomputeHealth(row) == [row EXCEPT !.health = DeriveHealth(row)]

RecordReresolve(row) == [row EXCEPT !.there = TRUE]

(* A report without a table changes the observation only.                  *)
RecordRouting(row, p) ==
    IF p = NoTable THEN [row EXCEPT !.there = TRUE, !.observation = "unavailable"]
    ELSE [there |-> TRUE, observation |-> "observed", aggregates |-> p]

Recorded(kind, row, p) ==
    CASE kind = "snapshot" -> RecomputeHealth(RecordSnapshot(row, p))
      [] kind = "report" -> RecomputeHealth(RecordReport(row, p))
      [] kind = "apply" -> RecomputeHealth(RecordApply(row, p))
      [] kind = "reresolve" -> RecordReresolve(row)
      [] kind = "routing" -> RecordRouting(row, p)

(* `_get_or_create`. *)
Load(r) ==
    /\ txn[r].phase = "sent"
    /\ txn' = [txn EXCEPT ![r] =
          [phase |-> "loaded", kind |-> txn[r].kind, payload |-> txn[r].payload,
           loaded |-> RowOf(txn[r].kind), id |-> 0, dropped |-> {}, deleted |-> {}]]
    /\ UNCHANGED <<store, cache, reader, loops, told, missed>>

(* An UPDATE, and an INSERT of the same key, waits for the transaction     *)
(* that has written the row.  Re-resolution writes a missing row only.     *)
WritesRow(t) == t.kind # "reresolve" \/ ~t.loaded.there

(* mutant: nobody waits for a row lock. *)
MayFlushUnlocked(r) == txn[r].phase = "loaded"

MayFlush(r) ==
    /\ txn[r].phase = "loaded"
    /\ WritesRow(txn[r]) =>
         \A u \in Requests \ {r} :
            txn[u].phase = "flushed" /\ KeyOf(txn[u].kind) = KeyOf(txn[r].kind)
            => ~WritesRow(txn[u])

Refused(t) == ~t.loaded.there /\ RowOf(t.kind).there

Newest(ids, n) == {i \in ids : Cardinality({j \in ids : j > i}) < n}

(* The table is rewritten when its hash is not the one that was read.      *)
Rewrites(t) ==
    /\ t.kind = "routing" /\ t.payload # NoTable
    /\ t.loaded.aggregates.table # t.payload.table

(* Flush, `_trim_history`.  A report without a table has no event.         *)
Flush(r) ==
    LET t == txn[r]
        logs == t.kind # "routing" \/ t.payload # NoTable
    IN /\ MayFlush(r)
       /\ ~Refused(t)
       /\ txn' = [txn EXCEPT ![r].phase = "flushed",
             ![r].id = IF logs THEN nextId ELSE 0,
             ![r].dropped = IF logs THEN events[t.kind] \ Newest(events[t.kind], HistoryKeep - 1)
                            ELSE {},
             ![r].deleted = IF Rewrites(t) THEN entries ELSE {}]
       /\ nextId' = IF logs THEN nextId + 1 ELSE nextId
       /\ UNCHANGED <<status, age, events, routing, entries, cache, reader, loops,
                      told, missed>>

UniqueViolation(r) ==
    /\ MayFlush(r)
    /\ Refused(txn[r])
    /\ Answered(r, FALSE)
    /\ txn' = [txn EXCEPT ![r] = Idle]
    /\ UNCHANGED <<store, cache, reader, missed>>

(* Only the columns that differ from what was read are written.            *)
Patch(row, loaded, new) ==
    [c \in DOMAIN row |-> IF new[c] # loaded[c] THEN new[c] ELSE row[c]]

(* mutant: an apply result leaves the cache alone. *)
BustsNotApply(t) == t.kind \notin {"reresolve", "apply"} /\ (t.kind = "routing" => t.payload # NoTable)

(* The deletion of cache entries is what remains after the commit; there   *)
(* is none for re-resolution and for a report without a table.             *)
Busts(t) == t.kind # "reresolve" /\ (t.kind = "routing" => t.payload # NoTable)

Commit(r) ==
    LET t == txn[r]
        new == Patch(RowOf(t.kind), t.loaded, Recorded(t.kind, t.loaded, t.payload))
        late == posting[LoopOf(t.kind)] # r
    IN /\ t.phase = "flushed"
       /\ status' = IF t.kind = "routing" THEN status ELSE new
       /\ age' = IF t.kind # "routing" /\ WritesRow(t) THEN "fresh" ELSE age
       /\ routing' = IF t.kind = "routing" THEN new ELSE routing
       /\ entries' = IF Rewrites(t) THEN (entries \ t.deleted) \cup {t.payload.table}
                     ELSE entries
       /\ events' = [events EXCEPT ![t.kind] =
                        (@ \ t.dropped) \cup ({t.id} \ {0})]
       /\ UNCHANGED <<nextId, cache, reader>>
       /\ IF Busts(t)
          THEN /\ txn' = [txn EXCEPT ![r] = [phase |-> "committed", kind |-> t.kind]]
               /\ told' = IF late /\ t.kind \in StatusKinds THEN Late ELSE told
               /\ UNCHANGED <<loops, missed>>
          ELSE /\ txn' = [txn EXCEPT ![r] = Idle]
               /\ missed' = IF t.kind = "routing" THEN missed \cup {"routing"} ELSE missed
               /\ Answered(r, TRUE)

(* `_bust_health`, `_bust_routing`. *)
Bust(r) ==
    LET k == KeyOf(txn[r].kind) IN
    /\ txn[r].phase = "committed"
    /\ cache' = [cache EXCEPT ![k] = NoEntry]
    /\ missed' = missed \ {k}
    /\ txn' = [txn EXCEPT ![r] = Idle]
    /\ Answered(r, TRUE)
    /\ UNCHANGED <<store, reader>>

(* The control server's process dies: what is not committed is rolled      *)
(* back, what is committed is not removed from the cache.                  *)
Restart ==
    /\ left["restart"] > 0
    /\ left' = [left EXCEPT !["restart"] = @ - 1]
    /\ missed' = missed \cup {KeyOf(txn[r].kind) : r \in {q \in Requests : txn[q].phase = "committed"}}
    /\ txn' = [r \in Requests |-> Idle]
    /\ reader' = [k \in Keys |-> Idle]
    /\ posting' = [l \in Loops |-> Nobody]
    /\ agent' = IF posting["reconcile"] = Nobody THEN agent ELSE NotReconciling
    /\ UNCHANGED <<store, cache, applied, told>>

(***************************************************************************)
(* The dashboard.                                                          *)
(***************************************************************************)
(* On a miss the row is read ...                                           *)
Misses(k) ==
    /\ reader[k] = Idle /\ cache[k] = NoEntry
    /\ View(k).row.there
    /\ left["read"] > 0
    /\ left' = [left EXCEPT !["read"] = @ - 1]
    /\ reader' = [reader EXCEPT ![k] = [phase |-> "read", view |-> View(k)]]
    /\ UNCHANGED <<store, txn, cache, agent, applied, posting, told, missed>>

(* `get`, `list_all` of node_status.py. *)
ReadHealth == Misses("health")

(* `get_summary`, `get_fleet` of routing.py. *)
ReadRouting == Misses("routing")

(* mutant: the entry is written without an expiry. *)
FillForever(k) ==
    /\ reader[k] # Idle
    /\ cache' = [cache EXCEPT ![k] = [view |-> reader[k].view, ttl |-> FALSE]]
    /\ reader' = [reader EXCEPT ![k] = Idle]
    /\ missed' = IF reader[k].view.row = View(k).row THEN missed ELSE missed \cup {k}
    /\ UNCHANGED <<store, txn, loops, told>>

(* ... and what was read is stored (`set_json`, _HEALTH_TTL, _ROUTING_TTL). *)
Fill(k) ==
    /\ reader[k] # Idle
    /\ cache' = [cache EXCEPT ![k] = [view |-> reader[k].view, ttl |-> TRUE]]
    /\ reader' = [reader EXCEPT ![k] = Idle]
    /\ missed' = IF reader[k].view.row = View(k).row THEN missed ELSE missed \cup {k}
    /\ UNCHANGED <<store, txn, loops, told>>

Expire(k) ==
    /\ cache[k] # NoEntry /\ cache[k].ttl
    /\ cache' = [cache EXCEPT ![k] = NoEntry]
    /\ missed' = missed \ {k}
    /\ UNCHANGED <<store, txn, reader, loops, told>>

(* Time passes: stale_after_seconds, down_after_seconds.                   *)
Tick ==
    /\ status.there /\ age # "down"
    /\ age' = IF age = "fresh" THEN "stale" ELSE "down"
    /\ UNCHANGED <<status, events, nextId, routing, entries, txn, cache, reader, loops,
                   told, missed>>

Init ==
    /\ status = NoStatus /\ age = "fresh"
    /\ events = [k \in Kinds |-> {}] /\ nextId = 1
    /\ routing = NoRouting /\ entries = {}
    /\ txn = [r \in Requests |-> Idle]
    /\ cache = [k \in Keys |-> NoEntry] /\ reader = [k \in Keys |-> Idle]
    /\ agent = NotReconciling /\ applied = 0
    /\ posting = [l \in Loops |-> Nobody]
    /\ left \in Budgets
    /\ told = NotReconciling /\ missed = {}

Serve(r) == Load(r) \/ Flush(r) \/ UniqueViolation(r) \/ Commit(r) \/ Bust(r)

Next ==
    \/ Reconcile \/ Restart \/ Tick \/ ReadHealth \/ ReadRouting
    \/ \E r \in Requests : Publish(r) \/ PostReresolve(r) \/ PostRouting(r) \/ Serve(r)
    \/ \E l \in Loops : Abandon(l)
    \/ \E k \in Keys : Fill(k) \/ Expire(k)

(* The event loop serves the requests it has accepted, Redis expires       *)
(* entries and time passes.                                                *)
Spec ==
    /\ Init /\ [][Next]_vars
    /\ \A r \in Requests : WF_vars(Serve(r))
    /\ \A k \in Keys : WF_vars(Fill(k)) /\ WF_vars(Expire(k))
    /\ WF_vars(Tick)

(***************************************************************************)
(* Properties.                                                             *)
(***************************************************************************)
(* When the three posts of a reconcile were answered, the node is shown    *)
(* with that reconcile's generations and with the health it deserves,      *)
(* whatever the re-resolution loop did meanwhile; except after a request   *)
(* the agent had given up on and which came late (node_status.py compares  *)
(* neither generation nor time of capture).                                *)
ToldIsShown ==
    told.stage = 3 =>
        /\ status.desired = told.desired /\ status.observed = told.observed
        /\ status.health = IF told.result = "succeeded" /\ told.drift = None
                           THEN "ok" ELSE "degraded"

(* The stored routes are those of one table, never of two reports that     *)
(* overlapped.                                                             *)
DetailIsOneTable == Cardinality(entries) <= 1

(* A cached view is of the row as it is once every report has been         *)
(* answered, unless a reader stored what it had read before, the server    *)
(* died before the deletion, or a report without a table came.             *)
CacheIsFresh ==
    \A k \in Keys \ missed :
        /\ cache[k] # NoEntry
        /\ \A r \in Requests : txn[r].phase = "committed" => KeyOf(txn[r].kind) # k
        => cache[k].view.row = View(k).row

(* However the reads and reports raced, the dashboard ends up with the     *)
(* truth: a node that has fallen silent is shown as down, and no entry     *)
(* differs from what a fresh read would show.                              *)
DashboardCatchesUp ==
    <>[](/\ \A k \in Keys : cache[k] # NoEntry => cache[k].view = View(k)
         /\ status.health # "unknown" => View("health").shown = "down")
=============================================================================
