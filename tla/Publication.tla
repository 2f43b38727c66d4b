---------------------------- MODULE Publication ----------------------------
(***************************************************************************)
(* Publication of one node's desired state by the control server.          *)
(*                                                                         *)
(* Every admin handler runs one database transaction (PostgreSQL, READ     *)
(* COMMITTED): it loads the node through the ORM, changes the normalized   *)
(* tables, and materializes: SELECT ... FOR UPDATE on the node row, insert *)
(* generation current_generation + 1, advance the row, trim old            *)
(* generations.  After the commit it broadcasts the new number.            *)
(*                                                                         *)
(* The ORM keeps an object it has already loaded: the FOR UPDATE query     *)
(* takes the lock but does not refresh current_generation or lifecycle of  *)
(* a Node the session holds.  A transaction therefore works from the       *)
(* generation it read BEFORE it had the lock ("base"), and                 *)
(* UNIQUE(node_id, generation) is what stops it when that is out of date.  *)
(***************************************************************************)
EXTENDS Integers, FiniteSets

CONSTANTS
    Writers,        \* concurrent admin requests on this node
    Children,       \* the interfaces / sessions the node may have
    Keep,           \* DEFAULT_GENERATION_RETENTION
    MaxGeneration   \* bound: no write starts once it could publish beyond

ASSUME WritersAssumption == IsFiniteSet(Writers)
ASSUME KeepAssumption == Keep \in Nat \ {0}
ASSUME MaxGenerationAssumption == MaxGeneration \in Nat

VARIABLES
    lifecycle,  \* "absent" when there is no row, else Node.lifecycle
    current,    \* Node.current_generation
    config,     \* committed child rows
    gens,       \* rows of the generations table: [gen, snap]
    txn,        \* per request: the handler's progress and in-memory node
    held        \* per request: the lock it holds on the node row

vars == <<lifecycle, current, config, gens, txn, held>>

Lifecycles == {"active", "decommissioned"}

(* Handlers that load the node before they lock it ...                     *)
NodeOps == {"update_node", "decommission_node", "recommission_node"}
ChildOps == {"create_interface", "delete_interface"}

(* ... and those whose first query on it is the locking one.               *)
FreshOps == {"rollback", "bump"}
Ops == NodeOps \cup ChildOps \cup FreshOps \cup {"delete_node"}

LockModes == {"none", "key_share", "no_key_update"}

NoTxn == [phase |-> "idle", op |-> "none", child |-> {}, target |-> 0,
          base |-> 0, life |-> "active"]

(* child: the row a child operation is about, as a set of at most one;     *)
(* target: the generation a rollback names; base and life: the node as the *)
(* session holds it.  After a commit base + 1 is the generation published. *)
Txns == [phase : {"idle", "loaded", "flushed", "committed"},
         op : Ops \cup {"none"},
         child : SUBSET Children,
         target : Nat,
         base : Nat,
         life : Lifecycles]

GenRows == [gen : Nat, snap : SUBSET Children]

TypeOK ==
    /\ lifecycle \in Lifecycles \cup {"absent"}
    /\ current \in Nat
    /\ config \subseteq Children
    /\ gens \subseteq GenRows
    /\ txn \in [Writers -> Txns]
    /\ held \in [Writers -> LockModes]

(***************************************************************************)
(* Helpers.                                                                *)
(***************************************************************************)
GenNumbers == {r.gen : r \in gens}

InFlight == {w \in Writers : txn[w].phase \in {"loaded", "flushed"}}

Exists == lifecycle # "absent"

(* PostgreSQL: an UPDATE of non-key columns (no_key_update) is compatible  *)
(* with the key_share lock a foreign-key check takes, and with nothing     *)
(* else; FOR UPDATE and DELETE are compatible with no lock of another.     *)
MayTake(w, mode) ==
    \A v \in Writers \ {w} :
        \/ held[v] = "none"
        \/ mode = "none"
        \/ mode = "key_share"
        \/ mode = "no_key_update" /\ held[v] = "key_share"

MayLockForUpdate(w) == \A v \in Writers \ {w} : held[v] = "none"

(* Transactions that hold or want the same child row wait for each other.  *)
ChildFree(w) ==
    \A v \in Writers \ {w} :
        txn[v].phase = "flushed" => txn[v].child \cap txn[w].child = {}

End(w) ==
    /\ txn' = [txn EXCEPT ![w] = NoTxn]
    /\ held' = [held EXCEPT ![w] = "none"]

(* The transaction is rolled back and the request answered with an error.  *)
Abort(w) == End(w) /\ UNCHANGED <<lifecycle, current, config, gens>>

(* Timing assumption, as a bound on how many writes may overlap: a write   *)
(* that has read the node ends before Keep generations are published over  *)
(* it.  Each write in flight publishes at most one.                        *)
RoomFor ==
    /\ Cardinality(InFlight) < Keep
    /\ \A v \in InFlight : current + Cardinality(InFlight) - txn[v].base < Keep
    /\ current + Cardinality(InFlight) < MaxGeneration

(***************************************************************************)
(* The node comes into being: POST /nodes (nothing published yet) or a     *)
(* provision of an unknown node (generation 1).  Assumed: requests on a    *)
(* deleted node have ended before it is created again.                     *)
(***************************************************************************)
Quiescent == \A w \in Writers : txn[w].phase = "idle"

CreateNode ==
    /\ lifecycle = "absent"
    /\ Quiescent
    /\ lifecycle' = "active"
    /\ UNCHANGED <<current, config, gens, txn, held>>

Provision(w, children) ==
    /\ lifecycle = "absent"
    /\ Quiescent
    /\ MaxGeneration > 0
    /\ lifecycle' = "active"
    /\ current' = 1
    /\ config' = children
    /\ gens' = {[gen |-> 1, snap |-> children]}
    /\ txn' = [txn EXCEPT ![w] = [NoTxn EXCEPT !.phase = "committed"]]
    /\ UNCHANGED held

(***************************************************************************)
(* First step of a handler: the unlocked read of the node, with the checks *)
(* that are made on it.                                                    *)
(***************************************************************************)
Start(w, op, child, target, phase) ==
    /\ txn[w].phase = "idle"
    /\ Exists
    /\ RoomFor
    /\ txn' = [txn EXCEPT ![w] = [phase |-> phase, op |-> op, child |-> child,
                                  target |-> target, base |-> current,
                                  life |-> lifecycle]]
    /\ UNCHANGED <<lifecycle, current, config, gens, held>>

BeginNodeWrite(w, op) == op \in NodeOps /\ Start(w, op, {}, 0, "loaded")

BeginCreateInterface(w, c) == Start(w, "create_interface", {c}, 0, "loaded")

BeginDeleteInterface(w, c) ==
    c \in config /\ Start(w, "delete_interface", {c}, 0, "loaded")

(* delete_node refuses an active node that has been published.             *)
BeginDeleteNode(w) ==
    /\ current = 0 \/ lifecycle = "decommissioned"
    /\ Start(w, "delete_node", {}, 0, "loaded")

BeginRollback(w, g) == Start(w, "rollback", {}, g, "flushed")

(* notify: the state must have been published for the bump to be made.     *)
BeginBump(w) == current > 0 /\ Start(w, "bump", {}, 0, "flushed")

(***************************************************************************)
(* session.flush(): the row changes are sent, with the locks they take.    *)
(***************************************************************************)

(* lifecycle is only written when it differs from the loaded value.        *)
NewLifeMisspelt(w) ==  \* mutant: the free-form lifecycle column gets a word nothing tests for
    CASE txn[w].op = "decommission_node" -> "decommission"
      [] txn[w].op = "recommission_node" -> "active"
      [] OTHER -> txn[w].life

NewLife(w) ==
    CASE txn[w].op = "decommission_node" -> "decommissioned"
      [] txn[w].op = "recommission_node" -> "active"
      [] OTHER -> txn[w].life

FlushNodeWrite(w) ==
    LET mode == IF txn[w].op # "update_node" /\ NewLife(w) = txn[w].life
                THEN "none" ELSE "no_key_update"
    IN  /\ txn[w].phase = "loaded"
        /\ txn[w].op \in NodeOps
        /\ Exists
        /\ MayTake(w, mode)
        /\ txn' = [txn EXCEPT ![w].phase = "flushed"]
        /\ held' = [held EXCEPT ![w] = mode]
        /\ UNCHANGED <<lifecycle, current, config, gens>>

(* The INSERT's foreign key locks the node row in key_share; the refresh   *)
(* that follows reads the node (again).                                    *)
FlushCreateInterface(w) ==
    /\ txn[w].phase = "loaded"
    /\ txn[w].op = "create_interface"
    /\ Exists
    /\ ChildFree(w)
    /\ txn[w].child \cap config = {}
    /\ MayTake(w, "key_share")
    /\ txn' = [txn EXCEPT ![w] = [@ EXCEPT !.phase = "flushed",
                                           !.base = current,
                                           !.life = lifecycle]]
    /\ held' = [held EXCEPT ![w] = "key_share"]
    /\ UNCHANGED <<lifecycle, current, config, gens>>

(* The DELETE takes no lock on the node row and nothing re-reads the node. *)
FlushDeleteInterface(w) ==
    /\ txn[w].phase = "loaded"
    /\ txn[w].op = "delete_interface"
    /\ ChildFree(w)
    /\ txn[w].child \subseteq config
    /\ txn' = [txn EXCEPT ![w].phase = "flushed"]
    /\ UNCHANGED <<lifecycle, current, config, gens, held>>

(***************************************************************************)
(* materialize / rollback_to_generation and the commit.  Nothing another   *)
(* transaction does between the FOR UPDATE and the commit can be seen by   *)
(* this one or see it, so they are one step.                               *)
(***************************************************************************)

(* The generation the handler takes for the current one.                   *)
Base(w) == IF txn[w].op \in FreshOps THEN current ELSE txn[w].base

NewConfig(w) ==
    CASE txn[w].op = "create_interface" -> config \cup txn[w].child
      [] txn[w].op = "delete_interface" -> config \ txn[w].child
      [] OTHER -> config

CommittedLife(w) ==
    IF NewLife(w) = txn[w].life THEN lifecycle ELSE NewLife(w)

(* A decommissioned node is given an empty state; otherwise the child rows *)
(* as they are now that the row is locked.                                 *)
AssembleSnapshot(w) ==
    LET life == IF txn[w].op \in FreshOps THEN lifecycle ELSE NewLife(w)
    IN  IF life = "decommissioned" THEN {} ELSE NewConfig(w)

Snapshots(w) ==
    IF txn[w].op = "rollback"
    THEN {r.snap : r \in {r \in gens : r.gen = txn[w].target}}
    ELSE {AssembleSnapshot(w)}

TrimmedOneLess(rows, new) ==  \* mutant: cutoff with < instead of <=
    {r \in rows : r.gen >= new - Keep}

Trimmed(rows, new) == {r \in rows : r.gen > new - Keep}

(* UNIQUE(node_id, generation).                                            *)
TakenNever(new) == FALSE  \* mutant: the table has no such constraint

Taken(new) == new \in GenNumbers

(* Node handlers publish only what has been published before.              *)
Materializes(w) == txn[w].op \notin NodeOps \/ txn[w].base > 0

ReadyToCommit(w) ==
    /\ txn[w].phase = "flushed"
    /\ Exists
    /\ MayLockForUpdate(w)

Collides(w) ==
    /\ ReadyToCommit(w)
    /\ Materializes(w)
    /\ Taken(Base(w) + 1)

Materialize(w) ==
    LET new == Base(w) + 1
    IN  /\ ReadyToCommit(w)
        /\ Materializes(w)
        /\ ~Taken(new)
        /\ \E snap \in Snapshots(w) :
               gens' = Trimmed(gens \cup {[gen |-> new, snap |-> snap]}, new)
        /\ current' = new
        /\ config' = NewConfig(w)
        /\ lifecycle' = CommittedLife(w)
        /\ txn' = [txn EXCEPT ![w] = [NoTxn EXCEPT !.phase = "committed",
                                                   !.base = Base(w)]]
        /\ held' = [held EXCEPT ![w] = "none"]

CommitUnpublished(w) ==
    /\ txn[w].phase = "flushed"
    /\ Exists
    /\ ~Materializes(w)
    /\ lifecycle' = CommittedLife(w)
    /\ End(w)
    /\ UNCHANGED <<current, config, gens>>

(* DELETE of the node row: its children and generations go with it.        *)
DeleteNode(w) ==
    /\ txn[w].phase = "loaded"
    /\ txn[w].op = "delete_node"
    /\ Exists
    /\ MayLockForUpdate(w)
    /\ lifecycle' = "absent"
    /\ current' = 0
    /\ config' = {}
    /\ gens' = {}
    /\ End(w)

(* The handler broadcasts the generation it committed and answers.         *)
Broadcast(w) ==
    /\ txn[w].phase = "committed"
    /\ End(w)
    /\ UNCHANGED <<lifecycle, current, config, gens>>

(***************************************************************************)
(* The ways a request fails.  All of them roll the transaction back.       *)
(***************************************************************************)

(* IntegrityError on UNIQUE(node_id, generation).                          *)
UniqueViolation(w) == Collides(w) /\ Abort(w)

(* The node, the child row or the rollback's target is not there (any      *)
(* more), or the child's name is taken: 404 / 409.                         *)
NotFound(w) ==
    /\ w \in InFlight
    /\ \/ ~Exists
       \/ /\ txn[w].phase = "loaded"
          /\ \/ txn[w].op = "create_interface" /\ ~(txn[w].child \cap config = {})
             \/ txn[w].op = "delete_interface" /\ ~(txn[w].child \subseteq config)
       \/ /\ ReadyToCommit(w)
          /\ Snapshots(w) = {}
    /\ Abort(w)

(* The assembled state does not validate: 422.                             *)
Reject(w) == ReadyToCommit(w) /\ Materializes(w) /\ Abort(w)

(* Two transactions each hold a lock the other's FOR UPDATE waits for: the *)
(* database ends one of them.                                              *)
DeadlockAbortNever(w) == FALSE  \* mutant: nobody looks for lock cycles

DeadlockAbort(w) ==
    /\ \E v \in Writers \ {w} :
          \A u \in {v, w} : /\ txn[u].phase = "flushed"
                            /\ Materializes(u)
                            /\ held[u] # "none"
    /\ Abort(w)

(* The server process dies: open transactions roll back, broadcasts owed   *)
(* are never made.                                                         *)
Restart ==
    /\ ~Quiescent
    /\ txn' = [w \in Writers |-> NoTxn]
    /\ held' = [w \in Writers |-> "none"]
    /\ UNCHANGED <<lifecycle, current, config, gens>>

-----------------------------------------------------------------------------
Init ==
    /\ lifecycle = "absent"
    /\ current = 0
    /\ config = {}
    /\ gens = {}
    /\ txn = [w \in Writers |-> NoTxn]
    /\ held = [w \in Writers |-> "none"]

Begin(w) ==
    \/ \E op \in NodeOps : BeginNodeWrite(w, op)
    \/ \E c \in Children : BeginCreateInterface(w, c)
    \/ \E c \in Children : BeginDeleteInterface(w, c)
    \/ BeginDeleteNode(w)
    \/ \E g \in 1..MaxGeneration : BeginRollback(w, g)
    \/ BeginBump(w)

Flush(w) ==
    FlushNodeWrite(w) \/ FlushCreateInterface(w) \/ FlushDeleteInterface(w)

Commit(w) == Materialize(w) \/ CommitUnpublished(w) \/ DeleteNode(w)

Fail(w) ==
    UniqueViolation(w) \/ NotFound(w) \/ Reject(w) \/ DeadlockAbort(w)

Step(w) == Flush(w) \/ Commit(w) \/ Broadcast(w) \/ Fail(w)

Next ==
    \/ CreateNode
    \/ Restart
    \/ \E w \in Writers :
          \/ \E children \in SUBSET Children : Provision(w, children)
          \/ Begin(w)
          \/ Step(w)

Spec == Init /\ [][Next]_vars

(* A request that can proceed does: the event loop runs every handler, and *)
(* the database serves lock waits in order, so a request waiting for the   *)
(* row is not passed over for ever (strong fairness).                      *)
FairSpec == Spec /\ \A w \in Writers : SF_vars(Step(w))

-----------------------------------------------------------------------------
(***************************************************************************)
(* Properties.                                                             *)
(***************************************************************************)

(* The generations table holds exactly the last Keep generations up to     *)
(* current_generation, with no hole and no row beyond it, and the row the  *)
(* node points to is there: DesiredStateStore.get never answers "no state" *)
(* for a published node, and a rollback target in the window is found.     *)
RetainedWindow ==
    Exists => GenNumbers = {n \in 1..current : n > current - Keep}

(* (node_id, generation) names one snapshot.                               *)
OneSnapshotPerGeneration ==
    \A r, s \in gens : r.gen = s.gen => r = s

(* The generations committed whose event is still to be broadcast.         *)
Owed == {txn[w].base + 1 : w \in {v \in Writers : txn[v].phase = "committed"}}

Log == INSTANCE GenerationLog WITH published <- current, pending <- Owed

(* Writes serialize: through stale ORM reads, lock waits, retention and    *)
(* crashes, the handlers together behave as GenerationLog, where numbers   *)
(* grow one by one and only committed generations are announced.           *)
ImplementsLog == Log!LogSpec

(* Every admin request ends: lock waits on the node row never leave two    *)
(* handlers waiting for each other.                                        *)
RequestsEnd == \A w \in Writers : txn[w].phase # "idle" ~> txn[w].phase = "idle"

(* The strengthening RetainedWindow needs: no write in flight has been     *)
(* overtaken by so many publications that the generation it would insert   *)
(* has already been trimmed, counting the ones the other writes in flight  *)
(* may still make.                                                         *)
NotOvertaken ==
    /\ Cardinality(InFlight) <= Keep
    /\ Exists => \A w \in InFlight :
          /\ txn[w].base <= current
          /\ current + Cardinality(InFlight) - txn[w].base <= Keep

AbsentIsEmpty == ~Exists => current = 0 /\ gens = {}

IInv ==
    /\ TypeOK
    /\ RetainedWindow
    /\ OneSnapshotPerGeneration
    /\ NotOvertaken
    /\ AbsentIsEmpty
=============================================================================
