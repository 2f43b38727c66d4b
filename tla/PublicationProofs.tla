------------------------- MODULE PublicationProofs -------------------------
(***************************************************************************)
(* Proofs about Publication, for every finite set of requests, every       *)
(* retention window and every number of generations.                       *)
(***************************************************************************)
EXTENDS Publication, FiniteSetTheorems, TLAPS

(* How a request's record may change, whatever handler it belongs to.      *)
LEMMA TxnFacts ==
    ASSUME TypeOK, NEW w \in Writers
    PROVE  /\ NoTxn \in Txns
           /\ txn[w] \in Txns
           /\ txn[w].phase \in {"idle", "loaded", "flushed", "committed"}
           /\ txn[w].child \subseteq Children
           /\ txn[w].base \in Nat
           /\ txn[w].life \in Lifecycles
           /\ NewLife(w) \in Lifecycles
           /\ Base(w) \in Nat
           /\ NewConfig(w) \subseteq Children
  BY DEF TypeOK, Txns, NoTxn, Lifecycles, NewLife, Base, NewConfig

(* Every step keeps the types of the tables, requests and locks.           *)
LEMMA TypeStep == TypeOK /\ [Next]_vars => TypeOK'
  <1> SUFFICES ASSUME TypeOK, [Next]_vars PROVE TypeOK'
    OBVIOUS
  <1> USE MaxGenerationAssumption, KeepAssumption
  <1>1. CASE UNCHANGED vars
    BY <1>1 DEF TypeOK, vars
  <1>2. CASE CreateNode
    BY <1>2 DEF CreateNode, TypeOK, Lifecycles
  <1>3. CASE Restart
    BY <1>3 DEF Restart, TypeOK, Txns, NoTxn, Lifecycles, LockModes
  <1>4. ASSUME NEW w \in Writers, NEW children \in SUBSET Children,
               Provision(w, children)
        PROVE  TypeOK'
    BY <1>4 DEF Provision, TypeOK, Txns, NoTxn, Lifecycles, GenRows
  <1>5. ASSUME NEW w \in Writers, NEW op \in Ops, NEW child \in SUBSET Children,
               NEW target \in Nat, NEW phase \in {"loaded", "flushed"},
               Start(w, op, child, target, phase)
        PROVE  TypeOK'
    BY <1>5 DEF Start, TypeOK, Txns, Exists, Lifecycles
  <1>6. ASSUME NEW w \in Writers, Begin(w) PROVE TypeOK'
    <2>1. ASSUME NEW op \in NodeOps, BeginNodeWrite(w, op) PROVE TypeOK'
      BY <1>5, <2>1 DEF BeginNodeWrite, Ops
    <2>2. ASSUME NEW c \in Children, BeginCreateInterface(w, c) PROVE TypeOK'
      BY <1>5, <2>2 DEF BeginCreateInterface, Ops, ChildOps
    <2>3. ASSUME NEW c \in Children, BeginDeleteInterface(w, c) PROVE TypeOK'
      BY <1>5, <2>3 DEF BeginDeleteInterface, Ops, ChildOps
    <2>4. CASE BeginDeleteNode(w)
      BY <1>5, <2>4 DEF BeginDeleteNode, Ops
    <2>5. ASSUME NEW g \in 1..MaxGeneration, BeginRollback(w, g) PROVE TypeOK'
      BY <1>5, <2>5 DEF BeginRollback, Ops, FreshOps
    <2>6. CASE BeginBump(w)
      BY <1>5, <2>6 DEF BeginBump, Ops, FreshOps
    <2> QED
      BY <1>6, <2>1, <2>2, <2>3, <2>4, <2>5, <2>6 DEF Begin
  <1>7. ASSUME NEW w \in Writers, End(w)
        PROVE  txn' \in [Writers -> Txns] /\ held' \in [Writers -> LockModes]
    BY <1>7, TxnFacts DEF End, TypeOK, LockModes
  <1>8. ASSUME NEW w \in Writers, Step(w) PROVE TypeOK'
    <2>1. CASE FlushNodeWrite(w)
      BY <2>1 DEF FlushNodeWrite, TypeOK, Txns, LockModes
    <2>2. CASE FlushCreateInterface(w)
      <3>1. lifecycle \in Lifecycles /\ current \in Nat
        BY <2>2 DEF FlushCreateInterface, Exists, TypeOK
      <3>2. [txn[w] EXCEPT !.phase = "flushed", !.base = current,
                           !.life = lifecycle] \in Txns
        BY <3>1, TxnFacts DEF Txns
      <3>3. txn' \in [Writers -> Txns]
        BY <2>2, <3>2 DEF FlushCreateInterface, TypeOK
      <3> QED
        BY <2>2, <3>3 DEF FlushCreateInterface, TypeOK, LockModes
    <2>3. CASE FlushDeleteInterface(w)
      BY <2>3 DEF FlushDeleteInterface, TypeOK, Txns
    <2>4. CASE Materialize(w)
      <3>1. PICK snap \in Snapshots(w) :
                gens' = Trimmed(gens \cup {[gen |-> Base(w) + 1, snap |-> snap]},
                                Base(w) + 1)
        BY <2>4 DEF Materialize
      <3>2. snap \subseteq Children
        BY <3>1, TxnFacts DEF Snapshots, AssembleSnapshot, TypeOK, GenRows
      <3>3. gens' \subseteq GenRows
        BY <3>1, <3>2, TxnFacts DEF Trimmed, TypeOK, GenRows
      <3>4. /\ current' \in Nat
            /\ config' \subseteq Children
            /\ lifecycle' \in Lifecycles \cup {"absent"}
        BY <2>4, TxnFacts DEF Materialize, CommittedLife, TypeOK
      <3>5. txn' \in [Writers -> Txns]
        <4>1. [NoTxn EXCEPT !.phase = "committed", !.base = Base(w)] \in Txns
          BY TxnFacts DEF NoTxn, Txns
        <4> QED
          BY <2>4, <4>1 DEF Materialize, TypeOK
      <3>6. held' \in [Writers -> LockModes]
        BY <2>4 DEF Materialize, LockModes, TypeOK
      <3> QED
        BY <3>3, <3>4, <3>5, <3>6 DEF TypeOK
    <2>5. CASE CommitUnpublished(w)
      BY <2>5, <1>7, TxnFacts DEF CommitUnpublished, CommittedLife, TypeOK
    <2>6. CASE DeleteNode(w)
      BY <2>6, <1>7 DEF DeleteNode, TypeOK
    <2>7. CASE Broadcast(w)
      BY <2>7, <1>7 DEF Broadcast, TypeOK
    <2>8. CASE Fail(w)
      <3>1. Abort(w)
        BY <2>8 DEF Fail, UniqueViolation, NotFound, Reject, DeadlockAbort
      <3> QED
        BY <3>1, <1>7 DEF Abort, TypeOK
    <2> QED
      BY <1>8, <2>1, <2>2, <2>3, <2>4, <2>5, <2>6, <2>7, <2>8
      DEF Step, Flush, Commit
  <1> QED
    BY <1>1, <1>2, <1>3, <1>4, <1>6, <1>8 DEF Next

(***************************************************************************)
(* The set of writes in flight and its size.                               *)
(***************************************************************************)
LEMMA InFlightSize ==
    /\ IsFiniteSet(InFlight)
    /\ Cardinality(InFlight) \in Nat
    /\ \A w \in InFlight : Cardinality(InFlight) >= 1
  <1>1. IsFiniteSet(InFlight)
    BY WritersAssumption, FS_Subset DEF InFlight
  <1>2. Cardinality(InFlight) \in Nat
    BY <1>1, FS_CardinalityType
  <1>3. ASSUME NEW w \in InFlight PROVE Cardinality(InFlight) >= 1
    BY <1>1, <1>2, <1>3, FS_EmptySet
  <1> QED
    BY <1>1, <1>2, <1>3

(* A request that ends, or commits, leaves the set.                        *)
LEMMA Leaves ==
    ASSUME TypeOK, NEW w \in Writers, NEW r,
           r.phase \notin {"loaded", "flushed"},
           txn' = [txn EXCEPT ![w] = r]
    PROVE  /\ InFlight' = InFlight \ {w}
           /\ Cardinality(InFlight') \in Nat
           /\ Cardinality(InFlight') <= Cardinality(InFlight)
           /\ w \in InFlight => Cardinality(InFlight') = Cardinality(InFlight) - 1
           /\ \A v \in InFlight' : txn'[v] = txn[v]
  <1>1. InFlight' = InFlight \ {w}
    BY DEF InFlight, TypeOK
  <1>2. \A v \in InFlight' : txn'[v] = txn[v]
    BY <1>1 DEF InFlight, TypeOK
  <1>3. /\ Cardinality(InFlight \ {w}) \in Nat
        /\ Cardinality(InFlight \ {w}) <= Cardinality(InFlight)
        /\ w \in InFlight => Cardinality(InFlight \ {w}) = Cardinality(InFlight) - 1
    <2>1. /\ IsFiniteSet(InFlight \ {w})
          /\ Cardinality(InFlight \ {w}) =
                IF w \in InFlight THEN Cardinality(InFlight) - 1
                                 ELSE Cardinality(InFlight)
      BY InFlightSize, FS_RemoveElement
    <2>2. Cardinality(InFlight \ {w}) \in Nat
      BY <2>1, FS_CardinalityType
    <2> QED
      BY <2>1, <2>2, InFlightSize
  <1> QED
    BY <1>1, <1>2, <1>3

(* A request that starts joins it.                                         *)
LEMMA Joins ==
    ASSUME TypeOK, NEW w \in Writers, NEW r,
           txn[w].phase = "idle",
           r.phase \in {"loaded", "flushed"},
           txn' = [txn EXCEPT ![w] = r]
    PROVE  /\ InFlight' = InFlight \cup {w}
           /\ Cardinality(InFlight') = Cardinality(InFlight) + 1
           /\ txn'[w] = r
           /\ \A v \in InFlight : txn'[v] = txn[v]
  <1>1. InFlight' = InFlight \cup {w} /\ w \notin InFlight
    BY DEF InFlight, TypeOK
  <1>2. txn'[w] = r /\ \A v \in InFlight : txn'[v] = txn[v]
    BY <1>1 DEF InFlight, TypeOK
  <1>3. Cardinality(InFlight \cup {w}) = Cardinality(InFlight) + 1
    BY <1>1, InFlightSize, FS_AddElement
  <1> QED
    BY <1>1, <1>2, <1>3

(* A step that leaves the node row and the generations table alone keeps   *)
(* what is said about them.                                                *)
LEMMA TablesFrame ==
    ASSUME RetainedWindow, OneSnapshotPerGeneration, AbsentIsEmpty,
           UNCHANGED <<current, gens>>, Exists' <=> Exists
    PROVE  RetainedWindow' /\ OneSnapshotPerGeneration' /\ AbsentIsEmpty'
  BY DEF RetainedWindow, OneSnapshotPerGeneration, AbsentIsEmpty, GenNumbers, Exists

(* A request that ends without publishing overtakes nobody.                *)
LEMMA EndsQuietly ==
    ASSUME TypeOK, NotOvertaken, NEW w \in Writers, End(w),
           UNCHANGED current, Exists' => Exists
    PROVE  NotOvertaken'
  <1>1. /\ InFlight' = InFlight \ {w}
        /\ Cardinality(InFlight') \in Nat
        /\ Cardinality(InFlight') <= Cardinality(InFlight)
        /\ \A v \in InFlight' : txn'[v] = txn[v]
    BY Leaves DEF End, NoTxn
  <1>2. \A v \in InFlight : txn[v].base \in Nat
    BY TxnFacts DEF InFlight
  <1>3. current \in Nat /\ Cardinality(InFlight) \in Nat
    BY InFlightSize DEF TypeOK
  <1>4. Cardinality(InFlight') <= Keep
    BY <1>1, <1>3, KeepAssumption DEF NotOvertaken
  <1>5. ASSUME Exists', NEW v \in InFlight'
        PROVE  /\ txn'[v].base <= current'
               /\ current' + Cardinality(InFlight') - txn'[v].base <= Keep
    <2>1. /\ v \in InFlight
          /\ txn'[v].base = txn[v].base
          /\ txn[v].base \in Nat
          /\ current' = current
      BY <1>1, <1>2, <1>5
    <2>2. /\ txn[v].base <= current
          /\ current + Cardinality(InFlight) - txn[v].base <= Keep
      BY <1>5, <2>1 DEF NotOvertaken
    <2> QED
      BY <1>1, <1>3, <2>1, <2>2, KeepAssumption
  <1> QED
    BY <1>4, <1>5 DEF NotOvertaken

(* The heart of the argument: a write whose base is out of date would      *)
(* insert a number that is still in the retained window, so the UNIQUE     *)
(* constraint stops it.  Whatever does publish started from the current    *)
(* generation.                                                             *)
LEMMA PublishesFromCurrent ==
    ASSUME IInv, NEW w \in Writers, Materialize(w)
    PROVE  Base(w) = current
  <1>1. CASE txn[w].op \in FreshOps
    BY <1>1 DEF Base
  <1>2. CASE txn[w].op \notin FreshOps
    <2>1. w \in InFlight /\ Exists
      BY DEF Materialize, ReadyToCommit, InFlight
    <2>2. Base(w) = txn[w].base /\ txn[w].base \in Nat /\ current \in Nat
      BY <1>2, TxnFacts DEF Base, IInv, TypeOK
    <2>3. Cardinality(InFlight) >= 1 /\ Cardinality(InFlight) \in Nat
      BY <2>1, InFlightSize
    <2>4. /\ txn[w].base <= current
          /\ current + Cardinality(InFlight) - txn[w].base <= Keep
      BY <2>1 DEF IInv, NotOvertaken
    <2>5. Base(w) + 1 \notin GenNumbers
      BY DEF Materialize, Taken
    <2>6. GenNumbers = {n \in 1..current : n > current - Keep}
      BY <2>1 DEF IInv, RetainedWindow
    <2> QED
      BY <2>2, <2>3, <2>4, <2>5, <2>6, KeepAssumption
  <1> QED
    BY <1>1, <1>2

(* Publishing moves the window by one and overtakes each other write by    *)
(* one, which is what the place the publisher frees had been kept for.     *)
LEMMA MaterializeStep ==
    ASSUME IInv, NEW w \in Writers, Materialize(w), TypeOK'
    PROVE  /\ current' = current + 1
           /\ IInv'
  <1>1. Base(w) = current
    BY PublishesFromCurrent
  <1>2. /\ current \in Nat
        /\ current' = current + 1
        /\ Exists
        /\ current + 1 \notin GenNumbers
    BY <1>1 DEF Materialize, ReadyToCommit, Taken, IInv, TypeOK
  <1>3. PICK snap \in Snapshots(w) :
            gens' = Trimmed(gens \cup {[gen |-> current + 1, snap |-> snap]},
                            current + 1)
    BY <1>1 DEF Materialize
  <1>4. GenNumbers = {n \in 1..current : n > current - Keep}
    BY <1>2 DEF IInv, RetainedWindow
  <1>5. RetainedWindow'
    <2> DEFINE row == [gen |-> current + 1, snap |-> snap]
    <2>1. row.gen = current + 1
      OBVIOUS
    <2>2. gens' = {r \in gens \cup {row} : r.gen > (current + 1) - Keep}
      BY <1>3 DEF Trimmed
    <2> HIDE DEF row
    <2>3. \A r : r \in gens' <=> (r \in gens \/ r = row) /\ r.gen > (current + 1) - Keep
      BY <2>2
    <2>4. ASSUME NEW n \in GenNumbers'
          PROVE  n \in 1..current' /\ n > current' - Keep
      <3>1. PICK r \in gens' : r.gen = n
        BY <2>4 DEF GenNumbers
      <3>2. (r \in gens \/ r = row) /\ n > (current + 1) - Keep
        BY <2>3, <3>1
      <3>3. CASE r = row
        BY <1>2, <2>1, <3>1, <3>2, <3>3
      <3>4. CASE r \in gens
        <4>1. n \in GenNumbers
          BY <3>1, <3>4 DEF GenNumbers
        <4> QED
          BY <1>2, <1>4, <3>2, <4>1
      <3> QED
        BY <3>2, <3>3, <3>4
    <2>5. ASSUME NEW n \in 1..current', n > current' - Keep
          PROVE  n \in GenNumbers'
      <3>1. CASE n = current + 1
        <4>1. row \in gens'
          BY <1>2, <2>3, <2>1, <2>5, <3>1
        <4> QED
          BY <2>1, <3>1, <4>1 DEF GenNumbers
      <3>2. CASE n # current + 1
        <4>1. n \in GenNumbers
          BY <1>2, <1>4, <2>5, <3>2, KeepAssumption
        <4>2. PICK r \in gens : r.gen = n
          BY <4>1 DEF GenNumbers
        <4>3. r \in gens'
          BY <1>2, <2>3, <2>5, <4>2
        <4> QED
          BY <4>2, <4>3 DEF GenNumbers
      <3> QED
        BY <3>1, <3>2
    <2> QED
      BY <2>4, <2>5 DEF RetainedWindow
  <1>6. OneSnapshotPerGeneration'
    <2> SUFFICES ASSUME NEW r \in gens', NEW q \in gens', r.gen = q.gen
                 PROVE  r = q
      BY DEF OneSnapshotPerGeneration
    <2>1. \A t \in gens' : t \in gens \/ t = [gen |-> current + 1, snap |-> snap]
      BY <1>3 DEF Trimmed
    <2>2. \A t \in gens : t.gen # current + 1
      BY <1>2 DEF GenNumbers
    <2> QED
      BY <2>1, <2>2 DEF IInv, OneSnapshotPerGeneration
  <1>7. NotOvertaken'
    <2>1. w \in InFlight
      BY DEF Materialize, ReadyToCommit, InFlight
    <2>2. /\ InFlight' = InFlight \ {w}
          /\ Cardinality(InFlight') = Cardinality(InFlight) - 1
          /\ \A v \in InFlight' : txn'[v] = txn[v]
      <3>1. [NoTxn EXCEPT !.phase = "committed", !.base = Base(w)].phase = "committed"
        BY DEF NoTxn
      <3> QED
        BY <2>1, <3>1, Leaves DEF Materialize, IInv
    <2>3. Cardinality(InFlight) \in Nat
      BY InFlightSize
    <2>4. Cardinality(InFlight') <= Keep
      BY <2>2, <2>3, KeepAssumption DEF IInv, NotOvertaken
    <2>5. ASSUME NEW v \in InFlight'
          PROVE  /\ txn'[v].base <= current'
                 /\ current' + Cardinality(InFlight') - txn'[v].base <= Keep
      <3>1. v \in InFlight /\ txn'[v].base = txn[v].base /\ txn[v].base \in Nat
        BY <2>2, <2>5, TxnFacts DEF InFlight, IInv
      <3>2. /\ txn[v].base <= current
            /\ current + Cardinality(InFlight) - txn[v].base <= Keep
        BY <1>2, <3>1 DEF IInv, NotOvertaken
      <3> QED
        BY <1>2, <2>2, <2>3, <3>1, <3>2, KeepAssumption
    <2> QED
      BY <2>4, <2>5 DEF NotOvertaken
  <1>8. Exists'
    BY <1>2, TxnFacts DEF Materialize, CommittedLife, Exists, IInv, Lifecycles
  <1>9. AbsentIsEmpty'
    BY <1>8 DEF AbsentIsEmpty
  <1> QED
    BY <1>2, <1>5, <1>6, <1>7, <1>9 DEF IInv

(* Starting a write keeps every write in flight, this one included, from   *)
(* being overtaken beyond the window.                                      *)
LEMMA StartStep ==
    ASSUME IInv, NEW w \in Writers, NEW op, NEW child, NEW target,
           NEW phase \in {"loaded", "flushed"},
           Start(w, op, child, target, phase)
    PROVE  NotOvertaken' /\ UNCHANGED <<lifecycle, current, gens>>
  <1>1. /\ InFlight' = InFlight \cup {w}
        /\ Cardinality(InFlight') = Cardinality(InFlight) + 1
        /\ txn'[w].base = current
        /\ \A v \in InFlight : txn'[v] = txn[v]
    <2> DEFINE r == [phase |-> phase, op |-> op, child |-> child,
                     target |-> target, base |-> current, life |-> lifecycle]
    <2>1. r.phase = phase /\ r.base = current
      OBVIOUS
    <2>2. txn[w].phase = "idle" /\ txn' = [txn EXCEPT ![w] = r] /\ TypeOK
      BY DEF Start, IInv
    <2> HIDE DEF r
    <2> QED
      BY <2>1, <2>2, Joins
  <1>2. /\ Cardinality(InFlight) \in Nat
        /\ current \in Nat
        /\ UNCHANGED <<lifecycle, current, gens>>
        /\ Exists
    BY InFlightSize DEF Start, IInv, TypeOK
  <1>3. /\ Cardinality(InFlight) < Keep
        /\ \A v \in InFlight : current + Cardinality(InFlight) - txn[v].base < Keep
    BY DEF Start, RoomFor
  <1>4. Cardinality(InFlight') <= Keep
    BY <1>1, <1>2, <1>3, KeepAssumption
  <1>5. ASSUME NEW v \in InFlight'
        PROVE  /\ txn'[v].base <= current'
               /\ current' + Cardinality(InFlight') - txn'[v].base <= Keep
    <2>1. CASE v = w
      BY <1>1, <1>2, <1>3, <2>1, KeepAssumption
    <2>2. CASE v # w
      <3>1. v \in InFlight /\ txn'[v].base = txn[v].base
        BY <1>1, <1>5, <2>2
      <3>2. txn[v].base \in Nat /\ txn[v].base <= current
        BY <1>2, <3>1, TxnFacts DEF IInv, NotOvertaken, InFlight
      <3> QED
        BY <1>1, <1>2, <1>3, <3>1, <3>2, KeepAssumption
    <2> QED
      BY <2>1, <2>2
  <1> QED
    BY <1>2, <1>4, <1>5 DEF NotOvertaken

(* What the flush makes of the request's record: the base stays, or is the *)
(* current generation.                                                     *)
LEMMA FlushedRecord ==
    ASSUME TypeOK, NEW w \in Writers, Flush(w)
    PROVE  \E r : /\ txn' = [txn EXCEPT ![w] = r]
                  /\ r.phase = "flushed"
                  /\ txn[w].phase = "loaded"
                  /\ r.base = txn[w].base \/ r.base = current
  <1>1. CASE FlushCreateInterface(w)
    <2>1. [txn[w] EXCEPT !.phase = "flushed", !.base = current,
                         !.life = lifecycle].phase = "flushed"
      BY TxnFacts DEF Txns
    <2>2. [txn[w] EXCEPT !.phase = "flushed", !.base = current,
                         !.life = lifecycle].base = current
      BY TxnFacts DEF Txns
    <2> QED
      BY <1>1, <2>1, <2>2 DEF FlushCreateInterface
  <1>2. CASE FlushNodeWrite(w) \/ FlushDeleteInterface(w)
    <2>1. txn' = [txn EXCEPT ![w] = [txn[w] EXCEPT !.phase = "flushed"]]
      BY <1>2 DEF FlushNodeWrite, FlushDeleteInterface
    <2>2. /\ [txn[w] EXCEPT !.phase = "flushed"].phase = "flushed"
          /\ [txn[w] EXCEPT !.phase = "flushed"].base = txn[w].base
      BY TxnFacts DEF Txns
    <2> QED
      BY <2>1, <2>2, <1>2 DEF FlushNodeWrite, FlushDeleteInterface
  <1> QED
    BY <1>1, <1>2 DEF Flush

(* Sending the rows to the database moves no generation: a write keeps its *)
(* base, or takes the current one for it.                                  *)
LEMMA FlushStep ==
    ASSUME IInv, NEW w \in Writers, Flush(w)
    PROVE  NotOvertaken' /\ UNCHANGED <<lifecycle, current, gens>>
  <1>1. UNCHANGED <<lifecycle, current, gens>>
    BY DEF Flush, FlushNodeWrite, FlushCreateInterface, FlushDeleteInterface
  <1>2. PICK r : /\ txn' = [txn EXCEPT ![w] = r]
                 /\ r.phase = "flushed"
                 /\ txn[w].phase = "loaded"
                 /\ r.base = txn[w].base \/ r.base = current
    BY FlushedRecord DEF IInv
  <1>3. /\ InFlight' = InFlight
        /\ \A v \in InFlight : txn'[v].base = txn[v].base \/ txn'[v].base = current
    BY <1>2 DEF InFlight, IInv, TypeOK
  <1>4. current \in Nat /\ Cardinality(InFlight) \in Nat
    BY InFlightSize DEF IInv, TypeOK
  <1>5. Cardinality(InFlight') <= Keep
    BY <1>3 DEF IInv, NotOvertaken
  <1>6. ASSUME Exists', NEW v \in InFlight'
        PROVE  /\ txn'[v].base <= current'
               /\ current' + Cardinality(InFlight') - txn'[v].base <= Keep
    <2>1. Exists /\ v \in InFlight /\ current' = current
      BY <1>1, <1>3, <1>6 DEF Exists
    <2>2. /\ txn[v].base <= current
          /\ current + Cardinality(InFlight) - txn[v].base <= Keep
          /\ Cardinality(InFlight) <= Keep
      BY <2>1 DEF IInv, NotOvertaken
    <2> QED
      BY <1>3, <1>4, <2>1, <2>2, KeepAssumption
  <1> QED
    BY <1>1, <1>5, <1>6 DEF NotOvertaken

(* With no write in flight there is nobody to overtake.                    *)
LEMMA NobodyInFlight ==
    ASSUME InFlight' = {} PROVE NotOvertaken'
  BY FS_EmptySet, KeepAssumption DEF NotOvertaken

(* Every way a handler begins is a Start.                                  *)
LEMMA BeginIsStart ==
    ASSUME NEW w \in Writers, Begin(w)
    PROVE  \E op, child, target : \E phase \in {"loaded", "flushed"} :
               Start(w, op, child, target, phase)
  BY DEF Begin, BeginNodeWrite, BeginCreateInterface, BeginDeleteInterface,
         BeginDeleteNode, BeginRollback, BeginBump

(* IInv is inductive.                                                      *)
LEMMA IInvStep == IInv /\ [Next]_vars => IInv'
  <1> SUFFICES ASSUME IInv, [Next]_vars PROVE IInv'
    OBVIOUS
  <1>t. TypeOK'
    BY TypeStep DEF IInv
  <1>f. ASSUME NotOvertaken', UNCHANGED <<current, gens>>, Exists' <=> Exists
        PROVE  IInv'
    BY <1>t, <1>f, TablesFrame DEF IInv
  <1>1. CASE UNCHANGED vars
    <2>1. NotOvertaken'
      BY <1>1 DEF vars, IInv, NotOvertaken, InFlight, Exists
    <2> QED
      BY <1>1, <1>f, <2>1 DEF vars, Exists
  <1>2. CASE CreateNode
    <2>1. InFlight' = {}
      BY <1>2 DEF CreateNode, Quiescent, InFlight
    <2>2. NotOvertaken'
      BY <2>1, NobodyInFlight
    <2>3. current' = 0 /\ gens' = {} /\ Exists'
      BY <1>2 DEF CreateNode, IInv, AbsentIsEmpty, Exists
    <2>4. RetainedWindow'
      BY <2>3 DEF RetainedWindow, GenNumbers
    <2> QED
      BY <1>t, <2>2, <2>3, <2>4 DEF IInv, OneSnapshotPerGeneration, AbsentIsEmpty
  <1>3. CASE Restart
    <2>1. InFlight' = {}
      BY <1>3 DEF Restart, NoTxn, InFlight
    <2> QED
      BY <1>3, <1>f, <2>1, NobodyInFlight DEF Restart, Exists
  <1>4. ASSUME NEW w \in Writers, NEW children \in SUBSET Children,
               Provision(w, children)
        PROVE  IInv'
    <2>1. InFlight' = {}
      BY <1>4 DEF Provision, Quiescent, InFlight, IInv, TypeOK, NoTxn
    <2>2. NotOvertaken'
      BY <2>1, NobodyInFlight
    <2>3. current' = 1 /\ gens' = {[gen |-> 1, snap |-> children]} /\ Exists'
      BY <1>4 DEF Provision, Exists
    <2>4. RetainedWindow'
      BY <2>3, KeepAssumption DEF RetainedWindow, GenNumbers
    <2>5. OneSnapshotPerGeneration'
      BY <2>3 DEF OneSnapshotPerGeneration
    <2> QED
      BY <1>t, <2>2, <2>3, <2>4, <2>5 DEF IInv, AbsentIsEmpty
  <1>5. ASSUME NEW w \in Writers, Begin(w) PROVE IInv'
    BY <1>5, <1>f, BeginIsStart, StartStep DEF Exists
  <1>6. ASSUME NEW w \in Writers, Step(w) PROVE IInv'
    <2>1. CASE Flush(w)
      BY <2>1, <1>f, FlushStep DEF Exists
    <2>2. CASE Materialize(w)
      BY <1>t, <2>2, MaterializeStep
    <2>3. CASE CommitUnpublished(w)
      <3>1. Exists /\ Exists'
        BY <2>3, TxnFacts DEF CommitUnpublished, CommittedLife, Exists, IInv, Lifecycles
      <3> QED
        BY <2>3, <1>f, <3>1, EndsQuietly DEF CommitUnpublished, IInv
    <2>4. CASE DeleteNode(w)
      <3>1. ~Exists' /\ current' = 0 /\ gens' = {}
        BY <2>4 DEF DeleteNode, Exists
      <3>2. NotOvertaken'
        <4>1. /\ Cardinality(InFlight') \in Nat
              /\ Cardinality(InFlight') <= Cardinality(InFlight)
          BY <2>4, Leaves DEF DeleteNode, End, NoTxn, IInv
        <4>2. Cardinality(InFlight) \in Nat /\ Cardinality(InFlight) <= Keep
          BY InFlightSize DEF IInv, NotOvertaken
        <4> QED
          BY <3>1, <4>1, <4>2, KeepAssumption DEF NotOvertaken
      <3> QED
        BY <1>t, <3>1, <3>2
        DEF IInv, RetainedWindow, OneSnapshotPerGeneration, AbsentIsEmpty
    <2>5. CASE Broadcast(w)
      BY <2>5, <1>f, EndsQuietly DEF Broadcast, Exists, IInv
    <2>6. CASE Fail(w)
      <3>1. Abort(w)
        BY <2>6 DEF Fail, UniqueViolation, NotFound, Reject, DeadlockAbort
      <3> QED
        BY <3>1, <1>f, EndsQuietly DEF Abort, Exists, IInv
    <2> QED
      BY <1>6, <2>1, <2>2, <2>3, <2>4, <2>5, <2>6 DEF Step, Commit
  <1> QED
    BY <1>1, <1>2, <1>3, <1>4, <1>5, <1>6 DEF Next

(* The empty database satisfies it.                                        *)
LEMMA IInvInit == Init => IInv
  <1> SUFFICES ASSUME Init PROVE IInv
    OBVIOUS
  <1>1. TypeOK
    BY DEF Init, TypeOK, Txns, NoTxn, Lifecycles, LockModes
  <1>2. InFlight = {}
    BY DEF Init, InFlight, NoTxn
  <1>3. NotOvertaken
    BY <1>2, FS_EmptySet, KeepAssumption DEF NotOvertaken
  <1> QED
    BY <1>1, <1>3
    DEF Init, IInv, RetainedWindow, OneSnapshotPerGeneration, AbsentIsEmpty, Exists

(* The tables, the requests and the locks of every reachable state have    *)
(* their types.                                                            *)
THEOREM TypeCorrect == Spec => []TypeOK
  <1>1. Init => TypeOK
    BY IInvInit DEF IInv
  <1> QED
    BY <1>1, TypeStep, PTL DEF Spec

(* IInv holds in every reachable state.                                    *)
THEOREM Inductive == Spec => []IInv
  BY IInvInit, IInvStep, PTL DEF Spec

(* materialize, rollback and the retention DELETE keep exactly the last    *)
(* Keep generations, whatever requests overlap.                            *)
THEOREM WindowRetained == Spec => []RetainedWindow
  <1>1. IInv => RetainedWindow
    BY DEF IInv
  <1> QED
    BY <1>1, Inductive, PTL

(* A generation number of the node names one snapshot.                     *)
THEOREM SnapshotsUnique == Spec => []OneSnapshotPerGeneration
  <1>1. IInv => OneSnapshotPerGeneration
    BY DEF IInv
  <1> QED
    BY <1>1, Inductive, PTL

(***************************************************************************)
(* Refinement: the handlers implement GenerationLog.                       *)
(***************************************************************************)

(* What changing one request's record does to the announcements owed.      *)
LEMMA OwedChange ==
    ASSUME TypeOK, NEW w \in Writers, NEW r, txn' = [txn EXCEPT ![w] = r]
    PROVE  /\ txn[w].phase # "committed" /\ r.phase # "committed"
              => Owed' = Owed
           /\ txn[w].phase # "committed" /\ r.phase = "committed"
              => Owed' = Owed \cup {r.base + 1}
           /\ txn[w].phase = "committed" /\ r.phase # "committed"
              => /\ txn[w].base + 1 \in Owed
                 /\ Owed' = Owed \/ Owed' = Owed \ {txn[w].base + 1}
  <1>1. txn'[w] = r /\ \A v \in Writers \ {w} : txn'[v] = txn[v]
    BY DEF TypeOK
  <1>2. ASSUME txn[w].phase # "committed", r.phase # "committed"
        PROVE  Owed' = Owed
    BY <1>1, <1>2 DEF Owed
  <1>3. ASSUME txn[w].phase # "committed", r.phase = "committed"
        PROVE  Owed' = Owed \cup {r.base + 1}
    BY <1>1, <1>3 DEF Owed
  <1>4. ASSUME txn[w].phase = "committed", r.phase # "committed"
        PROVE  /\ txn[w].base + 1 \in Owed
               /\ Owed' = Owed \/ Owed' = Owed \ {txn[w].base + 1}
    BY <1>1, <1>4 DEF Owed
  <1> QED
    BY <1>2, <1>3, <1>4

(* Every step of the handlers is a step of the log, or one it does not see.*)
LEMMA LogStep == IInv /\ [Next]_vars => [Log!LogNext]_(Log!logVars)
  <1> SUFFICES ASSUME IInv, [Next]_vars
               PROVE  [Log!LogNext]_(Log!logVars)
    OBVIOUS
  <1> TypeOK
    BY DEF IInv
  <1>s. ASSUME UNCHANGED <<current, Owed>> PROVE UNCHANGED Log!logVars
    BY <1>s DEF Log!logVars
  <1>1. CASE UNCHANGED vars
    BY <1>1, <1>s DEF vars, Owed
  <1>2. CASE CreateNode
    BY <1>2, <1>s DEF CreateNode, Owed
  <1>3. CASE Restart
    <2>1. Owed' = {} /\ current' = current
      BY <1>3 DEF Restart, Owed, NoTxn
    <2> QED
      BY <2>1, <1>s DEF Log!LogNext, Log!LoseAnnouncements
  <1>4. ASSUME NEW w \in Writers, NEW children \in SUBSET Children,
               Provision(w, children)
        PROVE  Log!PublishNext
    <2>1. current = 0 /\ current' = 1
      BY <1>4 DEF Provision, IInv, AbsentIsEmpty, Exists
    <2>2. Owed' = Owed \cup {1}
      <3> DEFINE r == [NoTxn EXCEPT !.phase = "committed"]
      <3>1. r.phase = "committed" /\ r.base + 1 = 1
        BY DEF NoTxn
      <3>2. txn' = [txn EXCEPT ![w] = r] /\ txn[w].phase = "idle"
        BY <1>4 DEF Provision, Quiescent
      <3> HIDE DEF r
      <3> QED
        BY <3>1, <3>2, OwedChange
    <2> QED
      BY <2>1, <2>2 DEF Log!PublishNext
  <1>5. ASSUME NEW w \in Writers, Begin(w) PROVE UNCHANGED <<current, Owed>>
    <2>a. PICK op, child, target : \E phase \in {"loaded", "flushed"} :
              Start(w, op, child, target, phase)
      BY <1>5, BeginIsStart
    <2>1. PICK phase \in {"loaded", "flushed"} :
              Start(w, op, child, target, phase)
      BY <2>a
    <2> DEFINE r == [phase |-> phase, op |-> op, child |-> child,
                     target |-> target, base |-> current, life |-> lifecycle]
    <2>2. r.phase = phase
      OBVIOUS
    <2>3. txn' = [txn EXCEPT ![w] = r] /\ txn[w].phase = "idle" /\ current' = current
      BY <2>1 DEF Start
    <2> HIDE DEF r
    <2> QED
      BY <2>1, <2>2, <2>3, OwedChange
  <1>6. ASSUME NEW w \in Writers, Flush(w) PROVE UNCHANGED <<current, Owed>>
    <2>1. current' = current
      BY <1>6, FlushStep
    <2>2. PICK r : /\ txn' = [txn EXCEPT ![w] = r]
                   /\ r.phase = "flushed"
                   /\ txn[w].phase = "loaded"
      BY <1>6, FlushedRecord
    <2> QED
      BY <2>1, <2>2, OwedChange
  <1>7. ASSUME NEW w \in Writers, Materialize(w) PROVE Log!PublishNext
    <2>1. Base(w) = current /\ current' = current + 1
      BY <1>7, PublishesFromCurrent, Zenon DEF Materialize
    <2>2. Owed' = Owed \cup {current + 1}
      <3> DEFINE r == [NoTxn EXCEPT !.phase = "committed", !.base = Base(w)]
      <3>1. r.phase = "committed"
        BY DEF NoTxn
      <3>2. r.base = current
        BY <2>1 DEF NoTxn
      <3>3. txn' = [txn EXCEPT ![w] = r] /\ txn[w].phase = "flushed"
        BY <1>7 DEF Materialize, ReadyToCommit
      <3> HIDE DEF r
      <3> QED
        BY <3>1, <3>2, <3>3, OwedChange
    <2> QED
      BY <2>1, <2>2 DEF Log!PublishNext
  <1>8. ASSUME NEW w \in Writers, End(w), txn[w].phase # "committed"
        PROVE  Owed' = Owed
    BY <1>8, OwedChange DEF End, NoTxn
  <1>9. CASE \E w \in Writers : CommitUnpublished(w) \/ Fail(w)
    <2>1. PICK w \in Writers : CommitUnpublished(w) \/ Fail(w)
      BY <1>9
    <2>2. End(w) /\ current' = current /\ txn[w].phase # "committed"
      BY <2>1 DEF CommitUnpublished, Fail, UniqueViolation, NotFound, Reject,
                  DeadlockAbort, Abort, Collides, ReadyToCommit, InFlight
    <2> QED
      BY <2>2, <1>8, <1>s
  <1>10. ASSUME NEW w \in Writers, DeleteNode(w)
         PROVE  [Log!LogNext]_(Log!logVars)
    <2>1. Owed' = Owed /\ current' = 0 /\ current \in Nat
      BY <1>10, <1>8 DEF DeleteNode, TypeOK
    <2> QED
      BY <2>1, <1>s DEF Log!LogNext, Log!Forget
  <1>11. ASSUME NEW w \in Writers, Broadcast(w)
         PROVE  [Log!LogNext]_(Log!logVars)
    <2>1. /\ current' = current
          /\ txn[w].base + 1 \in Owed
          /\ Owed' = Owed \/ Owed' = Owed \ {txn[w].base + 1}
      <3>1. NoTxn.phase # "committed"
        BY DEF NoTxn
      <3>2. /\ current' = current
            /\ txn[w].phase = "committed"
            /\ txn' = [txn EXCEPT ![w] = NoTxn]
        BY <1>11 DEF Broadcast, End
      <3> QED
        BY <3>1, <3>2, OwedChange
    <2> QED
      BY <2>1, <1>s DEF Log!LogNext, Log!Announce
  <1> QED
    BY <1>1, <1>2, <1>3, <1>4, <1>5, <1>6, <1>7, <1>9, <1>10, <1>11, <1>s
    DEF Next, Step, Commit, Log!LogNext

(* The admin handlers implement the generation log: numbers handed out one *)
(* by one, announced only once committed, taken back only by a deletion.   *)
THEOREM PublicationImplementsLog == Spec => ImplementsLog
  <1>1. Init => Log!LogInit
    BY DEF Init, Log!LogInit, Owed, NoTxn
  <1> QED
    BY <1>1, LogStep, Inductive, PTL DEF Spec, ImplementsLog, Log!LogSpec
=============================================================================
