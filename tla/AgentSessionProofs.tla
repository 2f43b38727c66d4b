------------------------- MODULE AgentSessionProofs -------------------------
(***************************************************************************)
(* Theorems about AgentSession, for any number of threads.                 *)
(***************************************************************************)
EXTENDS AgentSession, FiniteSetTheorems, WellFoundedInduction, TLAPS

Statuses == {"pending", "approved", "rejected"}

RowsInv == rows \in Seq(Statuses) /\ AtMostOnePending

(* Only Insert adds a row, and not beside a pending one; a decision never  *)
(* makes a row pending again.                                              *)
LEMMA RowsStep == RowsInv /\ [Next]_vars => RowsInv'
<1> SUFFICES ASSUME RowsInv, [Next]_vars PROVE RowsInv'
  OBVIOUS
<1> USE DEF RowsInv, AtMostOnePending, Statuses
<1>1. ASSUME UNCHANGED rows PROVE RowsInv'
  BY <1>1
<1>2. ASSUME NEW i \in DOMAIN rows, NEW d \in {"approved", "rejected"}, Decide(i, d)
      PROVE  RowsInv'
  <2>1. rows' = [rows EXCEPT ![i] = d]
    BY <1>2 DEF Decide
  <2>2. rows' \in Seq(Statuses) /\ DOMAIN rows' = DOMAIN rows
    BY <2>1
  <2>3. \A j \in DOMAIN rows : rows'[j] = "pending" => rows[j] = "pending"
    BY <2>1
  <2> QED
    BY <2>2, <2>3
<1>3. ASSUME NEW t \in Threads, Insert(t) PROVE RowsInv'
  <2>1. CASE PendingRow
    BY <2>1, <1>3 DEF Insert
  <2>2. CASE ~PendingRow
    <3>1. rows' = Append(rows, "pending")
      BY <2>2, <1>3 DEF Insert
    <3>2. rows' \in Seq(Statuses) /\ Len(rows') = Len(rows) + 1
      BY <3>1
    <3>3. \A j \in DOMAIN rows' : rows'[j] = "pending" => j = Len(rows) + 1
      BY <2>2, <3>1, <3>2 DEF PendingRow
    <3> QED
      BY <3>2, <3>3
  <2> QED
    BY <2>1, <2>2
<1>4. CASE Admin
  <2>1. CASE CreateNode \/ PublishFirst \/ DeleteNode \/ RevokeTokens
    BY <2>1, <1>1 DEF CreateNode, PublishFirst, DeleteNode, RevokeTokens
  <2> QED
    BY <2>1, <1>2, <1>4 DEF Admin
<1>5. ASSUME NEW t \in Threads, Step(t) PROVE RowsInv'
  <2>1. CASE Insert(t)
    BY <2>1, <1>3
  <2>2. CASE Resolve(t) \/ Gate(t) \/ Known(t) \/ Record(t) \/ Issue(t) \/ MarkUsed(t)
    BY <2>2, <1>1 DEF Resolve, Gate, Known, Record, Issue, MarkUsed, serverVars
  <2>3. CASE Ensure(t) \/ Receive(t) \/ Save(t) \/ Replace(t) \/ Adopt(t) \/ AssertFails(t)
    BY <2>3, <1>1 DEF Ensure, Receive, Save, Replace, Adopt, AssertFails, serverVars
  <2>4. CASE Enter(t) \/ Send(t) \/ Leave(t) \/ Invalidate(t)
    BY <2>4, <1>1 DEF Enter, Send, Leave, Invalidate, serverVars
  <2> QED
    BY <2>1, <2>2, <2>3, <2>4, <1>5 DEF Step, Register
<1>6. ASSUME NEW t \in Threads, StartCall(t) \/ RequestFails(t) PROVE RowsInv'
  BY <1>6, <1>1 DEF StartCall, RequestFails, serverVars
<1>7. CASE Restart
  BY <1>7, <1>1 DEF Restart, serverVars
<1>8. CASE UNCHANGED vars
  BY <1>8, <1>1 DEF vars, serverVars
<1> QED
  BY <1>4, <1>5, <1>6, <1>7, <1>8 DEF Next

(* However many threads register a node at once, and whatever the          *)
(* administrator decides between the transactions of their requests, at    *)
(* most one request of it is pending (PendingRegistrationStore.record).    *)
THEOREM OnePending == Spec => []AtMostOnePending
<1>1. Init => RowsInv
  BY DEF Init, RowsInv, AtMostOnePending
<1>2. RowsInv => AtMostOnePending
  BY DEF RowsInv
<1> QED
  BY <1>1, <1>2, RowsStep, PTL DEF Spec

(***************************************************************************)
(* Type correctness.  Two parts are not obvious: a thread that is about to *)
(* use an identity object refers to one, and a thread that receives a      *)
(* registration finds a free one among one object more than threads.       *)
(***************************************************************************)
Thread == [pc : Steps, goal : {"call", "persist"},
           then : {"go", "again", "end"}, again : BOOLEAN,
           ref : Objects \cup {NoObject}, prev : Tokens \cup {None},
           status : {"none", "pending", "approved"},
           retry : BOOLEAN, token : Tokens \cup {None}]

(* Where a thread uses the object it refers to.                            *)
Using == {"save", "replace", "adopt", "enter"}

Bound(r) == r.ref \in (IF r.pc \in Using THEN Objects ELSE {NoObject})

ServerInv ==
    /\ rows \in Seq(Statuses) /\ Len(rows) <= MaxRows
    /\ Len(rows) = MaxRows => PendingRow
    /\ node \in {"unknown", "created", "published"}
    /\ faults \in 0..MaxFaults
    /\ epoch \in 1..(faults + 1)
    /\ ticket \in {"global", "unused", "used"}
    /\ calls \in 0..MaxCalls

AgentInv ==
    /\ heap \in [Objects -> Tokens \cup {None}]
    /\ mem \in Objects
    /\ disk \in Tokens \cup {None}
    /\ tmp \in Tokens \cup {None, Absent}
    /\ client \in Tokens \cup {None}
    /\ th \in [Threads -> Thread]
    /\ \A t \in Threads : Bound(th[t])

LEMMA ObjectsAreEnough ==
    /\ IsFiniteSet(Threads) /\ Cardinality(Threads) \in Nat
    /\ IsFiniteSet(Objects) /\ Cardinality(Objects) = Cardinality(Threads) + 1
    /\ 1 \in Objects /\ NoObject \notin Objects /\ Objects \subseteq Nat
<1>1. IsFiniteSet(Threads) /\ Cardinality(Threads) \in Nat
  <2>1. IsFiniteSet(SideLoops \cup {Reconciler})
    BY ThreadsAssumption, FS_AddElement
  <2> QED BY <2>1, FS_CardinalityType DEF Threads
<1>2. PICK k : k = Cardinality(Threads) + 1
  OBVIOUS
<1>3. k \in Int /\ k >= 1 /\ Objects = 1..k
  BY <1>1, <1>2 DEF Objects
<1>4. IsFiniteSet(1..k) /\ Cardinality(1..k) = IF 1 > k THEN 0 ELSE k - 1 + 1
  BY <1>3, FS_Interval
<1> QED BY <1>1, <1>2, <1>3, <1>4 DEF NoObject

LEMMA Smallest ==
    ASSUME NEW S \in SUBSET Nat, S # {}
    PROVE  \E x \in S : \A y \in S : x <= y
<1>1. PICK x \in S : \A y \in S : ~(<<y, x>> \in OpToRel(<, Nat))
  BY NatLessThanWellFounded, WFMin, Zenon
<1>2. \A y \in S : ~(y < x)
  BY <1>1 DEF OpToRel
<1> QED BY <1>2

(* The object of a registration that has just been answered is free.       *)
LEMMA FreshIsFree ==
    ASSUME AgentInv, NEW t \in Threads, th[t].pc = "reply"
    PROVE  FreshObject \in Objects \ Referenced
<1>1. Objects \ Referenced # {}
  <2> SUFFICES ASSUME \A o \in Objects : o \in Referenced PROVE FALSE
    OBVIOUS
  <2>1. th[t].ref \notin Objects
    BY ObjectsAreEnough DEF AgentInv, Bound, Using
  <2>2. \A o \in Objects \ {mem} : \E u \in Threads \ {t} : th[u].ref = o
    BY <2>1 DEF Referenced
  <2> DEFINE f == [o \in Objects |-> IF o = mem THEN t
                                     ELSE CHOOSE u \in Threads \ {t} : th[u].ref = o]
  <2>3. \A o \in Objects \ {mem} : f[o] \in Threads \ {t} /\ th[f[o]].ref = o
    BY <2>2
  <2>4. mem \in Objects => f[mem] = t
    OBVIOUS
  <2>5. f \in [Objects -> Threads]
    BY <2>3, <2>4
  <2> HIDE DEF f
  <2>6. Cardinality(Threads) < Cardinality(Objects)
    BY ObjectsAreEnough
  <2>7. PICK x \in Objects, y \in Objects : x # y /\ f[x] = f[y]
    <3>1. IsFiniteSet(Objects) /\ IsFiniteSet(Threads)
      BY ObjectsAreEnough
    <3>2. \E x, y \in Objects : x # y /\ f[x] = f[y]
      BY <2>5, <2>6, <3>1, FS_PigeonHole
    <3> QED BY <3>2
  <2>8. CASE x = mem
    <3>1. f[x] = t /\ f[y] # t
      BY <2>3, <2>4, <2>7, <2>8
    <3> QED BY <2>7, <3>1
  <2>9. CASE y = mem
    <3>1. f[y] = t /\ f[x] # t
      BY <2>3, <2>4, <2>7, <2>9
    <3> QED BY <2>7, <3>1
  <2>10. CASE x # mem /\ y # mem
    <3>1. th[f[x]].ref = x /\ th[f[y]].ref = y
      BY <2>3, <2>10
    <3> QED BY <2>7, <3>1
  <2> QED BY <2>8, <2>9, <2>10
<1>2. Objects \ Referenced \in SUBSET Nat
  BY ObjectsAreEnough
<1>3. \E o \in Objects \ Referenced : \A p \in Objects \ Referenced : o <= p
  BY <1>1, <1>2, Smallest
<1> QED BY <1>3 DEF FreshObject


(* Setting one field of a thread.                                          *)
LEMMA SetPc ==
    ASSUME NEW r \in Thread, NEW v \in Steps
    PROVE  LET u == [r EXCEPT !.pc = v] IN
           /\ u \in Thread /\ u.pc = v
           /\ u.ref = r.ref /\ u.goal = r.goal /\ u.then = r.then
  BY DEF Thread

LEMMA SetField ==
    ASSUME NEW r \in Thread, NEW v
    PROVE  /\ v \in {"call", "persist"} => [r EXCEPT !.goal = v] \in Thread
           /\ v \in {"go", "again", "end"} => [r EXCEPT !.then = v] \in Thread
           /\ v \in BOOLEAN => [r EXCEPT !.again = v] \in Thread
           /\ v \in Tokens \cup {None} => [r EXCEPT !.prev = v] \in Thread
           /\ v \in Tokens \cup {None} => [r EXCEPT !.token = v] \in Thread
           /\ v \in {"none", "pending", "approved"} => [r EXCEPT !.status = v] \in Thread
           /\ v \in BOOLEAN => [r EXCEPT !.retry = v] \in Thread
  BY DEF Thread

LEMMA KeepsRef ==
    ASSUME NEW r \in Thread, NEW v
    PROVE  /\ [r EXCEPT !.goal = v].ref = r.ref /\ [r EXCEPT !.goal = v].pc = r.pc
           /\ [r EXCEPT !.then = v].ref = r.ref /\ [r EXCEPT !.then = v].pc = r.pc
           /\ [r EXCEPT !.again = v].ref = r.ref /\ [r EXCEPT !.again = v].pc = r.pc
           /\ [r EXCEPT !.prev = v].ref = r.ref /\ [r EXCEPT !.prev = v].pc = r.pc
           /\ [r EXCEPT !.token = v].ref = r.ref /\ [r EXCEPT !.token = v].pc = r.pc
           /\ [r EXCEPT !.status = v].ref = r.ref /\ [r EXCEPT !.status = v].pc = r.pc
           /\ [r EXCEPT !.retry = v].ref = r.ref /\ [r EXCEPT !.retry = v].pc = r.pc
  BY DEF Thread

LEMMA SetRef ==
    ASSUME NEW r \in Thread, NEW v \in Objects \cup {NoObject}
    PROVE  LET u == [r EXCEPT !.ref = v] IN
           u \in Thread /\ u.ref = v /\ u.pc = r.pc /\ u.goal = r.goal
  BY DEF Thread

LEMMA IdleIsThread == Idle \in Thread /\ Bound(Idle)
  BY DEF Idle, Thread, Steps, Using, Bound, Tokens, None, NoObject, Registering, Server


Ready(r) == r \in Thread /\ Bound(r)

(* Thread t has moved on, the others have not.                             *)
Moved(t) == \E u : Ready(u) /\ th' = [th EXCEPT ![t] = u]

LEMMA MovedThreads ==
    ASSUME AgentInv, NEW t \in Threads, Moved(t)
    PROVE  th' \in [Threads -> Thread] /\ \A s \in Threads : Bound(th'[s])
<1>1. PICK u : Ready(u) /\ th' = [th EXCEPT ![t] = u]
  BY DEF Moved
<1> QED BY <1>1 DEF AgentInv, Ready

LEMMA StepNames ==
    /\ {"resolve", "gate", "known", "record", "insert", "issue", "mark", "reply"} \subseteq Steps
    /\ {"save", "replace", "adopt", "idle", "ensure", "enter", "send"} \subseteq Steps
    /\ {"accepted", "denied", "failed", "invalidate"} \subseteq Steps
  BY DEF Steps, Registering, Server

LEMMA FailMoves ==
    ASSUME NEW t, Fail(t)
    PROVE  Moved(t)
  BY IdleIsThread DEF Fail, Moved, Ready

LEMMA GotoMoves ==
    ASSUME AgentInv, NEW t \in Threads, NEW p \in Steps, Goto(t, p),
           p \in Using <=> th[t].pc \in Using
    PROVE  Moved(t)
<1>1. PICK r, u : r = th[t] /\ u = [r EXCEPT !.pc = p]
  OBVIOUS
<1>2. r \in Thread /\ Bound(r)
  BY <1>1 DEF AgentInv
<1>3. u \in Thread /\ u.pc = p /\ u.ref = r.ref
  BY <1>1, <1>2, SetPc
<1>4. Ready(u)
  BY <1>1, <1>2, <1>3 DEF Ready, Bound
<1>5. th' = [th EXCEPT ![t] = u]
  BY <1>1 DEF Goto, AgentInv
<1> QED BY <1>4, <1>5 DEF Moved

LEMMA ProceedMoves ==
    ASSUME NEW t, NEW r \in Thread, r.ref \in Objects, Proceed(t, r)
    PROVE  Moved(t)
<1>1. PICK p : p = IF r.goal = "call" THEN "enter" ELSE "save"
  OBVIOUS
<1>2. PICK u : u = [r EXCEPT !.pc = p]
  OBVIOUS
<1>3. PICK v : v = [u EXCEPT !.then = "end"]
  OBVIOUS
<1>4. PICK w : w = [v EXCEPT !.token = None]
  OBVIOUS
<1>5. p \in Steps /\ p \in Using
  BY <1>1, StepNames DEF Using
<1>6. u \in Thread /\ u.pc = p /\ u.ref = r.ref
  BY <1>2, <1>5, SetPc
<1>7. v \in Thread /\ v.pc = p /\ v.ref = r.ref
  BY <1>3, <1>6, SetField, KeepsRef
<1>8. w \in Thread /\ w.pc = p /\ w.ref = r.ref
  BY <1>4, <1>7, SetField, KeepsRef
<1>9. Ready(w)
  BY <1>5, <1>8 DEF Ready, Bound
<1>10. [r EXCEPT !.pc = p, !.then = "end", !.token = None] = w
  BY <1>2, <1>3, <1>4
<1> QED BY <1>1, <1>9, <1>10 DEF Proceed, Moved

(* Two or more fields of a thread set in one assignment.                   *)
LEMMA StartedOver ==
    ASSUME NEW p \in Steps \ Using, NEW a \in BOOLEAN, NEW g \in {"call", "persist"}
    PROVE  /\ Ready([Idle EXCEPT !.pc = p, !.again = a])
           /\ Ready([Idle EXCEPT !.pc = p, !.goal = g])
<1>1. PICK u : u = [Idle EXCEPT !.pc = p]
  OBVIOUS
<1>2. u \in Thread /\ u.pc = p /\ u.ref = Idle.ref
  BY <1>1, IdleIsThread, SetPc
<1>3. Idle.ref = NoObject
  BY DEF Idle
<1>4. [u EXCEPT !.again = a] \in Thread /\ [u EXCEPT !.again = a].pc = p
      /\ [u EXCEPT !.again = a].ref = NoObject
  BY <1>2, <1>3, SetField, KeepsRef
<1>5. [u EXCEPT !.goal = g] \in Thread /\ [u EXCEPT !.goal = g].pc = p
      /\ [u EXCEPT !.goal = g].ref = NoObject
  BY <1>2, <1>3, SetField, KeepsRef
<1>6. /\ [Idle EXCEPT !.pc = p, !.again = a] = [u EXCEPT !.again = a]
      /\ [Idle EXCEPT !.pc = p, !.goal = g] = [u EXCEPT !.goal = g]
  BY <1>1
<1>7. ASSUME NEW x \in Thread, x.pc = p, x.ref = NoObject PROVE Ready(x)
  BY <1>7 DEF Ready, Bound
<1> QED BY <1>4, <1>5, <1>6, <1>7, Zenon

LEMMA SetsTwo ==
    ASSUME NEW r \in Thread, Bound(r), r.pc \notin Using, NEW p \in Steps \ Using, NEW v
    PROVE  /\ v \in {"none", "pending", "approved"} => Ready([r EXCEPT !.pc = p, !.status = v])
           /\ v \in Tokens \cup {None} => Ready([r EXCEPT !.pc = p, !.token = v])
           /\ v \in BOOLEAN => Ready([r EXCEPT !.pc = p, !.retry = v])
<1>1. PICK u : u = [r EXCEPT !.pc = p]
  OBVIOUS
<1>2. u \in Thread /\ u.pc = p /\ u.ref = NoObject
  BY <1>1, SetPc DEF Bound
<1>3. /\ v \in {"none", "pending", "approved"} => [u EXCEPT !.status = v] \in Thread
      /\ v \in Tokens \cup {None} => [u EXCEPT !.token = v] \in Thread
      /\ v \in BOOLEAN => [u EXCEPT !.retry = v] \in Thread
  BY <1>2, SetField
<1>4. /\ [u EXCEPT !.status = v].pc = p /\ [u EXCEPT !.status = v].ref = NoObject
      /\ [u EXCEPT !.token = v].pc = p /\ [u EXCEPT !.token = v].ref = NoObject
      /\ [u EXCEPT !.retry = v].pc = p /\ [u EXCEPT !.retry = v].ref = NoObject
  BY <1>2, KeepsRef
<1>5. /\ [r EXCEPT !.pc = p, !.status = v] = [u EXCEPT !.status = v]
      /\ [r EXCEPT !.pc = p, !.token = v] = [u EXCEPT !.token = v]
      /\ [r EXCEPT !.pc = p, !.retry = v] = [u EXCEPT !.retry = v]
  BY <1>1
<1> QED BY <1>3, <1>4, <1>5 DEF Ready, Bound


LEMMA TokenNames ==
    ASSUME ServerInv
    PROVE  epoch \in Tokens /\ None \notin Tokens /\ Absent \notin Tokens
  BY SessionBounds DEF ServerInv, Tokens, None, Absent

LEMMA StatusIsKnown ==
    ASSUME ServerInv
    PROVE  StatusFor \in {"none", "pending", "approved", "rejected"}
  BY DEF ServerInv, StatusFor, Statuses

(* The steps of the registration handler move one thread and leave the     *)
(* agent's files and memory alone.                                         *)
LEMMA RegisterMoves ==
    ASSUME ServerInv, AgentInv, NEW t \in Threads, Register(t)
    PROVE  Moved(t) /\ UNCHANGED <<heap, mem, disk, tmp, client>>
<1>0. th[t] \in Thread /\ Bound(th[t])
  BY DEF AgentInv
<1>1. CASE Resolve(t)
  <2>1. "gate" \in Steps /\ "gate" \notin Using /\ "resolve" \notin Using
    BY StepNames DEF Using
  <2> QED BY <1>1, <2>1, FailMoves, GotoMoves DEF Resolve
<1>t. ASSUME NEW p \in Steps \ Using, th[t].pc \notin Using, NEW v,
             \/ v \in {"none", "pending", "approved"} /\ th' = [th EXCEPT ![t].pc = p, ![t].status = v]
             \/ v \in Tokens /\ th' = [th EXCEPT ![t].pc = p, ![t].token = v]
             \/ v \in BOOLEAN /\ th' = [th EXCEPT ![t].pc = p, ![t].retry = v]
      PROVE  Moved(t)
  <2>1. PICK r : r = th[t]
    OBVIOUS
  <2>2. r \in Thread /\ Bound(r) /\ r.pc \notin Using
    BY <1>0, <1>t, <2>1
  <2>3. \E u : Ready(u) /\ th' = [th EXCEPT ![t] = u]
    <3>1. CASE v \in {"none", "pending", "approved"} /\ th' = [th EXCEPT ![t].pc = p, ![t].status = v]
      <4>1. PICK u : u = [r EXCEPT !.pc = p, !.status = v]
        OBVIOUS
      <4>2. Ready(u)
        BY <2>2, <3>1, <4>1, SetsTwo, Zenon
      <4>3. th' = [th EXCEPT ![t] = u]
        BY <2>1, <3>1, <4>1 DEF AgentInv
      <4> QED BY <4>2, <4>3
    <3>2. CASE v \in Tokens /\ th' = [th EXCEPT ![t].pc = p, ![t].token = v]
      <4>1. PICK u : u = [r EXCEPT !.pc = p, !.token = v]
        OBVIOUS
      <4>2. Ready(u)
        BY <2>2, <3>2, <4>1, SetsTwo, Zenon
      <4>3. th' = [th EXCEPT ![t] = u]
        BY <2>1, <3>2, <4>1 DEF AgentInv
      <4> QED BY <4>2, <4>3
    <3>3. CASE v \in BOOLEAN /\ th' = [th EXCEPT ![t].pc = p, ![t].retry = v]
      <4>1. PICK u : u = [r EXCEPT !.pc = p, !.retry = v]
        OBVIOUS
      <4>2. Ready(u)
        BY <2>2, <3>3, <4>1, SetsTwo, Zenon
      <4>3. th' = [th EXCEPT ![t] = u]
        BY <2>1, <3>3, <4>1 DEF AgentInv
      <4> QED BY <4>2, <4>3
    <3> QED BY <1>t, <3>1, <3>2, <3>3
  <2> QED BY <2>3 DEF Moved
<1>2. CASE Gate(t)
  <2>1. "known" \in Steps \ Using /\ "gate" \notin Using
    BY StepNames DEF Using
  <2>2. CASE StatusFor = "rejected"
    BY <1>2, <2>2, FailMoves DEF Gate
  <2>3. CASE StatusFor # "rejected"
    <3>1. PICK v : v = StatusFor
      OBVIOUS
    <3>2. v \in {"none", "pending", "approved"}
      BY <2>3, <3>1, StatusIsKnown
    <3>3. th[t].pc = "gate" /\ th' = [th EXCEPT ![t].pc = "known", ![t].status = v]
      BY <1>2, <2>3, <3>1 DEF Gate
    <3>4. Moved(t)
      BY <1>t, <2>1, <3>2, <3>3
    <3> QED BY <1>2, <3>4 DEF Gate
  <2> QED BY <2>2, <2>3
<1>3. CASE Known(t)
  <2>1. "record" \in Steps \ Using /\ "issue" \in Steps \ Using /\ "known" \notin Using
    BY StepNames DEF Using
  <2>2. /\ th[t].pc = "known"
        /\ \/ th' = [th EXCEPT ![t].pc = "record", ![t].status = "none"]
           \/ th' = [th EXCEPT ![t].pc = "issue", ![t].status = "none"]
           \/ Fail(t)
    BY <1>3 DEF Known
  <2>3. Moved(t)
    BY <1>t, <2>1, <2>2, FailMoves
  <2> QED BY <1>3, <2>3 DEF Known
<1>4. CASE Record(t)
  <2>1. "insert" \in Steps /\ "insert" \notin Using /\ "record" \notin Using
    BY StepNames DEF Using
  <2> QED BY <1>4, <2>1, FailMoves, GotoMoves DEF Record
<1>5. CASE Insert(t)
  <2>1. "record" \in Steps \ Using /\ "insert" \notin Using
    BY StepNames DEF Using
  <2>2. PICK v : v = TRUE
    OBVIOUS
  <2>3. Fail(t) \/ th' = [th EXCEPT ![t].pc = "record", ![t].retry = v]
    BY <1>5, <2>2, Zenon DEF Insert
  <2>4. th[t].pc = "insert" /\ UNCHANGED <<heap, mem, disk, tmp, client>>
    BY <1>5 DEF Insert
  <2> QED BY <1>t, <2>1, <2>2, <2>3, <2>4, FailMoves
<1>6. CASE Issue(t)
  <2>1. "reply" \in Steps \ Using /\ "mark" \in Steps \ Using /\ "issue" \notin Using
    BY StepNames DEF Using
  <2>2. PICK p, v : p = (IF ticket = "global" THEN "reply" ELSE "mark") /\ v = epoch
    OBVIOUS
  <2>3. /\ th[t].pc = "issue" /\ UNCHANGED <<heap, mem, disk, tmp, client>>
        /\ Fail(t) \/ th' = [th EXCEPT ![t].pc = p, ![t].token = v]
    BY <1>6, <2>2 DEF Issue
  <2>4. p \in Steps \ Using /\ v \in Tokens
    BY <2>1, <2>2, TokenNames
  <2> QED BY <1>t, <2>1, <2>3, <2>4, FailMoves
<1>7. CASE MarkUsed(t)
  <2>1. "reply" \in Steps /\ "reply" \notin Using /\ "mark" \notin Using
    BY StepNames DEF Using
  <2> QED BY <1>7, <2>1, GotoMoves DEF MarkUsed
<1> QED BY <1>1, <1>2, <1>3, <1>4, <1>5, <1>6, <1>7 DEF Register


LEMMA Collected ==
    ASSUME AgentInv, Collect(heap)
    PROVE  heap' \in [Objects -> Tokens \cup {None}]
  BY DEF Collect, AgentInv

LEMMA AgentStep ==
    ASSUME ServerInv, AgentInv, [Next]_vars
    PROVE  AgentInv'
<1>0. \A t \in Threads : th[t] \in Thread /\ Bound(th[t])
  BY DEF AgentInv
<1>u. \A t \in Threads : th[t].pc \in Using => th[t].ref \in Objects
  BY <1>0 DEF Bound
<1>1. ASSUME UNCHANGED <<heap, mem, disk, tmp, client, th>>
      PROVE  AgentInv'
  BY <1>1 DEF AgentInv, Bound
<1>2. ASSUME NEW t \in Threads, Moved(t), heap' \in [Objects -> Tokens \cup {None}],
             mem' \in Objects, disk' \in Tokens \cup {None},
             tmp' \in Tokens \cup {None, Absent}, client' \in Tokens \cup {None}
      PROVE  AgentInv'
  <2>1. th' \in [Threads -> Thread] /\ \A s \in Threads : Bound(th'[s])
    BY <1>2, MovedThreads
  <2> QED BY <1>2, <2>1 DEF AgentInv, Bound
<1>3. CASE UNCHANGED vars
  BY <1>1, <1>3 DEF vars
<1>4. CASE Admin
  BY <1>1, <1>4 DEF Admin, Administer, CreateNode, PublishFirst, DeleteNode, Decide, RevokeTokens
<1>5. CASE Restart
  <2>1. heap' = [o \in Objects |-> IF o = 1 THEN disk ELSE None] /\ mem' = 1 /\ client' = None
        /\ th' = [t \in Threads |-> Idle] /\ UNCHANGED <<disk, tmp>>
    BY <1>5 DEF Restart
  <2>2. heap' \in [Objects -> Tokens \cup {None}] /\ mem' \in Objects
    BY <2>1, ObjectsAreEnough DEF AgentInv
  <2>3. th' \in [Threads -> Thread] /\ \A t \in Threads : Bound(th'[t])
    BY <2>1, IdleIsThread
  <2> QED BY <2>1, <2>2, <2>3 DEF AgentInv, Bound
<1>6. ASSUME NEW t \in Threads, StartCall(t)
      PROVE  AgentInv'
  <2>1. "ensure" \in Steps /\ "ensure" \notin Using /\ "idle" \notin Using
    BY StepNames DEF Using
  <2>2. Moved(t)
    BY <1>6, <2>1, GotoMoves DEF StartCall
  <2>3. UNCHANGED <<heap, mem, disk, tmp, client>>
    BY <1>6 DEF StartCall
  <2> QED BY <1>2, <2>2, <2>3 DEF AgentInv
<1>7. ASSUME NEW t \in Threads, RequestFails(t)
      PROVE  AgentInv'
  <2>1. "failed" \in Steps /\ "failed" \notin Using /\ "send" \notin Using
    BY StepNames DEF Using
  <2>2. Moved(t)
    BY <1>7, <2>1, GotoMoves, FailMoves DEF RequestFails
  <2>3. UNCHANGED <<heap, mem, disk, tmp, client>>
    BY <1>7 DEF RequestFails
  <2> QED BY <1>2, <2>2, <2>3 DEF AgentInv
<1>8. ASSUME NEW t \in Threads, Register(t)
      PROVE  AgentInv'
  BY <1>2, <1>8, RegisterMoves DEF AgentInv
<1>9. ASSUME NEW t \in Threads, Ensure(t)
      PROVE  AgentInv'
  <2>1. "resolve" \in Steps /\ "resolve" \notin Using /\ "ensure" \notin Using
    BY StepNames DEF Using
  <2>2. Moved(t)
    <3>1. CASE heap[mem] = None
      BY <1>9, <2>1, <3>1, GotoMoves DEF Ensure
    <3>2. CASE heap[mem] # None
      <4>1. PICK r, m : m = mem /\ r = [th[t] EXCEPT !.ref = m]
        OBVIOUS
      <4>2. PICK q : q = th[t]
        OBVIOUS
      <4>3. q \in Thread /\ m \in Objects /\ r = [q EXCEPT !.ref = m]
        BY <1>0, <4>1, <4>2 DEF AgentInv
      <4>4. r \in Thread /\ r.ref = m
        BY <4>3, SetRef
      <4>5. Proceed(t, r)
        BY <1>9, <3>2, <4>1 DEF Ensure
      <4> QED BY <4>3, <4>4, <4>5, ProceedMoves
    <3> QED BY <3>1, <3>2
  <2>3. heap' \in [Objects -> Tokens \cup {None}] /\ UNCHANGED <<mem, disk, tmp, client>>
    BY <1>9, Collected DEF Ensure
  <2> QED BY <1>2, <2>2, <2>3 DEF AgentInv
<1>10. ASSUME NEW t \in Threads, Receive(t)
      PROVE  AgentInv'
  <2>1. PICK o, k, r : o = FreshObject /\ k = th[t].token /\ r = th[t]
    OBVIOUS
  <2>2. o \in Objects /\ r \in Thread /\ k \in Tokens \cup {None}
    BY <1>0, <1>10, <2>1, FreshIsFree DEF Receive, Thread
  <2>3. heap' = [heap EXCEPT ![o] = k] /\ UNCHANGED <<mem, disk, tmp, client>>
    BY <1>10, <2>1 DEF Receive
  <2>4. th' = [th EXCEPT ![t].pc = "save", ![t].then = "go", ![t].ref = o, ![t].token = None]
    BY <1>10, <2>1 DEF Receive
  <2>5. PICK u : u = [r EXCEPT !.pc = "save"]
    OBVIOUS
  <2>6. PICK v : v = [u EXCEPT !.then = "go"]
    OBVIOUS
  <2>7. PICK w : w = [v EXCEPT !.ref = o]
    OBVIOUS
  <2>8. PICK x : x = [w EXCEPT !.token = None]
    OBVIOUS
  <2>9. u \in Thread /\ u.pc = "save"
    BY <2>2, <2>5, SetPc, StepNames
  <2>10. v \in Thread /\ v.pc = "save"
    BY <2>6, <2>9, SetField, KeepsRef
  <2>11. w \in Thread /\ w.pc = "save" /\ w.ref = o
    BY <2>2, <2>7, <2>10, SetRef
  <2>12. x \in Thread /\ x.pc = "save" /\ x.ref = o
    BY <2>8, <2>11, SetField, KeepsRef
  <2>13. Ready(x)
    BY <2>2, <2>12 DEF Ready, Bound, Using
  <2>14. x = [r EXCEPT !.pc = "save", !.then = "go", !.ref = o, !.token = None]
    BY <2>5, <2>6, <2>7, <2>8
  <2>15. th' = [th EXCEPT ![t] = x]
    BY <2>1, <2>4, <2>14 DEF AgentInv
  <2>16. Moved(t)
    BY <2>13, <2>15 DEF Moved
  <2>17. heap' \in [Objects -> Tokens \cup {None}]
    BY <2>2, <2>3 DEF AgentInv
  <2> QED BY <1>2, <2>3, <2>16, <2>17 DEF AgentInv
<1>11. ASSUME NEW t \in Threads, Save(t)
      PROVE  AgentInv'
  <2>1. "replace" \in Steps /\ "replace" \in Using /\ "save" \in Using
    BY StepNames DEF Using
  <2>2. Moved(t)
    BY <1>11, <2>1, GotoMoves DEF Save
  <2>3. tmp' \in Tokens \cup {None}
    BY <1>11, <1>u, <2>1 DEF Save, AgentInv
  <2>4. UNCHANGED <<heap, mem, disk, client>>
    BY <1>11 DEF Save
  <2> QED BY <1>2, <2>2, <2>3, <2>4 DEF AgentInv
<1>12. ASSUME NEW t \in Threads, Replace(t)
      PROVE  AgentInv'
  <2>1. "adopt" \in Steps /\ "replace" \in Using /\ "adopt" \in Using
    BY StepNames DEF Using
  <2>2. Moved(t)
    BY <1>12, <2>1, GotoMoves, FailMoves DEF Replace
  <2>3. disk' \in Tokens \cup {None} /\ tmp' \in Tokens \cup {None, Absent}
    BY <1>12 DEF Replace, AgentInv
  <2>4. heap' \in [Objects -> Tokens \cup {None}] /\ UNCHANGED <<mem, client>>
    BY <1>12, Collected DEF Replace
  <2> QED BY <1>2, <2>2, <2>3, <2>4 DEF AgentInv
<1>13. ASSUME NEW t \in Threads, Adopt(t)
      PROVE  AgentInv'
  <2>1. th[t].pc = "adopt" /\ mem' = th[t].ref /\ UNCHANGED <<disk, tmp, client>> /\ Collect(heap)
    BY <1>13 DEF Adopt
  <2>2. th[t].ref \in Objects
    BY <1>u, <2>1 DEF Using
  <2>3. Moved(t)
    <3>1. th[t].then \in {"go", "again", "end"}
      BY <1>0 DEF Thread
    <3>2. CASE th[t].then = "go"
      <4>1. PICK r : r = th[t]
        OBVIOUS
      <4>2. r \in Thread /\ r.ref \in Objects /\ Proceed(t, r)
        BY <1>0, <1>13, <2>2, <3>2, <4>1 DEF Adopt
      <4> QED BY <4>2, ProceedMoves
    <3>3. CASE th[t].then = "again"
      <4>1. PICK a : a = TRUE
        OBVIOUS
      <4>2. th' = [th EXCEPT ![t] = [Idle EXCEPT !.pc = "ensure", !.again = a]]
        BY <1>13, <3>3, <4>1, Zenon DEF Adopt
      <4>3. "ensure" \in Steps \ Using
        BY StepNames DEF Using
      <4>4. Ready([Idle EXCEPT !.pc = "ensure", !.again = a])
        BY <4>1, <4>3, StartedOver, Zenon
      <4> QED BY <4>2, <4>4 DEF Moved
    <3>4. CASE th[t].then = "end"
      BY <1>13, <3>4, FailMoves DEF Adopt
    <3> QED BY <3>1, <3>2, <3>3, <3>4
  <2>4. heap' \in [Objects -> Tokens \cup {None}]
    BY <2>1, Collected
  <2> QED BY <1>2, <2>1, <2>2, <2>3, <2>4 DEF AgentInv
<1>14. ASSUME NEW t \in Threads, AssertFails(t)
      PROVE  AgentInv'
  <2>1. heap' \in [Objects -> Tokens \cup {None}] /\ UNCHANGED <<mem, disk, tmp, client>>
    BY <1>14, Collected DEF AssertFails
  <2> QED BY <1>2, <1>14, <2>1, FailMoves DEF AgentInv, AssertFails
<1>15. ASSUME NEW t \in Threads, Enter(t)
      PROVE  AgentInv'
  <2>1. "send" \in Steps /\ "send" \notin Using /\ "enter" \in Using
    BY StepNames DEF Using
  <2>2. client' \in Tokens \cup {None}
    BY <1>15, <1>u, <2>1 DEF Enter, AgentInv
  <2>3. heap' \in [Objects -> Tokens \cup {None}] /\ UNCHANGED <<mem, disk, tmp>>
    BY <1>15, Collected DEF Enter
  <2>4. PICK r, c : r = th[t] /\ c = client
    OBVIOUS
  <2>5. PICK u : u = [r EXCEPT !.pc = "send"]
    OBVIOUS
  <2>6. PICK v : v = [u EXCEPT !.prev = c]
    OBVIOUS
  <2>7. PICK w : w = [v EXCEPT !.ref = NoObject]
    OBVIOUS
  <2>8. u \in Thread /\ u.pc = "send"
    BY <1>0, <2>1, <2>4, <2>5, SetPc
  <2>9. v \in Thread /\ v.pc = "send"
    <3>1. c \in Tokens \cup {None}
      BY <2>4 DEF AgentInv
    <3> QED BY <2>6, <2>8, <3>1, SetField, KeepsRef
  <2>10. w \in Thread /\ w.pc = "send" /\ w.ref = NoObject
    BY <2>7, <2>9, SetRef
  <2>11. Ready(w)
    BY <2>1, <2>10 DEF Ready, Bound
  <2>12. w = [r EXCEPT !.pc = "send", !.prev = c, !.ref = NoObject]
    BY <2>5, <2>6, <2>7
  <2>13. th' = [th EXCEPT ![t] = w]
    BY <1>15, <2>4, <2>12 DEF AgentInv, Enter
  <2>14. Moved(t)
    BY <2>11, <2>13 DEF Moved
  <2> QED BY <1>2, <2>2, <2>3, <2>14 DEF AgentInv
<1>16. ASSUME NEW t \in Threads, Send(t)
      PROVE  AgentInv'
  <2>1. {"accepted", "denied"} \subseteq Steps /\ {"accepted", "denied", "send"} \cap Using = {}
    BY StepNames DEF Using
  <2>2. PICK p : p = IF client = epoch THEN "accepted" ELSE "denied"
    OBVIOUS
  <2>3. Goto(t, p) /\ th[t].pc = "send" /\ UNCHANGED <<heap, mem, disk, tmp, client>>
    BY <1>16, <2>2 DEF Send
  <2>4. p \in Steps /\ p \notin Using /\ "send" \notin Using
    BY <2>1, <2>2
  <2>5. Moved(t)
    BY <2>3, <2>4, GotoMoves
  <2> QED BY <1>2, <2>3, <2>5 DEF AgentInv
<1>17. ASSUME NEW t \in Threads, Leave(t)
      PROVE  AgentInv'
  <2>1. heap' \in [Objects -> Tokens \cup {None}] /\ UNCHANGED <<mem, disk, tmp>>
    BY <1>17, Collected DEF Leave
  <2>2. client' \in Tokens \cup {None}
    BY <1>0, <1>17 DEF Leave, Thread
  <2>3. PICK a : a = TRUE
    OBVIOUS
  <2>4. \/ th' = [th EXCEPT ![t] = [Idle EXCEPT !.pc = "ensure", !.goal = "persist"]]
        \/ th' = [th EXCEPT ![t] = [Idle EXCEPT !.pc = "invalidate", !.again = a]]
        \/ Fail(t)
    BY <1>17, <2>3, Zenon DEF Leave
  <2>5. "ensure" \in Steps \ Using /\ "invalidate" \in Steps \ Using
    <3>1. "ensure" \in Steps /\ "invalidate" \in Steps
      BY DEF Steps, Registering, Server
    <3>2. "ensure" \notin Using /\ "invalidate" \notin Using
      BY Zenon DEF Using
    <3> QED BY <3>1, <3>2
  <2>6. /\ Ready([Idle EXCEPT !.pc = "ensure", !.goal = "persist"])
        /\ Ready([Idle EXCEPT !.pc = "invalidate", !.again = a])
    BY <2>3, <2>5, StartedOver, Zenon
  <2>7. Moved(t)
    BY <2>4, <2>6, FailMoves, Zenon DEF Moved
  <2> QED BY <1>2, <2>1, <2>2, <2>7 DEF AgentInv
<1>18. ASSUME NEW t \in Threads, Invalidate(t)
      PROVE  AgentInv'
  <2>1. heap' \in [Objects -> Tokens \cup {None}] /\ UNCHANGED <<mem, disk, tmp, client>>
    BY <1>18 DEF Invalidate, AgentInv
  <2>2. "ensure" \in Steps /\ "ensure" \notin Using /\ "invalidate" \notin Using
    BY StepNames DEF Using
  <2>3. Moved(t)
    <3>1. CASE heap[mem] = None
      BY <1>18, <2>2, <3>1, GotoMoves DEF Invalidate
    <3>2. CASE heap[mem] # None
      <4>1. PICK r, m : r = th[t] /\ m = mem
        OBVIOUS
      <4>2. PICK u : u = [r EXCEPT !.pc = "save"]
        OBVIOUS
      <4>3. PICK v : v = [u EXCEPT !.ref = m]
        OBVIOUS
      <4>4. PICK w : w = [v EXCEPT !.then = "again"]
        OBVIOUS
      <4>5. u \in Thread /\ u.pc = "save" /\ m \in Objects
        BY <1>0, <4>1, <4>2, SetPc, StepNames DEF AgentInv
      <4>6. v \in Thread /\ v.pc = "save" /\ v.ref = m
        BY <4>3, <4>5, SetRef
      <4>7. w \in Thread /\ w.pc = "save" /\ w.ref = m
        BY <4>4, <4>6, SetField, KeepsRef
      <4>8. Ready(w)
        BY <4>5, <4>7 DEF Ready, Bound, Using
      <4>9. w = [r EXCEPT !.pc = "save", !.ref = m, !.then = "again"]
        BY <4>2, <4>3, <4>4
      <4>10. th' = [th EXCEPT ![t] = w]
        BY <1>18, <3>2, <4>1, <4>9 DEF AgentInv, Invalidate
      <4> QED BY <4>8, <4>10 DEF Moved
    <3> QED BY <3>1, <3>2
  <2> QED BY <1>2, <2>1, <2>3 DEF AgentInv
<1> QED
  BY <1>3, <1>4, <1>5, <1>6, <1>7, <1>8, <1>9, <1>10, <1>11, <1>12, <1>13, <1>14, <1>15,
     <1>16, <1>17, <1>18 DEF Next, Step


(* A full table keeps a pending row, so that no insert goes beyond it.     *)
LEMMA ServerStep ==
    ASSUME ServerInv, [Next]_vars
    PROVE  ServerInv'
<1> USE SessionBounds
<1>1. ASSUME UNCHANGED rows, UNCHANGED node, UNCHANGED ticket,
             faults' \in 0..MaxFaults, epoch' \in 1..(faults' + 1), calls' \in 0..MaxCalls
      PROVE  ServerInv'
  BY <1>1, Zenon DEF ServerInv, PendingRow
<1>f. ASSUME Fault
      PROVE  faults' = faults + 1 /\ faults' \in 0..MaxFaults /\ calls' = calls
  BY <1>f DEF Fault, ServerInv
<1>2. CASE UNCHANGED vars
  BY <1>1, <1>2 DEF vars, serverVars, ServerInv
<1>3. CASE CreateNode \/ PublishFirst \/ DeleteNode \/ RevokeTokens
  <2>1. /\ faults' = faults + 1 /\ faults' \in 0..MaxFaults /\ calls' = calls
        /\ UNCHANGED <<rows, ticket>> /\ epoch' \in {epoch, epoch + 1}
        /\ node' \in {"unknown", "created", "published"}
    BY <1>3, <1>f DEF CreateNode, PublishFirst, DeleteNode, RevokeTokens, Administer, ServerInv
  <2>2. epoch' \in 1..(faults' + 1)
    BY <2>1 DEF ServerInv
  <2> QED BY <2>1, <2>2 DEF ServerInv, PendingRow
<1>4. ASSUME NEW i \in DOMAIN rows, NEW d \in {"approved", "rejected"}, Decide(i, d)
      PROVE  ServerInv'
  <2>1. /\ faults' = faults + 1 /\ faults' \in 0..MaxFaults /\ calls' = calls
        /\ UNCHANGED <<node, epoch, ticket>>
    BY <1>4, <1>f DEF Decide, Administer
  <2>2. rows' = [rows EXCEPT ![i] = d] /\ (rows[i] # "pending" \/ Len(rows) < MaxRows)
    BY <1>4 DEF Decide
  <2>3. rows' \in Seq(Statuses) /\ Len(rows') = Len(rows) /\ DOMAIN rows' = DOMAIN rows
    <3>1. PICK q : q = rows
      OBVIOUS
    <3>2. q \in Seq(Statuses) /\ d \in Statuses /\ i \in DOMAIN q
      BY <3>1 DEF ServerInv, Statuses
    <3>3. [q EXCEPT ![i] = d] \in Seq(Statuses) /\ DOMAIN [q EXCEPT ![i] = d] = DOMAIN q
      BY <3>2
    <3>4. Len([q EXCEPT ![i] = d]) = Len(q)
      BY <3>2
    <3> QED BY <2>2, <3>1, <3>3, <3>4
  <2>4. Len(rows') = MaxRows => PendingRow'
    <3> SUFFICES ASSUME Len(rows) = MaxRows PROVE PendingRow'
      BY <2>3
    <3>1. PICK j \in DOMAIN rows : rows[j] = "pending"
      BY DEF ServerInv, PendingRow
    <3>2. j # i
      BY <2>2, <3>1 DEF ServerInv
    <3>3. rows'[j] = "pending"
      BY <2>2, <3>1, <3>2 DEF ServerInv
    <3> QED BY <2>3, <3>1, <3>3 DEF PendingRow
  <2>5. epoch' \in 1..(faults' + 1)
    BY <2>1 DEF ServerInv
  <2> QED BY <2>1, <2>3, <2>4, <2>5, Zenon DEF ServerInv
<1>5. CASE Restart
  BY <1>1, <1>5, <1>f DEF Restart, serverVars, ServerInv
<1>6. ASSUME NEW t \in Threads, RequestFails(t)
      PROVE  ServerInv'
  BY <1>1, <1>6, <1>f DEF RequestFails, serverVars, ServerInv
<1>7. ASSUME NEW t \in Threads, StartCall(t)
      PROVE  ServerInv'
  BY <1>1, <1>7 DEF StartCall, serverVars, ServerInv
<1>8. ASSUME NEW t \in Threads, Insert(t)
      PROVE  ServerInv'
  <2>1. UNCHANGED <<node, epoch, ticket, faults, calls>>
    BY <1>8 DEF Insert
  <2>2. CASE PendingRow
    BY <1>1, <1>8, <2>1, <2>2 DEF Insert, ServerInv
  <2>3. CASE ~PendingRow
    <3>1. rows' = Append(rows, "pending") /\ Len(rows) < MaxRows
      BY <1>8, <2>3 DEF Insert, ServerInv
    <3>2. rows' \in Seq(Statuses) /\ Len(rows') = Len(rows) + 1
          /\ rows'[Len(rows) + 1] = "pending"
      BY <3>1 DEF ServerInv, Statuses
    <3>3. PendingRow' /\ Len(rows') <= MaxRows
      BY <3>1, <3>2 DEF PendingRow, ServerInv
    <3> QED BY <2>1, <3>2, <3>3 DEF ServerInv
  <2> QED BY <2>2, <2>3
<1>9. ASSUME NEW t \in Threads, MarkUsed(t)
      PROVE  ServerInv'
  BY <1>9 DEF MarkUsed, ServerInv, PendingRow
<1>10. ASSUME NEW t \in Threads, UNCHANGED serverVars, UNCHANGED <<faults, calls>>
      PROVE  ServerInv'
  BY <1>1, <1>10 DEF serverVars, ServerInv
<1>11. ASSUME NEW t \in Threads, Step(t)
      PROVE  ServerInv'
  <2>1. CASE Resolve(t) \/ Gate(t) \/ Known(t) \/ Record(t) \/ Issue(t)
    BY <2>1, <1>10 DEF Resolve, Gate, Known, Record, Issue
  <2>2. CASE Ensure(t) \/ Receive(t) \/ Save(t) \/ Replace(t) \/ Adopt(t) \/ AssertFails(t)
    BY <2>2, <1>10 DEF Ensure, Receive, Save, Replace, Adopt, AssertFails
  <2>3. CASE Enter(t) \/ Send(t) \/ Leave(t) \/ Invalidate(t)
    BY <2>3, <1>10 DEF Enter, Send, Leave, Invalidate
  <2> QED BY <2>1, <2>2, <2>3, <1>8, <1>9, <1>11 DEF Step, Register
<1> QED
  BY <1>2, <1>3, <1>4, <1>5, <1>6, <1>7, <1>11 DEF Next, Admin

(* However the threads of the agent interleave, whoever uses an identity   *)
(* object holds one that exists, a registration always finds room for the  *)
(* one it creates, no token is older than the first nor newer than the     *)
(* last revocation, and the table of pending registrations stays within    *)
(* its bound (Session.ensure, Session._register, Session.invalidate).      *)
THEOREM SessionTypeCorrect == Spec => []SessionTypeOK
<1>1. Init => ServerInv /\ AgentInv
  <2> SUFFICES ASSUME Init PROVE ServerInv /\ AgentInv
    OBVIOUS
  <2>1. ServerInv
    BY SessionBounds DEF Init, ServerInv
  <2>2. th \in [Threads -> Thread] /\ \A t \in Threads : Bound(th[t])
    BY IdleIsThread DEF Init
  <2>3. mem \in Objects /\ heap \in [Objects -> Tokens \cup {None}]
    BY ObjectsAreEnough DEF Init
  <2> QED BY <2>1, <2>2, <2>3 DEF Init, AgentInv
<1>2. ServerInv /\ AgentInv /\ [Next]_vars => ServerInv' /\ AgentInv'
  BY ServerStep, AgentStep
<1>3. ServerInv /\ AgentInv => SessionTypeOK
  <2> SUFFICES ASSUME ServerInv, AgentInv PROVE SessionTypeOK
    OBVIOUS
  <2>1. epoch \in Tokens
    BY TokenNames
  <2>2. th \in [Threads -> [pc : Steps, goal : {"call", "persist"},
                           then : {"go", "again", "end"}, again : BOOLEAN,
                           ref : Objects \cup {NoObject}, prev : Tokens \cup {None},
                           status : {"none", "pending", "approved"},
                           retry : BOOLEAN, token : Tokens \cup {None}]]
    BY DEF AgentInv, Thread
  <2> QED BY <2>1, <2>2 DEF ServerInv, AgentInv, SessionTypeOK, Statuses
<1> QED
  BY <1>1, <1>2, <1>3, PTL DEF Spec

=============================================================================
