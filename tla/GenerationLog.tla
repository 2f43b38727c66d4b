--------------------------- MODULE GenerationLog ---------------------------
(***************************************************************************)
(* What the control server promises about the generations of one node,     *)
(* whatever transactions, locks and retention implement it: generation     *)
(* numbers are handed out one by one, an event announces only a number     *)
(* that has been committed, and only deleting the node takes the number    *)
(* back.  Publication implements this specification, and Delivery uses its *)
(* actions as the server half of the system the agent talks to.            *)
(***************************************************************************)
EXTENDS Naturals

VARIABLES
    published,  \* Node.current_generation; 0: no such node, or never published
    pending     \* generations committed whose event has not been broadcast yet

logVars == <<published, pending>>

LogTypeOK ==
    /\ published \in Nat
    /\ pending \subseteq Nat

LogInit ==
    /\ published = 0
    /\ pending = {}

(* A transaction that publishes commits: the number grows by exactly one.  *)
PublishNext ==
    /\ published' = published + 1
    /\ pending' = pending \cup {published + 1}

(* The handler broadcasts what it committed.                               *)
Announce(g) ==
    /\ g \in pending
    /\ pending' = pending \ {g}
    /\ UNCHANGED published

(* The node row is deleted; events already owed are still sent.            *)
Forget ==
    /\ published > 0
    /\ published' = 0
    /\ UNCHANGED pending

(* The server process restarts: what was committed stays, what was not yet *)
(* broadcast never will be.                                                *)
LoseAnnouncements ==
    /\ pending # {}
    /\ pending' = {}
    /\ UNCHANGED published

LogNext ==
    \/ PublishNext
    \/ \E g \in pending : Announce(g)
    \/ Forget
    \/ LoseAnnouncements

LogSpec == LogInit /\ [][LogNext]_logVars
=============================================================================
