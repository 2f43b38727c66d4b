----------------------------- MODULE MCHealing -----------------------------
EXTENDS Healing

(* One interface is given another key, the other one is removed.           *)
MCDesiredStates == {[i \in Interfaces |-> 1],
                    [i \in Interfaces |-> IF i \in Hostnames THEN 2 ELSE 0]}
=============================================================================
