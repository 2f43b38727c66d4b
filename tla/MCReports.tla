----------------------------- MODULE MCReports ------------------------------
(* Budgets for Reports: two reconciles; one beside a re-resolution and a   *)
(* reader; routing tables and readers; a death of the control server.      *)
EXTENDS Reports

Budget(c, e, t, x, g) ==
    [reconcile |-> c, reresolve |-> e, routing |-> t, restart |-> x, read |-> g]

MCBudgets ==
    {Budget(2, 0, 0, 0, 0), Budget(1, 1, 0, 0, 1), Budget(0, 0, 3, 0, 2), Budget(1, 0, 0, 1, 2)}
=============================================================================
