------------------------------ MODULE MCApply ------------------------------
(***************************************************************************)
(* A node with up to two WireGuard interfaces and a DNS group; its states  *)
(* differ from a plain one in one or two respects.  The definition of      *)
(* netns changes with the network's.                                       *)
(***************************************************************************)
EXTENDS Apply, TLC

CONSTANTS i1, i2

MCInterfaces == {i1, i2}

Plain == [iface |-> (i1 :> 1 @@ i2 :> 0), bird |-> 1, dns |-> FALSE,
          version |-> [s \in Core |-> 1], net |-> [v4 |-> 1, v6 |-> 0]]

MCDesiredStates ==
    {Plain,
     [Plain EXCEPT !.iface[i1] = 2, !.net.v6 = 1],
     [Plain EXCEPT !.iface[i1] = 0, !.dns = TRUE],
     [Plain EXCEPT !.iface[i1] = 0, !.iface[i2] = 1, !.bird = 2],
     [Plain EXCEPT !.version["wg"] = 2, !.dns = TRUE],
     [Plain EXCEPT !.version["bird"] = 2, !.net.v4 = 2]}
=============================================================================
