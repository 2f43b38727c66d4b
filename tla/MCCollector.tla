---------------------------- MODULE MCCollector -----------------------------
(* Two peers that announce one prefix with different paths, a route        *)
(* collector and an iBGP neighbour; routes that meet each reject branch;   *)
(* ROAs that cover a prefix at different lengths.                          *)
EXTENDS Collector

Net(v, bits) == [version |-> v, bits |-> bits]
Adv(net, path) == [net |-> net, path |-> path]
Roa(net, max, asn) == [net |-> net, maxLen |-> max, asn |-> asn]

MCOtherBgp == [n \in {"rc", "ibgp"} |-> n = "ibgp"]
MCCandidates ==
    [p \in {"as1", "as2"} |->
        IF p = "as1"
        THEN {Adv(Net(4, <<0, 1>>), <<1>>), Adv(Net(4, <<0, 1>>), <<1, 3>>)}
        ELSE {Adv(Net(4, <<0, 1>>), <<2, 3>>), Adv(Net(4, <<0, 1>>), <<2, 3, 3>>),
              Adv(Net(4, <<0, 1>>), <<2, 9>>),
              Adv(Net(6, <<1>>), <<2>>), Adv(Net(4, <<1>>), <<2>>)}]
MCLocalRoutes == {[net |-> Net(4, <<0, 0>>), proto |-> "static", path |-> <<>>]}
MCRoaTables ==
    {{}, {Roa(Net(4, <<0>>), 1, 1), Roa(Net(4, <<0, 1>>), 2, 3)},
     {Roa(Net(4, <<0>>), 2, 1), Roa(Net(6, <<1>>), 1, 2)}}
MCValidRanges == {[net |-> Net(4, <<0>>), lo |-> 1, hi |-> 2],
                  [net |-> Net(6, <<>>), lo |-> 0, hi |-> 2]}
MCOwnNets == {Net(4, <<0, 0>>)}
=============================================================================
