----------------------------- MODULE Collector ------------------------------
(***************************************************************************)
(* The collection of a node's routing table: the client of BIRD's control  *)
(* socket (agent/collectors/bird_socket.py), the queries, parsers and      *)
(* RPKI index of agent/collectors/routing.py, and the aggregates the       *)
(* control server keeps (services/routing_aggregate.py).  BIRD runs the    *)
(* import filter the templates of config-bird2/ render.                    *)
(*                                                                         *)
(* A collection is a series of queries, each on a connection of its own;   *)
(* BIRD's tables change between two of them and a query may fail alone.    *)
(*                                                                         *)
(* Data: an address has Width bits, a prefix is the sequence of its fixed  *)
(* bits.  A chunk of a reply ends in the middle or at the end of a line;   *)
(* a line keeps the class of its code and its separator.  Communities,     *)
(* next hops, per-AS and per-length counters are left out.                 *)
(***************************************************************************)
EXTENDS Integers, Sequences, FiniteSets, SequencesExt

CONSTANTS
    Peers,          \* eBGP protocols with an import table
    OtherBgp,       \* BGP protocols without one: route collectors (FALSE), iBGP (TRUE)
    PeerOnly,       \* the peers whose import_mode is peer_only
    Candidates,     \* routes a peer may announce
    LocalRoutes,    \* static and direct routes of the node
    RoaTables,      \* contents the ROA tables may have
    Width,          \* _IP_BITS
    ValidRanges,    \* is_valid_network[_v6] and _DN42_VALID_V4/V6, kept alike
    OwnNets,        \* node.ipv4_prefixes and ipv6_prefixes
    RejectedAsns,   \* bird.large_communities.rejected_asns
    PathLimit,      \* 8 in the code: the longest AS path accepted
    MaxDetail,      \* _MAX_INVALID_ROUTES, _MAX_FILTERED_ROUTES
    MaxRoutes,      \* bound: routes a peer announces at a time
    MaxEvents       \* bound: changes of BIRD's tables, failed queries, restarts of BIRD

ASSUME WidthAssumption == Width \in Nat \ {0}
ASSUME PathAssumption == PathLimit \in Nat
ASSUME DetailAssumption == MaxDetail \in Nat \ {0}
ASSUME ProtocolAssumption == PeerOnly \subseteq Peers /\ DOMAIN OtherBgp \cap Peers = {}

VARIABLES
    adjIn,      \* BIRD: the import table of each peer
    roas,       \* BIRD: dn42_roa and dn42_roa_v6
    todo,       \* the queries still to make
    conn,       \* the connection of the first of them
    got,        \* the queries made, with what query() gave
    row,        \* control server: node_routing and node_route_entries
    seen,       \* history: BIRD's tables when each query was answered
    events      \* changes and faults so far

world == <<adjIn, roas>>
vars == <<world, todo, conn, got, row, seen, events>>

Families == {4, 6}
None == "none"
Verdicts == {"valid", "invalid", "not-found"}

-----------------------------------------------------------------------------
(* RPKI: RpkiIndex buckets the ROAs by prefix length and network integer.  *)

\* int(net.network_address)
NetInt(net) == FoldLeft(LAMBDA n, b : 2 * n + b, 0, net.bits) * 2 ^ (Width - Len(net.bits))

\* mutant: the mask keeps one bit too few
MaskedOneShort(n, plen) ==
    LET host == 2 ^ (Width - (IF plen = 0 THEN 0 ELSE plen - 1)) IN (n \div host) * host

\* net_int & _prefix_mask(version, plen)
Masked(n, plen) == LET host == 2 ^ (Width - plen) IN (n \div host) * host

\* RpkiIndex.__init__: (version, length) -> network integer -> entries; the lengths ascend
RpkiIndex(entries) ==
    LET Slot(e) == <<e.net.version, Len(e.net.bits)>> IN
    [buckets |-> [s \in {Slot(e) : e \in entries} |->
                     LET bucket == {e \in entries : Slot(e) = s} IN
                     [n \in {NetInt(e.net) : e \in bucket} |->
                         {e \in bucket : NetInt(e.net) = n}]],
     plens |-> [v \in Families |->
                   SetToSortSeq({Len(e.net.bits) : e \in {e \in entries : e.net.version = v}}, <)]]

\* classify_net
ClassifyNet(index, net, origin) ==
    LET plens == index.plens[net.version]
        tried == {plens[i] : i \in {i \in DOMAIN plens :
                                       \A j \in 1..i : plens[j] <= Len(net.bits)}}
        Hits(plen) == LET bucket == index.buckets[<<net.version, plen>>]
                          n == Masked(NetInt(net), plen)
                      IN IF n \in DOMAIN bucket THEN bucket[n] ELSE {}
        covering == UNION {Hits(plen) : plen \in tried}
    IN IF covering = {} THEN "not-found"
       ELSE IF origin = 0 THEN None
       ELSE IF \E e \in covering : e.asn = origin /\ Len(net.bits) <= e.maxLen
            THEN "valid" ELSE "invalid"

SubnetOf(net, base) == net.version = base.version /\ IsPrefix(base.bits, net.bits)

\* RFC 6811, route by route over the whole table
Rfc6811(entries, net, origin) ==
    LET covering == {e \in entries : SubnetOf(net, e.net)}
    IN IF covering = {} THEN "not-found"
       ELSE IF \E e \in covering : e.asn = origin /\ Len(net.bits) <= e.maxLen
            THEN "valid" ELSE "invalid"

-----------------------------------------------------------------------------
(* BIRD: the import filter and the master tables it leads to.              *)

\* the reject branches dn42_import_<mode> reaches for a route
IsValidNetwork(net) ==
    \E r \in ValidRanges : SubnetOf(net, r.net) /\ Len(net.bits) \in r.lo..r.hi

IsSelfNet(net) == \E own \in OwnNets : SubnetOf(net, own)

RoaCheck(table, r) == Rfc6811(table, r.net, Last(r.path))

EbgpImportFilter(r) ==
    {ground \in {"as_path_too_long", "blocked_asn"} :
        \/ ground = "as_path_too_long" /\ Len(r.path) > PathLimit
        \/ ground = "blocked_asn" /\ ToSet(r.path) \cap RejectedAsns # {}}

\* dn42_import_peer_only takes what its neighbour originates; depref_transit refuses nothing
ImportPeerOnly(peer, r) ==
    IF peer \in PeerOnly /\ Head(r.path) # Last(r.path) THEN {"peer_only"} ELSE {}

ImportFilter(peer, r, table) ==
    ImportPeerOnly(peer, r) \cup EbgpImportFilter(r) \cup
    {ground \in {"out_of_range", "self_net", "roa"} :
        \/ ground = "out_of_range" /\ ~IsValidNetwork(r.net)
        \/ ground = "self_net" /\ IsSelfNet(r.net)
        \/ ground = "roa" /\ RoaCheck(table, r) = "invalid"}

Route(proto, r) == [net |-> r.net, proto |-> proto, path |-> r.path]

Learned(w, peer) == {r \in w.adjIn[peer] : ImportFilter(peer, r, w.roas) = {}}

Master(w, family) ==
    {r \in LocalRoutes \cup UNION {{Route(p, r) : r \in Learned(w, p)} : p \in Peers} :
        r.net.version = family}

\* a local route has the higher preference, then the shorter path wins
BestOf(routes) == CHOOSE r \in routes : \A other \in routes : Len(r.path) <= Len(other.path)

(* Replies: a title, then a header for every route, without its prefix for *)
(* the alternatives to the best one, followed by its AS path.              *)

Title == [text |-> "title"]

RouteLines(r, best, prefixed) ==
    LET header == [text |-> "route", prefixed |-> prefixed, net |-> r.net,
                   proto |-> r.proto, primary |-> best]
    IN IF r.path = <<>> THEN <<header>>
       ELSE <<header, [text |-> "as_path", path |-> r.path]>>

PrefixLines(routes) ==
    LET best == BestOf(routes)
        others == SetToSeq(routes \ {best})
    IN RouteLines(best, TRUE, TRUE)
       \o FlattenSeq([i \in DOMAIN others |-> RouteLines(others[i], FALSE, FALSE)])

MasterLines(w, family) ==
    LET table == Master(w, family)
        nets == SetToSeq({r.net : r \in table})
    IN FlattenSeq([i \in DOMAIN nets |-> PrefixLines({r \in table : r.net = nets[i]})])

ImportLines(w, peer, family) ==
    LET table == SetToSeq({r \in w.adjIn[peer] : r.net.version = family})
    IN FlattenSeq([i \in DOMAIN table |-> RouteLines(Route(peer, table[i]), FALSE, TRUE)])

RoaLines(w, family) ==
    LET table == SetToSeq({e \in w.roas : e.net.version = family})
    IN [i \in DOMAIN table |-> [text |-> "roa", entry |-> table[i]]]

ProtocolLines ==
    LET names == SetToSeq(Peers \cup DOMAIN OtherBgp)
    IN [i \in DOMAIN names |-> [text |-> "protocol", name |-> names[i]]]

Ending(class) == <<[class |-> class, last |-> TRUE, says |-> Title]>>

\* the last line of the data has a space after its code, like the line that ends a reply
Data(lines) ==
    LET texts == <<Title>> \o lines
    IN [i \in DOMAIN texts |-> [class |-> "data", last |-> i = Len(texts), says |-> texts[i]]]
       \o Ending("ok")

Answer(w, q) ==
    CASE q.kind = "master" -> Data(MasterLines(w, q.family))
      [] q.kind = "roa" -> Data(RoaLines(w, q.family))
      [] q.kind = "protocols" -> Data(ProtocolLines)
      [] q.kind = "import" /\ q.peer \in Peers -> Data(ImportLines(w, q.peer, q.family))
      [] OTHER -> Ending("error")
-----------------------------------------------------------------------------
(* Agent: a query reads the greeting and one reply, chunk by chunk.        *)

Query(kind, family, peer) == [kind |-> kind, family |-> family, peer |-> peer]

Idle == [phase |-> "idle"]

Reading(phase, lines) == [phase |-> phase, lines |-> lines, pos |-> 0]

\* mutant: any line with a space after its code ends the reply
EndsReplyBySeparator(line) == line.last

\* feed_line: the code decides, not the separator alone
EndsReply(line) == (line.class = "ok" /\ line.last) \/ line.class = "error"

FeedLine(reader, line) ==
    CASE reader.done -> reader
      [] ~reader.done /\ EndsReply(line) ->
            [reader EXCEPT !.done = TRUE, !.error = line.class = "error"]
      [] OTHER -> [reader EXCEPT !.lines = Append(@, line.says)]

\* read_reply: every line whose end has been received is fed; pos counts half lines
ReadReply(lines, pos) ==
    FoldLeft(FeedLine, [lines |-> <<>>, done |-> FALSE, error |-> FALSE],
             SubSeq(lines, 1, pos \div 2))

Failed == [ok |-> FALSE, lines |-> <<>>]

\* query: rc 0 with the text, rc 1 on an error reply; an OSError is rc -1
Result(reader) == IF reader.error THEN Failed ELSE [ok |-> TRUE, lines |-> reader.lines]

(* Parsers.  An alternative path takes its prefix from the route before it.*)

RawRoute(net, proto, primary) ==
    [net |-> net, proto |-> proto, primary |-> primary, path |-> <<>>]

ParseLine(routes, line) ==
    CASE line.text = "route" /\ (line.prefixed \/ routes # <<>>) ->
            Append(routes, RawRoute(IF line.prefixed THEN line.net ELSE Last(routes).net,
                                    line.proto, line.primary))
      [] line.text = "as_path" /\ routes # <<>> ->
            [routes EXCEPT ![Len(routes)].path = line.path]
      [] OTHER -> routes

ParseBirdRoutes(lines) == FoldLeft(ParseLine, <<>>, lines)

OriginAsn(route) == IF route.path # <<>> THEN Last(route.path) ELSE 0

FromBird(lines) == RpkiIndex({l.entry : l \in {l \in ToSet(lines) : l.text = "roa"}})

ParseEbgpProtocolNames(lines) ==
    LET names == SelectSeq(lines, LAMBDA l :
                     l.text = "protocol" /\ ~(l.name \in DOMAIN OtherBgp /\ OtherBgp[l.name]))
    IN [i \in DOMAIN names |-> names[i].name]

\* _concat_runner: the outputs of the queries that succeeded, if any did
AnyOk(results, kind) == \E f \in Families : results[Query(kind, f, None)].ok

Concat(results, kind) ==
    results[Query(kind, 4, None)].lines \o results[Query(kind, 6, None)].lines

(* RouteTableObserver.observe                                              *)

Index(results) == IF AnyOk(results, "roa") THEN {FromBird(Concat(results, "roa"))} ELSE {}

Classify(index, route) ==
    IF index = {} THEN None
    ELSE ClassifyNet(CHOOSE i \in index : TRUE, route.net, OriginAsn(route))

\* a route without an AS path is the node's own and is not judged
ObservedRoute(route, index) ==
    [net |-> route.net, proto |-> route.proto, path |-> route.path, primary |-> route.primary,
     local |-> route.path = <<>>,
     rpki |-> IF route.path = <<>> THEN None ELSE Classify(index, route)]

Observe(results) ==
    LET routes == ParseBirdRoutes(Concat(results, "master"))
    IN [i \in DOMAIN routes |-> ObservedRoute(routes[i], Index(results))]

(* observe_prefilter: what each import table holds, refused or not         *)

\* mutant: only the best route of a prefix counts as accepted
AcceptedKeysOfBest(observed) ==
    {<<r.net, r.proto>> : r \in {r \in ToSet(observed) : r.primary}}

AcceptedKeys(observed) == {<<r.net, r.proto>> : r \in ToSet(observed)}

\* classify_reject_reason: the first branch of the filter that refuses the route
Reasons == <<"out_of_range", "self_net", "as_path_too_long", "blocked_asn">>

Applies(reason, route) ==
    \/ reason = "out_of_range" /\ ~IsValidNetwork(route.net)
    \/ reason = "self_net" /\ IsSelfNet(route.net)
    \/ reason = "as_path_too_long" /\ Len(route.path) > PathLimit
    \/ reason = "blocked_asn" /\ ToSet(route.path) \cap RejectedAsns # {}

ClassifyRejectReason(route) ==
    LET first == SelectInSeq(Reasons, LAMBDA reason : Applies(reason, route))
    IN IF first = 0 THEN "policy" ELSE Reasons[first]

Capped(routes) == SubSeq(routes, 1, IF Len(routes) < MaxDetail THEN Len(routes) ELSE MaxDetail)

PrefilterRoute(route) ==
    [net |-> route.net, proto |-> route.proto, path |-> route.path,
     reason |-> ClassifyRejectReason(route)]

PrefilterPeerStat(proto, verdicts, observed) ==
    [received |-> Len(verdicts),
     accepted |-> Len(SelectSeq(observed, LAMBDA r : r.proto = proto)),
     rpki |-> [v \in Verdicts |-> Len(SelectSeq(verdicts, LAMBDA x : x = v))]]

AggregatePrefilter(names, tables, observed, index) ==
    LET all == FlattenSeq([i \in DOMAIN names |-> tables[names[i]]])
        Refused(route) == /\ AcceptedKeys(observed) # {}
                          /\ Classify(index, route) # "invalid"
                          /\ <<route.net, route.proto>> \notin AcceptedKeys(observed)
        refused == SelectSeq(all, Refused)
    IN [peers |-> [p \in {p \in ToSet(names) : tables[p] # <<>>} |->
                      PrefilterPeerStat(p, [i \in DOMAIN tables[p] |->
                                               Classify(index, tables[p][i])], observed)],
        invalid |-> Capped(SelectSeq(all, LAMBDA r : Classify(index, r) = "invalid")),
        filtered |-> Capped([i \in DOMAIN refused |-> PrefilterRoute(refused[i])])]

Imported(results, peer) ==
    LET Lines(f) == LET q == Query("import", f, peer)
                    IN IF q \in DOMAIN results THEN results[q].lines ELSE <<>>
    IN ParseBirdRoutes(Lines(4)) \o ParseBirdRoutes(Lines(6))

\* None (an empty set) when the protocols are unknown or no import table held a route
ObservePrefilter(results, observed) ==
    LET q == Query("protocols", 0, None)
        names == ParseEbgpProtocolNames(results[q].lines)
        tables == [p \in ToSet(names) |-> Imported(results, p)]
    IN IF ~results[q].ok \/ \A p \in ToSet(names) : tables[p] = <<>> THEN {}
       ELSE {AggregatePrefilter(names, tables, observed, Index(results))}
-----------------------------------------------------------------------------
(* Control server: what a snapshot leaves in node_routing.                 *)

BestByPrefix(routes) ==
    {LET same == {i \in DOMAIN routes : routes[i].net = n}
         primary == {i \in same : routes[i].primary}
     IN routes[IF primary = {} THEN Min(same) ELSE Max(primary)]
        : n \in {r.net : r \in ToSet(routes)}}

\* mutant: local routes count among those a verdict is expected for
AggregateRoutesWithLocal(routes) ==
    LET best == BestByPrefix(routes)
        Count(v) == Cardinality({r \in best : ~r.local /\ r.rpki = v})
    IN [count |-> [f \in Families |-> Cardinality({r \in best : r.net.version = f})],
        local |-> Cardinality({r \in best : r.local}),
        rpki |-> [v \in Verdicts |-> Count(v)],
        rpkiObserved |-> ~(best # {} /\ \A v \in Verdicts : Count(v) = 0)]

AggregateRoutes(routes) ==
    LET best == BestByPrefix(routes)
        external == {r \in best : ~r.local}
        Count(v) == Cardinality({r \in external : r.rpki = v})
    IN [count |-> [f \in Families |-> Cardinality({r \in best : r.net.version = f})],
        local |-> Cardinality(best \ external),
        rpki |-> [v \in Verdicts |-> Count(v)],
        rpkiObserved |-> ~(external # {} /\ \A v \in Verdicts : Count(v) = 0)]

\* diff_prefix_sets
DiffPrefixSets(old, new) ==
    LET Nets(routes) == {r.net : r \in ToSet(routes)}
    IN [announced |-> Cardinality(Nets(new) \ Nets(old)),
        withdrawn |-> Cardinality(Nets(old) \ Nets(new))]

NoRow == [observation |-> None, routes |-> <<>>, prefilter |-> {},
          aggregates |-> AggregateRoutes(<<>>), churn |-> DiffPrefixSets(<<>>, <<>>),
          basis |-> <<>>]

RoutingTableSnapshot(observation, routes, prefilter) ==
    [observation |-> observation, routes |-> routes, prefilter |-> prefilter]

\* collect_routing_snapshot
CollectRoutingSnapshot(results) ==
    LET routes == Observe(results)
    IN IF AnyOk(results, "master")
       THEN RoutingTableSnapshot("observed", routes, ObservePrefilter(results, routes))
       ELSE RoutingTableSnapshot("unavailable", <<>>, {})

\* record_snapshot; a collection that failed leaves the last table in place
RecordSnapshot(old, snapshot, basis) ==
    IF snapshot.observation # "observed" THEN [old EXCEPT !.observation = snapshot.observation]
    ELSE [observation |-> "observed", routes |-> snapshot.routes,
          prefilter |-> snapshot.prefilter,
          aggregates |-> AggregateRoutes(snapshot.routes),
          churn |-> DiffPrefixSets(old.routes, snapshot.routes), basis |-> basis]

-----------------------------------------------------------------------------
World == [adjIn |-> adjIn, roas |-> roas]

ObserveQueries == <<Query("master", 4, None), Query("master", 6, None)>>

\* what observe() and observe_prefilter() ask once a query is answered
Follow(q, results) ==
    CASE q = Query("master", 6, None) /\ AnyOk(results, "master") ->
            <<Query("roa", 4, None), Query("roa", 6, None), Query("protocols", 0, None)>>
      [] q.kind = "protocols" ->
            LET names == ParseEbgpProtocolNames(results[q].lines)
            IN FlattenSeq([i \in DOMAIN names |-> <<Query("import", 4, names[i]),
                                                   Query("import", 6, names[i])>>])
      [] OTHER -> <<>>

Complete(result) ==
    LET q == Head(todo)
        results == (q :> result) @@ got
    IN /\ got' = results
       /\ todo' = Tail(todo) \o Follow(q, results)
       /\ conn' = Idle

\* a connection per query; BIRD greets first
Connect ==
    /\ todo # <<>> /\ conn.phase = "idle"
    /\ conn' = Reading("greeting", Ending("ok"))
    /\ UNCHANGED <<world, todo, got, row, seen, events>>

\* where the next chunk may end
ChunkEnds == IF conn.phase = "idle" THEN {} ELSE (conn.pos + 1)..(2 * Len(conn.lines))

Recv ==
    \E pos \in ChunkEnds :
        /\ ~ReadReply(conn.lines, pos).done
        /\ conn' = [conn EXCEPT !.pos = pos]
        /\ UNCHANGED <<world, todo, got, row, seen, events>>

SendCommand ==
    \E pos \in ChunkEnds :
        /\ conn.phase = "greeting"
        /\ ReadReply(conn.lines, pos).done
        /\ conn' = Reading("reply", Answer(World, Head(todo)))
        /\ seen' = (Head(todo) :> World) @@ seen
        /\ UNCHANGED <<world, todo, got, row, events>>

FinishQuery ==
    \E pos \in ChunkEnds :
        /\ conn.phase = "reply"
        /\ ReadReply(conn.lines, pos).done
        /\ Complete(Result(ReadReply(conn.lines, pos)))
        /\ UNCHANGED <<world, row, seen, events>>

\* refused, timed out, or closed before the reply ended
QueryFails ==
    /\ events < MaxEvents /\ todo # <<>>
    /\ Complete(Failed)
    /\ events' = events + 1
    /\ UNCHANGED <<world, row, seen>>

\* collect_and_publish_routing and the store's transaction
Publish ==
    /\ todo = <<>>
    /\ row' = RecordSnapshot(row, CollectRoutingSnapshot(got),
                             [q \in {q \in DOMAIN got : got[q].ok} |-> seen[q]])
    /\ todo' = ObserveQueries /\ got' = <<>> /\ seen' = <<>>
    /\ UNCHANGED <<world, conn, events>>

ImportTables(peer) ==
    {t \in SUBSET Candidates[peer] :
        Cardinality(t) <= MaxRoutes /\ \A r, other \in t : r.net = other.net => r = other}

Announce(peer, r) ==
    adjIn' = [adjIn EXCEPT ![peer] = {other \in @ : other.net # r.net} \cup {r}]

Withdraw(peer, r) == adjIn' = [adjIn EXCEPT ![peer] = @ \ {r}]

PeerUpdates ==
    /\ events < MaxEvents
    /\ \E peer \in Peers : \E r \in Candidates[peer] :
           Withdraw(peer, r) \/ Announce(peer, r)
    /\ \A p \in Peers : adjIn'[p] \in ImportTables(p)
    /\ adjIn' # adjIn
    /\ events' = events + 1
    /\ UNCHANGED <<roas, todo, conn, got, row, seen>>

RoasUpdate ==
    /\ events < MaxEvents
    /\ roas' \in RoaTables \ {roas}
    /\ events' = events + 1
    /\ UNCHANGED <<adjIn, todo, conn, got, row, seen>>

BirdRestarts ==
    /\ events < MaxEvents
    /\ adjIn' = [p \in Peers |-> {}] /\ roas' = {}
    /\ IF conn.phase = "idle" THEN UNCHANGED <<todo, conn, got>> ELSE Complete(Failed)
    /\ events' = events + 1
    /\ UNCHANGED <<row, seen>>

Init ==
    /\ adjIn \in {f \in [Peers -> UNION {ImportTables(p) : p \in Peers}] :
                    \A p \in Peers : f[p] \in ImportTables(p)}
    /\ roas \in RoaTables
    /\ todo = ObserveQueries /\ conn = Idle /\ got = <<>>
    /\ row = NoRow /\ seen = <<>>
    /\ events = 0

Next ==
    \/ Connect \/ Recv \/ SendCommand \/ FinishQuery \/ QueryFails \/ Publish
    \/ PeerUpdates \/ RoasUpdate \/ BirdRestarts

Spec == Init /\ [][Next]_vars

-----------------------------------------------------------------------------
WasRead(kind, family) == Query(kind, family, None) \in DOMAIN row.basis

Read(kind) == {f \in Families : WasRead(kind, f)}

RoasRead ==
    UNION {{e \in row.basis[Query("roa", f, None)].roas : e.net.version = f} : f \in Read("roa")}

Received(peer) ==
    UNION {{r \in row.basis[q].adjIn[peer] : r.net.version = q.family}
           : q \in {q \in DOMAIN row.basis : q.kind = "import" /\ q.peer = peer}}

(* The stored table is, route for route, what BIRD's master tables held    *)
(* when they were asked, however the replies were cut into chunks          *)
(* (_ReplyReader, _Framing) and written down (parse_bird_routes).          *)
StoredIsRead ==
    LET tables == UNION {Master(row.basis[Query("master", f, None)], f) : f \in Read("master")}
        stored == {Route(r.proto, r) : r \in ToSet(row.routes)}
    IN /\ stored = tables /\ Len(row.routes) = Cardinality(tables)
       /\ \A r \in BestByPrefix(row.routes) :
              Route(r.proto, r) = BestOf({other \in tables : other.net = r.net})

(* Every verdict kept or counted is the one RFC 6811 gives on the ROAs as  *)
(* they were read: the bucket index ("语义与朴素实现逐字等价") agrees with   *)
(* the scan of the whole table.                                            *)
VerdictsFollowRfc6811 ==
    LET Verdict(r) == IF r.path = <<>> \/ Read("roa") = {} THEN None
                      ELSE Rfc6811(RoasRead, r.net, Last(r.path))
    IN /\ \A r \in ToSet(row.routes) : r.rpki = Verdict(r)
       /\ \A pf \in row.prefilter :
              /\ \A r \in ToSet(pf.invalid) : Verdict(r) = "invalid"
              /\ \A p \in DOMAIN pf.peers, v \in Verdicts :
                     pf.peers[p].rpki[v] = Cardinality({r \in Received(p) : Verdict(r) = v})

(* A route reported as filtered was refused by the import filter for the   *)
(* reason given, unless it came after the master table was read or that    *)
(* table could not be read (aggregate_prefilter compares two readings of   *)
(* BIRD taken at different times).                                         *)
FilteredWasRefused ==
    \A pf \in row.prefilter : \A x \in ToSet(pf.filtered) :
        LET r == [net |-> x.net, path |-> x.path]
            w == row.basis[Query("master", x.net.version, None)]
            grounds == ImportFilter(x.proto, r, w.roas)
        IN x.net.version \in Read("master") /\ r \in w.adjIn[x.proto] =>
              IF x.reason = "policy" THEN grounds \cap {"peer_only", "roa"} # {}
              ELSE x.reason \in grounds

(* The summary says the ROA tables were not observed exactly when there    *)
(* are routes to judge and neither table could be read: the server infers  *)
(* it from the verdicts alone (rpki_observed in aggregate_routes).         *)
UnobservedMeansNoRoa ==
    ~row.aggregates.rpkiObserved <=>
        Read("roa") = {} /\ \E r \in BestByPrefix(row.routes) : ~r.local
=============================================================================
