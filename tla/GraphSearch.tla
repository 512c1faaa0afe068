----------------------------- MODULE GraphSearch -----------------------------
(***************************************************************************)
(* A wallet-graph search: runGraphSearch of packages/db/src/graph/         *)
(* runSearch.ts, with the edges it reads (edgeFetcher.ts), the traversal   *)
(* (packages/core/src/graph/bfs.ts) and the paths read off the result      *)
(* (paths.ts).                                                             *)
(*                                                                         *)
(* The traversal keeps one queue of candidates for the whole graph and     *)
(* always admits the most valuable one.  It awaits the database whenever   *)
(* it expands a node, so money-flow rows may be ingested between the       *)
(* fetches of an edge's two ends.  The result replaces the rows of the     *)
(* search one statement at a time; any statement may throw, and the        *)
(* process may die at any of them.                                         *)
(*                                                                         *)
(* A money-flow row is [id, src, dst, action, asset, usd, tx, ts]; rows    *)
(* come back from the database in the order of their ids.                  *)
(***************************************************************************)
EXTENDS Integers, FiniteSets, Sequences, FiniteSetsExt, TLC

CONSTANTS
    Searches,       \* the searches a behaviour may be about: [rows, late, registry,
                    \* root, mode, stored], late being rows ingested meanwhile
    GraphDefaults,  \* settings.graph: [maxDepth, minTransferUsd, maxNodes, maxEdges]
    PerNodeTxCap,   \* settings.graph.perNodeTxCap
    MaxReruns,      \* times the search may be run again
    MaxGraphFaults, \* statements that may throw, and deaths of the process
    NoBound         \* an end of the time range that is not set

ASSUME GraphAssumption ==
    /\ PerNodeTxCap \in Nat \ {0}
    /\ \A f \in {"maxDepth", "maxNodes", "maxEdges"} : GraphDefaults[f] \in Nat \ {0}

VARIABLES
    asked,          \* the search this behaviour is about
    flowRows,       \* MoneyFlowEdge
    searchRow,      \* WalletGraphSearch: [status, nodeCount, edgeCount, pathCount]
    graphNodeRows,  \* WalletGraphNode: the rows of this search, each with the
                    \* run that wrote it (a row's id is new every time)
    graphEdgeRows,  \* WalletGraphEdge: likewise
    search,         \* the run under way
    graphBounds     \* [runs, faults, late] spent

graphVars == <<asked, flowRows, searchRow, graphNodeRows, graphEdgeRows, search, graphBounds>>

SAMPLE_TX_HASH_CAP == 5
MAX_HOPS == 4
DEFAULT_MIN_HOPS == 2
DEFAULT_MAX_PATHS == 20
CONFIDENCE_FLOOR == 10

Lesser(x, y) == Min({x, y})
Greater(x, y) == Max({x, y})

-----------------------------------------------------------------------------
(***************************************************************************)
(* Parameters: what the row stores, the rest from the settings.            *)
(***************************************************************************)
ParamDefaults ==
    [includeNative |-> TRUE, includeToken |-> TRUE, includeSwaps |-> TRUE,
     includeBridges |-> TRUE, includeCex |-> TRUE, excludeRoutersPoolsContracts |-> FALSE,
     timeFrom |-> NoBound, timeTo |-> NoBound] @@ GraphDefaults

Params == asked.stored @@ ParamDefaults

EffectiveMaxDepth == IF asked.mode = "DIRECT" THEN 1 ELSE Params.maxDepth

-----------------------------------------------------------------------------
(***************************************************************************)
(* The edge fetcher: the rows about an address, one edge for each          *)
(* direction, relationship and asset, the most valuable ones only.         *)
(***************************************************************************)
TRANSFER_ISH == {"direct_transfer", "native_transfer", "token_transfer", "stablecoin_transfer"}
CAPITAL_FLOW_ALLOWLIST == TRANSFER_ISH \cup {"bridge_deposit", "bridge_withdrawal"}

RelationshipOf ==
    [bridge_deposit |-> "bridge_deposit", bridge_withdrawal |-> "bridge_withdrawal",
     cex_deposit |-> "cex_deposit", cex_withdrawal |-> "cex_withdrawal",
     swap |-> "swap_router_interaction", dex_buy |-> "swap_router_interaction",
     dex_sell |-> "swap_router_interaction", lp_add |-> "lp_interaction",
     lp_remove |-> "lp_interaction", contract_interaction |-> "contract_interaction"]

Relationship(row) ==
    IF row.action # "transfer"
    THEN IF row.action \in DOMAIN RelationshipOf THEN RelationshipOf[row.action] ELSE "unknown"
    ELSE IF row.asset \in {"SOL", "BNB"} THEN "native_transfer"
    ELSE IF row.asset \in {"USDC", "USDT"} THEN "stablecoin_transfer"
    ELSE "token_transfer"

FirstId(rows, tx) == Min({r.id : r \in {s \in rows : s.tx = tx}})

\* The first five distinct transactions, in the order of the rows.
SampleTxHashes(rows) ==
    LET hashes == {r.tx : r \in rows} IN
    {h \in hashes :
        Cardinality({g \in hashes : FirstId(rows, g) < FirstId(rows, h)}) < SAMPLE_TX_HASH_CAP}

RawEdge(rows) ==
    LET r == CHOOSE r \in rows : TRUE
    IN  [source |-> r.src, dest |-> r.dst, relationship |-> Relationship(r), asset |-> r.asset,
         usd |-> MapThenSumSet(LAMBDA s : s.usd, rows), n |-> Cardinality(rows),
         firstTs |-> Min({s.ts : s \in rows}), lastTs |-> Max({s.ts : s \in rows}),
         hashes |-> SampleTxHashes(rows), id |-> Min({s.id : s \in rows})]

SameEdge(r, s) ==
    /\ <<r.src, r.dst, r.asset>> = <<s.src, s.dst, s.asset>>
    /\ Relationship(r) = Relationship(s)

FetchEdges(address) ==
    LET rows    == {r \in flowRows : r.src # r.dst /\ address \in {r.src, r.dst}}
        edges   == {RawEdge({s \in rows : SameEdge(r, s)}) : r \in rows}
        above(e) == {f \in edges : f.usd > e.usd \/ (f.usd = e.usd /\ f.id < e.id)}
    IN  {e \in edges : Cardinality(above(e)) < PerNodeTxCap}

-----------------------------------------------------------------------------
(***************************************************************************)
(* The gates.                                                              *)
(***************************************************************************)
IncludeFlag ==
    [native_transfer |-> "includeNative", token_transfer |-> "includeToken",
     stablecoin_transfer |-> "includeToken", swap_router_interaction |-> "includeSwaps",
     bridge_deposit |-> "includeBridges", bridge_withdrawal |-> "includeBridges",
     cex_deposit |-> "includeCex", cex_withdrawal |-> "includeCex"]

Allowed(relationship) ==
    /\ relationship \in DOMAIN IncludeFlag => Params[IncludeFlag[relationship]]
    /\ asked.mode = "CAPITAL_FLOW" => relationship \in CAPITAL_FLOW_ALLOWLIST
    /\ asked.mode = "ENTITY_DISCOVERY" => relationship \in TRANSFER_ISH

PassesGate1(e) ==
    /\ e.usd >= Params.minTransferUsd
    /\ Params.timeFrom # NoBound => e.lastTs >= Params.timeFrom
    /\ Params.timeTo # NoBound => e.firstTs <= Params.timeTo
    /\ Allowed(e.relationship)

NodeTypeOf ==
    [CEX |-> "CEX", BRIDGE |-> "BRIDGE", ROUTER |-> "ROUTER", POOL |-> "POOL",
     MIXER |-> "CONTRACT", TOKEN_CONTRACT |-> "TOKEN_CONTRACT", DEPLOYER |-> "WALLET"]

NodeType(address) ==
    IF address \in DOMAIN asked.registry THEN NodeTypeOf[asked.registry[address].category]
    ELSE "WALLET"

DoNotExpand(address) ==
    \/ address \in DOMAIN asked.registry /\ asked.registry[address].doNotExpand
    \/ /\ Params.excludeRoutersPoolsContracts
       /\ NodeType(address) \in {"ROUTER", "POOL", "CONTRACT"}
    \/ NodeType(address) = "CEX" /\ ~(Params.includeCex /\ asked.mode = "FULL_RAW")

\* Whether the far end of a candidate is worth expanding.  The amount the
\* near end was reached by is that of the edge that got it expanded.
PassesGate2(c) ==
    CASE asked.mode = "CAPITAL_FLOW" -> c.fromRoot \/ 2 * c.raw.usd >= c.reachedBy
      [] asked.mode = "ENTITY_DISCOVERY" ->
            c.raw.n >= 2 \/ c.raw.usd >= 10 * Params.minTransferUsd
      [] OTHER -> TRUE

-----------------------------------------------------------------------------
(***************************************************************************)
(* The traversal.                                                          *)
(***************************************************************************)
NewNode(address, depth) ==
    [depth |-> depth, nodeType |-> NodeType(address), sent |-> 0, received |-> 0,
     interactions |-> 0, confidence |-> CONFIDENCE_FLOOR]

Root == [NewNode(asked.root, 0) EXCEPT !.nodeType = "WALLET", !.confidence = 100]

IdleSearch == [at |-> "idle", nodes |-> <<>>, edges |-> <<>>, seen |-> {}, queue |-> {},
               seq |-> 0, enqueued |-> <<>>, expand |-> <<>>, truncated |-> FALSE]

\* More valuable, or made of more transactions.
Outranks(e, f) == e.usd > f.usd \/ (e.usd = f.usd /\ e.n > f.n)

\* expandNode: the edges that pass the first gate become candidates, in order.
Candidates(address, depth, reachedBy) ==
    LET passing  == {e \in FetchEdges(address) : PassesGate1(e)}
        before(e) == {f \in passing : Outranks(f, e) \/ (~Outranks(e, f)
                          /\ (f.usd > e.usd \/ (f.usd = e.usd /\ f.id < e.id)))}
    IN  {[raw |-> e, to |-> IF e.source = address THEN e.dest ELSE e.source,
          depth |-> depth + 1, fromRoot |-> address = asked.root,
          reachedBy |-> reachedBy, seq |-> search.seq + Cardinality(before(e))] : e \in passing}

ExpandNode ==
    /\ search.at = "expand"
    /\ LET new == Candidates(search.expand.address, search.expand.depth, search.expand.reachedBy)
       IN  search' = [search EXCEPT !.at = "pop", !.queue = @ \cup new,
                                    !.seq = @ + Cardinality(new)]
    /\ UNCHANGED <<asked, flowRows, searchRow, graphNodeRows, graphEdgeRows, graphBounds>>

Top == CHOOSE c \in search.queue : \A d \in search.queue \ {c} :
           Outranks(c.raw, d.raw) \/ (~Outranks(d.raw, c.raw) /\ c.seq < d.seq)

EdgeKey(e) == <<e.source, e.dest, e.relationship>>
Sighting(e) == <<EdgeKey(e), e.hashes>>

\* Admitting the candidate would exceed one of the caps.
Exceeds(c) ==
    \/ c.to \notin DOMAIN search.nodes /\ Cardinality(DOMAIN search.nodes) + 1 > Params.maxNodes
    \/ EdgeKey(c.raw) \notin DOMAIN search.edges
         /\ Cardinality(DOMAIN search.edges) + 1 > Params.maxEdges

AtTop == search.at = "pop" /\ search.queue # {}

Truncate ==
    /\ AtTop /\ Exceeds(Top)
    /\ search' = [search EXCEPT !.at = "deleteNodes", !.truncated = TRUE]
    /\ UNCHANGED <<asked, flowRows, searchRow, graphNodeRows, graphEdgeRows, graphBounds>>

\* The first five hashes of both, those already kept first: which of the new
\* ones fill the free places is left open.
JoinedHashes(old, new) ==
    CHOOSE H \in SUBSET (old \cup new) :
        /\ old \subseteq H
        /\ Cardinality(H) = Lesser(Cardinality(old \cup new), SAMPLE_TX_HASH_CAP)

\* Faulty variant: an edge offered from its other end is added once more.
AddedEdges(raw) ==
    LET key == EdgeKey(raw) IN
    IF key \notin DOMAIN search.edges THEN (key :> raw) @@ search.edges
    ELSE [search.edges EXCEPT ![key] =
             [@ EXCEPT !.usd = @ + raw.usd, !.n = @ + raw.n,
                       !.hashes = JoinedHashes(@, raw.hashes)]]

MergedEdges(raw) ==
    LET key == EdgeKey(raw) IN
    IF key \notin DOMAIN search.edges THEN (key :> raw) @@ search.edges
    ELSE IF Sighting(raw) \in search.seen THEN search.edges
    ELSE [search.edges EXCEPT ![key] =
             [@ EXCEPT !.usd = @ + raw.usd, !.n = @ + raw.n,
                       !.firstTs = Lesser(@, raw.firstTs), !.lastTs = Greater(@, raw.lastTs),
                       !.hashes = JoinedHashes(@, raw.hashes)]]

ConfidenceBase(relationship) ==
    CASE relationship \in TRANSFER_ISH -> 80
      [] relationship \in {"bridge_deposit", "bridge_withdrawal"} -> 60
      [] relationship \in {"cex_deposit", "cex_withdrawal"} -> 40
      [] OTHER -> 50

\* The nodes once the candidate is in: its far end exists and trusts its best
\* edge, and both ends of an edge seen for the first time count its money.
MergedNodes(c) ==
    LET raw   == c.raw
        known == IF c.to \in DOMAIN search.nodes THEN search.nodes
                 ELSE (c.to :> NewNode(c.to, c.depth)) @@ search.nodes
        counted ==
            IF Sighting(raw) \in search.seen THEN known
            ELSE [known EXCEPT ![raw.source].sent = @ + raw.usd,
                               ![raw.source].interactions = @ + raw.n,
                               ![raw.dest].received = @ + raw.usd,
                               ![raw.dest].interactions = @ + raw.n]
    IN  [counted EXCEPT ![c.to].confidence =
            Greater(@, Greater(CONFIDENCE_FLOOR,
                                 ConfidenceBase(raw.relationship) - 10 * (c.depth - 1)))]

ShouldExpand(c) ==
    /\ c.to \notin DOMAIN search.enqueued
    /\ PassesGate2(c)
    /\ ~DoNotExpand(c.to)

AdmitCandidate ==
    /\ AtTop /\ ~Exceeds(Top)
    /\ LET c       == Top
           expands == ShouldExpand(c)
       IN  search' = [search EXCEPT
               !.queue = @ \ {c},
               !.edges = MergedEdges(c.raw),
               !.nodes = MergedNodes(c),
               !.seen = @ \cup {Sighting(c.raw)},
               !.enqueued = IF expands THEN (c.to :> c.depth) @@ @ ELSE @,
               !.at = IF expands /\ c.depth < EffectiveMaxDepth THEN "expand" ELSE "pop",
               !.expand = IF expands
                          THEN [address |-> c.to, depth |-> c.depth, reachedBy |-> c.raw.usd]
                          ELSE @]
    /\ UNCHANGED <<asked, flowRows, searchRow, graphNodeRows, graphEdgeRows, graphBounds>>

Exhausted ==
    /\ search.at = "pop" /\ search.queue = {}
    /\ search' = [search EXCEPT !.at = "deleteNodes"]
    /\ UNCHANGED <<asked, flowRows, searchRow, graphNodeRows, graphEdgeRows, graphBounds>>

-----------------------------------------------------------------------------
(***************************************************************************)
(* extractPaths: the simple directed paths of two to four hops from the    *)
(* root along value edges that never step back in time, the twenty of      *)
(* most value (a tie at the cut is left uncut here).                       *)
(***************************************************************************)
PathEdges == {k \in DOMAIN search.edges : k[3] \in CAPITAL_FLOW_ALLOWLIST}

VisitedBy(path) == {asked.root} \cup {path[i][2] : i \in DOMAIN path}

Extensions(path) ==
    {Append(path, k) : k \in {e \in PathEdges :
        /\ e[1] = (IF path = <<>> THEN asked.root ELSE path[Len(path)][2])
        /\ e[2] \notin VisitedBy(path)
        /\ path # <<>> => search.edges[e].lastTs >= search.edges[path[Len(path)]].lastTs}}

ExtractPaths ==
    LET ofLength[n \in 0..MAX_HOPS] ==
            IF n = 0 THEN {<<>>} ELSE UNION {Extensions(p) : p \in ofLength[n - 1]}
        all == UNION {ofLength[n] : n \in DEFAULT_MIN_HOPS..MAX_HOPS}
        value(p) == Min({search.edges[p[i]].usd : i \in DOMAIN p})
    IN  {p \in all : Cardinality({q \in all : value(q) > value(p)}) < DEFAULT_MAX_PATHS}

-----------------------------------------------------------------------------
(***************************************************************************)
(* The run.                                                                *)
(***************************************************************************)
InMemory == <<asked, flowRows>>
GraphRows == <<graphNodeRows, graphEdgeRows>>

\* The route (apps/web/app/api/graph/route.ts) has created the row.
GraphInit ==
    /\ asked \in Searches
    /\ flowRows = asked.rows
    /\ searchRow = [status |-> "queued", nodeCount |-> 0, edgeCount |-> 0, pathCount |-> 0]
    /\ graphNodeRows = {}
    /\ graphEdgeRows = {}
    /\ search = IdleSearch
    /\ graphBounds = [runs |-> 0, faults |-> 0, late |-> {}]

\* runGraphSearch begins: by the route at once, or by the walletGraph job
\* (apps/worker/src/jobs/walletGraph.ts), also for a row that was run before.
SetRunning ==
    /\ search.at \in {"idle", "lost"} /\ graphBounds.runs <= MaxReruns
    /\ searchRow' = [searchRow EXCEPT !.status = "running"]
    /\ search' = [IdleSearch EXCEPT !.at = "settings"]
    /\ graphBounds' = [graphBounds EXCEPT !.runs = @ + 1]
    /\ UNCHANGED <<InMemory, GraphRows>>

\* Settings and registry are read, and the traversal starts at the root,
\* which is expanded whatever it is.
StartTraversal ==
    /\ search.at = "settings"
    /\ search' = [search EXCEPT
           !.at = "expand", !.nodes = asked.root :> Root, !.enqueued = asked.root :> 0,
           !.expand = [address |-> asked.root, depth |-> 0, reachedBy |-> 0]]
    /\ UNCHANGED <<InMemory, searchRow, GraphRows, graphBounds>>

DeleteGraphNodes ==
    /\ search.at = "deleteNodes"
    /\ graphNodeRows' = {}
    /\ search' = [search EXCEPT !.at = "deleteEdges"]
    /\ UNCHANGED <<InMemory, searchRow, graphEdgeRows, graphBounds>>

DeleteGraphEdges ==
    /\ search.at = "deleteEdges"
    /\ graphEdgeRows' = {}
    /\ search' = [search EXCEPT !.at = "createNodes"]
    /\ UNCHANGED <<InMemory, searchRow, graphNodeRows, graphBounds>>

\* One createMany each: all rows or none.
CreateGraphNodes ==
    /\ search.at = "createNodes"
    /\ graphNodeRows' = graphNodeRows \cup
           {[run |-> graphBounds.runs, address |-> a, node |-> search.nodes[a]] :
               a \in DOMAIN search.nodes}
    /\ search' = [search EXCEPT !.at = "createEdges"]
    /\ UNCHANGED <<InMemory, searchRow, graphEdgeRows, graphBounds>>

CreateGraphEdges ==
    /\ search.at = "createEdges"
    /\ graphEdgeRows' = graphEdgeRows \cup
           {[run |-> graphBounds.runs, key |-> k, usd |-> search.edges[k].usd,
             n |-> search.edges[k].n] : k \in DOMAIN search.edges}
    /\ search' = [search EXCEPT !.at = "finish"]
    /\ UNCHANGED <<InMemory, searchRow, graphNodeRows, graphBounds>>

FinishSearch ==
    /\ search.at = "finish"
    /\ searchRow' = [status    |-> IF search.truncated THEN "truncated" ELSE "done",
                     nodeCount |-> Cardinality(DOMAIN search.nodes),
                     edgeCount |-> Cardinality(DOMAIN search.edges),
                     pathCount |-> Lesser(Cardinality(ExtractPaths), DEFAULT_MAX_PATHS)]
    /\ search' = IdleSearch
    /\ UNCHANGED <<InMemory, GraphRows, graphBounds>>

\* A statement inside the try throws.
StatementThrows ==
    /\ search.at \notin {"idle", "pop", "catch", "lost"}
    /\ graphBounds.faults < MaxGraphFaults
    /\ search' = [IdleSearch EXCEPT !.at = "catch"]
    /\ graphBounds' = [graphBounds EXCEPT !.faults = @ + 1]
    /\ UNCHANGED <<InMemory, searchRow, GraphRows>>

\* Faulty variant: the error is noted and the status left as it is.
NoteError ==
    /\ search.at = "catch"
    /\ search' = IdleSearch
    /\ UNCHANGED <<InMemory, searchRow, GraphRows, graphBounds>>

\* The catch: the counts of an earlier run stay.
MarkFailed ==
    /\ search.at = "catch"
    /\ searchRow' = [searchRow EXCEPT !.status = "failed"]
    /\ search' = IdleSearch
    /\ UNCHANGED <<InMemory, GraphRows, graphBounds>>

\* The process dies, or the update in the catch throws: nobody is left to
\* settle the row, unless the search is run again.
RunLost ==
    /\ search.at \notin {"idle", "lost"} /\ graphBounds.faults < MaxGraphFaults
    /\ search' = [IdleSearch EXCEPT !.at = "lost"]
    /\ graphBounds' = [graphBounds EXCEPT !.faults = @ + 1]
    /\ UNCHANGED <<InMemory, searchRow, GraphRows>>

\* The ingest of another process writes a money-flow row.
RowIngested ==
    /\ search.at # "idle"
    /\ \E r \in asked.late \ flowRows :
        /\ flowRows' = flowRows \cup {r}
        /\ graphBounds' = [graphBounds EXCEPT !.late = @ \cup {r}]
    /\ UNCHANGED <<asked, searchRow, GraphRows, search>>

Traversal == ExpandNode \/ Truncate \/ AdmitCandidate \/ Exhausted
RunStep == StartTraversal \/ Traversal \/ DeleteGraphNodes \/ DeleteGraphEdges
             \/ CreateGraphNodes \/ CreateGraphEdges \/ FinishSearch \/ MarkFailed

GraphNext == SetRunning \/ RunStep \/ StatementThrows \/ RunLost \/ RowIngested

\* A run that is not lost goes on: it is one async function.
GraphFairness == WF_graphVars(RunStep)

GraphSpec == GraphInit /\ [][GraphNext]_graphVars /\ GraphFairness

-----------------------------------------------------------------------------
Traversed == search.at \in {"deleteNodes", "deleteEdges", "createNodes", "createEdges", "finish"}

\* A result is a graph: both ends of an edge are nodes of it and the caps
\* hold, at every point of the traversal and however it is cut short.
NoDanglingEdge ==
    /\ \A k \in DOMAIN search.edges : {k[1], k[2]} \subseteq DOMAIN search.nodes
    /\ Cardinality(DOMAIN search.nodes) <= Params.maxNodes
    /\ Cardinality(DOMAIN search.edges) <= Params.maxEdges

\* A node's depth is the length of a walk that leads there through the result
\* (not of the shortest: the more valuable way in came first), so nothing
\* further from the root than was asked for is in it.
Within(n) ==
    LET reached[i \in 0..n] ==
            IF i = 0 THEN {asked.root}
            ELSE reached[i - 1] \cup {a \in DOMAIN search.nodes :
                     \E k \in DOMAIN search.edges : \E b \in reached[i - 1] : {k[1], k[2]} = {a, b}}
    IN  reached[n]

DepthIsWitnessed ==
    \A a \in DOMAIN search.nodes :
        search.nodes[a].depth <= EffectiveMaxDepth /\ a \in Within(search.nodes[a].depth)

\* The edges the expanded ends of an edge were offered.
Expanded == {a \in DOMAIN search.enqueued : search.enqueued[a] < EffectiveMaxDepth}
Offered == {e \in UNION {FetchEdges(a) : a \in Expanded} : PassesGate1(e)}

\* A search that was not cut short shows all that the nodes it expanded were
\* in, if the rows did not change meanwhile.
WholeResult == Traversed /\ ~search.truncated /\ graphBounds.late = {}
NothingLeftOut == WholeResult => {EdgeKey(e) : e \in Offered} = DOMAIN search.edges

\* The money is counted once.  Every edge is offered from both of its ends,
\* yet an edge carries the sum of the rows behind it, and a node what its
\* edges brought and took: for rows that did not change meanwhile, where no
\* transaction moves two assets of one relationship between the same two.
OneAssetPerTx ==
    \A r, s \in flowRows :
        r.tx = s.tx /\ EdgeKey(RawEdge({r})) = EdgeKey(RawEdge({s})) => r.asset = s.asset

CountedOnce ==
    /\ \A a \in DOMAIN search.nodes :
        LET sum(side) == MapThenSumSet(LAMBDA k : search.edges[k].usd,
                                       {k \in DOMAIN search.edges : k[side] = a})
        IN  search.nodes[a].sent = sum(1) /\ search.nodes[a].received = sum(2)
    /\ WholeResult /\ OneAssetPerTx =>
        \A k \in DOMAIN search.edges :
            LET behind == {e \in Offered : EdgeKey(e) = k}
            IN  /\ search.edges[k].usd = MapThenSumSet(LAMBDA e : e.usd, behind)
                /\ search.edges[k].n = MapThenSumSet(LAMBDA e : e.n, behind)

\* Whoever reads a search that says it is over finds the graph it counts: the
\* rows of one run, each node and edge once, whatever earlier runs left.
FinishedMeansWritten ==
    searchRow.status \in {"done", "truncated"} =>
        /\ Cardinality(graphNodeRows) = searchRow.nodeCount
        /\ Cardinality(graphEdgeRows) = searchRow.edgeCount
        /\ \A r, s \in graphNodeRows : r.address = s.address => r = s
        /\ \A e \in graphEdgeRows :
               {e.key[1], e.key[2]} \subseteq {r.address : r \in graphNodeRows}

\* The graph found is sound, closed when it is not cut short, and every edge
\* counts its rows once; and what a finished search shows is one run's.
GraphSound ==
    /\ search.nodes # <<>> =>
           NoDanglingEdge /\ DepthIsWitnessed /\ NothingLeftOut /\ CountedOnce
    /\ FinishedMeansWritten

\* A search that is running gets settled: the traversal ends, cycles and all,
\* and a throw is written down, unless the run itself is lost.
SearchSettles ==
    searchRow.status = "running" ~> (searchRow.status # "running" \/ search.at = "lost")
=============================================================================
