--------------------------- MODULE EntityClustering ---------------------------
(***************************************************************************)
(* The clustering pass: runEntityClustering of packages/db/src/            *)
(* clustering.ts, as the entityClustering job of the worker runs it.       *)
(*                                                                         *)
(* A pass reads the wallets and the money flow, computes the clusters in   *)
(* memory, wipes the tables and writes them again: a cluster row, its      *)
(* member rows one by one, the stamp on the members' trades.  Every step   *)
(* is a statement of its own against the database, so another job can read *)
(* the tables half-way, a wallet can vanish, and any statement may throw.  *)
(* The job then re-scores the tokens ("rescore"; FlowScoring.tla is that   *)
(* pass).  The tables are variables here and are read by FlowScoring.      *)
(***************************************************************************)
EXTENDS WalletLinks

CONSTANTS
    Worlds,         \* the databases a behaviour may start from:
                    \* [wallets, edges, registry, firstTrade]
    MaxPasses,      \* passes a behaviour may start
    MaxVanish,      \* wallets that may be deleted by someone else
    MaxIngested,    \* trades that may be ingested
    MaxPassFaults   \* statements that may throw

VARIABLES
    world,          \* the rows no step changes
    wallets,        \* ids of the Wallet rows
    clusterRows,    \* EntityCluster: id -> [walletCount, confidenceSum]
    memberRows,     \* EntityClusterWallet: set of [cluster, wallet, confidence]
    stamp,          \* wallet -> the entityClusterIds its trades carry, 0 for null
    unstamped,      \* history: wallets with a trade newer than their last stamp
    pass,           \* the pass under way: what it holds in memory
    lastPass,       \* "none", "ok", "failed": how the last pass ended
    clusteringBounds  \* [passes, vanished, ingested, faults] spent

stampVars == <<stamp, unstamped>>
tables == <<clusterRows, memberRows, stampVars>>
clusteringVars ==
    <<world, wallets, tables, pass, lastPass, clusteringBounds>>

NoStamp == 0

IdlePass == [at |-> "idle", tracked |-> {}, links |-> {}, clusters |-> <<>>,
             todo |-> <<>>, id |-> 0]

ClusteringInit ==
    /\ world \in Worlds
    /\ wallets = world.wallets
    /\ clusterRows = <<>>
    /\ memberRows = {}
    /\ stamp = [w \in world.wallets |-> {NoStamp}] /\ unstamped = {}
    /\ pass = IdlePass
    /\ lastPass = "none"
    /\ clusteringBounds = [passes |-> 0, vanished |-> 0, ingested |-> 0, faults |-> 0]

-----------------------------------------------------------------------------
\* fetchTrackedWallets: the candidate universe is every wallet there is.
StartPass ==
    /\ pass.at = "idle" /\ clusteringBounds.passes < MaxPasses
    /\ pass' = [IdlePass EXCEPT !.at = "derive", !.tracked = wallets]
    /\ clusteringBounds' = [clusteringBounds EXCEPT !.passes = @ + 1]
    /\ UNCHANGED <<world, wallets, tables, lastPass>>

\* deriveCandidateLinks and clusterWallets.  The rows are those about the
\* wallets read before; a wallet gone since took its trades with it.
DeriveLinks ==
    /\ pass.at = "derive"
    /\ LET firstTrade == [w \in DOMAIN world.firstTrade \cap wallets |-> world.firstTrade[w]]
           links == Links(pass.tracked, world.edges, world.registry, firstTrade)
       IN  \E pairs \in MergeOrders(links) :
               pass' = [pass EXCEPT !.at = "unstamp", !.links = links,
                            !.clusters = SetToSeq(ClusterWallets(links, pairs))]
    /\ UNCHANGED <<world, wallets, tables, lastPass, clusteringBounds>>

\* The trades of a wallet that has some are null; those of a deleted one are gone.
Nulled == [w \in DOMAIN stamp |-> IF w \in wallets THEN {NoStamp} ELSE {}]

Unstamp ==
    /\ pass.at = "unstamp"
    /\ stamp' = Nulled
    /\ pass' = [pass EXCEPT !.at = "deleteMembers"]
    /\ UNCHANGED <<world, wallets, clusterRows, memberRows, unstamped, lastPass,
                   clusteringBounds>>

DeleteMembers ==
    /\ pass.at = "deleteMembers"
    /\ memberRows' = {}
    /\ pass' = [pass EXCEPT !.at = "deleteClusters"]
    /\ UNCHANGED <<world, wallets, clusterRows, stampVars, lastPass, clusteringBounds>>

\* The schema's part in it: deleting a cluster deletes its member rows and
\* nulls the stamps that name it.
DeleteClusters ==
    /\ pass.at = "deleteClusters"
    /\ clusterRows' = <<>>
    /\ memberRows' = {}
    /\ stamp' = Nulled
    /\ pass' = [pass EXCEPT !.at = "recheck"]
    /\ UNCHANGED <<world, wallets, unstamped, lastPass, clusteringBounds>>

\* Members whose wallet is gone are dropped, and clusters left with one.
Surviving(clusters) ==
    SelectSeq([i \in DOMAIN clusters |->
                  [clusters[i] EXCEPT !.members = @ \cap wallets]],
              LAMBDA c : Cardinality(c.members) >= 2)

RecheckWallets ==
    /\ pass.at = "recheck"
    /\ pass' = [pass EXCEPT !.at = "cluster", !.clusters = Surviving(@)]
    /\ UNCHANGED <<world, wallets, tables, lastPass, clusteringBounds>>

CreateCluster ==
    /\ pass.at = "cluster" /\ pass.clusters # <<>>
    /\ LET c  == Head(pass.clusters)
           id == Cardinality(DOMAIN clusterRows) + 1
       IN  /\ clusterRows' = (id :> [walletCount   |-> Cardinality(c.members),
                                     confidenceSum |-> c.confidenceSum]) @@ clusterRows
           /\ pass' = [pass EXCEPT !.at = "members", !.id = id, !.todo = SetToSeq(c.members)]
    /\ UNCHANGED <<world, wallets, memberRows, stampVars, lastPass, clusteringBounds>>

\* One member row; a member whose wallet vanished meanwhile is skipped (P2003).
InsertMember ==
    /\ pass.at = "members" /\ pass.todo # <<>>
    /\ LET w == Head(pass.todo) IN
       memberRows' = memberRows \cup
           (IF w \in wallets
            THEN {[cluster |-> pass.id, wallet |-> w,
                   confidence |-> BestConfidence(pass.links, w)]}
            ELSE {})
    /\ pass' = [pass EXCEPT !.todo = Tail(@)]
    /\ UNCHANGED <<world, wallets, clusterRows, stampVars, lastPass, clusteringBounds>>

\* Every trade a member has by now.
StampTrades ==
    /\ pass.at = "members" /\ pass.todo = <<>>
    /\ LET stamped == Head(pass.clusters).members \cap wallets
       IN  /\ stamp' = [w \in DOMAIN stamp |-> IF w \in stamped THEN {pass.id} ELSE stamp[w]]
           /\ unstamped' = unstamped \ stamped
    /\ pass' = [pass EXCEPT !.at = "cluster", !.clusters = Tail(@)]
    /\ UNCHANGED <<world, wallets, clusterRows, memberRows, lastPass, clusteringBounds>>

\* Every cluster is written: runEntityClustering returns to the job, which
\* goes on to re-score.
Written ==
    /\ pass.at = "cluster" /\ pass.clusters = <<>>
    /\ pass' = [IdlePass EXCEPT !.at = "rescore"]
    /\ UNCHANGED <<world, wallets, tables, lastPass, clusteringBounds>>

\* The job starts the flow-scoring pass.
EnterRescore ==
    /\ pass.at = "rescore"
    /\ pass' = [pass EXCEPT !.at = "rescoring"]
    /\ UNCHANGED <<world, wallets, tables, lastPass, clusteringBounds>>

\* The re-scoring pass has returned: the job is over.
EndJob ==
    /\ pass.at = "rescoring"
    /\ pass' = IdlePass
    /\ lastPass' = "ok"
    /\ UNCHANGED <<world, wallets, tables, clusteringBounds>>

\* A statement throws, or the process dies: what is written stays.
PassFails ==
    /\ pass.at # "idle" /\ clusteringBounds.faults < MaxPassFaults
    /\ pass' = IdlePass
    /\ lastPass' = "failed"
    /\ clusteringBounds' = [clusteringBounds EXCEPT !.faults = @ + 1]
    /\ UNCHANGED <<world, wallets, tables>>

\* Another process deletes a wallet: its member rows and trades go with it.
WalletVanishes ==
    /\ clusteringBounds.vanished < MaxVanish
    /\ \E w \in wallets :
        /\ wallets' = wallets \ {w}
        /\ memberRows' = {m \in memberRows : m.wallet # w}
        /\ stamp' = [stamp EXCEPT ![w] = {}]
        /\ unstamped' = unstamped \ {w}
    /\ clusteringBounds' = [clusteringBounds EXCEPT !.vanished = @ + 1]
    /\ UNCHANGED <<world, clusterRows, pass, lastPass>>

\* upsertTrade: another job stores a trade of a wallet that had some, without a cluster.
TradeIngested ==
    /\ clusteringBounds.ingested < MaxIngested
    /\ \E w \in wallets :
        /\ stamp' = [stamp EXCEPT ![w] = @ \cup {NoStamp}]
        /\ unstamped' = unstamped \cup {w}
    /\ clusteringBounds' = [clusteringBounds EXCEPT !.ingested = @ + 1]
    /\ UNCHANGED <<world, wallets, clusterRows, memberRows, pass, lastPass>>

WriteStep == Unstamp \/ DeleteMembers \/ DeleteClusters \/ RecheckWallets
               \/ CreateCluster \/ InsertMember \/ StampTrades \/ Written

PassStep == StartPass \/ DeriveLinks \/ WriteStep \/ PassFails \/ WalletVanishes
              \/ TradeIngested

-----------------------------------------------------------------------------
Members(id) == {m.wallet : m \in {r \in memberRows : r.cluster = id}}

ClusterIds(w) == {m.cluster : m \in {r \in memberRows : r.wallet = w}}

\* The last pass wrote all it had to write, and none has begun since.
TablesWritten ==
    pass.at \in {"rescore", "rescoring"} \/ (pass.at = "idle" /\ lastPass = "ok")

\* When a pass has written its last row the tables agree with each other: no
\* wallet is in two clusters, a member's trades carry its own cluster - all but
\* those ingested since they were stamped - and nobody else's carry any, though
\* wallets were deleted and trades ingested meanwhile.  And when no wallet
\* was deleted, the clusters are the connected components of the qualifying
\* links, whatever the order the rows came in: the union-find neither splits
\* a component nor joins two, and every row counts the members it has.
WrittenTablesAgree ==
    TablesWritten =>
        /\ \A w \in DOMAIN stamp :
               /\ Cardinality(ClusterIds(w)) <= 1
               /\ ClusterIds(w) \subseteq DOMAIN clusterRows
               /\ stamp[w] \ {NoStamp} = ClusterIds(w)
               /\ ClusterIds(w) # {} /\ w \notin unstamped => NoStamp \notin stamp[w]
        /\ clusteringBounds.vanished = 0 =>
               /\ \A id \in DOMAIN clusterRows :
                      Cardinality(Members(id)) = clusterRows[id].walletCount
               /\ {Members(id) : id \in DOMAIN clusterRows}
                     = Components(Links(wallets, world.edges, world.registry, world.firstTrade))
=============================================================================
