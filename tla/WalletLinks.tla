----------------------------- MODULE WalletLinks -----------------------------
(***************************************************************************)
(* Which wallets belong together.                                          *)
(*                                                                         *)
(* The evidence a pair of wallets has is read off the money-flow rows      *)
(* (deriveCandidateLinks in packages/db/src/clustering.ts), weighed into a *)
(* confidence (packages/core/src/cluster/linkConfidence.ts), and the pairs *)
(* at or above the threshold are merged by a union-find with path          *)
(* compression and union by rank (unionFind.ts, clusterer.ts).             *)
(*                                                                         *)
(* Data: E is a set of money-flow rows [id, src, dst, action, usd, ts],    *)
(* id standing for the order the database returns them in; W the set of    *)
(* wallets (a wallet is named by its address); R the registry, a function  *)
(* from some addresses to categories; T a function from the wallets that   *)
(* ever traded to the time of their first trade.  Times are minutes.       *)
(***************************************************************************)
EXTENDS Integers, FiniteSets, Sequences, SequencesExt

CONSTANT EntityThreshold    \* settings.entityConfidenceThreshold

ASSUME EntityThresholdAssumption == EntityThreshold \in 0..100

BRIDGE_MATCH_WINDOW == 120
FRESH_BUY_WINDOW == 60
DUST_USD == 10

MaxOf(x, y) == IF x > y THEN x ELSE y
MinOf(x, y) == IF x < y THEN x ELSE y
Distance(x, y) == MaxOf(x, y) - MinOf(x, y)

\* min / max >= 0.9, over amounts of which the larger is positive
Similar(lo, hi) == 10 * lo >= 9 * hi

-----------------------------------------------------------------------------
(***************************************************************************)
(* Evidence.                                                               *)
(***************************************************************************)

\* The pairs of distinct members of a set.
PairsOf(S) == {p \in SUBSET S : Cardinality(p) = 2}

\* Rows straight from one wallet of the set to the other.
DirectRows(E, p) == {e \in E : {e.src, e.dst} = p}

Transfers(E, p) == {e \in DirectRows(E, p) : e.action = "transfer"}

\* A deposit by one wallet and a withdrawal to another, close in amount and
\* in time: the same actor crossing a bridge.
BridgeHops(W, E) ==
    {h \in {e \in E : e.action = "bridge_deposit" /\ e.src \in W}
           \X {e \in E : e.action = "bridge_withdrawal" /\ e.dst \in W} :
        /\ h[1].src # h[2].dst
        /\ Distance(h[1].ts, h[2].ts) <= BRIDGE_MATCH_WINDOW
        /\ h[1].usd > 0 /\ h[2].usd > 0
        /\ Similar(MinOf(h[1].usd, h[2].usd), MaxOf(h[1].usd, h[2].usd))}

Hops(W, E, p) == {h \in BridgeHops(W, E) : {h[1].src, h[2].dst} = p}

\* The wallets with a row to or from an address.
Touching(W, E, a) ==
    {w \in W : \E e \in E : <<e.src, e.dst>> \in {<<a, w>>, <<w, a>>}}

\* The pairs that both touch one registered address of these categories.
Via(W, E, R, categories) ==
    UNION {PairsOf(Touching(W, E, a)) : a \in {x \in DOMAIN R : R[x] \in categories}}

\* The first row that brought money to a wallet, and who sent it.
Incoming(E, w) == {e \in E : e.dst = w}
EarliestIncoming(E, w) ==
    CHOOSE e \in Incoming(E, w) :
        \A f \in Incoming(E, w) : e.ts < f.ts \/ (e.ts = f.ts /\ e.id <= f.id)

FundedBy(W, E, s) ==
    {w \in W : Incoming(E, w) # {} /\ EarliestIncoming(E, w).src = s}

SharedFunders(W, E) ==
    {s \in {e.src : e \in E} : Cardinality(FundedBy(W, E, s)) >= 2}

SameFundingPairs(W, E) ==
    UNION {PairsOf(FundedBy(W, E, s)) : s \in SharedFunders(W, E)}

\* A tracked funder of several, with each wallet it funded.
FunderPairs(W, E) ==
    UNION {{{s, w} : w \in FundedBy(W, E, s) \ {s}} : s \in SharedFunders(W, E) \cap W}

\* Every pair that gets an accumulator, or shares its funding source.
CandidatePairs(W, E, R) ==
    {p \in PairsOf(W) : DirectRows(E, p) # {} \/ Hops(W, E, p) # {}}
      \cup Via(W, E, R, {"CEX", "MIXER", "ROUTER"})
      \cup SameFundingPairs(W, E) \cup FunderPairs(W, E)

\* A wallet that had never traded before its first money came.
Fresh(E, T, w) ==
    /\ Incoming(E, w) # {}
    /\ w \in DOMAIN T => T[w] > EarliestIncoming(E, w).ts

\* A wallet that traded within the hour after its first money came.
BoughtSoon(E, T, w) ==
    /\ Incoming(E, w) # {} /\ w \in DOMAIN T
    /\ T[w] - EarliestIncoming(E, w).ts \in 0..FRESH_BUY_WINDOW

\* The two amounts whose likeness is judged: the least and the greatest of
\* two or more transfers, else those of the first bridge hop; else none.
Amounts(W, E, p) ==
    LET usd == {e.usd : e \in Transfers(E, p)} IN
    IF Cardinality(Transfers(E, p)) >= 2
    THEN IF Max(usd) > 0 THEN {<<Min(usd), Max(usd)>>} ELSE {}
    ELSE IF Hops(W, E, p) = {} THEN {}
    ELSE LET h == CHOOSE h \in Hops(W, E, p) : \A k \in Hops(W, E, p) :
                     h[1].id < k[1].id \/ (h[1].id = k[1].id /\ h[2].id <= k[2].id)
         IN  {<<MinOf(h[1].usd, h[2].usd), MaxOf(h[1].usd, h[2].usd)>>}

Evidence(W, E, R, T, p) ==
    LET direct == Transfers(E, p) IN
    [directTransfer           |-> direct # {},
     repeatedDirectTransfers  |-> Cardinality(direct) >= 2,
     sameFundingSource        |-> p \in SameFundingPairs(W, E),
     bridgeAmountTimeMatch    |-> Hops(W, E, p) # {},
     amountSimilarityAbove90  |-> \E a \in Amounts(W, E, p) : Similar(a[1], a[2]),
     destBuysNewTokenWithin60m |-> \E w \in p : BoughtSoon(E, T, w),
     freshWalletActivated     |-> \E w \in p : Fresh(E, T, w),
     cexOrMixerInterruption   |-> p \in Via(W, E, R, {"CEX", "MIXER"}),
     routerOnlyInteraction    |-> p \in Via(W, E, R, {"ROUTER"}) /\ direct = {},
     weakAmountMatch          |-> \E a \in Amounts(W, E, p) : ~Similar(a[1], a[2]),
     dustOnlyInteraction      |-> direct # {} /\ \A e \in direct : e.usd < DUST_USD]

(***************************************************************************)
(* calculateWalletLinkConfidence.  Three fields the code always leaves     *)
(* false (sameGasFunder, sameTokenRotation, repeatedCrossLaunchPattern)    *)
(* weigh nothing and are left out.                                         *)
(***************************************************************************)
LinkWeight ==
    [directTransfer |-> 35, repeatedDirectTransfers |-> 20, sameFundingSource |-> 25,
     bridgeAmountTimeMatch |-> 30, amountSimilarityAbove90 |-> 15,
     destBuysNewTokenWithin60m |-> 15, freshWalletActivated |-> 15,
     cexOrMixerInterruption |-> -30, routerOnlyInteraction |-> -20,
     weakAmountMatch |-> -15, dustOnlyInteraction |-> -25]

LinkConfidence(evidence) ==
    MaxOf(0, MinOf(100, MapThenSumSet(LAMBDA f : LinkWeight[f],
                                      {f \in DOMAIN LinkWeight : evidence[f]})))

Links(W, E, R, T) ==
    {[pair |-> p, confidence |-> LinkConfidence(Evidence(W, E, R, T, p))] :
        p \in CandidatePairs(W, E, R)}

Qualifying(links) == {l \in links : l.confidence >= EntityThreshold}

-----------------------------------------------------------------------------
(***************************************************************************)
(* Union-find: a forest of parents and the rank of every root.             *)
(***************************************************************************)
EmptyForest == [parent |-> <<>>, rank |-> <<>>]

Ensure(uf, x) ==
    IF x \in DOMAIN uf.parent THEN uf
    ELSE [parent |-> (x :> x) @@ uf.parent, rank |-> (x :> 0) @@ uf.rank]

\* The nodes on the way from x to its root, both included.
WayUp(parent, x) ==
    LET way[n \in DOMAIN parent] ==
            IF parent[n] = n THEN {n} ELSE {n} \cup way[parent[n]]
    IN  way[x]

RootOf(parent, x) == CHOOSE r \in WayUp(parent, x) : parent[r] = r

\* find: every node passed on the way is pointed at the root.
Find(uf, x) ==
    LET known == Ensure(uf, x)
        root  == RootOf(known.parent, x)
    IN  [known EXCEPT !.parent = [n \in DOMAIN @ |->
                                    IF n \in WayUp(@, x) THEN root ELSE @[n]]]

\* Faulty variant: the second wallet itself is hung below the first one's
\* root, and what hung together with it stays behind.
UnionOfLeaf(uf, a, b) ==
    LET found == Find(Find(uf, a), b)
    IN  [found EXCEPT !.parent[b] = RootOf(found.parent, a)]

UnionByRank(uf, a, b) ==
    LET found == Find(Find(uf, a), b)
        ra    == RootOf(found.parent, a)
        rb    == RootOf(found.parent, b)
    IN  IF ra = rb THEN found
        ELSE IF found.rank[ra] < found.rank[rb]
        THEN [found EXCEPT !.parent[ra] = rb]
        ELSE [found EXCEPT !.parent[rb] = ra,
                           !.rank[ra] = IF found.rank[rb] = @ THEN @ + 1 ELSE @]

\* buildClusters: the groups after the pairs were merged in this order.
BuildClusters(pairs) ==
    LET forest == FoldLeft(LAMBDA uf, p : UnionByRank(uf, p[1], p[2]), EmptyForest, pairs)
        nodes  == DOMAIN forest.parent
    IN  {{n \in nodes : RootOf(forest.parent, n) = r} :
            r \in {n \in nodes : forest.parent[n] = n}}

\* A member's own strongest qualifying link.
BestConfidence(links, w) ==
    Max({l.confidence : l \in {k \in Qualifying(links) : w \in k.pair}})

(***************************************************************************)
(* clusterWallets, with the qualifying links in a given order and each     *)
(* pair in a given orientation (the order rows came back in).  A cluster's *)
(* confidence is the mean of its members' best: the sum is kept, the       *)
(* division by the number of members left out.                             *)
(***************************************************************************)
ClusterWallets(links, pairs) ==
    {[members |-> g, confidenceSum |-> MapThenSumSet(LAMBDA w : BestConfidence(links, w), g)] :
        g \in {h \in BuildClusters(pairs) : Cardinality(h) >= 2}}

\* The orders in which the qualifying pairs may be merged.
MergeOrders(links) ==
    {[i \in DOMAIN s |-> SetToSeq(s[i].pair)] : s \in SetToSeqs(Qualifying(links))}

-----------------------------------------------------------------------------
(***************************************************************************)
(* What the groups should be: the connected components of the qualifying   *)
(* pairs, by Warshall's algorithm over the linked wallets.                 *)
(***************************************************************************)
Linked(links) == UNION {l.pair : l \in Qualifying(links)}

Connected(links) ==
    LET C[N \in SUBSET Linked(links)] ==
            IF N = {}
            THEN [m, n \in Linked(links) |->
                    m = n \/ \E l \in Qualifying(links) : l.pair = {m, n}]
            ELSE LET u  == CHOOSE u \in N : TRUE
                     Cu == C[N \ {u}]
                 IN  [m, n \in Linked(links) |-> Cu[m, n] \/ (Cu[m, u] /\ Cu[u, n])]
    IN  C[Linked(links)]

Components(links) ==
    LET connected == Connected(links)
    IN  {{n \in Linked(links) : connected[m, n]} : m \in Linked(links)}
=============================================================================
