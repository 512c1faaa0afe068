----------------------------- MODULE TokenWindow -----------------------------
(***************************************************************************)
(* What a token's window is: aggregateWindow of packages/core/src/window/  *)
(* aggregate.ts, the rows it is fed (packages/db/src/                      *)
(* fetchAggregateInputs.ts) and the score computed from it (packages/core/ *)
(* src/scoring/flowScore.ts).                                              *)
(*                                                                         *)
(* trades: set of [id, wallet, action, usd, ts, mcap, block]; info: a      *)
(* function from wallets to [watched, profitable, score, labels]; members: *)
(* set of <<wallet, cluster>>; market: set of [id, ts, mcap, liquidity]; Null for *)
(* an unknown number.  Percentages and ratios are kept as pairs            *)
(* <<numerator, denominator>>, so that nothing is rounded.                 *)
(***************************************************************************)
EXTENDS Integers, FiniteSets, FiniteSetsExt

CONSTANTS
    Null,           \* an unknown number
    LongWindow,     \* 1440 minutes, in the model's units
    WHALE_BUY_USD,  \* a single buy of a whale
    InflowSpikeMult,\* settings.rules.A.inflowSpikeMult
    McapMin, McapMax  \* settings.rules.A: the market-cap band

ASSUME WindowAssumption ==
    /\ LongWindow \in Nat \ {0} /\ WHALE_BUY_USD \in Nat /\ InflowSpikeMult \in Nat
    /\ McapMin \in Nat /\ McapMax \in Nat /\ McapMin < McapMax

TOP_HOLDER_COUNT == 5

Least(x, y) == IF x < y THEN x ELSE y
Greatest(x, y) == IF x > y THEN x ELSE y
SumUsd(rows) == MapThenSumSet(LAMBDA t : t.usd, rows)
Wallets(rows) == {t.wallet : t \in rows}
Buys(rows) == {t \in rows : t.action = "BUY"}
Sells(rows) == {t \in rows : t.action = "SELL"}
OfWallet(rows, w) == {t \in rows : t.wallet = w}
Between(rows, first, last) == {t \in rows : first <= t.ts /\ t.ts <= last}

-----------------------------------------------------------------------------
\* resolveWindowBounds: the window ends at the last trade, unless that trade
\* is now or later.
WindowEnd(trades, now) ==
    IF trades # {} /\ Max({t.ts : t \in trades}) < now
    THEN Max({t.ts : t \in trades}) ELSE now

\* The market points a window reads.
Earliest(market) ==
    CHOOSE p \in market : \A q \in market : p.ts < q.ts \/ (p.ts = q.ts /\ p.id <= q.id)
LatestAt(market, t) ==
    LET known == {p \in market : p.ts <= t}
    IN  {p \in known : \A q \in known : p.ts > q.ts \/ (p.ts = q.ts /\ p.id >= q.id)}

(***************************************************************************)
(* loadMarketRows: the points a window reads instead of the whole history. *)
(* A boundary point replaces the earliest when both have one time.         *)
(***************************************************************************)
LoadMarket(market, to, windows) ==
    IF windows = {} THEN market
    ELSE LET boundary == UNION {LatestAt(market, t) : t \in {to} \cup {to - w : w \in windows}}
         IN  boundary \cup (IF market = {} \/ Earliest(market).ts \in {p.ts : p \in boundary}
                            THEN {} ELSE {Earliest(market)})

The(set, field(_)) == IF set = {} THEN Null ELSE field(CHOOSE p \in set : TRUE)

MarketFacts(market, entry, from, to) ==
    LET latest   == LatestAt(market, to)
        start    == LatestAt(market, from)
        mcap     == The(latest, LAMBDA p : p.mcap)
        liq      == The(latest, LAMBDA p : p.liquidity)
        startLiq == The(start, LAMBDA p : p.liquidity)
    IN  [currentMcap  |-> mcap,
         liquidityUsd |-> liq,
         \* mcap / entry - 1, entry being itself a pair
         mcapExpansion |-> IF mcap = Null \/ entry = Null THEN Null
                           ELSE IF entry[1] <= 0 THEN Null
                           ELSE <<mcap * entry[2] - entry[1], entry[1]>>,
         liquidityChange |-> IF startLiq = Null \/ liq = Null THEN Null
                             ELSE IF startLiq <= 0 THEN Null
                             ELSE <<(liq - startLiq) * 100, startLiq>>,
         tokenAge |-> IF market = {} THEN Null ELSE to - Earliest(market).ts]

-----------------------------------------------------------------------------
(***************************************************************************)
(* aggregateWindow.                                                        *)
(***************************************************************************)
IsSmart(info, w) == w \in DOMAIN info /\ (info[w].watched \/ info[w].profitable)

SoldMost(sold, position) == 100 * sold >= 80 * position

\* Net position before the window, of the wallets that hold one.
PreWindowNet(trades, from, w) ==
    LET before == {t \in OfWallet(trades, w) : t.ts < from}
    IN  SumUsd(Buys(before)) - SumUsd(Sells(before))
Holders(trades, from) == {w \in Wallets(trades) : PreWindowNet(trades, from, w) > 0}

\* The five largest holders; a tie at the cut is settled one way or another.
TopHolders(trades, from) ==
    LET holders == Holders(trades, from)
        net(w)  == PreWindowNet(trades, from, w)
        k       == Least(TOP_HOLDER_COUNT, Cardinality(holders))
    IN  CHOOSE S \in kSubset(k, holders) :
            \A w \in S, v \in holders \ S : net(w) >= net(v)

EntryMcap(trades, info) ==
    LET known == {t \in Buys(trades) : t.mcap # Null /\ t.wallet \in DOMAIN info}
    IN  IF SumUsd(known) > 0
        THEN <<MapThenSumSet(LAMBDA t : t.usd * t.mcap, known), SumUsd(known)>>
        ELSE Null

\* uniqueEntityCount: the clusters of the smart buyers, and each of the smart
\* buyers that is in none.
ClusterOf(members, w) == {m \in members : m[1] = w}
Entities(members, buyers) ==
    Cardinality({(CHOOSE m \in ClusterOf(members, w) : TRUE)[2] :
                    w \in {b \in buyers : ClusterOf(members, b) # {}}})
      + Cardinality({b \in buyers : ClusterOf(members, b) = {}})

ExitedSmart(trades, info, from, inWindow) ==
    LET sold(w)   == SumUsd(Sells(OfWallet(inWindow, w)))
        bought(w) == SumUsd(Buys(OfWallet(inWindow, w)))
        smart     == {w \in Wallets(trades) : IsSmart(info, w)}
        holders   == smart \cap Holders(trades, from)
        fresh     == (smart \cap Wallets(Buys(inWindow))) \ holders
        exited    == {w \in holders : SoldMost(sold(w), PreWindowNet(trades, from, w))}
                       \cup {w \in fresh : bought(w) > 0 /\ SoldMost(sold(w), bought(w))}
    IN  IF holders \cup fresh = {} THEN <<0, 1>>
        ELSE <<100 * Cardinality(exited), Cardinality(holders \cup fresh)>>

\* Only the long window: how the wallets accumulated towards its end.
Accumulation(trades, info, to, inWindow, units) ==
    LET buyersOf(n) == Cardinality(Wallets(Between(Buys(trades), to - n, to)) \cap DOMAIN info)
        buyers      == Wallets(Buys(inWindow))
        sold        == buyers \cap Wallets({t \in Sells(inWindow) : t.usd > 0})
    IN  [last |-> [n \in units |-> buyersOf(n)],
         percentSold |-> IF buyers = {} THEN <<0, 1>>
                         ELSE <<100 * Cardinality(sold), Cardinality(buyers)>>]

AggregateWindow(trades, info, members, market, window, now, units) ==
    LET to       == WindowEnd(trades, now)
        from     == to - window
        inWindow == Between(trades, from, to)
        tracked  == {t \in inWindow : t.wallet \in DOMAIN info}
        buyers   == Wallets(Buys(inWindow))
        smart    == {w \in buyers : IsSmart(info, w)}
        bought(w) == Buys(OfWallet(inWindow, w))
        firstBuy(w) == CHOOSE t \in bought(w) : \A u \in bought(w) :
                           t.ts < u.ts \/ (t.ts = u.ts /\ t.id <= u.id)
        whales   == {w \in buyers : \E t \in bought(w) : t.usd >= WHALE_BUY_USD}
        labelled(S) == {w \in buyers \cap DOMAIN info : info[w].labels \cap S # {}}
        entry    == EntryMcap(inWindow, info)
        trailing == {t \in Buys(trades) : /\ t.wallet \in DOMAIN info
                                          /\ from - window <= t.ts /\ t.ts < from}
        buyVolume  == SumUsd(Buys(tracked))
        sellVolume == SumUsd(Sells(tracked))
        perCluster == {Cardinality({w \in smart : <<w, m[2]>> \in members}) : m \in members}
    IN  [from |-> from, to |-> to, buyers |-> buyers, smart |-> smart,
         sellers |-> {w \in buyers : \E t \in Sells(OfWallet(inWindow, w)) : t.usd > 0},
         firstBlock |-> [w \in buyers |-> firstBuy(w).block],
         trackedBuyVolumeUsd |-> buyVolume, trackedSellVolumeUsd |-> sellVolume,
         netFlowUsd |-> buyVolume - sellVolume,
         buySellRatio |-> IF sellVolume > 0 THEN <<buyVolume, sellVolume>>
                          ELSE IF buyVolume > 0 THEN <<999, 1>> ELSE <<0, 1>>,
         smartWalletCount |-> Cardinality(smart),
         humanLikeCount |-> Cardinality(labelled({"human_like"})),
         humanOrSmartLabelCount |-> Cardinality(labelled({"human_like", "smart_money"})),
         possibleBotCount |-> Cardinality(labelled({"possible_bot"})),
         whaleBuys |-> [w \in whales |-> Max({t.usd : t \in bought(w)})],
         uniqueEntityCount |-> Entities(members, smart),
         largestClusterSize |-> IF perCluster = {} THEN 0 ELSE Max(perCluster),
         avgEntryMcap |-> entry,
         market |-> MarketFacts(market, entry, from, to),
         trailingBuyVolumeUsd |-> SumUsd(trailing),
         inflowSpike |-> SumUsd(trailing) > 0 /\ buyVolume >= InflowSpikeMult * SumUsd(trailing),
         exitedSmartPct |-> ExitedSmart(trades, info, from, inWindow),
         topHolderExits |-> Cardinality({w \in TopHolders(trades, from) :
             SoldMost(SumUsd(Sells(OfWallet(inWindow, w))), PreWindowNet(trades, from, w))}),
         newSmartBuyers |-> Cardinality({w \in smart :
             firstBuy(w).ts = Min({t.ts : t \in OfWallet(trades, w)})}),
         earlyWindowBuyerCount |-> Cardinality({w \in buyers : 2 * (firstBuy(w).ts - from) < window}),
         accumulation |-> IF window = LongWindow
                          THEN Accumulation(trades, info, to, inWindow, units) ELSE Null]

-----------------------------------------------------------------------------
(***************************************************************************)
(* computeFlowScore, in thousandths of a point (each component truncated). *)
(***************************************************************************)
Thousandths(num, den) == (1000 * num) \div den

FlowComponents(agg, info, penalty) ==
    LET n == Cardinality(agg.buyers)
        entry == agg.avgEntryMcap
        expansion == agg.market.mcapExpansion
        band == IF entry = Null THEN 0
                ELSE Greatest(0, Least(Thousandths(entry[1] - McapMin * entry[2],
                                                   entry[2] * (McapMax - McapMin)), 1000))
    IN  [smartWalletCount  |-> Least(Thousandths(agg.smartWalletCount, 40), 1000) * 20,
         uniqueEntityCount |-> Least(Thousandths(agg.uniqueEntityCount, 25), 1000) * 15,
         netFlow           |-> Greatest(0, Least(Thousandths(agg.netFlowUsd, 50000), 1000)) * 15,
         walletQuality     |-> IF n = 0 THEN 0 ELSE 15 *
                               Thousandths(MapThenSumSet(LAMBDA w : info[w].score,
                                                         agg.buyers \cap DOMAIN info), 100 * n),
         humanRatio        |-> 10 * Thousandths(agg.humanLikeCount,
                                                Greatest(agg.smartWalletCount, 1)),
         mcapEfficiency    |-> IF entry = Null THEN 0 ELSE (1000 - band) * 10,
         accumulation      |-> IF expansion = Null THEN 0
                               ELSE (1000 - Least(Thousandths(expansion[1], 2 * expansion[2]), 1000)) * 10,
         riskSanity        |-> (1000 - penalty) * 5]

FlowScore(agg, info, penalty) ==
    LET components == FlowComponents(agg, info, penalty)
    IN  Least(100000, Greatest(0, MapThenSumSet(LAMBDA c : components[c], DOMAIN components)))
=============================================================================
