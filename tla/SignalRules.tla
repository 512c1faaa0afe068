----------------------------- MODULE SignalRules -----------------------------
(***************************************************************************)
(* The seven rules: packages/core/src/rules/ruleA.ts .. ruleG.ts, each a   *)
(* severity for a window (INFO when it did not fire), and which of two     *)
(* windows each of them looks at (index.ts).                               *)
(*                                                                         *)
(* A percentage is never divided out: x / y >= p per cent is kept as       *)
(* 100 * x >= p * y.  A funding event is [ts, usd, fresh, buys], buys the  *)
(* funded wallet's first buy of the token if it made one; a rotation is    *)
(* [token, profit, sent, received, receiptTs, buyTs, mcap].                *)
(***************************************************************************)
EXTENDS TokenWindow

CONSTANTS
    RuleSettings,   \* settings.rules: a record of the records A .. G
    ShortWindow     \* 30 minutes, in the model's units

Rules == {"A", "B", "C", "D", "E", "F", "G"}

AtLeast(x, floor) == x # Null /\ x >= floor
AtMost(x, cap) == x # Null /\ x <= cap
InBand(x, y, low, high) == low * y <= 100 * x /\ 100 * x <= high * y

When(fires, severity) == IF fires THEN severity ELSE "INFO"

\* Smart wallets pile into a small, liquid, young or suddenly busy token.
RuleA(agg) ==
    LET A == RuleSettings.A
        high == /\ agg.smartWalletCount >= A.minWallets
                /\ agg.trackedBuyVolumeUsd >= A.minBuyVolumeUsd
                /\ agg.netFlowUsd > 0
                /\ agg.buyers # {} => 100 * Cardinality(agg.sellers)
                                        < A.maxSoldPct * Cardinality(agg.buyers)
                /\ AtLeast(agg.market.currentMcap, McapMin)
                /\ AtMost(agg.market.currentMcap, McapMax)
                /\ AtLeast(agg.market.liquidityUsd, A.minLiquidityUsd)
                /\ \/ agg.market.tokenAge # Null /\ agg.market.tokenAge < A.maxTokenAge
                   \/ agg.inflowSpike
    IN  IF agg.smartWalletCount < A.watchMinWallets THEN "INFO"
        ELSE IF high THEN "HIGH" ELSE "WATCH"

\* The early buyers were joined by more, and the price has not run away.
RuleB(agg) ==
    LET B == RuleSettings.B
        e == agg.market.mcapExpansion
    IN  When(/\ agg.earlyWindowBuyerCount >= B.baseWallets
             /\ agg.smartWalletCount >= B.targetWallets
             /\ e # Null /\ e[1] + e[2] <= B.maxMcapExpansion * e[2]
             /\ agg.trackedBuyVolumeUsd > 0 =>
                    100 * agg.trackedSellVolumeUsd
                      <= B.maxSellToBuyPct * agg.trackedBuyVolumeUsd, "WATCH")

\* The buyers look human, and did not all come in one block.
RuleC(agg) ==
    LET C == RuleSettings.C
        n == Cardinality(agg.buyers)
        inBlock(b) == Cardinality({w \in agg.buyers : agg.firstBlock[w] = b})
    IN  When(/\ n > 0
             /\ 100 * agg.humanOrSmartLabelCount >= C.minHumanPct * n
             /\ 100 * agg.possibleBotCount <= C.maxBotPct * n
             /\ \A w \in agg.buyers :
                    100 * inBlock(agg.firstBlock[w]) <= C.maxSingleBlockBuysPct * n, "WATCH")

\* A whale buys along with smart wallets, and hardly anyone sells.
RuleD(agg) ==
    LET D == RuleSettings.D IN
    When(/\ \E w \in DOMAIN agg.whaleBuys : agg.whaleBuys[w] >= D.minWhaleBuyUsd
         /\ agg.smartWalletCount >= D.minWallets
         /\ agg.buySellRatio[1] > D.minBuySellRatio * agg.buySellRatio[2], "HIGH")

\* A fresh wallet was funded and bought this token soon after.
RuleE(events) ==
    LET E == RuleSettings.E IN
    When(\E e \in events : e.fresh /\ \E b \in e.buys :
            /\ AtMost(b.mcap, E.maxMcap)
            /\ E.minDelay <= b.ts - e.ts /\ b.ts - e.ts <= E.maxDelay
            /\ IF e.usd > 0
               THEN InBand(b.usd, e.usd, E.minBuyToFundingPct, E.maxBuyToFundingPct)
               ELSE E.minBuyToFundingPct <= 0, "HIGH")

\* A profit taken elsewhere came here through another wallet.
RuleF(rotations, token) ==
    LET F == RuleSettings.F IN
    When(\E r \in rotations :
            /\ r.token = token
            /\ r.profit >= F.minRealizedProfitUsd
            /\ AtMost(r.mcap, F.maxMcap)
            /\ r.sent > 0 /\ InBand(r.received, r.sent, F.minValueMatchPct, F.maxValueMatchPct)
            /\ r.buyTs - r.receiptTs <= F.maxBuyDelay, "HIGH")

\* Those who know are leaving, or the pool is drying up.
RuleG(agg) ==
    LET G == RuleSettings.G
        e == agg.market.mcapExpansion
        l == agg.market.liquidityChange
        x == agg.exitedSmartPct
    IN  When(\/ x[1] >= G.minExitedPct * x[2]
             \/ agg.netFlowUsd < 0 /\ agg.topHolderExits >= 3
             \/ l # Null /\ l[1] <= -G.liquidityDropPct * l[2]
             \/ /\ e # Null /\ 100 * e[1] >= G.mcapPumpPct * e[2]
                /\ agg.newSmartBuyers < G.maxNewSmartBuyers, "CRITICAL")

\* evaluateAllRules: the short window for A, C, D, E, the long one for B, F, G.
EvaluateAllRules(agg30, agg24h, events, rotations, token) ==
    [r \in Rules |->
        CASE r = "A" -> RuleA(agg30)
          [] r = "B" -> RuleB(agg24h)
          [] r = "C" -> RuleC(agg30)
          [] r = "D" -> RuleD(agg30)
          [] r = "E" -> RuleE(events)
          [] r = "F" -> RuleF(rotations, token)
          [] r = "G" -> RuleG(agg24h)]

FiredRules(results) == {r \in Rules : results[r] # "INFO"}
=============================================================================
