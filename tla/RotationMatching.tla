--------------------------- MODULE RotationMatching ---------------------------
(***************************************************************************)
(* What rules E and F are fed: the funding events of a token               *)
(* (packages/db/src/fundingEvents.ts) and the profit rotations             *)
(* (packages/db/src/rotation.ts, packages/core/src/rotation/matcher.ts).   *)
(*                                                                         *)
(* rows is [trades, edges, info]: trades as in TokenWindow with the token  *)
(* and amount of each; a money-flow edge is [id, src, dst, action, usd,    *)
(* ts, protocol]; info has an entry for each address that is a wallet.  An *)
(* id stands for the order the database returns the rows in.               *)
(***************************************************************************)
EXTENDS SignalRules, FifoPnl

CONSTANT BridgeLegWindow    \* two hours, in the model's units

EdgesOf(rows, action, from, to) ==
    {e \in Between(rows.edges, from, to) : e.action = action}

Known(rows, address) == address \in DOMAIN rows.info

FirstOf(set) == CHOOSE x \in set : \A y \in set : x.ts < y.ts \/ (x.ts = y.ts /\ x.id <= y.id)
FirstIfAny(set) == IF set = {} THEN {} ELSE {FirstOf(set)}

-----------------------------------------------------------------------------
\* buildFundingEvents.  Freshness looks at every trade the wallet ever made,
\* the first buy at this token's.
FundingEvents(rows, token, from, to) ==
    LET ofToken(w) == {t \in Buys(OfWallet(rows.trades, w)) : t.token = token}
    IN  {[ts |-> e.ts, usd |-> e.usd,
          fresh |-> \A t \in OfWallet(rows.trades, e.dst) : t.ts > e.ts,
          buys |-> FirstIfAny(ofToken(e.dst))] :
            e \in {f \in EdgesOf(rows, "transfer", from, to) :
                       /\ Known(rows, f.src) /\ Known(rows, f.dst)
                       /\ IsSmart(rows.info, f.src)}}

-----------------------------------------------------------------------------
(***************************************************************************)
(* pairBridgeLegs: the pairs that may be one hop, closest amounts first,   *)
(* each leg in one pair at most.                                           *)
(***************************************************************************)
Hi(p) == Greatest(p[1].usd, p[2].usd)
Lo(p) == Least(p[1].usd, p[2].usd)

MayHop(p) ==
    /\ p[1].usd > 0 /\ p[2].usd > 0
    /\ p[1].protocol = p[2].protocol
    /\ p[1].ts - p[2].ts \in -BridgeLegWindow..BridgeLegWindow
    /\ 10 * Lo(p) >= 9 * Hi(p)

\* The ratio decides; between equal ratios the order of the rows.
TakenFirst(p, q) ==
    LET x == Lo(p) * Hi(q)
        y == Lo(q) * Hi(p)
    IN  \/ x > y
        \/ x = y /\ (p[1].id < q[1].id \/ (p[1].id = q[1].id /\ p[2].id <= q[2].id))

PairBridgeLegs(deposits, withdrawals) ==
    LET pick[C \in SUBSET (deposits \X withdrawals)] ==
            IF C = {} THEN {}
            ELSE LET best == CHOOSE p \in C : \A q \in C : TakenFirst(p, q)
                 IN  {best} \cup pick[{q \in C : q[1] # best[1] /\ q[2] # best[2]}]
    IN  pick[{p \in deposits \X withdrawals : MayHop(p)}]

BridgeHopsIn(rows, from, to) ==
    PairBridgeLegs(EdgesOf(rows, "bridge_deposit", from, to),
                   EdgesOf(rows, "bridge_withdrawal", from, to))

\* Money that moved from one known wallet to another: [id, from, to, usd, ts].
Leg(e, source, dest) == [id |-> e.id, from |-> source, to |-> dest, usd |-> e.usd, ts |-> e.ts]

BetweenWallets(rows, legs) == {l \in legs : Known(rows, l.from) /\ Known(rows, l.to)}

Direct(rows, from, to) == {Leg(e, e.src, e.dst) : e \in EdgesOf(rows, "transfer", from, to)}

TransferLegs(rows, from, to) ==
    BetweenWallets(rows, Direct(rows, from, to)
        \cup {Leg(h[1], h[1].src, h[2].dst) : h \in BridgeHopsIn(rows, from, to)})

ReceiptLegs(rows, from, to) ==
    BetweenWallets(rows, Direct(rows, from, to)
        \cup {Leg(h[2], h[1].src, h[2].dst) : h \in BridgeHopsIn(rows, from, to)})

\* The sales in the window, each with what the wallet had made on the token
\* when it was done.
ProfitExits(rows, from, to) ==
    {[wallet |-> s.wallet, ts |-> s.ts,
      profit |-> ComputeFifoPnl(SetToSortSeq({t \in OfWallet(rows.trades, s.wallet) :
                                                  t.token = s.token /\ t.ts <= s.ts},
                                             LAMBDA t, u : t.id < u.id),
                                NoPrice).realized] :
        s \in Between(Sells(rows.trades), from, to)}

-----------------------------------------------------------------------------
\* findEarliestMatchingReceipt.
MatchingReceipt(transfer, receipts) ==
    FirstIfAny({r \in receipts :
        /\ r.from = transfer.from /\ r.to = transfer.to
        /\ r.ts >= transfer.ts
        /\ transfer.usd > 0
        /\ InBand(r.usd, transfer.usd, RuleSettings.F.minValueMatchPct,
                  RuleSettings.F.maxValueMatchPct)})

\* findEarliestQualifyingDestBuy: of any token.
QualifyingBuy(receipt, buys) ==
    FirstIfAny({b \in OfWallet(buys, receipt.to) :
        /\ AtMost(b.mcap, RuleSettings.F.maxMcap)
        /\ b.ts - receipt.ts \in 0..RuleSettings.F.maxBuyDelay})

\* matchRotations over buildRotationInputs.
Rotations(rows, from, to) ==
    LET F         == RuleSettings.F
        exits     == {x \in ProfitExits(rows, from, to) :
                          x.profit >= F.minRealizedProfitUsd * Scale}
        transfers == TransferLegs(rows, from, to)
        receipts  == ReceiptLegs(rows, from, to)
        buys      == Between(Buys(rows.trades), from, to)
    IN  UNION {UNION {UNION {
            {[token |-> b.token, profit |-> x.profit \div Scale, sent |-> t.usd,
              received |-> r.usd, transferTs |-> t.ts, receiptTs |-> r.ts,
              buyTs |-> b.ts, mcap |-> b.mcap] : b \in QualifyingBuy(r, buys)} :
            r \in MatchingReceipt(t, receipts)} :
            t \in {l \in transfers : l.from = x.wallet
                       /\ l.ts - x.ts \in 0..F.maxTransferDelay}} :
            x \in exits}
=============================================================================
