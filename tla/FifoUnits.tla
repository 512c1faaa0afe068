------------------------------ MODULE FifoUnits ------------------------------
(***************************************************************************)
(* computeFifoPnl over the trades a wallet made in one token, which become *)
(* known in any order, held against the same profit counted by single      *)
(* units: the k-th unit that is sold while there is one to sell is the     *)
(* k-th that was bought.                                                   *)
(***************************************************************************)
EXTENDS FifoPnl

CONSTANTS
    Trades,         \* the trades that may have been made
    CurrentPrices   \* prices the token may have, NoPrice among them

ASSUME FifoTradesAssumption == \A t \in Trades : t.amount > 0 => Scale % t.amount = 0

VARIABLES traded,   \* the trades known so far, in the order they became known
          price

fifoVars == <<traded, price>>

FifoInit == traded = <<>> /\ price \in CurrentPrices

\* A trade becomes known; ingest may bring them in any order.
TradeKnown ==
    /\ \E t \in Trades : t \notin ToSet(traded) /\ traded' = Append(traded, t)
    /\ UNCHANGED price

-----------------------------------------------------------------------------
Before(t) == {s \in ToSet(traded) : s.ts < t.ts}
Units(trades) == MapThenSumSet(LAMBDA t : t.amount, trades)
BuysIn(trades) == {t \in trades : t.action = "BUY"}
SellsIn(trades) == {t \in trades : t.action = "SELL"}

\* Units backed by inventory of a sale, by the running balance.
SoldUnits ==
    LET backed[t \in ToSet(traded)] ==
            IF t.action = "BUY" THEN 0
            ELSE Min({t.amount, Units(BuysIn(Before(t)))
                                  - MapThenSumSet(LAMBDA s : backed[s], SellsIn(Before(t)))})
    IN  backed

\* The cost of the first k units ever bought.
CostOfFirst(k) ==
    MapThenSumSet(LAMBDA b :
        CostOf(b, Max({0, Min({b.amount, k - Units(BuysIn(Before(b)))})})),
        {b \in BuysIn(ToSet(traded)) : b.amount > 0})

\* Whatever order the trades became known in, the profit is that of matching
\* unit by unit: realized and unrealized add up to what the sales brought and
\* what is held is worth, less all that was paid, and what was sold without
\* having been bought counts for nothing.
FifoMatchesUnits ==
    LET result == ComputeFifoPnl(traded, price)
        sold   == SoldUnits
        out    == MapThenSumSet(LAMBDA t : sold[t], SellsIn(ToSet(traded)))
        bought == Units(BuysIn(ToSet(traded)))
        brought == MapThenSumSet(LAMBDA t : IF t.amount = 0 THEN 0 ELSE ProceedsOf(t, sold[t]),
                                 SellsIn(ToSet(traded)))
    IN  /\ result.realized = brought - CostOfFirst(out)
        /\ price # NoPrice =>
               result.unrealized = (bought - out) * price * Scale
                                     - (CostOfFirst(bought) - CostOfFirst(out))
        /\ result.wins <= result.sells
=============================================================================
