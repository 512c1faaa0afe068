------------------------------- MODULE FifoPnl -------------------------------
(***************************************************************************)
(* Profit of a position by first in, first out: computeFifoPnl of          *)
(* packages/core/src/pnl/fifo.ts.                                          *)
(*                                                                         *)
(* Trades are a sequence of [id, action, amount, usd, ts].  Sums of money  *)
(* are in units of 1/Scale dollars, every amount of tokens dividing Scale, *)
(* so that no cost per unit is rounded.                                    *)
(***************************************************************************)
EXTENDS Integers, Sequences, FiniteSets, FiniteSetsExt, SequencesExt

CONSTANTS
    NoPrice,        \* the price of a token that has none
    Scale           \* a multiple of every amount

ASSUME FifoAssumption == Scale \in Nat \ {0}

-----------------------------------------------------------------------------
\* Faulty variant: the trades are taken in the order they come in.
AsGiven(trades) == trades

\* The trades in the order of their times; the sort is stable.
ByTime(trades) ==
    LET before(i, j) == trades[i].ts < trades[j].ts \/ (trades[i].ts = trades[j].ts /\ i < j)
        rank(i) == Cardinality({j \in DOMAIN trades : before(j, i)}) + 1
    IN  [n \in DOMAIN trades |-> trades[CHOOSE i \in DOMAIN trades : rank(i) = n]]

StartOfBook ==
    [lots |-> <<>>, realized |-> 0, sells |-> 0, wins |-> 0, overSold |-> FALSE]

\* Cost of so many units of a lot, and what so many of the units sold brought.
CostOf(lot, units) == units * lot.usd * (Scale \div lot.amount)
ProceedsOf(trade, units) == units * trade.usd * (Scale \div trade.amount)

\* A sale eats the lots from the first on: what is left of them, what was
\* sold, and what that had cost.
Consume(lots, units) ==
    LET eat[n \in 0..Len(lots)] ==
            IF n = 0 THEN [left |-> units, cost |-> 0, lots |-> <<>>]
            ELSE LET so  == eat[n - 1]
                     lot == lots[n]
                     use == Min({so.left, lot.remaining})
                 IN  [left |-> so.left - use, cost |-> so.cost + CostOf(lot, use),
                      lots |-> IF lot.remaining = use THEN so.lots
                               ELSE Append(so.lots, [lot EXCEPT !.remaining = @ - use])]
    IN  eat[Len(lots)]

Buy(book, t) ==
    IF t.amount > 0
    THEN [book EXCEPT !.lots =
             Append(@, [remaining |-> t.amount, usd |-> t.usd, amount |-> t.amount])]
    ELSE book

Sell(book, t) ==
    LET eaten    == Consume(book.lots, t.amount)
        sold     == t.amount - eaten.left
        proceeds == IF t.amount > 0 THEN ProceedsOf(t, sold) ELSE 0
    IN  [lots     |-> eaten.lots,
         realized |-> book.realized + proceeds - eaten.cost,
         sells    |-> book.sells + 1,
         wins     |-> book.wins + (IF sold > 0 /\ proceeds > eaten.cost THEN 1 ELSE 0),
         overSold |-> book.overSold \/ eaten.left > 0]

Enter(book, t) == IF t.action = "BUY" THEN Buy(book, t) ELSE Sell(book, t)

Confidence(book, count, current) ==
    Max({10, 90 - (IF book.overSold THEN 20 ELSE 0) - (IF current = NoPrice THEN 15 ELSE 0)
                - (IF count < 4 THEN 10 ELSE 0)})

\* Amounts of money are in units of 1/Scale; the win rate is wins of sells.
ComputeFifoPnl(trades, current) ==
    LET book     == FoldLeft(Enter, StartOfBook, ByTime(trades))
        held     == FoldLeft(LAMBDA sum, lot : sum + lot.remaining, 0, book.lots)
        heldCost == FoldLeft(LAMBDA sum, lot : sum + CostOf(lot, lot.remaining), 0, book.lots)
    IN  [realized   |-> book.realized,
         unrealized |-> IF current = NoPrice THEN NoPrice ELSE held * current * Scale - heldCost,
         wins       |-> book.wins,
         sells      |-> book.sells,
         count      |-> Len(trades),
         confidence |-> Confidence(book, Len(trades), current)]
=============================================================================
