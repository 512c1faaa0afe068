---------------------------- MODULE SignalOutcome ----------------------------
(***************************************************************************)
(* What became of a signal: evaluateSignalOutcome of packages/core/src/    *)
(* backtest/evaluate.ts, and the pass that stores the answer, one row per  *)
(* horizon (runBacktestPass of packages/db/src/backtest.ts).  The pass is  *)
(* a job of the worker and is also started by a route of the web           *)
(* application, so two of them may be under way; either may die between    *)
(* two rows.                                                               *)
(*                                                                         *)
(* A market point is [id, ts, price, mcap, liquidity, synthetic].  Prices  *)
(* are never divided by the entry price: a point has doubled when its      *)
(* price is at least twice the entry price.                                *)
(***************************************************************************)
EXTENDS Integers, Sequences, FiniteSets, FiniteSetsExt, SequencesExt

CONSTANTS
    Unknown,          \* null
    HorizonMinutes,   \* length of each horizon, shortest first
    MIN_SIGNAL_AGE,
    OutcomeWorlds,    \* [signals, points, starts]: a signal is [at, mcap], starts
                      \* the times each pass may be started at
    BacktestPasses,   \* the passes that may be under way at once
    LastTime,         \* time does not go past this
    MaxBacktestFaults \* deaths of a pass

ASSUME OutcomeAssumption ==
    /\ HorizonMinutes \in Seq(Nat) /\ MIN_SIGNAL_AGE \in Nat
    /\ LastTime \in Nat /\ MaxBacktestFaults \in Nat

VARIABLES
    outcomeWorld,
    backtestTime,
    resultRows,     \* BacktestResult: set of [signal, horizon, ..], unique in both
    backtest,       \* pass -> what it holds in memory
    overlapped,     \* signals that two passes had to evaluate at one time
    backtestFaults

outcomeVars ==
    <<outcomeWorld, backtestTime, resultRows, backtest, overlapped, backtestFaults>>

HARD_FAILURE_MIN_LIQUIDITY_USD == 1000

Horizons == DOMAIN HorizonMinutes

-----------------------------------------------------------------------------
(***************************************************************************)
(* The evaluation.  points is a sequence of [after, value, liquidity], the *)
(* value in the basis chosen; entry is the value at the trigger.           *)
(***************************************************************************)
Positive(x) == x # Unknown /\ x > 0

Basis(price, mcap) ==
    IF Positive(price) THEN "price" ELSE IF Positive(mcap) THEN "mcap" ELSE Unknown

Normalize(basis, at, series) ==
    LET ordered == SetToSortSeq({p \in series : p.ts >= at},
                       LAMBDA p, q : p.ts < q.ts \/ (p.ts = q.ts /\ p.id < q.id))
    IN  IF basis = Unknown THEN <<>>
        ELSE [i \in DOMAIN ordered |->
                 [after |-> ordered[i].ts - at, liquidity |-> ordered[i].liquidity,
                  value |-> IF basis = "price" THEN ordered[i].price ELSE ordered[i].mcap]]

\* A point's value is at least num / den times the entry, or at most.
Reaches(p, entry, num, den) == p.value # Unknown /\ den * p.value >= num * entry
FallsTo(p, entry, num, den) == p.value # Unknown /\ den * p.value <= num * entry

\* A percentage is kept as its distance from the entry, with the same sign and order.
SummarizeSlice(points, entry) ==
    LET usable == SelectSeq(points, LAMBDA p : p.value # Unknown)
        values == {usable[i].value : i \in DOMAIN usable}
        first(reached(_)) ==
            LET hits == {i \in DOMAIN usable : reached(usable[i])}
            IN  IF hits = {} THEN Unknown ELSE usable[Min(hits)].after
    IN  IF usable = <<>>
        THEN [maxUpside |-> Unknown, maxDrawdown |-> Unknown, roi |-> Unknown, peak |-> Unknown,
              to2x |-> Unknown, to5x |-> Unknown, to10x |-> Unknown]
        ELSE [maxUpside   |-> Max(values) - entry,
              maxDrawdown |-> Min(values) - entry,
              roi   |-> Last(usable).value - entry,
              peak  |-> first(LAMBDA p : p.value = Max(values)),
              to2x  |-> first(LAMBDA p : Reaches(p, entry, 2, 1)),
              to5x  |-> first(LAMBDA p : Reaches(p, entry, 5, 1)),
              to10x |-> first(LAMBDA p : Reaches(p, entry, 10, 1))]

\* Liquidity a tenth of what it was at the first point, or next to nothing.
Drained(points, p) ==
    /\ p.liquidity # Unknown
    /\ \/ /\ Positive(points[1].liquidity)
          /\ 10 * p.liquidity <= points[1].liquidity
       \/ p.liquidity < HARD_FAILURE_MIN_LIQUIDITY_USD

StartOfWalk ==
    [hit2x |-> FALSE, small |-> FALSE, good |-> FALSE, major |-> FALSE, failure |-> FALSE,
     hard |-> FALSE, smallGoodDisqualified |-> FALSE, majorDisqualified |-> FALSE]

\* One point of runLabelAutomaton, in the order of the code.
WalkPoint(points, entry, walk, p) ==
    LET hit2x == walk.hit2x \/ Reaches(p, entry, 2, 1) IN
    [hard    |-> walk.hard \/ (~walk.hit2x /\ Drained(points, p)),
     small   |-> walk.small \/ (Reaches(p, entry, 3, 2) /\ ~walk.smallGoodDisqualified),
     good    |-> walk.good \/ (Reaches(p, entry, 2, 1) /\ ~walk.smallGoodDisqualified),
     major   |-> walk.major \/ (Reaches(p, entry, 5, 1) /\ ~walk.majorDisqualified),
     hit2x   |-> hit2x,
     failure |-> walk.failure \/ (FallsTo(p, entry, 2, 5) /\ ~hit2x),
     smallGoodDisqualified |-> walk.smallGoodDisqualified \/ FallsTo(p, entry, 1, 2),
     majorDisqualified     |-> walk.majorDisqualified \/ FallsTo(p, entry, 2, 5)]

Verdict(walk) ==
    IF walk.hard THEN "hard_failure"
    ELSE IF walk.major THEN "major_win"
    ELSE IF walk.good THEN "good_win"
    ELSE IF walk.small THEN "small_win"
    ELSE IF walk.failure THEN "failure" ELSE "neutral_pending"

RunLabelAutomaton(points, entry) ==
    Verdict(FoldLeft(LAMBDA walk, p : WalkPoint(points, entry, walk, p), StartOfWalk, points))

EvaluateSignalOutcome(signal, entryPrice, series) ==
    LET basis  == Basis(entryPrice, signal.mcap)
        entry  == IF basis = "price" THEN entryPrice ELSE signal.mcap
        points == Normalize(basis, signal.at, series)
        within(h) == SelectSeq(points, LAMBDA p : p.after <= HorizonMinutes[h])
    IN  [basis    |-> basis,
         label    |-> RunLabelAutomaton(points, entry),
         overall  |-> SummarizeSlice(points, entry),
         horizons |-> [h \in Horizons |-> SummarizeSlice(within(h), entry)]]

-----------------------------------------------------------------------------
(***************************************************************************)
(* The pass.                                                               *)
(***************************************************************************)
IdleBacktest == [at |-> "idle", now |-> 0, todo |-> <<>>, next |-> 1, outcome |-> Unknown,
                 synthetic |-> FALSE]

OutcomeInit ==
    /\ outcomeWorld \in OutcomeWorlds
    /\ backtestTime = 0
    /\ resultRows = {}
    /\ backtest = [p \in BacktestPasses |-> IdleBacktest]
    /\ overlapped = {}
    /\ backtestFaults = 0

\* Market points are written as time goes by.
TimePasses ==
    /\ backtestTime < LastTime
    /\ backtestTime' = backtestTime + 1
    /\ UNCHANGED <<outcomeWorld, resultRows, backtest, overlapped, backtestFaults>>

SignalRows(s) == {r \in resultRows : r.signal = s}

\* findEligibleSignals: old enough, and a row still missing.
Eligible(now) ==
    {s \in DOMAIN outcomeWorld.signals :
        /\ outcomeWorld.signals[s].at <= now - MIN_SIGNAL_AGE
        /\ Cardinality(SignalRows(s)) < Len(HorizonMinutes)}

StartBacktest(p) ==
    /\ backtest[p].at = "idle" /\ backtestTime \in outcomeWorld.starts[p]
    /\ Eligible(backtestTime) # {}
    /\ \E todo \in SetToSeqs(Eligible(backtestTime)) :
        backtest' = [backtest EXCEPT ![p] =
            [IdleBacktest EXCEPT !.at = "signal", !.now = backtestTime, !.todo = todo]]
    /\ overlapped' = overlapped \cup
           (Eligible(backtestTime)
              \cap UNION {ToSet(backtest[q].todo) : q \in BacktestPasses})
    /\ UNCHANGED <<outcomeWorld, backtestTime, resultRows, backtestFaults>>

\* findEntryPriceUsd: the last point at or before the trigger.
EntryPrice(s) ==
    LET at == outcomeWorld.signals[s].at
        before == {p \in outcomeWorld.points : p.ts <= at}
    IN  IF before = {} THEN Unknown
        ELSE (CHOOSE p \in before : \A q \in before : p.ts > q.ts \/ p = q).price

LoadSeries(s, now) ==
    {p \in outcomeWorld.points : outcomeWorld.signals[s].at <= p.ts /\ p.ts <= now}

EvaluateSignal(p) ==
    /\ backtest[p].at = "signal" /\ backtest[p].todo # <<>>
    /\ LET s      == Head(backtest[p].todo)
           series == LoadSeries(s, backtest[p].now)
       IN  backtest' = [backtest EXCEPT ![p] =
               [@ EXCEPT !.at = "rows", !.next = 1,
                   !.outcome = EvaluateSignalOutcome(outcomeWorld.signals[s], EntryPrice(s), series),
                   !.synthetic = \E q \in series : q.synthetic]]
    /\ UNCHANGED <<outcomeWorld, backtestTime, resultRows, overlapped, backtestFaults>>

HorizonElapsed(s, h, now) == now >= outcomeWorld.signals[s].at + HorizonMinutes[h]

\* A percentage that is not known is stored as 0, a time as null.
StoredFigures(summary) ==
    LET orZero(pct) == IF pct = Unknown THEN 0 ELSE pct
    IN  [maxUpside |-> orZero(summary.maxUpside), maxDrawdown |-> orZero(summary.maxDrawdown),
         roi |-> orZero(summary.roi),
         to2x |-> summary.to2x, to5x |-> summary.to5x, to10x |-> summary.to10x]

\* The row of one horizon; what belongs to the series is on every row.
ResultRow(p) ==
    LET s == Head(backtest[p].todo)
        h == backtest[p].next
        o == backtest[p].outcome
    IN  [signal |-> s, horizon |-> h, figures |-> StoredFigures(o.horizons[h]), label |-> o.label,
         peak |-> o.overall.peak, basis |-> o.basis, evaluatedAt |-> backtest[p].now,
         incomplete |-> ~HorizonElapsed(s, h, backtest[p].now),
         synthetic |-> backtest[p].synthetic]

\* Faulty variant: a row that is there already is kept.
InsertedIfNew(rows, row) ==
    IF \E r \in rows : r.signal = row.signal /\ r.horizon = row.horizon
    THEN rows ELSE rows \cup {row}

Upserted(rows, row) ==
    {r \in rows : ~(r.signal = row.signal /\ r.horizon = row.horizon)} \cup {row}

UpsertHorizon(p) ==
    /\ backtest[p].at = "rows"
    /\ resultRows' = Upserted(resultRows, ResultRow(p))
    /\ backtest' = [backtest EXCEPT ![p] =
           IF @.next < Len(HorizonMinutes) THEN [@ EXCEPT !.next = @ + 1]
           ELSE [@ EXCEPT !.at = "signal", !.next = 1, !.todo = Tail(@), !.outcome = Unknown,
                          !.synthetic = FALSE]]
    /\ UNCHANGED <<outcomeWorld, backtestTime, overlapped, backtestFaults>>

EndBacktest(p) ==
    /\ backtest[p].at = "signal" /\ backtest[p].todo = <<>>
    /\ backtest' = [backtest EXCEPT ![p] = IdleBacktest]
    /\ UNCHANGED <<outcomeWorld, backtestTime, resultRows, overlapped, backtestFaults>>

\* A statement throws, or the process dies.
BacktestDies(p) ==
    /\ backtest[p].at # "idle" /\ backtestFaults < MaxBacktestFaults
    /\ backtest' = [backtest EXCEPT ![p] = IdleBacktest]
    /\ backtestFaults' = backtestFaults + 1
    /\ UNCHANGED <<outcomeWorld, backtestTime, resultRows, overlapped>>

OutcomeNext ==
    \/ TimePasses
    \/ \E p \in BacktestPasses :
        StartBacktest(p) \/ EvaluateSignal(p) \/ UpsertHorizon(p) \/ EndBacktest(p)
            \/ BacktestDies(p)

-----------------------------------------------------------------------------
(***************************************************************************)
(* What the labels mean, point against point (evaluate.ts, header): a win  *)
(* counts unless a fall came strictly before it, a failure or a drained    *)
(* pool unless the value had doubled strictly before.                      *)
(***************************************************************************)
MeansLabel(points, entry) ==
    LET reached(i, num, den) == Reaches(points[i], entry, num, den)
        fell(i, num, den)    == FallsTo(points[i], entry, num, den)
        doubledBefore(i)     == \E j \in 1..(i - 1) : reached(j, 2, 1)
        win(num, den, a, b)  == \E i \in DOMAIN points :
            reached(i, num, den) /\ \A j \in 1..(i - 1) : ~fell(j, a, b)
    IN  IF \E i \in DOMAIN points : Drained(points, points[i]) /\ ~doubledBefore(i)
        THEN "hard_failure"
        ELSE IF win(5, 1, 2, 5) THEN "major_win"
        ELSE IF win(2, 1, 1, 2) THEN "good_win"
        ELSE IF win(3, 2, 1, 2) THEN "small_win"
        ELSE IF \E i \in DOMAIN points : fell(i, 2, 5) /\ ~doubledBefore(i) THEN "failure"
        ELSE "neutral_pending"

LabelAt(s, now) ==
    LET signal == outcomeWorld.signals[s]
        basis  == Basis(EntryPrice(s), signal.mcap)
    IN  MeansLabel(Normalize(basis, signal.at, LoadSeries(s, now)),
                   IF basis = "price" THEN EntryPrice(s) ELSE signal.mcap)

FinalFigures(s, h) ==
    StoredFigures(EvaluateSignalOutcome(outcomeWorld.signals[s], EntryPrice(s),
        LoadSeries(s, outcomeWorld.signals[s].at + HorizonMinutes[h])).horizons[h])

Complete(s) == Cardinality(SignalRows(s)) = Len(HorizonMinutes)

\* shadowStatus: what the shadow page says of a signal at a given age.
HorizonStatus(row, age) ==
    IF row.incomplete THEN "pending"
    ELSE IF row.label \in {"small_win", "good_win", "major_win"} THEN "good"
    ELSE IF row.label \in {"failure", "hard_failure"} THEN "bad"
    ELSE IF age < Last(HorizonMinutes) THEN "pending" ELSE "unknown"

ShadowStatus(rows, age) ==
    LET status == [h \in Horizons |->
                      IF \E r \in rows : r.horizon = h
                      THEN HorizonStatus(CHOOSE r \in rows : r.horizon = h, age) ELSE "unknown"]
        shown  == {status[h] : h \in Horizons}
    IN  IF "bad" \in shown THEN "bad" ELSE IF "good" \in shown THEN "good"
        ELSE IF "pending" \in shown THEN "pending" ELSE "unknown"

\* Once a signal has all its rows, and was never two passes' work at one time,
\* they are rows of one evaluation - even when an earlier pass died between
\* two of them - with the label its series had by then; the figures of a row
\* that is not marked incomplete are final, and the shadow page calls a signal
\* good or bad when the label is and a horizon had passed.
OutcomeRowsAgree ==
    \A s \in DOMAIN outcomeWorld.signals \ overlapped :
        LET settled == \A p \in BacktestPasses : s \notin ToSet(backtest[p].todo) IN
        Complete(s) /\ settled =>
            /\ ShadowStatus(SignalRows(s), backtestTime - outcomeWorld.signals[s].at)
                 \in {"good", "bad"}
                 <=> \E r \in SignalRows(s) :
                        /\ HorizonElapsed(s, 1, r.evaluatedAt)
                        /\ LabelAt(s, r.evaluatedAt) # "neutral_pending"
            /\ \A r, q \in SignalRows(s) : r.evaluatedAt = q.evaluatedAt /\ r.peak = q.peak
            /\ \A r \in SignalRows(s) :
                /\ r.label = LabelAt(s, r.evaluatedAt)
                /\ ~r.incomplete => r.figures = FinalFigures(s, r.horizon)
=============================================================================
