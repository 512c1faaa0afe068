------------------------------ MODULE ReplayWalk ------------------------------
(***************************************************************************)
(* replaySignals of packages/core/src/backtest/replay.ts, over the inputs  *)
(* packages/db/src/replayRunner.ts gives it: T walks from from to to, and  *)
(* at each T the rules are evaluated on the rows cut at T.                 *)
(***************************************************************************)
EXTENDS RotationMatching

CONSTANTS
    ReplayToken,    \* the token replayed
    ReplayFrom, ReplayTo, ReplayStep

ASSUME ReplayAssumption ==
    /\ ReplayFrom \in Nat /\ ReplayTo \in Nat /\ ReplayFrom <= ReplayTo
    /\ ReplayStep \in Nat /\ ShortWindow \in Nat \ {0}

-----------------------------------------------------------------------------
\* buildSteps: every multiple of the step, and the end.
Steps ==
    LET on == IF ReplayStep = 0 THEN {ReplayFrom}
              ELSE {t \in ReplayFrom..ReplayTo : (t - ReplayFrom) % ReplayStep = 0}
    IN  SetToSortSeq(IF ReplayStep = 0 THEN on ELSE on \cup {ReplayTo}, <)

TradesOf(rows) == {t \in rows.trades : t.token = ReplayToken}

\* replayOneToken: what the replay is given, all of it at once.
ReplayInputs(rows) ==
    [trades    |-> TradesOf(rows),
     info      |-> rows.info,
     clusters  |-> rows.clusters,
     market    |-> rows.market,
     funding   |-> FundingEvents(rows, ReplayToken, ReplayFrom, ReplayTo),
     rotations |-> {r \in Rotations(rows, ReplayFrom, ReplayTo) : r.token = ReplayToken}]

UpTo(set, t) == {x \in set : x.ts <= t}

\* Faulty variant: the buys that followed the transfer are shown with it.
FundingWithBuys(events, t) == UpTo(events, t)

\* A funding event is known from its transfer on, the buy it paid for only
\* from that buy on.
FundingAsOf(events, t) ==
    {[e EXCEPT !.buys = UpTo(@, t)] : e \in UpTo(events, t)}

\* A rotation is known when the last link of its chain is.
RotationsAsOf(rotations, t) == {r \in rotations : r.buyTs <= t}

Window(inputs, trades, market, window, t) ==
    AggregateWindow(trades, inputs.info, inputs.clusters, market, window, t, {})

ResultsAt(inputs, t) ==
    LET trades == UpTo(inputs.trades, t)
        market == UpTo(inputs.market, t)
    IN  EvaluateAllRules(Window(inputs, trades, market, ShortWindow, t),
                         Window(inputs, trades, market, LongWindow, t),
                         FundingAsOf(inputs.funding, t),
                         RotationsAsOf(inputs.rotations, t), ReplayToken)

\* A rule is not repeated within 24 hours of its last firing.
Suppressed(fired, rule, t) == \E f \in fired : f.rule = rule /\ t - f.at < LongWindow

Added(fired, results, t) ==
    fired \cup {[rule |-> r, severity |-> results[r], at |-> t] :
                   r \in {q \in FiredRules(results) : ~Suppressed(fired, q, t)}}

\* replaySignals, as far as the n-th step.
ReplaySignals(inputs, n) ==
    FoldLeft(LAMBDA fired, t : Added(fired, ResultsAt(inputs, t), t), {}, SubSeq(Steps, 1, n))
=============================================================================
