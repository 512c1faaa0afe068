-------------------------------- MODULE Replay --------------------------------
(***************************************************************************)
(* The replay must say at each T only what could have been said at T,      *)
(* though it is given all the rows up to to.  Beside it runs an observer   *)
(* who has no later row to look at: at each step it is shown the rows      *)
(* there are by then and evaluates the rules on them, reading the market   *)
(* points the way the live pass does.                                      *)
(***************************************************************************)
EXTENDS ReplayWalk

CONSTANT ReplayWorlds   \* histories: [trades, edges, info, clusters, market]

VARIABLES
    history,        \* the rows
    stepsWalked     \* steps the observer has been shown

replayVars == <<history, stepsWalked>>

-----------------------------------------------------------------------------
\* The rows there are at a time.
RowsBy(rows, t) ==
    [rows EXCEPT !.trades = UpTo(@, t), !.edges = UpTo(@, t), !.market = UpTo(@, t)]

\* What the live pass works out at t from those rows.
LiveResults(rows, t) ==
    LET trades == TradesOf(rows)
        market == LoadMarket(rows.market, WindowEnd(trades, t), {ShortWindow, LongWindow})
    IN  EvaluateAllRules(Window(rows, trades, market, ShortWindow, t),
                         Window(rows, trades, market, LongWindow, t),
                         FundingEvents(rows, ReplayToken, ReplayFrom, t),
                         Rotations(rows, ReplayFrom, t), ReplayToken)

ReplayInit ==
    /\ history \in ReplayWorlds
    /\ stepsWalked = 0

\* The observer is shown the next step.
ReplayNext ==
    /\ stepsWalked < Len(Steps)
    /\ stepsWalked' = stepsWalked + 1
    /\ UNCHANGED history

\* What it has said by then: set of [rule, severity, at].
Heard ==
    FoldLeft(LAMBDA said, t : Added(said, LiveResults(RowsBy(history, t), t), t), {},
             SubSeq(Steps, 1, stepsWalked))

-----------------------------------------------------------------------------
\* A later leg that fits an earlier one better takes it away from the hop it
\* was paired in.
Repaired(rows, t) ==
    BridgeHopsIn(RowsBy(rows, t), ReplayFrom, t)
      # {h \in BridgeHopsIn(rows, ReplayFrom, ReplayTo) : h[1].ts <= t /\ h[2].ts <= t}

\* The replay of the whole history says at every step what an observer with no
\* later row would have said, rule by rule and with the same severity.  The
\* profit rotations are the exception, where the bridge legs of the whole
\* span were paired otherwise than those known at some step.
ReplayIsBlind ==
    stepsWalked > 0 =>
        LET heard    == Heard
            replayed == ReplaySignals(ReplayInputs(history), stepsWalked)
            repaired == \E n \in 1..stepsWalked : Repaired(history, Steps[n])
            of(fired, rules) == {f \in fired : f.rule \in rules}
        IN  /\ of(heard, Rules \ {"F"}) = of(replayed, Rules \ {"F"})
            /\ repaired \/ of(heard, {"F"}) = of(replayed, {"F"})
=============================================================================
