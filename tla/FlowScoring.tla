----------------------------- MODULE FlowScoring -----------------------------
(***************************************************************************)
(* The flow-scoring pass: runFlowScoringPass of packages/db/src/           *)
(* scoring-pass.ts, run by the flowScoring job on its own schedule and by  *)
(* the entityClustering job after every clustering pass.                   *)
(*                                                                         *)
(* A pass takes the tokens that ever traded, one by one: it reads the      *)
(* token's rows (fetchAggregateInputs), asks the risk provider, and writes *)
(* a snapshot.  The snapshot carries the time the PASS began, not the time *)
(* the rows were read or the row is written.  Readers take the snapshot    *)
(* with the greatest time, so that one is all that is kept here.  The      *)
(* memberships are the rows a clustering pass writes (EntityClustering).   *)
(***************************************************************************)
EXTENDS EntityClustering, TokenWindow

CONSTANTS
    Scorers,        \* the passes that may be under way at once
    TokenRows,      \* token -> [trades, market]
    WalletInfo,     \* wallet -> [watched, profitable, score, labels]
    Penalties,      \* what the risk provider may answer, in thousandths
    MaxScorings,    \* passes a behaviour may start
    MaxRiskFaults   \* risk calls that may throw

VARIABLES
    scoring,        \* scorer -> [at, start, todo, read]
    latest,         \* token -> its snapshot with the greatest ts
    scoringClock,   \* time: grows with every pass that starts
    scoringBounds   \* [started, faults] spent

scoringVars == <<scoring, latest, scoringClock, scoringBounds>>

IdleScorer == [at |-> "idle", start |-> 0, todo |-> <<>>, read |-> {}]
NoSnapshot == [ts |-> 0]

TradedTokens == {t \in DOMAIN TokenRows : TokenRows[t].trades # {}}

ScoringInit ==
    /\ scoring = [s \in Scorers |-> IdleScorer]
    /\ latest = [t \in DOMAIN TokenRows |-> NoSnapshot]
    /\ scoringClock = 0
    /\ scoringBounds = [started |-> 0, faults |-> 0]

StartScoring(s) ==
    /\ scoring[s].at = "idle" /\ scoringBounds.started < MaxScorings
    /\ scoringClock' = scoringClock + 1
    /\ scoring' = [scoring EXCEPT ![s] = [IdleScorer EXCEPT
                       !.at = "token", !.start = scoringClock', !.todo = SetToSeq(TradedTokens)]]
    /\ scoringBounds' = [scoringBounds EXCEPT !.started = @ + 1]
    /\ UNCHANGED latest

\* fetchAggregateInputs: the memberships of the wallets that traded the token.
Memberships(token) ==
    {<<m.wallet, m.cluster>> :
        m \in {r \in memberRows : r.wallet \in Wallets(TokenRows[token].trades)}}

FetchInputs(s) ==
    /\ scoring[s].at = "token" /\ scoring[s].todo # <<>>
    /\ scoring' = [scoring EXCEPT ![s].at = "risk",
                                  ![s].read = Memberships(Head(scoring[s].todo))]
    /\ UNCHANGED <<latest, scoringClock, scoringBounds>>

Snapshot(token, members, start, penalty) ==
    LET rows == TokenRows[token]
        to   == WindowEnd(rows.trades, LongWindow * 10)
        agg  == AggregateWindow(rows.trades, WalletInfo, members,
                                LoadMarket(rows.market, to, {LongWindow}),
                                LongWindow, LongWindow * 10, {1})
    IN  [ts |-> start, smart |-> agg.smart, uniqueEntityCount |-> agg.uniqueEntityCount,
         flowScore |-> FlowScore(agg, WalletInfo, penalty)]

\* The time a snapshot is given.
SnapshotTime(s) == scoring[s].start

\* Faulty variant: the snapshot written last is taken for the latest.
WrittenLast(old, new) == new

\* Readers order the snapshots by their time.
LatestOf(old, new) == IF new.ts > old.ts THEN new ELSE old

NextToken(s) == [scoring EXCEPT ![s].at = "token", ![s].todo = Tail(@), ![s].read = {}]

\* The risk report came: the snapshot is computed and written.
PersistSnapshot(s) ==
    /\ scoring[s].at = "risk"
    /\ \E penalty \in Penalties :
        LET token == Head(scoring[s].todo)
            row   == Snapshot(token, scoring[s].read, SnapshotTime(s), penalty)
        IN  latest' = [latest EXCEPT ![token] = LatestOf(@, row)]
    /\ scoring' = NextToken(s)
    /\ UNCHANGED <<scoringClock, scoringBounds>>

\* The risk provider throws: the token is logged and passed over.
RiskFails(s) ==
    /\ scoring[s].at = "risk" /\ scoringBounds.faults < MaxRiskFaults
    /\ scoring' = NextToken(s)
    /\ scoringBounds' = [scoringBounds EXCEPT !.faults = @ + 1]
    /\ UNCHANGED <<latest, scoringClock>>

EndScoring(s) ==
    /\ scoring[s].at = "token" /\ scoring[s].todo = <<>>
    /\ scoring' = [scoring EXCEPT ![s] = IdleScorer]
    /\ UNCHANGED <<latest, scoringClock, scoringBounds>>

\* The process that runs the pass dies.
ScoringDies(s) ==
    /\ scoring' = [scoring EXCEPT ![s] = IdleScorer]
    /\ UNCHANGED <<latest, scoringClock, scoringBounds>>

ScoringStep(s) == FetchInputs(s) \/ PersistSnapshot(s) \/ RiskFails(s) \/ EndScoring(s)
=============================================================================
