--------------------------- MODULE ConfluenceIngest ---------------------------
(***************************************************************************)
(* External confluence: runExternalConfluencePass of packages/db/src/      *)
(* confluence/ingest.ts with computeLiquidityRisk of packages/core, and    *)
(* what the token page reads (confluence/queries.ts).                      *)
(*                                                                         *)
(* A pass estimates the liquidity risk of every token from its newest      *)
(* market point, one row per token and hour; then it asks each enabled     *)
(* source about every token on its chains.  The internal row has no        *)
(* source, so no unique index guards it: it is looked for, then created    *)
(* or updated.  The worker's pass and the one the seed script runs, which  *)
(* has every source disabled, may overlap.  Estimates that follow from the *)
(* same two numbers as the bands (slippage, depth) are left out.           *)
(***************************************************************************)
EXTENDS Integers, FiniteSets, FiniteSetsExt

CONSTANTS
    ConfluenceWorlds,     \* [runners, tokens, points, sources]: the processes that run a
                          \* pass; tokens maps each to its chain; a point is [id, token,
                          \* ts, liquidity, mcap]; sources maps each to [enabled, reader,
                          \* chains, answers], an answer being [status, observedAt]
    LiquidityBands,       \* settings: three bounds, in USD
    FragilityBands,       \* settings: three bounds, in percent of the market cap
    HourLength,
    MaxConfluencePasses,  \* bound: passes begun
    MaxConfluenceFaults   \* bound: statements and fetches that throw, deaths of a pass

ASSUME ConfluenceAssumption ==
    /\ HourLength \in Nat \ {0}
    /\ MaxConfluencePasses \in Nat /\ MaxConfluenceFaults \in Nat

VARIABLES
    confluenceWorld,
    marketPoints,       \* TokenMarketSnapshot: points stored so far
    riskRows,           \* TokenConfluenceSnapshot without a source: id -> row
    sourceSnapshots,    \* those with one: <<source, token, hour>> -> [status, observedAt]
    confluenceSources,  \* ExternalConfluenceSource: source -> [status, failCount]
    confluencePass,     \* what each pass holds in memory
    estimated,          \* history: token -> the market point last written about
    answered,           \* history: source -> statuses answered in its last full sync
    estimatesOverlap,   \* history: two passes were in their first leg at once
    contested,          \* history: token and hour whose row two passes were about to create
    confluenceBounds    \* [started, faults]

\* What the two legs write, each with its history.
riskVars == <<riskRows, estimated, contested>>
sourceVars == <<sourceSnapshots, confluenceSources, answered>>
confluenceVars ==
    <<confluenceWorld, marketPoints, riskVars, sourceVars, confluencePass, estimatesOverlap,
      confluenceBounds>>

IdleConfluence == [at |-> "idle", tokens |-> {}, sources |-> {}]

ConfluenceInit ==
    /\ confluenceWorld \in ConfluenceWorlds
    /\ marketPoints = {}
    /\ riskRows = <<>> /\ sourceSnapshots = <<>>
    /\ confluenceSources =
           [s \in DOMAIN confluenceWorld.sources |-> [status |-> "idle", failCount |-> 0]]
    /\ confluencePass = [r \in confluenceWorld.runners |-> IdleConfluence]
    /\ estimated = <<>> /\ answered = [s \in DOMAIN confluenceWorld.sources |-> {}]
    /\ estimatesOverlap = FALSE /\ contested = {}
    /\ confluenceBounds = [started |-> 0, faults |-> 0]

-----------------------------------------------------------------------------
(* computeLiquidityRisk: a figure of zero or less is missing, and what is  *)
(* missing never reads as reassuring.  A bound belongs to the higher band. *)

AbsoluteBand(liquidity) ==
    CASE liquidity <= 0 -> "unknown"
      [] liquidity > 0 /\ liquidity < LiquidityBands[1] -> "micro"
      [] liquidity >= LiquidityBands[1] /\ liquidity < LiquidityBands[2] -> "thin"
      [] liquidity >= LiquidityBands[2] /\ liquidity < LiquidityBands[3] -> "moderate"
      [] OTHER -> "deep"

RatioBand(liquidity, mcap) ==
    LET below(k) == 100 * liquidity < FragilityBands[k] * mcap IN
    CASE liquidity <= 0 \/ mcap <= 0 -> "unknown"
      [] mcap > 0 /\ liquidity > 0 /\ below(1) -> "very_fragile"
      [] mcap > 0 /\ ~below(1) /\ below(2) -> "fragile"
      [] mcap > 0 /\ ~below(2) /\ below(3) -> "moderate"
      [] OTHER -> "robust"

\* The pass does not know the kind of pool: never more than medium.
LiquidityRisk(point) ==
    [depth |-> AbsoluteBand(point.liquidity),
     fragility |-> RatioBand(point.liquidity, point.mcap),
     confidence |-> IF point.liquidity > 0 /\ point.mcap > 0 THEN "medium" ELSE "low"]

-----------------------------------------------------------------------------
(* A pass.                                                                 *)

Active(r) == confluencePass[r].at # "idle"
Now(r) == confluencePass[r]
Becomes(r, pass) == confluencePass' = [confluencePass EXCEPT ![r] = pass]

ConfluenceFault ==
    /\ confluenceBounds.faults < MaxConfluenceFaults
    /\ confluenceBounds' = [confluenceBounds EXCEPT !.faults = @ + 1]

\* snapshotMarket: a market data job stores another point.
PointArrives(point) ==
    /\ marketPoints' = marketPoints \cup {point}
    /\ UNCHANGED <<confluenceWorld, confluencePass, riskVars, sourceVars,
                   estimatesOverlap, confluenceBounds>>

InFirstLeg == {"token", "find", "write"}

StartConfluence(r) ==
    /\ ~Active(r) /\ confluenceBounds.started < MaxConfluencePasses
    /\ confluenceBounds' = [confluenceBounds EXCEPT !.started = @ + 1]
    /\ Becomes(r, [IdleConfluence EXCEPT !.at = "token",
                       !.tokens = DOMAIN confluenceWorld.tokens])
    /\ estimatesOverlap' = (estimatesOverlap
                               \/ \E q \in confluenceWorld.runners : Now(q).at \in InFirstLeg)
    /\ UNCHANGED <<confluenceWorld, marketPoints, riskVars, sourceVars>>

Newer(p, q) == p.ts > q.ts \/ (p.ts = q.ts /\ p.id >= q.id)

\* A token without market data is passed over.
ReadMarket(r, t) ==
    /\ Now(r).at = "token" /\ t \in Now(r).tokens
    /\ LET points == {p \in marketPoints : p.token = t}
           rest == Now(r).tokens \ {t}
       IN  Becomes(r,
               IF points = {} THEN [Now(r) EXCEPT !.tokens = rest]
               ELSE [at |-> "find", tokens |-> rest, sources |-> {},
                     point |-> CHOOSE p \in points : \A q \in points : Newer(p, q)])
    /\ UNCHANGED <<confluenceWorld, marketPoints, riskVars, sourceVars,
                   estimatesOverlap, confluenceBounds>>

HourOf(ts) == ts \div HourLength

\* The rows of the point's token and hour.
RowsFor(point) ==
    {k \in DOMAIN riskRows : /\ riskRows[k].token = point.token
                             /\ HourOf(riskRows[k].observedAt) = HourOf(point.ts)}

FindRisk(r) ==
    /\ Now(r).at = "find"
    /\ LET found == RowsFor(Now(r).point) IN
       \E k \in IF found = {} THEN {0} ELSE found :
           Becomes(r, [at |-> "write", tokens |-> Now(r).tokens, sources |-> {},
                       point |-> Now(r).point, row |-> k])
    /\ UNCHANGED <<confluenceWorld, marketPoints, riskVars, sourceVars,
                   estimatesOverlap, confluenceBounds>>

TokenDone(r) == [IdleConfluence EXCEPT !.at = "token", !.tokens = Now(r).tokens]

KeyOf(point) == <<point.token, HourOf(point.ts)>>

\* The pass looked for the row of that token and hour in vain.
Creates(r, point) ==
    Now(r).at = "write" /\ Now(r).row = 0 /\ KeyOf(Now(r).point) = KeyOf(point)

\* Update the row that was found, or create one.
WriteRisk(r) ==
    /\ Now(r).at = "write"
    /\ LET point == Now(r).point
           id == IF Now(r).row = 0 THEN Cardinality(DOMAIN riskRows) + 1 ELSE Now(r).row
           row == [token |-> point.token, observedAt |-> point.ts, risk |-> LiquidityRisk(point)]
       IN  /\ riskRows' = [k \in DOMAIN riskRows \cup {id} |->
                  IF k = id THEN row ELSE riskRows[k]]
           /\ estimated' = [t \in DOMAIN estimated \cup {point.token} |->
                  IF t = point.token THEN point ELSE estimated[t]]
           /\ contested' = IF Creates(r, point) /\ \E q \in confluenceWorld.runners \ {r} :
                                                     Creates(q, point)
                           THEN contested \cup {KeyOf(point)} ELSE contested
    /\ Becomes(r, TokenDone(r))
    /\ UNCHANGED <<confluenceWorld, marketPoints, sourceVars,
                   estimatesOverlap, confluenceBounds>>

\* A statement about one token throws: the token is skipped.
RiskThrows(r) ==
    /\ Now(r).at \in {"find", "write"} /\ ConfluenceFault
    /\ Becomes(r, TokenDone(r))
    /\ UNCHANGED <<confluenceWorld, marketPoints, riskVars, sourceVars, estimatesOverlap>>

ListSources(r) ==
    /\ Now(r).at = "token" /\ Now(r).tokens = {}
    /\ LET rows == confluenceWorld.sources IN
       Becomes(r, [IdleConfluence EXCEPT !.at = "source",
                       !.sources = {s \in DOMAIN rows : rows[s].enabled}])
    /\ UNCHANGED <<confluenceWorld, marketPoints, riskVars, sourceVars,
                   estimatesOverlap, confluenceBounds>>

SourceLeft(r, s) == [IdleConfluence EXCEPT !.at = "source", !.sources = Now(r).sources \ {s}]

MarkedError(row) == [status |-> "error", failCount |-> row.failCount + 1]

HasReader(s) == confluenceWorld.sources[s].reader

\* No reader resolved: nothing is made up about the tokens.
SkipSource(r, s) ==
    /\ Now(r).at = "source" /\ s \in Now(r).sources /\ ~HasReader(s)
    /\ confluenceSources' = [confluenceSources EXCEPT ![s].status = "missing_key"]
    /\ answered' = [answered EXCEPT ![s] = {}]
    /\ Becomes(r, SourceLeft(r, s))
    /\ UNCHANGED <<confluenceWorld, marketPoints, riskVars, sourceSnapshots,
                   estimatesOverlap, confluenceBounds>>

\* The resolver throws.
ResolverThrows(r, s) ==
    /\ Now(r).at = "source" /\ s \in Now(r).sources /\ ConfluenceFault
    /\ confluenceSources' = [confluenceSources EXCEPT ![s] = MarkedError(@)]
    /\ answered' = [answered EXCEPT ![s] = {}]
    /\ Becomes(r, SourceLeft(r, s))
    /\ UNCHANGED <<confluenceWorld, marketPoints, riskVars, sourceSnapshots, estimatesOverlap>>

OpenSource(r, s) ==
    /\ Now(r).at = "source" /\ s \in Now(r).sources /\ HasReader(s)
    /\ LET targeted == {t \in DOMAIN confluenceWorld.tokens :
                           confluenceWorld.tokens[t] \in confluenceWorld.sources[s].chains}
       IN  Becomes(r, [at |-> "fetch", tokens |-> targeted, sources |-> Now(r).sources \ {s},
                       source |-> s, health |-> "live", failed |-> FALSE, answers |-> {}])
    /\ UNCHANGED <<confluenceWorld, marketPoints, riskVars, sourceVars,
                   estimatesOverlap, confluenceBounds>>

\* Faulty variant: the last answer decides, a good one as well as a bad one.
LastAnswer(health, status) == IF status = "ok" THEN "live" ELSE status

\* The health of a source after one more answer.
HealthAfter(health, status) == IF status = "ok" THEN health ELSE status

\* The answer is stored with its status as it is.
FetchToken(r, t, answer) ==
    /\ Now(r).at = "fetch" /\ t \in Now(r).tokens
    /\ answer \in confluenceWorld.sources[Now(r).source].answers
    /\ LET key == <<Now(r).source, t, HourOf(answer.observedAt)>> IN
       sourceSnapshots' = [k \in DOMAIN sourceSnapshots \cup {key} |->
           IF k = key THEN answer ELSE sourceSnapshots[k]]
    /\ Becomes(r, [Now(r) EXCEPT !.tokens = @ \ {t}, !.answers = @ \cup {answer.status},
                                 !.health = HealthAfter(@, answer.status)])
    /\ UNCHANGED <<confluenceWorld, marketPoints, riskVars, confluenceSources,
                   answered, estimatesOverlap, confluenceBounds>>

\* The fetch or the upsert throws: the other tokens of the source go on.
FetchThrows(r, t) ==
    /\ Now(r).at = "fetch" /\ t \in Now(r).tokens /\ ConfluenceFault
    /\ Becomes(r, [Now(r) EXCEPT !.tokens = @ \ {t}, !.failed = TRUE])
    /\ UNCHANGED <<confluenceWorld, marketPoints, riskVars, sourceVars, estimatesOverlap>>

SyncDone(r) == [IdleConfluence EXCEPT !.at = "source", !.sources = Now(r).sources]

\* When every token it was asked about failed, the source did.
CloseSource(r) ==
    /\ Now(r).at = "fetch" /\ Now(r).tokens = {}
    /\ LET s == Now(r).source
           allFailed == Now(r).failed /\ Now(r).answers = {}
       IN  /\ confluenceSources' = [confluenceSources EXCEPT ![s] =
                  IF allFailed THEN MarkedError(@)
                  ELSE [status |-> Now(r).health, failCount |-> 0]]
           /\ answered' = [answered EXCEPT ![s] = Now(r).answers]
    /\ Becomes(r, SyncDone(r))
    /\ UNCHANGED <<confluenceWorld, marketPoints, riskVars, sourceSnapshots,
                   estimatesOverlap, confluenceBounds>>

\* Another statement of the sync throws.
SyncThrows(r) ==
    /\ Now(r).at = "fetch" /\ Now(r).tokens = {} /\ ConfluenceFault
    /\ confluenceSources' = [confluenceSources EXCEPT ![Now(r).source] = MarkedError(@)]
    /\ answered' = [answered EXCEPT ![Now(r).source] = {}]
    /\ Becomes(r, SyncDone(r))
    /\ UNCHANGED <<confluenceWorld, marketPoints, riskVars,
                   sourceSnapshots, estimatesOverlap>>

EndConfluence(r) ==
    /\ Now(r).at = "source" /\ Now(r).sources = {}
    /\ Becomes(r, IdleConfluence)
    /\ UNCHANGED <<confluenceWorld, marketPoints, riskVars, sourceVars,
                   estimatesOverlap, confluenceBounds>>

\* The process dies, or a statement outside the guards throws.
ConfluencePassDies(r) ==
    /\ Active(r) /\ ConfluenceFault
    /\ Becomes(r, IdleConfluence)
    /\ UNCHANGED <<confluenceWorld, marketPoints, riskVars, sourceVars, estimatesOverlap>>

ConfluenceNext ==
    \/ \E point \in confluenceWorld.points \ marketPoints : PointArrives(point)
    \/ \E r \in confluenceWorld.runners :
        \/ StartConfluence(r) \/ FindRisk(r) \/ WriteRisk(r) \/ RiskThrows(r)
        \/ ListSources(r) \/ CloseSource(r) \/ SyncThrows(r)
        \/ EndConfluence(r) \/ ConfluencePassDies(r)
        \/ \E t \in Now(r).tokens :
            \/ ReadMarket(r, t) \/ FetchThrows(r, t)
            \/ \E answer \in UNION {s.answers : s \in Range(confluenceWorld.sources)} :
                FetchToken(r, t, answer)
        \/ \E s \in Now(r).sources : SkipSource(r, s) \/ ResolverThrows(r, s) \/ OpenSource(r, s)

-----------------------------------------------------------------------------
\* latestOfType, for the liquidity card of a token's page.
ShownRisk(t) ==
    LET rows == {k \in DOMAIN riskRows : riskRows[k].token = t} IN
    {riskRows[k].risk : k \in {j \in rows :
        \A i \in rows : riskRows[j].observedAt >= riskRows[i].observedAt}}

\* A token has one row an hour, however passes overlap, fail and die: two only
\* when two passes were about to create it at the same time.  And while no two
\* estimate at once, the page shows the risk of the newest market point a pass
\* wrote about.
RiskIsCurrent ==
    /\ \A j, k \in DOMAIN riskRows :
           j # k => \/ riskRows[j].token # riskRows[k].token
                    \/ HourOf(riskRows[j].observedAt) # HourOf(riskRows[k].observedAt)
                    \/ <<riskRows[j].token, HourOf(riskRows[j].observedAt)>> \in contested
    /\ ~estimatesOverlap =>
           \A t \in DOMAIN estimated : ShownRisk(t) = {LiquidityRisk(estimated[t])}

\* A source reads live only when every answer of its last sync was good, and
\* any other status it shows was given by one of its answers.
HealthIsHeard ==
    \A s \in DOMAIN confluenceSources :
        LET status == confluenceSources[s].status IN
        /\ status = "live" => answered[s] \subseteq {"ok"}
        /\ status \notin {"idle", "live", "error", "missing_key"} => status \in answered[s]

\* What the confluence panel shows is current, and never better than what was
\* found.
ConfluenceHonest == RiskIsCurrent /\ HealthIsHeard
=============================================================================
