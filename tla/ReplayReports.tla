---------------------------- MODULE ReplayReports ----------------------------
(***************************************************************************)
(* A historical replay run and its report: runHistoricalReplay of          *)
(* packages/db/src/replayRunner.ts and what it has worked out by           *)
(* rulePerf.ts, summarize.ts, thresholdTuning.ts and walkForward.ts of     *)
(* packages/core/src/backtest.                                             *)
(*                                                                         *)
(* The ledger is what Replay calls history, with a token, a price and a    *)
(* synthetic flag on each market point and all its numbers known.  A rate  *)
(* is kept as the counts it is made of; mean and median returns are left   *)
(* out.                                                                    *)
(***************************************************************************)
EXTENDS Replay, SignalOutcome

CONSTANTS
    ReportWorlds,       \* [rows, late]: what is written by now, what comes during a run
    Grid,               \* the variants, in order: a sequence of [dimension, value]
    MIN_SUFFICIENT_SAMPLE_SIZE,
    McapBands, PoolBands, EntityBands, \* lower bounds of the buckets after the first
    MaxReports, MaxReportFaults

ASSUME ReportAssumption ==
    /\ MIN_SUFFICIENT_SAMPLE_SIZE \in Nat \ {0}
    /\ MaxReports \in Nat /\ MaxReportFaults \in Nat

VARIABLES
    ledger,         \* the rows, and those to come
    reportRuns,     \* BacktestRun: a sequence of [status, summary]
    report,         \* the run under way: its step and what it has read
    orphaned,       \* runs that died, or whose last update failed
    reportFaults

reportVars == <<ledger, reportRuns, report, orphaned, reportFaults>>

-----------------------------------------------------------------------------
(***************************************************************************)
(* The replay of a token over a period, with other settings, and its       *)
(* outcomes.  A signal is [token, rule, severity, at, metrics].            *)
(***************************************************************************)
R(settings, token, from, to) ==
    INSTANCE ReplayWalk WITH RuleSettings <- settings, ReplayToken <- token,
                         ReplayFrom <- from, ReplayTo <- to

InputsFor(rows, token, from, to) ==
    R(RuleSettings, token, from, to)!ReplayInputs(
        [rows EXCEPT !.market = {p \in @ : p.token = token}])

\* The metrics the reports look at.  Only rule A has any of them, and no rule
\* has rotationConfidence or entityConcentrationRisk.
MetricsOf(inputs, fire) ==
    LET agg == Window(inputs, UpTo(inputs.trades, fire.at), UpTo(inputs.market, fire.at),
                      ShortWindow, fire.at)
        orZero(x) == IF x = Null THEN 0 ELSE x
    IN  IF fire.rule # "A" THEN <<>>
        ELSE [uniqueEntityCount |-> agg.uniqueEntityCount,
              netFlowUsd        |-> agg.netFlowUsd,
              sold              |-> <<Cardinality(agg.sellers), Cardinality(agg.buyers)>>,
              mcapUsd           |-> orZero(agg.market.currentMcap),
              liquidityUsd      |-> orZero(agg.market.liquidityUsd)]

Metric(signal, name) ==
    IF name \in DOMAIN signal.metrics THEN signal.metrics[name] ELSE Null

ReplayedSignals(inputs, settings, token, from, to) ==
    {[token |-> token, rule |-> f.rule, severity |-> f.severity, at |-> f.at,
      metrics |-> MetricsOf(inputs, f)] :
        f \in R(settings, token, from, to)!ReplaySignals(inputs,
                  Len(R(settings, token, from, to)!Steps))}

\* evaluateReplay: entered at the first point from the fire on.
Evaluated(signal, series) ==
    LET consumed == {p \in series : p.token = signal.token /\ p.ts >= signal.at}
        entry(field(_)) == IF consumed = {} THEN Unknown ELSE field(Earliest(consumed))
        price == entry(LAMBDA p : p.price)
    IN  [signal |-> signal,
         outcome |-> EvaluateSignalOutcome(
                         [at |-> signal.at, mcap |-> entry(LAMBDA p : p.mcap)], price, consumed),
         synthetic |-> \E p \in consumed : p.synthetic]

EvaluateReplay(signals, series) == {Evaluated(s, series) : s \in signals}

OfRules(evaluated, rules) == {e \in evaluated : e.signal.rule \in rules}
Hits2x(evaluated) == {e \in evaluated : e.outcome.overall.to2x # Unknown}

-----------------------------------------------------------------------------
\* summarizeOutcomes, and splitSummarize: evidence that is synthetic apart.
SummarizeOutcomes(evaluated) ==
    LET labelled(l) == Cardinality({e \in evaluated : e.outcome.label = l})
    IN  [signalCount |-> Cardinality(evaluated),
         hit2x       |-> Cardinality(Hits2x(evaluated)),
         hit5x       |-> Cardinality({e \in evaluated : e.outcome.overall.to5x # Unknown}),
         failure     |-> labelled("failure"),
         hardFailure |-> labelled("hard_failure")]

SplitSummarize(evaluated) ==
    [real      |-> SummarizeOutcomes({e \in evaluated : ~e.synthetic}),
     synthetic |-> SummarizeOutcomes({e \in evaluated : e.synthetic})]

RulePerformance(evaluated) == [r \in Rules |-> SplitSummarize(OfRules(evaluated, {r}))]

\* The other rule fired on the token within 24 hours, before or after.
HasPairedFire(e, evaluated, rule) ==
    \E o \in OfRules(evaluated, {rule}) :
        /\ o.signal.token = e.signal.token
        /\ o.signal.at - e.signal.at \in -LongWindow..LongWindow

ComboPerformance(evaluated) ==
    LET a == OfRules(evaluated, {"A"})
        with(name, test(_)) ==
            {e \in a : Metric(e.signal, name) # Null /\ test(Metric(e.signal, name))}
        combos ==
            [A       |-> a,
             AB      |-> {e \in a : HasPairedFire(e, evaluated, "B")},
             AC      |-> {e \in a : HasPairedFire(e, evaluated, "C")},
             AEntity |-> with("uniqueEntityCount",
                              LAMBDA n : 2 * n >= RuleSettings.A.watchMinWallets),
             ALowSell |-> with("sold", LAMBDA s : IF s[2] = 0 THEN RuleSettings.A.maxSoldPct > 0
                                  ELSE 200 * s[1] < RuleSettings.A.maxSoldPct * s[2]),
             F       |-> OfRules(evaluated, {"F"}),
             FConf   |-> {e \in OfRules(evaluated, {"F"}) :
                              Metric(e.signal, "rotationConfidence") # Null},
             ABF     |-> OfRules(evaluated, {"A", "B", "F"})]
    IN  [c \in DOMAIN combos |-> SplitSummarize(combos[c])]

\* Bucket 0 is for an unknown value.
BucketOf(value, bounds) ==
    IF value = Null THEN 0
    ELSE 1 + Cardinality({i \in DOMAIN bounds : bounds[i] <= value})

\* A signal whose entities cannot be counted is in no bucket of them.
Buckets(evaluated, name, bounds) ==
    LET bucket(e) == IF name = "uniqueEntityCount" /\ Metric(e.signal, name) = 0 THEN 0
                     ELSE BucketOf(Metric(e.signal, name), bounds)
    IN  [b \in (IF name = "uniqueEntityCount" THEN 1 ELSE 0)..(Len(bounds) + 1) |->
            SplitSummarize({e \in evaluated : bucket(e) = b})]

BucketPerformance(evaluated) ==
    [mcapAtTrigger |-> Buckets(evaluated, "mcapUsd", McapBands),
     liquidity     |-> Buckets(evaluated, "liquidityUsd", PoolBands),
     entities      |-> Buckets(evaluated, "uniqueEntityCount", EntityBands),
     clusterConcentration |-> [unknown |-> SplitSummarize(evaluated)]]

-----------------------------------------------------------------------------
(***************************************************************************)
(* tuneThresholds: one dimension at a time, over one token.  An input is   *)
(* what replayOneToken is given, with the token and the market series.     *)
(***************************************************************************)
Applied(v) ==
    CASE v.dimension = "minWallets"       -> [RuleSettings EXCEPT !.A.minWallets = v.value]
      [] v.dimension = "maxSoldPct"       -> [RuleSettings EXCEPT !.A.maxSoldPct = v.value]
      [] v.dimension = "maxMcapExpansion" -> [RuleSettings EXCEPT !.B.maxMcapExpansion = v.value]
      [] v.dimension = "minLiquidity"     -> [RuleSettings EXCEPT !.A.minLiquidityUsd = v.value]
      [] OTHER                            -> RuleSettings

\* Two dimensions have no setting: they filter the signals of rule A.
PassesFilter(v, signal) ==
    LET atLeast(name) == AtLeast(Metric(signal, name), v.value) IN
    signal.rule = "A" =>
        /\ v.dimension = "minEntities" => atLeast("uniqueEntityCount")
        /\ v.dimension = "minNetFlow" => atLeast("netFlowUsd")

\* The only member of a set: how a value that took long is given a name.
Only(S) == CHOOSE x \in S : TRUE

\* A replay of the input with some settings and its outcomes, filtered.
OutcomesOf(input, settings, v, from, to) ==
    {Evaluated(s, input.series) : s \in
        {x \in ReplayedSignals(input.rows, settings, input.token, from, to) : PassesFilter(v, x)}}

ReplayVariant(input, v, from, to) ==
    Only({OutcomesOf(input, settings, v, from, to) : settings \in {Applied(v)}})

Scored(evaluated) ==
    LET relevant == OfRules(evaluated, {"A", "F"})
    IN  [signalCount |-> Cardinality(relevant), hits |-> Cardinality(Hits2x(relevant))]

VariantResult(v, score) ==
    [dimension |-> v.dimension, value |-> v.value, settings |-> Applied(v),
     signalCount |-> score.signalCount, hits |-> score.hits,
     insufficientSample |-> score.signalCount < MIN_SUFFICIENT_SAMPLE_SIZE]

ScoresHigher(x, y) ==
    /\ ~x.insufficientSample
    /\ IF y.insufficientSample THEN x.hits > 0
       ELSE x.hits * y.signalCount > y.hits * x.signalCount

Base == [dimension |-> "base", value |-> 0]

\* Ranked by score; of equal scores the earlier set comes first.
RankOf(sets, i) ==
    1 + Cardinality({j \in DOMAIN sets : \/ ScoresHigher(sets[j], sets[i])
                                         \/ ~ScoresHigher(sets[i], sets[j]) /\ j < i})

Sorted(sets) ==
    [k \in DOMAIN sets |-> sets[CHOOSE i \in DOMAIN sets : RankOf(sets, i) = k]]

Tuning(sets, sorted, perf) ==
    [allSets |-> sets,
     best  |-> SubSeq(sorted, 1, Least(3, Len(sets))),
     worst |-> SubSeq(Reverse(sorted), 1, Least(3, Len(sets))),
     precisionByRule |-> [r \in Rules |-> perf[r].real],
     recommended |-> sorted[1].settings]

Variants == <<Base>> \o Grid

RunVariants(outcomes) ==
    [i \in DOMAIN Variants |-> VariantResult(Variants[i], Scored(outcomes[i]))]

\* The base is replayed once more for the precision of each rule.
TuneThresholds(input, from, to) ==
    LET swept(outcomes) == Only({Tuning(sets, Sorted(sets), RulePerformance(outcomes[1])) :
                                     sets \in {RunVariants(outcomes)}})
    IN  Only({swept(outcomes) : outcomes \in
            {[i \in DOMAIN Variants |-> ReplayVariant(input, Variants[i], from, to)]}})

-----------------------------------------------------------------------------
(***************************************************************************)
(* walkForward: tuned on the first half of the period, tested on the rest. *)
(***************************************************************************)
SplitAt == ReplayFrom + (ReplayTo - ReplayFrom) \div 2

\* Faulty variant: the rows from the window's start on.
WithinOpen(input, from, to) ==
    LET since(S) == {x \in S : from <= x.ts}
    IN  [input EXCEPT !.rows.trades = since(@), !.rows.market = since(@),
                      !.rows.funding = since(@), !.series = since(@),
                      !.rows.rotations = {r \in @ : from <= r.buyTs}]

FilterToWindow(input, from, to) ==
    [input EXCEPT !.rows.trades = Between(@, from, to), !.rows.market = Between(@, from, to),
                  !.rows.funding = Between(@, from, to), !.series = Between(@, from, to),
                  !.rows.rotations = {r \in @ : from <= r.buyTs /\ r.buyTs <= to}]

SummarizeHalf(input, settings, from, to) ==
    Only({Scored(evaluated) : evaluated \in {OutcomesOf(input, settings, Base, from, to)}})

\* More than 30 per cent fewer hits a signal, or no signal at all.
Degrades(tune, test) ==
    IF test.signalCount = 0 THEN TRUE
    ELSE /\ tune.hits > 0
         /\ 100 * (tune.hits * test.signalCount - test.hits * tune.signalCount)
              > 30 * tune.hits * test.signalCount

WalkForwardResult(tunedOn, tune, test) ==
    [tunedOn |-> tunedOn, tuneSummary |-> tune, testSummary |-> test,
     degrades |-> Degrades(tune, test)]

-----------------------------------------------------------------------------
(***************************************************************************)
(* runHistoricalReplay.                                                    *)
(***************************************************************************)
NoTokens == [trades |-> {}, info |-> ledger.rows.info, clusters |-> {}, market |-> {},
             funding |-> {}, rotations |-> {}]
IdleReport == [at |-> "idle", tokens |-> {}, counts |-> <<>>, replayed |-> {}, series |-> {},
               seen |-> Null, chosen |-> Null, inputs |-> Null,
               tunings |-> <<>>, halves |-> <<>>]

ReportInit ==
    /\ ledger \in ReportWorlds
    /\ reportRuns = <<>>
    /\ report = IdleReport
    /\ orphaned = {}
    /\ reportFaults = 0

\* The ingest writes rows of the period while a run goes on.
LateRowsCome ==
    /\ ledger.late # Null /\ report.at # "idle"
    /\ ledger' = [rows |-> [ledger.rows EXCEPT !.trades = @ \cup ledger.late.trades,
                                               !.market = @ \cup ledger.late.market],
                  late |-> Null]
    /\ UNCHANGED <<reportRuns, report, orphaned, reportFaults>>

StartReport ==
    /\ report.at = "idle" /\ Len(reportRuns) < MaxReports
    /\ reportRuns' = Append(reportRuns, [status |-> "running", summary |-> Null])
    /\ report' = [IdleReport EXCEPT !.at = "tokens"]
    /\ UNCHANGED <<ledger, orphaned, reportFaults>>

\* The tokens traded in the period, each with the number of all its trades.
FindTokens ==
    /\ report.at = "tokens"
    /\ LET tokens == {t.token : t \in Between(ledger.rows.trades, ReplayFrom, ReplayTo)}
       IN  report' = [report EXCEPT !.at = "replay", !.tokens = tokens,
               !.counts = [k \in tokens |->
                              Cardinality({t \in ledger.rows.trades : t.token = k})]]
    /\ UNCHANGED <<ledger, reportRuns, orphaned, reportFaults>>

ReplayTokens ==
    /\ report.at = "replay"
    /\ report' = [report EXCEPT !.at = "series", !.replayed =
           UNION {ReplayedSignals(InputsFor(ledger.rows, k, ReplayFrom, ReplayTo),
                                  RuleSettings, k, ReplayFrom, ReplayTo) : k \in report.tokens}]
    /\ UNCHANGED <<ledger, reportRuns, orphaned, reportFaults>>

\* loadMarketSeriesByToken: with no end.  seen is what there was to read.
LoadSeriesByToken ==
    /\ report.at = "series"
    /\ report' = [report EXCEPT !.at = "tuning", !.seen = ledger.rows,
           !.series = {p \in ledger.rows.market : p.token \in report.tokens
                                                    /\ ReplayFrom <= p.ts}]
    /\ UNCHANGED <<ledger, reportRuns, orphaned, reportFaults>>

\* The token with the most trades is read once more.
LoadTuningInputs ==
    /\ report.at = "tuning"
    /\ \E k \in IF report.tokens = {} THEN {Null}
                ELSE {t \in report.tokens :
                        \A u \in report.tokens : report.counts[t] >= report.counts[u]} :
        report' = [report EXCEPT !.at = "tune", !.chosen = k,
            !.inputs = IF k = Null THEN NoTokens
                       ELSE InputsFor(ledger.rows, k, ReplayFrom, ReplayTo)]
    /\ UNCHANGED <<ledger, reportRuns, orphaned, reportFaults>>

TuningInput ==
    [rows |-> report.inputs, token |-> report.chosen,
     series |-> {p \in report.series : p.token = report.chosen}]

\* What is worked out next, over which input and period: one synchronous
\* stretch of code over what has been read, with a step for each replay of it.
Period == CASE report.at = "tune" -> <<ReplayFrom, ReplayTo>>
            [] report.at \in {"tuneHalf", "sumHalf"} -> <<ReplayFrom, SplitAt>>
            [] OTHER -> <<SplitAt + 1, ReplayTo>>

InputOf(from, to) ==
    IF report.at = "tune" THEN TuningInput ELSE FilterToWindow(TuningInput, from, to)

Tune ==
    /\ report.at \in {"tune", "tuneHalf"}
    /\ \E period \in {Period} : \E input \in {InputOf(period[1], period[2])} :
          report' = [report EXCEPT
              !.at = IF @ = "tune" THEN "tuneHalf" ELSE "sumHalf",
              !.tunings = Append(@, TuneThresholds(input, period[1], period[2]))]
    /\ UNCHANGED <<ledger, reportRuns, orphaned, reportFaults>>

WalkForward ==
    /\ report.at \in {"sumHalf", "testHalf"}
    /\ \E period \in {Period} : \E input \in {InputOf(period[1], period[2])} :
          report' = [report EXCEPT
              !.at = IF @ = "sumHalf" THEN "testHalf" ELSE "write",
              !.halves = Append(@, SummarizeHalf(input, report.tunings[2].recommended,
                                                 period[1], period[2]))]
    /\ UNCHANGED <<ledger, reportRuns, orphaned, reportFaults>>

SummaryOf(evaluated) ==
    [replayed |-> Cardinality(report.replayed),
     rulePerformance |-> RulePerformance(evaluated),
     comboPerformance |-> ComboPerformance(evaluated),
     bucketPerformance |-> BucketPerformance(evaluated),
     thresholdTuning |-> report.tunings[1],
     walkForward |-> WalkForwardResult(report.tunings[2].recommended,
                                       report.halves[1], report.halves[2]),
     syntheticEvidence |-> \E e \in evaluated : e.synthetic]

Summary ==
    Only({SummaryOf(evaluated) : evaluated \in {EvaluateReplay(report.replayed, report.series)}})

Ended(status, summary) ==
    /\ reportRuns' = [reportRuns EXCEPT ![Len(reportRuns)] =
                         [status |-> status, summary |-> summary]]
    /\ report' = IdleReport

CompleteReport ==
    /\ report.at = "write"
    /\ Ended("complete", Summary)
    /\ UNCHANGED <<ledger, orphaned, reportFaults>>

\* Any of the reads or the last update throws; the update of the catch may
\* throw as well, and the process may die instead.
FailReport ==
    /\ report.at # "idle" /\ reportFaults < MaxReportFaults
    /\ Ended("failed", Null)
    /\ reportFaults' = reportFaults + 1
    /\ UNCHANGED <<ledger, orphaned>>

OrphanReport ==
    /\ report.at # "idle" /\ reportFaults < MaxReportFaults
    /\ orphaned' = orphaned \cup {Len(reportRuns)}
    /\ report' = IdleReport
    /\ reportFaults' = reportFaults + 1
    /\ UNCHANGED <<ledger, reportRuns>>

ReportNext ==
    \/ LateRowsCome \/ StartReport \/ FindTokens \/ ReplayTokens \/ LoadSeriesByToken
    \/ LoadTuningInputs \/ Tune \/ WalkForward \/ CompleteReport \/ FailReport \/ OrphanReport

-----------------------------------------------------------------------------
\* Every signal is counted once under each heading, real or synthetic.
SignalsCounted(summary) ==
    LET counted(split) == split.real.signalCount + split.synthetic.signalCount
        total(f) == MapThenSumSet(LAMBDA k : counted(f[k]), DOMAIN f)
    IN  /\ total(summary.rulePerformance) = summary.replayed
        /\ total(summary.bucketPerformance.mcapAtTrigger) = summary.replayed
        /\ total(summary.bucketPerformance.liquidity) = summary.replayed

\* The thresholds swept decide between the severities of rule A, which fires
\* either way, or belong to rule B, which is not scored: only the two filters
\* tell variants apart, and what is recommended is what is in force.
TuningKeepsSettings(tuning) ==
    LET sets == tuning.allSets IN
    /\ \A i \in DOMAIN sets :
        sets[i].dimension \notin {"minEntities", "minNetFlow"} =>
            sets[i].signalCount = sets[1].signalCount /\ sets[i].hits = sets[1].hits
    /\ tuning.recommended = RuleSettings

\* What walk-forward tunes on the first half is what someone would have tuned
\* on at its end who had no later row to look at.
TunedBlind ==
    LET known == RowsBy(ledger.rows, SplitAt)
        early == [rows |-> InputsFor(known, report.chosen, ReplayFrom, SplitAt),
                  token |-> report.chosen,
                  series |-> {p \in known.market : p.token = report.chosen}]
    IN  \/ Repaired(ledger.rows, SplitAt)
        \/ report.tunings[2] = Only({TuneThresholds(input, ReplayFrom, SplitAt) : input \in {early}})

\* A finished report counts every signal once and recommends the thresholds
\* in force; nothing of the second half reaches the tuning on the first, unless
\* bridge legs are paired otherwise (stated when no row came between the
\* reads); and a run says running only while it is, or after it died.
ReportsHonest ==
    /\ \A n \in DOMAIN reportRuns :
        /\ reportRuns[n].status = "complete" =>
               SignalsCounted(reportRuns[n].summary)
                 /\ TuningKeepsSettings(reportRuns[n].summary.thresholdTuning)
        /\ reportRuns[n].status = "running" =>
               n \in orphaned \/ (n = Len(reportRuns) /\ report.at # "idle")
    /\ report.at = "sumHalf" /\ report.chosen # Null /\ report.seen = ledger.rows => TunedBlind
=============================================================================
