# FlowRadar: models, checks and proofs

FlowRadar watches crypto wallets, ingests what they trade and transfer, derives
scores, signals and profit rotations from it and sends alerts to Telegram. It is a
TypeScript monorepo: a worker process (`apps/worker`), a Next.js dashboard
(`apps/web`), pure logic (`packages/core`), the passes that read and write Postgres
through Prisma (`packages/db`) and adapters to external services
(`packages/providers`).

The modules here specify the parts of it that decide *what happens when*: the job
runners, the detection of signals and rotations, the dispatch of alerts, the way wallets
come under watch, the passes that ingest and those that analyse. Section 1 is the
inventory, section 2 the plan, section 3 explains each module, section 4 the model
checking and section 5 the proofs. Sections 6 and 7 say what was found and what is left
out. `PROJECT.json` lists the same in
machine-readable form, with the source lines behind every definition.

## 1. The system

### How it runs

One worker process registers about twenty interval jobs and two on-demand queues
(`apps/worker/src/index.ts:180-306`) with a `JobRunner`. LITE mode is an in-process
runner (`runner/inline.ts`), FULL mode hands the same calls to BullMQ. JavaScript runs
one synchronous stretch at a time, and everything else may happen between two `await`s:
jobs with different names interleave freely at every database or network call, a job
never overlaps itself. The dashboard and a manual `seed` run are further processes on
the same database. No pass uses a transaction or a lock; where two writers could
collide, the code relies on a unique key, on a `findFirst` before a `create`, or on
nothing.

### Components

| Component | State it keeps | Operations | Talks to |
|---|---|---|---|
| LITE job runner (`runner/inline.ts`) | scheduled map with timer, overlap flag and in-flight promise; handler map; FIFO; drain flag and promise; started, stopped | `schedule`, `enqueue`, `process`, `start`, `stop`, timer callback, drain loop | every job |
| BullMQ runner (`runner/bullmq.ts`) | maps of queues and workers, started flag | the same interface over Redis | every job |
| Profit rotation (`db/rotation.ts`, `core/rotation`) | `ProfitRotationSignal` rows | match, look for a recent row, create | called by two jobs; read by Rule F and by dispatch |
| Signal detection (`db/signals.ts`, `core/rules`) | `Signal` rows, `TokenFlowSnapshot.signalStatus` | rotations, then per token: evaluate A..G, deduplicate, create, update the snapshot | rotations, snapshots; read by dispatch |
| Alert dispatch (`db/alerts.ts`, `core/alerts/cooldown.ts`, `providers/telegram.ts`) | `Alert` rows | find what has no alert, decide, send, record | signals, rotations, Telegram |
| Candidate validation (`db/candidateValidation.ts`, `core/candidates`) | `CandidateWallet.validationStatus`, `Wallet`, `WalletStats` | take a batch, mark it, judge, promote or reject, reset on error | trades, external sources, stats |
| External sources, top-trader backfill | `CandidateWallet`, source rows | upsert what a provider offers | validation |
| CSV import (`db/csv`, `api/import`) | `Wallet`, `WalletStats(csv)`, labels, `ImportJob` | parse, upsert wallet, note, insert stats, label, sum up | stats refresh, promotion |
| Stats refresh (`db/walletStatsRefresh.ts`) | `WalletStats(computed)` | pick wallets, recompute, insert | import, promotion |
| Wallet activity and ingest (`jobs/walletActivity.ts`, `db/ingest.ts`) | cursor per wallet, trades, `MoneyFlowEdge` | poll pages, dedupe by hash, upsert | everything downstream |
| Flow scoring (`db/scoring-pass.ts`) | `TokenFlowSnapshot` | aggregate windows, insert a snapshot | signal detection |
| Entity clustering (`db/clustering.ts`, `core/cluster`) | `EntityCluster`, members | wipe and rebuild by union-find | scoring |
| Bridge flow (`db/bridgeFlow.ts`) | confidence and match of bridge edges | read a window, pair legs, update both | dashboard |
| Money flow, funding events | none | read and rank edges | rules E and F, dashboard |
| Graph search (`db/graph`, `core/graph`) | search row, node and edge rows | run, replace the result, finish or fail | on-demand queue, dashboard |
| Token overlap (`db/dune`, `api/overlap`) | search rows, wallet and group rows, candidates | search own trades or Dune's rows, merge | dashboard, validation |
| Backtest (`db/backtest.ts`, `core/backtest`) | `BacktestResult`, one row per signal and horizon | evaluate, upsert | signals; dashboard |
| Replay (`core/backtest/replay.ts`, `db/replayRunner.ts`) | `BacktestRun`, one row per run | replay every token of a period, evaluate, break down, tune, walk forward | dashboard |
| PnL and scores | results of pure functions | evaluate | dashboard |
| Social ingest (`db/social`, `api/social/sources`) | `SocialSource`, `SocialMention` | fetch since the last sync, score spam, upsert; add, switch, delete a source | dashboard |
| Confluence ingest (`db/confluence`, `core/confluence`) | `ExternalConfluenceSource`, `TokenConfluenceSnapshot` | estimate liquidity risk, ask sources, record their health | dashboard |
| Wallet discovery, top-trader backfill | `Wallet`, `WalletStats(provider)`, `CandidateWallet` | create what a provider offers | import, ingest, validation |
| Providers and rate limiter | token buckets, HTTP clients | fetch, map | ingest, market data |
| Web dashboard and API | what a tab shows: the result of a search, switches, forms | render, submit, show an answer, refresh, switch a source | all tables |
| Seed script (`db/seed.ts`) | every table | wipe, write the mock world, run every pass once, check the result | all passes; worker and dashboard may run beside it |
| Worker bootstrap, settings (`core/settings.ts`, `api/settings`, `SettingsForm.tsx`) | settings row; the form with its texts | read or create, edit, save; wire | all |

### What is hard about it

* **Read, await, write.** Deduplication of signals and rotations, the anti-clobber
  guard of imported figures, the cooldown and the choice of a validation batch all read
  first and write several awaits later, on the strength of what was read.
* **Two jobs, one pass.** `runProfitRotation` is called by two jobs that the runner
  does not serialise against each other; `runCandidateValidation` by the worker and by
  a seed run.
* **Half-done work.** Every pass catches errors per item and goes on; what an item has
  written so far stays. A call that reports an error may have taken effect.
* **Crashes.** Nothing on the in-process FIFO survives; a row marked `validating` or
  `running` has no owner after a restart; a message may be out without its row.
* **Microtask order.** The runner's drain flag comes down one microtask after the loop
  has returned; `stop()` awaits promises that may not exist yet.
* **Boundaries.** Look-back windows are inclusive and counted from the start of the
  pass; page caps and cursors decide what is ever fetched.
* **Starvation.** Batches ordered by age, one FIFO for all names.

The complete list, at its lines and with the property that watches each, is `hazards`
in `PROJECT.json`.

### What makes each component correct

* *Runner*: no job overlaps itself; queue names share one serial FIFO; no runnable job
  waits for ever; `stop()` returns, and when it does nothing is running.
* *Rotation and signals*: no second row within the window; a Rule F signal rests on a
  recorded rotation; a visible status rests on a signal row.
* *Dispatch*: every signal and rotation gets one `Alert` row; nothing is sent twice
  unless the row that would have said so was lost; cooldown between alerts of a rule on
  a token; failing rows do not hold up others.
* *Intake*: a promoted candidate's wallet is watched and has figures; a verdict stands;
  no candidate is lost in `validating`; the operator's figures win; every pending
  candidate is examined.
* *Polling and ingest*: a transaction is recorded once, its cursor passes nothing that
  was handed over and not recorded, and the job catches up with the chain.
* *Clustering and scoring*: members partition the linked wallets whatever the order of
  the merges; member rows, cluster rows and stamps agree after a pass; the last snapshot
  counts whole clusters.
* *Searches*: a search ends as done or failed, done means complete, money is counted
  once, and what is called new was new.
* *Bridge pass*: after a pass each leg has a verdict and the verdicts of two legs agree.
* *Backtest and replay*: a replay sees nothing of the future; the rows of a signal belong
  to one evaluation; a report counts every signal once and tunes on no later row.
* *Profit*: what is realized is what matching unit by unit would give.
* *Seed*: a run leaves nothing of an earlier one, and exit code 0 means that the rows of
  an undisturbed run are there.
* *Settings*: what is in the table can be read by whoever starts next, an edit is not taken
  back unseen, and "Saved." is true.
* *CSV import*: the counts of the job say which rows are there.
* *Dashboard*: a page shows the search its address names and the switches as they are
  stored, or it is known why not; nothing on it is busy for nothing.
* *Social, confluence, discovery*: no post is lost between two syncs without a known cause
  and a wave of copies shows; the liquidity card shows the newest estimate and a source's
  health is never better than its answers; discovery adds wallets and takes nothing from
  those known.

## 2. The plan

What decides whether an operator is told the right thing once comes first; what only
computes figures comes last.

| Step | Modules | State |
|---|---|---|
| 1 | `JobQueue` (what a queue promises), `InlineRunner` (the code), refinement | done, proved |
| 2 | `SignalDetection`: two jobs that detect rotations, rules, snapshots | done, proved |
| 3 | `AlertDispatch`: decide, send, record | done, proved |
| 4 | `AlertPipeline`: 2 and 3 on one database; `AlertDispatch` is its abstract specification | done, proved |
| 5 | `WalletIntake`: validation, promotion, import, stats refresh | done, proved |
| 6 | `WalletActivity`: pages, cursors, trades and edges | done, proved |
| 7 | `WalletLinks`, `EntityClustering`, `TokenWindow`, `FlowScoring`, `ScoredClusters`: links, union-find, the wipe-and-rebuild pass, its reader | done, model-checked |
| 8 | `GraphSearch`: the life of a search, the traversal and its result | done, model-checked |
| 9 | `BridgeFlow`: the pairing of legs, the updates of a pair against a failure | done, model-checked |
| 10 | `FifoPnl` and `FifoUnits`: lot matching against unit matching | done, model-checked |
| 11 | `SignalRules`, `RotationMatching`, `ReplayWalk`, `Replay`, `SignalOutcome`, `ReplayReports`: the seven rules, the matcher, the replay, the backtest, and the reports of a replay run | done, model-checked |
| 12 | `TokenOverlap`: searches racing on the candidates | done, model-checked |
| 13 | `SocialIngest`, `ConfluenceIngest`, `WalletDiscovery`: the passes that bring in posts, estimates and wallets | done, `SocialIngest` and `WalletDiscovery` proved |
| 14 | `BullMqRunner`: overlapping calls of `start()` and `stop()` | done, proved |
| 15 | `SeedRun`: the seed script killed, started again, and beside the worker | done, model-checked |
| 16 | `SettingsEdit`, `WalletCsv`: the settings and their form, the CSV import row by row | done, model-checked |
| 17 | `SearchPages`, `SourceSwitches`: what the pages show against what is stored | done, model-checked |
| 18 | `InlineRunner` with `GraphSearch` (a request in the in-process FIFO when the worker dies); the steps of `SignalDetection` fed with `SignalRules` | open |

Abstract specifications: `JobQueue` for the runner, `AlertDispatch` for the pipeline. The
analysis modules carry reference definitions instead: connected components for
union-find, an observer without a future for the replay, single units for lots, what the
labels mean point against point for the label automaton.

Theorems still worth proving, in this order: `ConfluenceHonest`; the parts of `GraphSound`
that say finished means written and no edge dangles; the part of `PassSettlesWindow` that
says confirmed legs name each other; `SeedHonest` and `ImportAccounted`.

## 3. The modules

Everywhere a step is the code from one `await` to the next, which is what Node.js runs
without interruption; where a read and the decision taken on it fall into one step,
nothing can come between them in the code either. A failed call is a step of its own,
it may have taken effect or not, and a bound `MaxFaults` counts failures and crashes
together (in `WalletActivity` an outage that goes on counts once). Times are ticks, with inclusive windows as in the code.

Definitions whose name ends in what they lack (`TickUnguarded`, `ShouldSendByTrigger`, ...)
and whose comment begins "Faulty variant" are not part of any specification. Each is the
definition that follows it with one plausible mistake; put in its place, it makes a
property fail, which is how every property was shown to depend on the code.

### JobQueue and InlineRunner: `runner/inline.ts`

`JobQueue` is the promise: accept, begin the head when nothing is being handled, finish.
`InlineRunner` is the code, microtask by microtask. `Schedule`, `Enqueue`, `Process`,
`Start` and `Stop` are the methods; `Tick` is the interval callback, guarded by
`running[n]`; `SettleInvocation` its `.finally`. `KickDrain` starts the loop unless the
flag `draining` is up, `LoopTurn` is the loop's synchronous part (take the head if its
name has a handler, otherwise return), `ResumeLoop` the continuation after the handler
has settled. `DrainFinally` is the microtask that lowers the flag *after* the loop has
returned: the window between the two is a state (`drainer = "returned"`). `stop()` has
three steps: clear the timers and read the in-flight promises, read `drainComplete`,
resolve.

`missedKick` and `revived` record that a kick fell into that window, and that a call
after `stop()` set work going again (`start()` does not look at `stopped`); the
properties say what holds unless they did.

### SignalDetection: `db/rotation.ts`, `db/signals.ts`, `core/rules`, `db/scoring-pass.ts`

`rot[j]` is one run of `runProfitRotation` per calling job: `StartPass` fixes the clock
and the candidates, then `CheckRotation` and `CreateRotation` alternate. `det` is the
rest of the signal pass: `BeginToken` evaluates the rules, `DedupeSignal` and
`CreateSignal` alternate over what fired in the order A to G, `ReadSnapshot` and
`WriteStatus` set the status of the token's latest snapshot. The read and the write are
two awaits, and `ScoreToken`, a new snapshot in status `watching`, may fall between
them: `superseded` remembers that the write goes to a row that is no longer the latest.
Which candidates match and which rules fire is free, except that Rule F fires only on a
matched rotation and each rule reports its own severities.

### AlertDispatch: `db/alerts.ts`, `core/alerts/cooldown.ts`, `providers/telegram.ts`

`dis` is the pass: `StartDispatch` reads the pending signals, `Decide` applies the
cooldown, `Send` calls Telegram, `Record` creates the row; `BeginRotations` does the same
for rotations, without a cooldown. `Alert` rows are a sequence, so that "the latest for
this token and rule" is what the query returns, ties included. `delivered` and
`redelivered` are Telegram's side. The rows the pass reads belong to `Outside`, an
environment that may append any row at any time.

### AlertPipeline

Instantiates both modules on shared `now`, `faults`, `signals` and `rotations`. A step is
one of a detection job, one of the dispatcher, or a crash that takes all down. What it
says of detection is that it is one of the environments `Outside` allows, so all that
holds of the dispatcher holds here; what holds only here is `CooldownSpacing`. The
cooldown lets a CRITICAL signal through when the last alert was to a lower one
(`cooldown.ts`, rule 3), and that last alert may be a `skipped_cooldown` row, so with
arbitrary signals two messages can follow each other at once. The detector never raises
such signals: the look-up is per token *and rule*, the only CRITICAL rule is G, and G
has no lower severity. The same fact means that the bypass is never taken in the
composed system.

### WalletIntake: `db/candidateValidation.ts`, `db/walletStatsRefresh.ts`, `db/csv`, `db/externalWallets`

`val[p]` is a validation pass of the worker or of a seed run: choose the oldest pending
candidates, mark them, then per candidate assess, and either upsert the watched wallet,
look for stats, insert them and write the verdict, or write the verdict at once; an
error resets the candidate to `pending`. `ref` is the stats refresh with its one read of
the latest rows for all wallets, `imp` the import's row. Of `WalletStats` the model keeps
the greatest `computedAt` and the sources of the rows that bear it: every reader asks for
the latest row, and rows of equal time are a free choice.

### WalletActivity: `jobs/walletActivity.ts`, `db/ingest.ts`, three providers

`chain` is the environment: transactions in block order with non-decreasing timestamps.
`MockPage`, `HeliusPage` and `BscScanPage` say what a page holds and where the next one
starts: oldest first, filtered before paging; newest first, filtered after paging; two
lists merged, oldest first, filtered after paging. `poll` is the job's cycle: `FetchPage`
with the early stop on an empty page, `Truncate` at the cap, `SaveCursor` at the end,
`FailPoll` and `RecordFailure` when something throws, and `FailRecordFailure` when that
throws as well, which ends the cycle because it lies outside the `try`. `ing[i]` is a run
of `ingestNormalizedTxs` by the worker or a seed: `WriteTrade` (an upsert),
`LookupEdge` (registry, then an edge of the leg under any action), `CreateEdge`
(a unique-key error is swallowed). The registry may say anything at any look-up. The
cursor is kept as the latest timestamp seen with an exclusive `since`, which is what
"plus one millisecond" and an inclusive one come to.

### WalletLinks and EntityClustering: `db/clustering.ts`, `core/cluster`

`WalletLinks` is what a pass computes: the evidence of a pair (`DirectRows`, `BridgeHops`,
`Via` a registered address, `FunderPairs`, amounts of similar size, a fresh wallet that
buys soon), its `LinkConfidence`, and `ClusterWallets` by `UnionByRank` and `Find` with
path compression. The order of the pairs is free (`MergeOrders`), because it comes from a
`Map` filled in the order of unordered queries. `EntityClustering` is the pass statement
by statement: `Unstamp`, `DeleteMembers`, `DeleteClusters`, then per cluster
`RecheckWallets`, `CreateCluster`, one `InsertMember` each, `StampTrades`. A wallet may
vanish before its member row is inserted (the foreign-key error is swallowed), a trade may
be ingested at any point, without a cluster (`TradeIngested`), and any statement may throw;
`unstamped` remembers the wallets with a trade newer than their stamp. `Linked`, `Connected` and `Components` are reference definitions.

### TokenWindow, FlowScoring and ScoredClusters: `core/window`, `core/scoring`, `db/scoring-pass.ts`

`AggregateWindow` is `aggregateWindow`, field by field, with ratios kept as fractions;
`LoadMarket` is the bounded read that replaces the whole market history; `FlowScore` is
in thousandths, truncated. A scoring pass reads a token's rows (`FetchInputs`), waits for
the risk provider, and writes a snapshot that bears the time *its pass* began
(`SnapshotTime`). `ScoredClusters` runs the clustering job, whose last act is a scoring
pass of its own, next to the scheduled scoring pass on the same tables.

### GraphSearch: `db/graph`, `core/graph`, `api/graph`

`SetRunning`, `StartTraversal`, then the traversal: `ExpandNode` (one fetch, an await),
`AdmitCandidate` (the best candidate of the whole queue, its edge and its node) or
`Truncate` at a cap; then `DeleteGraphNodes`, `DeleteGraphEdges`, `CreateGraphNodes`,
`CreateGraphEdges`, `FinishSearch`. `StatementThrows` goes to `MarkFailed`, which may
throw in its turn; `RunLost` is the death of the process at any point; a search may be
run again. `RowIngested` brings a money-flow row between two fetches. The candidate queue
is a set: equal candidates differ by their number, so `Top` is unique.

### BridgeFlow: `db/bridgeFlow.ts`

`PairBridgeLegRows` is the greedy pairing, written as what greediness comes to: a pair is
matched when no better pair that shares a leg is. `StartBridgePass` reads the legs of the
window, `UpdateLeg` writes one row, `BridgePassFails` leaves the rest; `LegIngested` may
fall anywhere, and passes run at the times of `PassTimes` with the window sliding.

### FifoPnl and FifoUnits: `core/pnl/fifo.ts`

`ComputeFifoPnl` folds the trades in the order of their times (`ByTime`, stable) over a
book of lots. Money is counted in units of 1/`Scale`, a common multiple of the amounts,
so nothing is rounded. `FifoUnits` lets the trades become known in any order and counts
the same profit unit by unit.

### SignalRules, RotationMatching and Replay: `core/rules`, `core/rotation`, `core/backtest/replay.ts`

`RuleA` to `RuleG` are the rules over the two aggregates, the funding events and the
rotation candidates. `RotationMatching` has the inputs of rules E and F: `FundingEvents`,
`ProfitExits` (with `FifoPnl`), `PairBridgeLegs`, and `Rotations`, exit to transfer to
receipt to purchase. `ReplayWalk` is the replay, given all rows at once
(`ReplaySignals`), with the token, the period and the settings as parameters. Beside it
`Replay` has an observer without a future: `Heard` is what the live pass would have raised
had it been shown, at each step so far, only the rows there were by then, with the market
read through `LoadMarket`.

### SignalOutcome: `core/backtest/evaluate.ts`, `db/backtest.ts`

`EvaluateSignalOutcome` takes the basis, the slices of the horizons and the label
automaton (`WalkPoint`). A pass takes the signals with fewer rows than horizons, evaluates
one, upserts its rows one by one and may die between two; the worker's job and the web
route may each have a pass under way. Percentages are distances from the entry, and a row
keeps 0 for one that is not known, as the upsert does (`StoredFigures`). `ShadowStatus` is what `backtest/shadow.ts` makes of
the rows of a signal.

### ReplayReports: `db/replayRunner.ts`, `core/backtest/{rulePerf,summarize,thresholdTuning,walkForward}.ts`

A run reads in four steps (`FindTokens`, `ReplayTokens`, `LoadSeriesByToken`,
`LoadTuningInputs`), and rows of the period may arrive between any two (`LateRowsCome`).
What it works out then has no await in it: `Tune` and `WalkForward` are each two steps,
one per replay of the same rows, so that an intermediate result is in the state.
`CompleteReport` writes the summary, `FailReport` is the catch, `OrphanReport` the death of
the process or a catch that throws. `ReplayWalk` is instantiated with other settings and
other periods. Rates are kept as the counts they are made of.

### TokenOverlap: `db/dune`, `api/overlap/route.ts`

A request starts one search or two (`LegsOf`); each reads, writes its wallet rows, and for
Dune's rows looks the candidate up and upserts it in two statements, then its group rows,
then `MarkDone`. A hybrid request merges the two (`Merged`: per wallet the row with the
most tokens) into a third search that is `done` before its rows are copied. Any statement
may throw, and a request may die.

### SocialIngest: `db/social/ingest.ts`, `core/social`, `api/social/sources`

A pass takes the sources as it read them (`StartSocialPass`), and per source fetches chain
by chain what is newer than the `lastSyncAt` it read (`FetchPosts`), scores a post against
the rows there are (`ClassifyPost`), upserts one row per mention (`UpsertMention`) and
moves `lastSyncAt` (`FinishSource`). A post whose statement throws is skipped, a source
that throws is marked. The route may add, switch or delete a source at any point; a source
added again has a new id. `missed` remembers the posts a sync moved past and why.

### ConfluenceIngest: `db/confluence`, `core/confluence/liquidityRisk.ts`

First leg: `ReadMarket`, `FindRisk`, `WriteRisk` per token, the last two being the
`findFirst` and the `create` that no unique index backs; the key of a row is the hour of
the market point, not of the pass. Second leg: per source `OpenSource`, one answer or throw
per token, `CloseSource` with the health that is left. Two processes may run a pass each;
`contested` remembers the token and hour whose row both were about to create.

### WalletDiscovery: `db/walletDiscovery.ts`, `db/tokenTopTraderBackfill.ts`

`FindWallet`, `CreateWallet` and `CreateFigures` are the three statements per address, with
the clock read before the first. Beside them a CSV import takes its three steps, the
ingest creates wallets, and the validation decides on the candidates that the backfill
upserts for tokens whose market cap rose enough.

### BullMqRunner: `runner/bullmq.ts`

A step runs from one `await` to the next. `start()` is `Start` up to the import, `Imported`
up to the first upsert, `UpsertReturns` or `UpsertRejects` for each registration; `stop()`
is `Stop`, `WorkersClosed`, `QueuesClosed`, or `CloseRejects`. Calls may overlap in any way.
`Make` is `queueFor` and `wireWorkerFor`: what the maps lack is made. `strayed` remembers
that something was opened that a `stop()` under way no longer sees (finding 22).

### SeedRun: `db/seed.ts`

One step per `deleteMany` of the wipe, taking the dependent rows along as the schema's
cascades do, then one per phase of `main`. A phase whose pass catches errors may lose one
item (`Items`); any statement may throw or the process be killed before or after what the
step would have written (`Die`), and another run may start on what is left. `OtherWrites`
is the worker or the dashboard. `SelfCheck` has the rows of the self-check that decide the
exit code. What the passes compute (which rules fire, what is clustered, what a candidate's
trades are worth) is in `SeedWorld`, except the verdict on a candidate, which depends on
rows earlier phases wrote.

### SettingsEdit: `core/settings.ts`, `api/settings`, `SettingsForm.tsx`

The table is a function from ids to objects, because nothing keeps it a single row. A
field of the form keeps its text apart from the last number it understood (`TypeText`,
`Unclear`). `ClickSave` sends the whole form, `FindFirst`, `CreateDefaults` and `UpdateRow`
are the statements of the handler, and `ShowAnswer` puts what came back into the form and
mounts its fields again. Other clients, the worker's boot and the seed script make the same
calls (`Outside`, `WorkerBoots`, `SeedWipes`), and a call may be lost on the way there or
back. `DeepMerge` and `Accepted` are `parseSettings` on objects seen as functions from
paths to values.

### WalletCsv: `db/csv/importWalletsCsv.ts`, `api/import`, `jobs/walletImport.ts`

`ParseCsv` folds `ScanCsv` over the text; `ReferenceRows` splits it without a state, by the
parity of the quotes before each character. An import goes from one call to the next
(`UpsertWallet`, `WriteNotes`, `CreateStats`, `LookForLabel`, `CreateLabel`, `CreateJob`);
rows that do not validate cost no call (`FromRow`). `Call` is a call that works, one that
throws after it was done or before, or the end of the process. Two imports run side by side;
`csvRaced` remembers what both were about to write.

### SearchPages: `GraphExplorer.tsx`, `OverlapFinder.tsx`, their pages and routes

One tab on `/graph` or `/overlap`, and a table of searches. A navigation is asked for and
happens later (`FollowLink`, `RenderPage`, `Reload`, `StartOver`); `Mounted` is a component
that takes its initial result, which one that stays mounted does not. A call of
`handleSubmit` is a record that goes from the POST (`CreateSearch`, `RunSearch`, `TagSource`
in the route) to its answer, the GET and `ShowResult`; it goes on when the tab has left, and
the route goes on when the tab has been loaded again or the call was lost. What a search
computes is in `GraphSearch` and `TokenOverlap`; here it is whole or not.

### SourceSwitches: `SourceHealthTable.tsx`, `SourceManager.tsx`, their pages and routes

The rows of `/sources` or `/social` and the switches that show them. `ClickSwitch` shows what
was clicked at once; `FindRow` and `WriteRow` are the two statements of a route; `PutBack`
takes the switch back when the call fails, also when only its answer was lost. `RefreshPage`
renders the page anew: a switch keeps its state as long as its row keeps its id
(`RenderRows`), but when the layout of `/social` changes everything is mounted anew
(`Mount`). Another tab, the ingest and the seed change the rows meanwhile (`Elsewhere`,
`MentionsCome`, `SeedAgain`). `strange` marks a switch whose row was changed behind the
page's back; no action depends on it.

## 4. Model checking

Every run terminates with the whole state space explored.

| Run | Instance | Distinct states, depth |
|---|---|---|
| `inline_runner` | 2 scheduled names, 2 queue names, 3 jobs | 47,050, 23 |
| `signal_detection` | 1 token, 1 key, rules F and G, window 1, 2 candidates, clock 0..2, 1 fault | 2,138,150, 56 |
| `alert_dispatch` | 1 token and rule, cooldown 2, clock 0..2, 2 signals, 1 rotation, 1 fault | 1,018,692, 30 |
| `alert_pipeline` | 1 token, 1 key, rule F, window 0, cooldown 1, clock 0..1, 1 fault | 558,209, 56 |
| `wallet_intake` | 2 candidates at one wallet, worker and seed, batch 1, clock 0..1, 1 fault | 678,473, 41 |
| `wallet_activity` | 1 wallet, mock and Helius, pages of 1, cap 2, 3 transactions, 2 timestamps, 1 fault | 719,606, 53 |
| `analysis` | seventeen scenarios, below | 458,753, 129 |
| `inline_runner_stranded`, `signal_detection_duplicate`, `wallet_intake_csv`, `wallet_intake_starved`, `wallet_activity_bscscan` | counterexamples, section 6 | |

### What the runs show

* `inline_runner`: no name overlaps itself (`OneInvocationPerName`); handlers begin in
  the order of the calls, one at a time (`ImplementsJobQueue`); `stop()` returns
  (`StopReturns`), and when it has nothing runs (`StopQuiesces`); a job behind which no
  unhandled name waits is served (`ServedUnlessKickMissed`). The exception has one cause
  only (`SleepsOnlyOnMissedKick`).
* `signal_detection`: no second signal of a rule on a token within the window
  (`NoDuplicateSignal`); two equal rotations always come from the two different jobs
  (`OneRotationPerJob`); a Rule F signal rests on a rotation row even when the create
  failed and another job's row counts (`RuleFBackedByRotation`); a status other than
  `watching` rests on a signal of a rule that gives it (`StatusBackedBySignal`).
* `alert_dispatch`: one row per signal and rotation, and a second message only after a
  send that was not recorded (`OneAlertPerRow`, `RedeliveredOnlyUnrecorded`); every row is
  alerted to (`EveryRowIsAlerted`).
* `alert_pipeline`: the composition implements `AlertDispatch` (`RefinesDispatch`), and with
  the signals the detector really raises alerts of a rule lie a cooldown apart
  (`CooldownSpacing`).
* `wallet_intake`: a promoted candidate's wallet is watched and has stats
  (`PromotedIsTracked`); a verdict is only taken back by a pass that held the candidate
  together with another one, or whose own write of it reported an error
  (`VerdictIsFinal`); a candidate without an owner in `validating` was lost by a fault
  (`StrandedOnlyByFault`); imported figures give way only to a pass that had looked before
  they came (`CsvOverruledOnlyByRace`); the oldest pending candidate is examined
  (`HeadIsExamined`).
* `wallet_activity`: the cursor passes nothing a poll was handed and did not record, trade
  and edge; the only gaps are what lay beyond the cap of a newest-first provider and what
  bears a cursor's very timestamp (`CursorCovers`). For the mock's oldest-first pages this
  is the claim of the job's header that no data is lost. A leg has one edge however often
  it is delivered and however the registry changes, unless two callers were about to
  create it together (`OneEdgePerLeg`). The job catches up (`EveryTxIsReached`).

* `analysis`: a behaviour is about one scenario, since of these components only clustering
  and scoring write what another reads.
  * *clusters*: the clusters are the connected components of the qualifying links, whatever
    the order of the merges, and member rows, cluster rows and stamps say the same after a
    pass that ended well, wallets that vanished apart; a member's trades carry its cluster,
    but for those ingested since they were stamped (`WrittenTablesAgree`). After the
    clustering job the snapshot a reader takes counts the entities of the clusters now in
    the table, however the scheduled passes overlapped the wipe: a pass that read half of
    the tables began earlier, so its snapshot is the older one even if written last
    (`LatestCountsWholeClusters`).
  * *replay*: at every step the replay of the whole history fires what the observer without
    a future fires, rule by rule and with the same severity (`ReplayIsBlind`); this also
    shows that the bounded market read changes nothing. Rule F is left out where bridge legs
    were paired again (finding 13).
  * *outcomes*: all rows of a signal belong to one evaluation even if an earlier pass died
    between two, the label is what the header of `evaluate.ts` says labels mean, and the
    figures of a row not marked incomplete are final (`OutcomeRowsAgree`); signals two passes
    evaluated at once are left out (finding 10). What the shadow page calls a signal is
    what its rows say.
  * *reports*: a finished report counts every replayed signal once under each heading; the
    thresholds swept make no difference to what is scored, so that what is recommended is
    what is in force (finding 25); what walk-forward tunes on the first half is what could
    have been tuned at its end; a run says running only while it is, or after it died
    (`ReportsHonest`).
  * *graph*: no edge without its nodes, every depth is the length of a walk from the root,
    a search that was not cut short shows everything its expanded nodes were in, and money
    is counted once although every edge is offered from both ends, and whoever reads a
    finished search finds the graph it counts, the rows of one run, whatever was left by
    runs that died (`GraphSound`); a running search is settled unless its process died
    (`SearchSettles`).
  * *bridge*: after a pass that ended well every leg it read has a verdict, confirmed legs
    name each other, and the pairing is stable (`PassSettlesWindow`).
  * *fifo*: profit is that of matching unit by unit (`FifoMatchesUnits`).
  * *overlap*: a search that says it is done is whole, with its groups, and a wallet reported
    as newly added was no candidate when the search began (`OverlapHonest`).
  * *social*: what a source was offered up to its last sync is stored, but for posts whose
    ingest threw or that came between the fetch of their chain and the end of the sync; when
    enough authors post one text within the window, one of the copies at least is scored as
    copied, in whatever order and from whichever source they were read (`MentionsAccounted`).
  * *confluence*: a token has one row an hour, two only when two passes were about to create
    it at the same time; while no two passes estimate at once, the
    card shows the risk of the newest point a pass wrote about; a source reads live only when
    every answer of its last sync was good, and any other status it shows was given by one
    of its answers (`ConfluenceHonest`).
  * *discovery*: an operator's figures are not outranked by made-up ones unless both were
    being written at once, made-up figures belong to wallets discovery created, verdicts
    stand, and only traders of tokens that rose become candidates (`DiscoveryOnlyAdds`).
  * *bullmq*: unless a `stop()` overlapped with something that opens them, no name has two
    workers or queues, nothing is open once stopped, and a `start()` that resolved has wired
    everything, two starts at once included (`OneWorkerPerName`).
  * *seed*: after its wipe no row of an earlier run is left, wherever that one ended, and no
    phase writes a row before the rows it refers to; made-up prices are written in mock mode
    only; a run that nobody disturbs and that loses nothing ends with 0 and always with the
    same rows; with 0 it ends only with those rows, but for what the self-check does not look
    at: posts, estimates, refreshed statistics, the status of a snapshot whose rules were not
    written, and signals that neither detection pass could write (`SeedHonest`).
  * *settings*: whatever was sent, every row can be read by the next boot or page and gives
    a range that is not empty, and there is one row unless two were about to create it; an
    answer changes no field that showed a plain number when Save was clicked and was not
    touched since; "Saved." means that row, form and numbers agree, unless somebody else
    wrote or two saves were under way (`SettingsHonest`, a part of `DashboardHonest`).
  * *csv*: the parser splits every text of up to five characters as the reference does; a
    finished import has counted each row once, and a row it calls good is there with its
    figures, its note and its labels, whatever failed and whichever import ran beside it
    (`ImportAccounted`).
  * *pages*: once a navigation is over, the result is that of the search in the address,
    unless a link was followed, or an answer came late, while the page stayed mounted; what
    a search of the page brought is its last word and the same that loading the page gives,
    under the source that was asked; "running" is said exactly while a search of the page is
    under way, but for an overlap search whose failure is shown first (`PagesHonest`, a part
    of `DashboardHonest`).
  * *switches*: a switch at rest shows what is stored unless somebody else changed the row,
    or a call of the page took effect whose answer did not arrive; a switch or form that is
    busy waits for a call or a refresh that will come; no name is twice in the table, although two
    look before either creates (`SwitchesHonest`, a part of `DashboardHonest`).

### Bounds

Every bound is a constant of its module: `MaxJobs`, `MaxTime`, `MaxFaults`,
`MaxCandidates`, `MaxTxs`, and `MaxSignals` and `MaxRotations` in `MCAlertDispatch`.

* The runner's hazards need a job at the head, one behind it, and one that arrives while
  the loop has returned; two queue names so that one can block the other.
* A window of 1 in a clock of 0..2 has a row inside, on the edge and outside it. One token
  is enough, because no query relates two tokens; two rules are needed, because one
  rule's failure must not lose the other, and G because its status goes before F's.
* In dispatch the second signal meets the cooldown of the first, and the rotation comes
  after both. `MCAlertDispatch` dates a row at the clock of its appearance.
* `MCAlertPipeline` leaves out the `profitRotation` job and the scoring pass, which touch
  nothing the dispatcher reads that `signalDetection` does not, and the proof in section 5
  covers them. Rules F and G together with a cooldown of 2 and no faults were explored
  once (9.7 million states, no error).
* Two candidates at one address make two promotions of one wallet; a batch of 1 puts one
  behind the other. `MCWalletIntake` restricts the run to seeds that validate before
  anything is imported and while no refresh runs (`SeedFirst`), so that only the worker's
  pass races with those two; without the restriction 7.5 million states gave no error.
* Three transactions with pages of one and a cap of two: a poll that ends before the cap,
  at it and short of the last; two timestamps make a tie unavoidable. Two wallets,
  each transaction involving either or both, were explored once with Helius alone (2.55
  million states, no error).

* `analysis`, clusters: four wallets give two clusters of two that a third link joins; a
  line and a ring differ in whether the last union finds one root. Worlds with a bridge, an
  exchange, a router and a shared funder decide links by each kind of evidence. Two
  clustering passes and three scoring passes; a behaviour has one trouble at most - a fault,
  a wallet that vanishes, a trade ingested - and one scoring pass less when it has it
  (`Affordable`).
* `analysis`, replay: eight times, a step of two and an end off the step; every subset of
  three trades, three moves and three market points, 512 histories. Thresholds are small
  numbers, chosen so that every rule fires in some history and stays silent in another.
* `analysis`, reports: two halves of four times with a purchase in each, a price that
  doubles in one of them, six variants of which two are filters, a second token, and a
  purchase and a price that come late; two runs and one fault.
* `analysis`, graph: a ring with parallel and reverse edges, and a star of registered hubs,
  in all four modes, each cap and each filter by itself, one row ingested during the search,
  one re-run and one fault. Bridge: two deposits that each could be the other's. FIFO: six
  trades in any order, with lots split and oversold. Outcomes: paths of four points over
  four prices. Overlap: each source, a wallet in two cohorts and twice in Dune's answer.
* `analysis`, social: a text posted by three authors over two sources, posts dated at the
  time of the pass, one edit of the sources; confluence: two processes over points in two
  hours and zero figures, a source with good and bad answers, one fault; discovery: a
  wallet offered, imported and active at once, tokens that rose, fell or are too new;
  bullmq: four calls or faults beside at most two registrations; seed: two runs and two
  events (items lost, deaths, rows of others), beside a row of others no second one, on a
  database that was empty or held rows of every table.
* `analysis`, settings: a row found, none, and two; two changes and two saves with one event
  (a call of others, a boot, the seed, a page loaded again, a lost call) or none, two events
  without any (`SettingsAffordable`); every combination of the three was explored once
  (6.2 million states, no error). Csv: every text of up to five characters out of quote,
  comma, both line ends and another; files with good rows, every kind of bad one, the same
  wallet twice, a source of two lines, no header and no rows; one fault.
* `analysis`, pages: a table with one search, done or running, and each kind of search to
  submit; at most two searches, two visits and one fault, and three of these together
  (`PagesAffordable`). Switches: two wallet sources, or a social one and two names typed; at
  most three clicks and two events, and three together (`SwitchesAffordable`).

No symmetry is declared: the sets are too small to gain by it, and several runs check
liveness.

### Fairness

* `InlineRunner`: weak fairness of promise continuations (`ResumeLoop`, `DrainFinally`,
  the steps of `stop()`), which the event loop guarantees, and of the settling of jobs and
  handlers. The latter assumes that every job's promise settles; a job that hangs blocks
  its own name, and a queue handler that hangs blocks the FIFO, as the code has no
  time limits. Nothing is assumed of `tick`, `enqueue`, `process` or `stop`.
* `AlertDispatch`: weak fairness of `Progress`, the pass with its start: the interval
  timer keeps starting it and its awaits settle. Faults are not fair; there are finitely
  many in a run.
* `WalletIntake`: the same of the worker's validation pass; nothing of the seed, the
  refresh or the import.
* `WalletActivity`: the same of the job; nothing of the seed or of the chain.
* `analysis`: weak fairness of `RunStep`, the steps of a graph search that was started: it is
  one async function whose awaits settle. Nothing of the other scenarios, and nothing of a
  search's start, its death or the rows that come in.

## 5. Proofs

| Module | Theorems | Obligations |
|---|---|---|
| `InlineRunnerProofs` | `TypeCorrect`, `OverlapGuard`, `RunnerImplementsQueue`, `StopIsFinal`, `SleepIsAccountedFor` | 445 |
| `AlertDispatchProofs` | `TypeCorrect`, `RowsAreAlertedOnce`, `DeliveredAgainOnlyUnrecorded`, `CooldownHolds` | 921 |
| `SignalDetectionProofs` | `TypeCorrect`, `SignalsAreNotDuplicated`, `JobsRecordRotationsOnce`, `RuleFSignalsAreBacked`, `StatusesAreBacked` | 1821 |
| `AlertPipelineProofs` | `PipelineImplementsDispatch`, `PipelineAlertsOnce`, `PipelineDeliversOnce`, `PipelineKeepsCooldown` | 198 |
| `WalletIntakeProofs` | `TypeCorrect`, `PromotionsAreTracked`, `VerdictsStand`, `StrandedAreLost`, `CsvIsOverruledOnlyByRace` | 1666 |
| `WalletActivityProofs` | `TypeCorrect`, `LegsHaveOneEdge`, `CursorIsHonest` | 3070 |
| `BullMqRunnerProofs` | `TypeCorrect`, `NamesHaveOneWorker` | 996 |
| `IngestProofs` | `TypeCorrect` and `OnlyAdds` of `WalletDiscovery`; `SocialTypeCorrect` and `MentionsAreAccounted` of `SocialIngest` | 2637 |

They hold for all values of the constants that satisfy the assumption named in the
module (`RunnerAssumption`, `DispatchAssumption`, `DetectionAssumption`,
`PipelineAssumption`, `IntakeAssumption`, `ActivityAssumption`, `BullMqAssumption`,
`DiscoveryAssumption`, `SocialAssumption`): naturals where the bounds and windows are, `DestOf` a function
from keys to tokens, F among the rules, `NoItem` not an item; `WalletOf` a function from
candidates to wallets, no candidate called `none`, the passes the worker's and perhaps the
seed's; providers among the three that are modelled; chains in a sequence and points in time
integers; posts with a time since the epoch, the window of the spam filter a natural, its
least number of authors and its weights integers. The runs evaluate the same assumptions on their instances. The bounds are
parameters as well, so the theorems do not depend on them.

Two theorems have a hypothesis beyond that. `CursorIsHonest` excludes the provider
`bscscan`, with which `CursorCovers` is false (section 6), as the run does. `CooldownHolds`
supposes `EvenlyCritical`: the signals of one rule on one token are all CRITICAL or none
is. The dispatcher alone cannot know it, but it is what the detector's rules report, and
`PipelineKeepsCooldown` has no such hypothesis.

**Runner.** `OneInvocationPerName` is not inductive: a name with `running` down and an
invocation outstanding could tick. `FlagIsHonest` adds that the flag is up exactly while
one invocation is outstanding. The refinement needs `LoopInv`: the flag `draining` is up exactly
when the loop exists or its `.finally` is due, an item is held exactly while the loop
handles it, and ids in use are at most `nextJobId`; then an accepted item is fresh in the
abstract queue. Every call maps to `Accept`, or to `AcceptAndBegin` when the kick starts
the loop at once; timers and `stop()` stutter. `StopInv` follows the promises `stop()`
has read: what is neither awaited nor revived does not run. `SleepInv` says that a loop
that is off or has returned while its head is runnable missed a kick; `KickDrain` in any
other state takes the head itself.

**Dispatch.** `DeliveryInv`: what the pass still has to do has no row (`TodoPending`), nor
has what it holds (`HandPending`); what Telegram has shown has a row, or is in hand, or
counts as unrecorded (`Accounted`). The pass is the only writer of rows, so a row it did
not see when it read the pending ones cannot appear behind its back; that is what makes
`TodoPending` inductive, and it would fail with two dispatchers. `CooldownInv` follows one
row through a pass: a signal that is cleared for sending lies a cooldown after every
attempt for its rule and token (`HandSpaced`), since the pass writes no row but the one in
hand between the look-up and the record, and its own clock does not move. The one way round
the look-up is an escalation to CRITICAL, which `EvenlyCritical` excludes within a rule.

**Detection.** `TypeInv` adds to the types that a pass about to check, create or write has
something in hand, and that a pass's clock is not ahead of the wall clock. `Looked` says
that the pass about to create a signal has found none active *and still would*: only this
job writes signals, and its clock does not move, so the answer cannot change between the
look-up and the create. `LookedForRotation` says the same of one job's own rotations,
which is all that is true: the other job's row may appear in between, and the finding of
section 6 is that it does. `BackingInv` is about what a pass carries from one part to the
next (`PassBacked`): a token matched in the rotation part has a rotation on record within
the window or its candidate still to come; while candidates are left the pass has not
reached the tokens, and rule F fires only on a token matched. A rule that has fired keeps
its turn ahead of it or has an active signal (`FiredSettled`), whether its create
succeeded, failed or was left out as a duplicate; so the status written at the end of a
token rests on signals, and since signals and rotations are never deleted it stays so.

**Pipeline.** A detection step appends at most one row to `signals` or `rotations`, with
a time not after the clock, or advances the clock; that is `Outside`. It needs the
detector's `TypeInv`, which the dispatcher's steps leave alone. The dispatcher's two
delivery theorems then carry over. For the cooldown the dispatcher's step lemma is used
directly, with the hypothesis it needs from the detector: every signal has a severity its
rule gives (`SeveritiesFit`), so being CRITICAL is a matter of the rule, which is G.

**Intake.** `PromotedIsTracked` needs to know that a pass that promotes has watched the
wallet before it looks for figures, and has found or written some before the verdict
(`PromotionIsTracked`); nothing takes a wallet from the watch list or deletes figures.
`VerdictsStand` is an action property: `SharedIsKnown` says that of what two passes hold
both know it, `JudgedIsShared` that what a pass holds of judged candidates another one has
judged, or its own write of the verdict reported an error; so a verdict is overwritten only
in the two ways the property grants. `StrandedOnlyByFault` is inductive with the types: what a pass lets go of in a
fault or a crash it notes as dropped. `RacedIsKnown` says that a pass about to write figures over imported ones had looked
before the import.

**Activity.** `CursorCovers` relates the end of a poll to its start. For the poll under way
the invariant says: what it was handed is ingested or in the worker's batch
(`GotIngested`); that was asked for, and `latest` is its newest timestamp (`GotFresh`);
what was asked for and *not* handed over came later on the chain than all that was, or lies
on a page still to come or beyond the cap (`NothingPassed`, for which `IndexCounts` says how
far the mock provider's index has come: with the rank of a transaction in place of its index
this needs no induction). Moving the cursor to `latest` then leaves behind only what was ingested, what the cap cut
off, and what has the very timestamp of `latest`. `HandedPassed` and `CursorStamped` say of
the past that what was handed is not beyond the cursor, and that the cursor stands at the
timestamp of a transaction. `LegsHaveOneEdge` needs only that the leg a caller is about to create has
no edge, or that two callers met there (`HandClear`).

**BullMQ runner.** As long as nothing has strayed: a Map has a name once and what is open is
in a Map (`MapsHold`); a `stop()` under way has all of the Map on its list, since anything
opened behind its back counts as strayed (`StopsHold`); without one that is under way or
failed all workers are open (`WorkersOpen`); a `start()` that awaits an upsert finds the
runner started and has wired every registration before it (`StartsHold`). The property is
then a matter of the step in which the last call of a kind resolves. That ids are fresh
needs all sets to be finite (`FiniteInv`).

**Discovery.** Discovery, the import and the backfill read, await and write. What they rely
on in between is `WritersCross` (figures belong to wallets that exist; while discovery or
the import has a wallet at hand, what the other has written about it since is known as
crossed) and `FiguresDue` (the wallet whose figures are due was created by discovery and has
no made-up ones). `RisersInv` keeps a trader at hand a trader of a token that rose: the
points stored of a token only grow in number, and the clock only advances.

**Social.** That no post is lost (`AllHeard`) is followed through the turn of a source. What the
chains read so far have brought waits, is stored, came too late or has failed
(`TurnHeard`); what is no longer left of the post at hand is stored (`PostHeard`); and the
`since` of the turn is still the `lastSyncAt` of the row (`SnapshotHolds`), because only the
pass moves it and a source that is created again has another id. The end of a sync then
adds to what was heard before exactly what its chains have brought. `CopiesShow` is not
inductive: a source that is deleted takes an arbitrary part of a wave of copies with it.
`WavesShow` says it of every set of mentions that is a wave of its own, so it survives any
deletion, and `HandScored` says that the score of the post at hand still covers all the copies
stored: the pass itself only stores mentions of authors who were counted.

What stays with TLC: liveness and everything under fairness (`ServedUnlessKickMissed`,
`StopReturns`, `EveryRowIsAlerted`, `HeadIsExamined`, `EveryTxIsReached`), which is
outside the reach of the proof system; and everything about the analysis modules but
`SocialIngest`, `WalletDiscovery` and `BullMqRunner`. Of those, what a fold or a recursive function computes for every input
(union-find, the traversal, lot matching, the label automaton) is induction over data and
is compared with its reference definition on the inputs of the run.

## 6. Findings

Each is a place where the code and what a comment or document says of it disagree. The
first five have a run whose counterexample shows it.

1. `inline.ts:136`, `inline_runner_stranded`: a job enqueued, or a handler registered,
   between the drain loop's return and its `.finally` is ignored, and waits until some
   later call kicks the loop.
2. `rotation.ts:366`, `signal_detection_duplicate`: the two jobs that record rotations can
   both find no recent row and both create one.
3. `walletStatsRefresh.ts:113`, `wallet_intake_csv`: a CSV row that comes between the
   refresh's read and its insert is superseded, although imported rows are never to be.
4. `candidateValidation.ts:106`, `wallet_intake_starved`: candidates without evidence keep
   their place at the front of the order; a batch full of them starves the rest.
5. `walletActivity.ts:167`, `wallet_activity_bscscan`: the early stop takes it that pages
   come newest first; BscScan's come oldest first, so a wallet whose first page is older
   than its cursor gets nothing new any more.
6. `bscscan.ts:212`, read only: the next block is one past the highest of both lists,
   although one of them may have been cut off earlier.
7. `ingest.ts:135`, read only: `lastActiveAt` moves back when an older batch is ingested,
   as every second page of Helius is.
8. `candidateValidation.ts:132`, read only: marking by id alone does not keep two passes
   from taking the same rows; the properties of `WalletIntake` hold although they may.
9. `backtest.ts:113`, read only: a signal's six rows are all written by the first pass over
   it, elapsed or not, so no later pass takes it again and its early figures stay.
10. `backtest.ts:202`, read only: the worker's pass and the route's may upsert the rows of
    one signal in turns, and the rows then mix two evaluations.
11. `replay.ts:198`, read only: 24 hours after a fire the replay fires again, at which time
    the live detector still finds the old signal in its window.
12. `replay.ts:124`, read only: the end of the span is always a step, on the step's raster or
    not, although the header says otherwise.
13. `rotation.ts:121`, read only: the replay pairs bridge legs over the whole span, so a
    later withdrawal can undo a pair that was known at T; `Repaired` in `Replay` singles
    those steps out.
14. `runSearch.ts:178`, read only: a search whose process dies, or whose failure cannot be
    written, stays `running`; `SearchSettles` excludes exactly that.
15. `bfs.ts:357`, read only: a row ingested between the fetches of an edge's two ends makes
    the two sightings differ, and the edge is counted twice.
16. `duneOverlap.ts:345`, read only: two searches may both count one wallet as created.
17. `route.ts:244` of the overlap API, read only: a hybrid search claims a cached result
    whenever its Dune search is done.
18. `social/ingest.ts:175`, read only: a source deleted while it is read makes the update in
    the catch throw, and the other sources get no turn.
19. `social/ingest.ts:156`, read only: `lastSyncAt` is the end of the sync, so posts that come
    while it runs are never fetched, and re-ingest never re-classifies.
20. `confluence/ingest.ts:344`, read only: one bad answer decides a source's health, although
    any good one is said to keep it live.
21. `walletDiscovery.ts:142`, read only: an import that begins before the look-up and ends
    after it is outranked by zeros; a crash between the two creates leaves a wallet without
    figures for ever.
22. `bullmq.ts:141`, read only: what is opened while `stop()` awaits is dropped unclosed.
23. `bullmq.ts:125`, read only: an upsert that rejects leaves the runner started and half
    wired, and `start()` does nothing more.
24. `ingest.ts:579`, read only: the fallback market cap is that of the earliest point, not of
    the latest.
25. `thresholdTuning.ts:154`, read only: minWallets, maxSoldPct and minLiquidity move signals
    of rule A between two severities, and rule B is not scored, so four of the swept
    dimensions cannot change a score (second part of `ReportsHonest`).
26. `rulePerf.ts:83`, read only: a replayed signal is entered at the first point after it, a
    live one at the last point before it.
27. `replayRunner.ts:237`, read only: the token tuned on is the one with the most trades ever,
    not in the period.
28. `rulePerf.ts:193`, read only: two of the reported breakdowns read metrics that no rule
    emits.
29. `shadow/page.tsx:80`, read only: a figure taken after 15 minutes is shown as that of seven
    days once they have passed.
30. `seed.ts:742`, read only: a database that is not in mock mode is wiped and filled with the
    mock world before the run is refused.
31. `seed.ts:1511`, read only: scoring takes the tokens that have trades, not, as the
    self-check has it, those that have prices.
32. `signals.ts:155`, read only: what fired is noted before it is written, and the self-check
    reads the note; rows that could not be written in either pass go unnoticed.
33. `SettingsForm.tsx:330`, read only: what is typed while a save is under way is replaced by
    what was saved, and the form says "Saved."
34. `SettingsForm.tsx:139`, read only: text that is no number leaves the last number in the
    form, which is saved; "12abc" is 12.
35. `api/settings/route.ts:66`, read only: of two pages saved, the second takes back the
    changes of the first; a body of `null` or an array resets everything.
36. `api/settings/route.ts:29`, read only: two that find no row create two, and from then on
    each reader may get either.
37. `index.ts:169` of the worker, read only: settings are read at boot only.
38. `index.ts:160` of the worker, read only: intervals have no bounds; 0, and more than 2^31 - 1
    milliseconds, make a timer of one millisecond.
39. `settings/page.tsx:33`, read only: the page does not create the row its comment says it
    creates.
40. `importWalletsCsv.ts:357`, read only: a file that fails as a whole returns no error,
    although one is stored.
41. `importWalletsCsv.ts:143`, read only: a quote never closed takes the rows behind it along.
42. `importWalletsCsv.ts:459`, read only: a source of several lines is noted again by every
    import, and twice by the first.
43. `importWalletsCsv.ts:148`, read only: blank lines between rows are dropped as well, and
    shift the numbers of the rows behind them.
44. `importWalletsCsv.ts:486`, read only: two imports at once may lose a note or double a label.
45. `importWalletsCsv.ts:410`, read only: an import that ends before its job is created leaves
    rows and no trace.
46. `GraphExplorer.tsx:119` and `OverlapFinder.tsx:151`, read only: a link to a recent search
    changes the address and leaves the result of another search under it (`tab.kept`).
47. `GraphExplorer.tsx:152`, read only: a late answer undoes "New search", or takes a tab that
    left back to the search.
48. `OverlapFinder.tsx:182`, read only: a failed search enables the form before its result is
    loaded, so the older of two may come last (`tab.early`).
49. `GraphExplorer.tsx:141`, read only: a failed graph search is shown as an empty graph, and
    one rendered while it runs is not fetched again.
50. `overlap/page.tsx:42`, read only: a Dune search whose tag is not written yet, or never,
    counts as local unless it is done.
51. `SourceHealthTable.tsx:71`, `SourceManager.tsx:136`, read only: no refresh reaches a switch
    that is on the page (`strange`).
52. `SourceHealthTable.tsx:91`, read only: a lost answer puts a switch back that was written.
53. `SourceManager.tsx:63`, read only: a name typed while another is added is emptied.
54. `social/page.tsx:75`, read only: the first or last mention or source mounts the switches and
    the form anew, with what was under way lost to the page.

## 7. What is left out

* *Inside the modelled components*: texts and formatting; in `SignalDetection` the
  thresholds of the rules (a free choice within what they can report; `SignalRules` has
  them); legs that write only a trade or only an edge; wallet, token and market rows of the
  ingest; retries and rate limits inside a provider call (a call succeeds or fails); the
  descriptive columns of a cluster; ad-hoc Dune queries; mean and median returns in the
  reports of a replay.
* *Hazards without a property*: the status that goes to a superseded snapshot
  (`signals.ts:248`) is a step of `SignalDetection`, but nothing forbids it, for the next
  pass sets the latest one; wallets that get no turn after a failed `recordSyncFailure`
  (`walletActivity.ts:103`) need two wallets, and the run of `WalletActivity` has one.
* *BullMQ itself*: what a queue or a worker does with a job (repetition, recovery of stalled
  jobs) is not in the repository; `BullMqRunner` has its calls only.
* *Wallet scores and profitability*: formulas over the results of `FifoPnl`.
* *Web dashboard, bootstrap*: the pages that only read and render, the exports and the import
  form; a list of searches or sources beside the result; a tab open on two pages. The sequence of calls in `main()` is a
  behaviour of `InlineRunner`. Outside `SettingsEdit` settings are constants.
