------------------------------- MODULE SeedRun -------------------------------
(***************************************************************************)
(* packages/db/src/seed.ts: one process that wipes every table, writes the *)
(* mock world, runs every pass of the worker over it once, and checks its  *)
(* own result: exit code 0 or 1.  A statement that throws ends the run;    *)
(* the passes that catch an error per item go on without the item, and     *)
(* only some of them are looked at by the self-check.  A run may find any  *)
(* rows, be killed, and be started again; the worker and the dashboard may *)
(* write while it runs.                                                    *)
(*                                                                         *)
(* A row is <<table, key, value>>; a deletion takes the rows that need the *)
(* deleted one along (schema.prisma, onDelete: Cascade).                   *)
(***************************************************************************)
EXTENDS Naturals, FiniteSets, Sequences, Functions, TLC

CONSTANTS SeedWorld,      \* the mock world and what the passes find in it
          MaxSeeds,       \* bound: runs
          MaxSeedEvents   \* bound: items lost, runs killed and rows of others, together

VARIABLES seedRows,   \* the rows of the database
          seed,       \* the run: at (the next step), memo, lost, others, exit, mock
          seedBounds  \* the events the bound counts

seedVars == <<seedRows, seed, seedBounds>>

Row(table, key, value) == <<table, key, value>>
In(d, table) == {r \in d : r[1] = table}
Keys(d, table) == {r[2] : r \in In(d, table)}
Put(d, new) == {r \in d : ~\E n \in new : n[1] = r[1] /\ n[2] = r[2]} \cup new
Poisoned == UNION {SeedWorld.poisoned[kind] : kind \in DOMAIN SeedWorld.poisoned}

-----------------------------------------------------------------------------
(* wipeAllTables, one deleteMany per table.                                *)

WipeOrder ==
    <<"backtestRun", "backtestResult", "alert", "signal", "walletGraphEdge", "walletGraphNode",
      "walletGraphSearch", "profitRotationSignal", "entityClusterWallet", "walletTokenTrade",
      "tokenFlowSnapshot", "tokenMarketSnapshot", "entityCluster", "walletClassification",
      "walletStats", "moneyFlowEdge", "candidateWallet", "socialMention", "socialSource",
      "externalWalletSource", "tokenOverlapWalletResult", "tokenOverlapGroupResult",
      "tokenOverlapSearch", "duneQuerySource", "tokenConfluenceSnapshot",
      "externalConfluenceSource", "wallet", "token", "importJob", "addressRegistry",
      "providerSyncState", "settings", "chain">>

\* The rows a row cannot be without.
Needs(r) ==
    CASE r[1] \in {"walletStats", "walletClassification"} -> {<<"wallet", r[2][1]>>}
      [] r[1] = "walletTokenTrade" -> {<<"wallet", r[2][1]>>, <<"token", r[2][2]>>}
      [] r[1] \in {"tokenMarketSnapshot", "tokenFlowSnapshot", "signal"} -> {<<"token", r[2][1]>>}
      [] r[1] = "backtestResult" -> {<<"signal", r[2]>>}
      [] r[1] = "entityClusterWallet" -> {<<"entityCluster", r[2][1]>>, <<"wallet", r[2][2]>>}
      [] r[1] = "profitRotationSignal" ->
             {<<"wallet", r[2].from>>, <<"wallet", r[2].to>>,
              <<"token", r[2].sold>>, <<"token", r[2].bought>>}
      [] r[1] = "walletGraphNode" -> {<<"walletGraphSearch", r[2][1]>>}
      [] r[1] = "tokenOverlapWalletResult" -> {<<"tokenOverlapSearch", r[2][1]>>}
      [] r[1] = "socialMention" -> {<<"socialSource", r[2][1]>>}
      [] OTHER -> {}
Supported(d) ==
    LET present == {<<r[1], r[2]>> : r \in d}  IN {r \in d : Needs(r) \subseteq present}
\* Faulty variant: the rows that need a deleted one stay.
DeleteAlone(d, table) == {r \in d : r[1] # table}
\* Token, signal, result is the longest chain.
DeleteAll(d, table) == Supported(Supported({r \in d : r[1] # table}))

-----------------------------------------------------------------------------
(* The phases of main(), in their order: what each adds to s = [db, memo], *)
(* lost being the items whose error a pass caught.                         *)

Add(s, new) == [s EXCEPT !.db = Put(@, new)]
Note(s, field, value) == [s EXCEPT !.memo = (field :> value) @@ @]

Chains(s) == Add(s, {Row("chain", c, {}) : c \in {"SOLANA", "BSC"}})
SettingsRow(s) == Add(s, {Row("settings", "seed", {})})

\* The mock world's addresses first; a listed address only if it is not one.
AddressRegistry(s) ==
    LET tagged == [a \in {w \in DOMAIN SeedWorld.labels : "cex_related" \in SeedWorld.labels[w]}
                     |-> "CEX"] @@ SeedWorld.scenarioHubs
        listed == Restrict(SeedWorld.listedHubs, DOMAIN SeedWorld.listedHubs \ DOMAIN tagged)
        hubs   == tagged @@ listed
    IN  Add(s, {Row("addressRegistry", a, hubs[a]) : a \in DOMAIN hubs})

WalletSources(s) ==
    Add(s, {Row("externalWalletSource", n, "never") : n \in DOMAIN SeedWorld.claims})
WalletSourceSync(s, lost) ==
    LET done == DOMAIN SeedWorld.claims \ lost
    IN  Note(Add(s, {Row("externalWalletSource", n, "synced") : n \in done}
                      \cup UNION {{Row("candidateWallet", <<n, a>>, "pending") :
                                      a \in SeedWorld.claims[n]} : n \in done}),
             "syncErrors", Cardinality(lost))

DuneSource(s) == Add(s, {Row("duneQuerySource", "default_token_overlap", "disabled")})
DuneOverlapSearch(s, lost) ==
    IF lost # {} THEN Note(Add(s, {Row("tokenOverlapSearch", "seed", "failed")}), "dune", "failed")
    ELSE Note(Add(s, {Row("tokenOverlapSearch", "seed", "done")}
                       \cup UNION {{Row("tokenOverlapWalletResult", <<"seed", a>>, {}),
                                    Row("candidateWallet", <<"dune_token_overlap", a>>, "pending")} :
                                      a \in SeedWorld.overlap}),
              "dune", "done")

TokenRowsOf(s) == Add(s, {Row("token", t, SeedWorld.risky[t]) : t \in DOMAIN SeedWorld.risky})

SocialSources(s) == Add(s, {Row("socialSource", n, {}) : n \in DOMAIN SeedWorld.posts})
SocialPass(s, lost) ==
    Add(s, UNION {{Row("socialMention", <<n, p>>, {}) : p \in SeedWorld.posts[n] \ lost} :
                     n \in DOMAIN SeedWorld.posts})
ConfluenceSources(s) ==
    Add(s, {Row("externalConfluenceSource", n, "disabled") : n \in {"holderscan", "gmgn"}})
MarketSnapshots(s) ==
    Add(s, {Row("tokenMarketSnapshot", <<t, "series">>, "ingest") : t \in DOMAIN SeedWorld.risky})
Priced(d) == {k[1] : k \in Keys(d, "tokenMarketSnapshot")}
ConfluencePass(s, lost) ==
    Add(s, {Row("tokenConfluenceSnapshot", t, {}) : t \in Priced(s.db) \ lost})

Smart(w) == SeedWorld.labels[w] \cap {"smart_money", "human_like", "whale"} # {}
LabelRows(w) == {Row("walletClassification", <<w, l>>, {}) : l \in SeedWorld.labels[w]}
ComputedStats(s) ==
    Add(s, UNION {{Row("wallet", w, "watched"), Row("walletStats", <<w, "seeded">>, "computed")}
                    \cup LabelRows(w) : w \in {x \in DOMAIN SeedWorld.labels : Smart(x)}})
CsvWallets(s, lost) ==
    LET ok == SeedWorld.csv \ lost
    IN  Note(Add(s, UNION {{Row("wallet", w, "watched"), Row("walletStats", <<w, "csv">>, "csv")} :
                              w \in ok} \cup {Row("importJob", "wallets.csv", Cardinality(ok))}),
             "csvRows", Cardinality(ok))

\* A wallet that is there keeps what it is; a quote asset becomes a token.
IfAbsent(d, new) == {r \in new : r[2] \notin Keys(d, r[1])}
IngestWallets(s) ==
    Add(s, IfAbsent(s.db, {Row("wallet", t[1], "unwatched") : t \in SeedWorld.trades}
                            \cup {Row("token", t, FALSE) : t \in SeedWorld.quotes})
           \cup {Row("walletTokenTrade", t, "ingest") : t \in SeedWorld.trades}
           \cup {Row("moneyFlowEdge", e, {}) : e \in SeedWorld.edges})
Classify(s) ==
    LET classified == {k[1] : k \in Keys(s.db, "walletClassification")}
        plain == {w \in DOMAIN SeedWorld.labels : ~Smart(w)} \cap Keys(s.db, "wallet")
    IN  Add(s, UNION {LabelRows(w) : w \in plain \ classified})
QualifyingTrades(s) ==
    LET good == SeedWorld.qualifying \ Poisoned
    IN  Add(s, IfAbsent(s.db, {Row("wallet", w, "unwatched") : w \in good}
                                \cup {Row("token", "QUALIFY", FALSE)})
               \cup {Row("tokenMarketSnapshot", <<"QUALIFY", "now">>, "ingest")}
               \cup {Row("walletTokenTrade", <<w, "QUALIFY", side>>, "seeded") :
                        w \in good, side \in {"BUY", "SELL"}})

\* evaluateCandidate on the registry, the labels and the local trades.
CandidateVerdict(d, a) ==
    LET trades == {r \in In(d, "walletTokenTrade") : r[2][1] = a}
    IN  CASE a \in Keys(d, "addressRegistry") -> "excluded"
          [] <<a, "possible_bot">> \in Keys(d, "walletClassification") -> "bot"
          [] trades = {} -> "pending"
          [] ~\E r \in trades : r[3] = "seeded" -> "below"
          [] OTHER -> "promoted"
Validation(s, lost) ==
    LET judged == {r \in In(s.db, "candidateWallet") : r[3] = "pending" /\ r[2] \notin lost}
        after  == {[r EXCEPT ![3] = CandidateVerdict(s.db, r[2][2])] : r \in judged}
        good   == {r[2][2] : r \in {x \in after : x[3] = "promoted"}}
    IN  Note(Note(Add(s, after \cup {Row("wallet", w, "watched") : w \in good}),
                  "stayedPending", Cardinality({r \in after : r[3] = "pending"})),
             "validationErrors", Cardinality(lost))

Traded(d) == {k[2] : k \in Keys(d, "walletTokenTrade")}
SnapshotsOf(d, t) == {k \in Keys(d, "tokenFlowSnapshot") : k[1] = t}
\* A snapshot knows whether clusters were there, and whether rules fired.
FlowScoring(s, lost) ==
    Add(s, {Row("tokenFlowSnapshot", <<t, Cardinality(SnapshotsOf(s.db, t)) + 1>>,
                [clustered |-> In(s.db, "entityCluster") # {}, status |-> "watching"]) :
               t \in Traded(s.db) \ lost})

SignalNumber(d, f) == Cardinality({k \in Keys(d, "signal") : <<k[1], k[2]>> = f}) + 1
\* What fires for a token is noted before it is written: an item lost is
\* <<token, "read">> or <<token, "write">>.
Detection(s, lost) ==
    LET rotations == SeedWorld.rotations
        noted == {t \in Traded(s.db) : <<t, "read">> \notin lost}
        fires(t) == SeedWorld.fires[t]
                      \cup (IF \E r \in rotations : r.bought = t THEN {"F"} ELSE {})
        known == {<<k[1], k[2]>> : k \in Keys(s.db, "signal")}
        written == {t \in noted : <<t, "write">> \notin lost}
        new == UNION {{<<t, rule>> : rule \in fires(t)} : t \in written} \ known
        latest == {<<t, Cardinality(SnapshotsOf(s.db, t))>> : t \in written}
        status == {[r EXCEPT ![3].status = IF fires(r[2][1]) # {} THEN "fired" ELSE "watching"] :
                      r \in {r \in In(s.db, "tokenFlowSnapshot") : r[2] \in latest}}
    IN  Note(Add(s, {Row("profitRotationSignal", r, {}) : r \in rotations}
                      \cup {Row("signal", Append(f, SignalNumber(s.db, f)), "active") : f \in new}
                      \cup status),
             "fired", [t \in noted |-> fires(t)])

Clustering(s) ==
    Add([s EXCEPT !.db = DeleteAll(@, "entityCluster")],
        UNION {{Row("entityCluster", c, Cardinality(c))}
                 \cup {Row("entityClusterWallet", <<c, w>>, {}) : w \in c} : c \in SeedWorld.clusters})
DropSnapshots(s) == [s EXCEPT !.db = DeleteAll(@, "tokenFlowSnapshot")]

Announced(d) ==
    Keys(d, "signal") \cup {<<"rotation", r>> : r \in Keys(d, "profitRotationSignal")}
Dispatch(s, lost) ==
    Add(s, {Row("alert", k, "skipped_no_token") :
               k \in (Announced(s.db) \ Keys(s.db, "alert")) \ lost})
GraphDemo(s, lost) ==
    Note(IF lost # {} THEN Add(s, {Row("walletGraphSearch", "seed", "failed")})
         ELSE Add(s, {Row("walletGraphSearch", "seed", "done")}
                       \cup {Row("walletGraphNode", <<"seed", a>>, {}) : a \in SeedWorld.reached}),
         "graph", IF lost # {} THEN "failed" ELSE "done")
\* Made-up prices for every token of the world with a signal.
Continuation(s) ==
    Add(s, {Row("tokenMarketSnapshot", <<t, "continuation">>, "seed_synthetic_continuation") :
               t \in DOMAIN SeedWorld.risky \cap {k[1] : k \in Keys(s.db, "signal")}})
Backtest(s) ==
    LET followed(k) == <<k[1], "continuation">> \in Keys(s.db, "tokenMarketSnapshot")
    IN  Add(s, {Row("backtestResult", k, IF followed(k) THEN "outcome" ELSE "neutral_pending") :
                   k \in Keys(s.db, "signal")})
ReplayOnce(s) ==
    Add(s, {Row("backtestRun", "seed",
                [status |-> "complete",
                 synthetic |-> \E r \in In(s.db, "tokenMarketSnapshot") :
                                   r[3] = "seed_synthetic_continuation"])})
LatestSource(d, w) ==
    IF <<w, "refreshed">> \in Keys(d, "walletStats") THEN "computed"
    ELSE IF <<w, "csv">> \in Keys(d, "walletStats") THEN "csv" ELSE "computed"
StatsRefresh(s, lost) ==
    Add(s, {Row("walletStats", <<w, "refreshed">>, "computed") :
               w \in {k[1] : k \in Keys(s.db, "walletTokenTrade")} \
                     ({x \in Keys(s.db, "wallet") : LatestSource(s.db, x) = "csv"} \cup lost)})

-----------------------------------------------------------------------------
(* runSelfCheck: the rows that decide the exit code.                       *)

CandidatesOf(d, kind) ==
    {r \in In(d, "candidateWallet") : r[2][2] \in SeedWorld.poisoned[kind]}
CheckSources(d, memo) ==
    /\ \A r \in In(d, "externalWalletSource") : r[3] = "synced"
    /\ memo.syncErrors = 0
CheckCandidates(d, memo) ==
    /\ CandidatesOf(d, "hub") # {} /\ \A r \in CandidatesOf(d, "hub") : r[3] = "excluded"
    /\ CandidatesOf(d, "bot") # {} /\ \A r \in CandidatesOf(d, "bot") : r[3] = "bot"
    /\ CandidatesOf(d, "below") # {} /\ \A r \in CandidatesOf(d, "below") : r[3] # "promoted"
    /\ LET promoted == {r[2][2] : r \in {x \in In(d, "candidateWallet") : x[3] = "promoted"}}
       IN  promoted # {} /\ \A w \in promoted : Row("wallet", w, "watched") \in d
    /\ memo.stayedPending > 0 /\ memo.validationErrors = 0
CheckDune(d, memo) ==
    /\ memo.dune = "done" /\ In(d, "tokenOverlapWalletResult") # {}
    /\ \E k \in Keys(d, "candidateWallet") : k[1] = "dune_token_overlap"
    /\ LET hubs == {r \in CandidatesOf(d, "hub") : r[2][1] = "dune_token_overlap"}
       IN  hubs # {} /\ \A r \in hubs : r[3] # "promoted"
    /\ Row("duneQuerySource", "default_token_overlap", "disabled") \in d
CheckCounts(d, memo) ==
    /\ \A t \in DOMAIN SeedWorld.atLeast : Cardinality(In(d, t)) >= SeedWorld.atLeast[t]
    /\ Cardinality(In(d, "tokenFlowSnapshot")) = Cardinality(Priced(d))
    /\ Row("importJob", "wallets.csv", Cardinality(SeedWorld.csv)) \in d
    /\ SnapshotsOf(d, SeedWorld.flagship) # {}
    /\ \E t \in DOMAIN SeedWorld.risky : SeedWorld.risky[t] /\ Row("token", t, TRUE) \in d
CheckSignals(d, memo) ==
    /\ \A t \in DOMAIN SeedWorld.demanded :
           t \in DOMAIN memo.fired /\ SeedWorld.demanded[t] \subseteq memo.fired[t]
    /\ {t \in DOMAIN memo.fired : "F" \in memo.fired[t]} = {r.bought : r \in SeedWorld.rotations}
CheckClusters(d, memo) ==
    /\ In(d, "entityCluster") # {}
    /\ \A r \in In(d, "tokenFlowSnapshot") : r[2][1] = SeedWorld.flagship => r[3].clustered
    /\ SeedWorld.rotations \subseteq Keys(d, "profitRotationSignal")
CheckAlerts(d, memo) ==
    /\ Cardinality(In(d, "alert")) = Cardinality(Announced(d))
    /\ \A r \in In(d, "alert") : r[3] = "skipped_no_token"
    /\ \E k \in Keys(d, "alert") : k[1] = SeedWorld.flagship /\ k[2] = "A"
    /\ \A r \in SeedWorld.rotations : <<"rotation", r>> \in Keys(d, "alert")
CheckGraph(d, memo) ==
    /\ memo.graph = "done" /\ In(d, "walletGraphNode") # {}
    /\ \E r \in In(d, "addressRegistry") : r[3] = "CEX"
CheckBacktest(d, memo) ==
    /\ \E r \in In(d, "backtestResult") : r[3] # "neutral_pending"
    /\ Row("backtestRun", "seed", [status |-> "complete", synthetic |-> TRUE]) \in d
CheckCsv(d, memo) ==
    Cardinality({w \in Keys(d, "wallet") : LatestSource(d, w) = "csv"}) = memo.csvRows
SelfCheck(d, memo) ==
    /\ CheckSources(d, memo) /\ CheckCandidates(d, memo) /\ CheckDune(d, memo)
    /\ CheckCounts(d, memo) /\ CheckSignals(d, memo) /\ CheckClusters(d, memo)
    /\ CheckAlerts(d, memo) /\ CheckGraph(d, memo) /\ CheckBacktest(d, memo) /\ CheckCsv(d, memo)

-----------------------------------------------------------------------------
(* main.                                                                   *)

Phases ==
    <<"chains", "settings", "registry", "walletSources", "walletSync", "duneSource", "duneSearch",
      "tokens", "socialSources", "social", "confluenceSources", "market", "confluence", "stats",
      "csv", "ingest", "classify", "qualify", "validate", "score", "detect", "cluster", "drop",
      "rescore", "redetect", "dispatch", "graph", "continuation", "backtest", "replay", "refresh">>

AfterPhase(phase, s, lost) ==
    CASE phase = "chains" -> Chains(s)
      [] phase = "settings" -> SettingsRow(s)
      [] phase = "registry" -> AddressRegistry(s)
      [] phase = "walletSources" -> WalletSources(s)
      [] phase = "walletSync" -> WalletSourceSync(s, lost)
      [] phase = "duneSource" -> DuneSource(s)
      [] phase = "duneSearch" -> DuneOverlapSearch(s, lost)
      [] phase = "tokens" -> TokenRowsOf(s)
      [] phase = "socialSources" -> SocialSources(s)
      [] phase = "social" -> SocialPass(s, lost)
      [] phase = "confluenceSources" -> ConfluenceSources(s)
      [] phase = "market" -> MarketSnapshots(s)
      [] phase = "confluence" -> ConfluencePass(s, lost)
      [] phase = "stats" -> ComputedStats(s)
      [] phase = "csv" -> CsvWallets(s, lost)
      [] phase = "ingest" -> IngestWallets(s)
      [] phase = "classify" -> Classify(s)
      [] phase = "qualify" -> QualifyingTrades(s)
      [] phase = "validate" -> Validation(s, lost)
      [] phase \in {"score", "rescore"} -> FlowScoring(s, lost)
      [] phase \in {"detect", "redetect"} -> Detection(s, lost)
      [] phase = "cluster" -> Clustering(s)
      [] phase = "drop" -> DropSnapshots(s)
      [] phase = "dispatch" -> Dispatch(s, lost)
      [] phase = "graph" -> GraphDemo(s, lost)
      [] phase = "continuation" -> Continuation(s)
      [] phase = "backtest" -> Backtest(s)
      [] phase = "replay" -> ReplayOnce(s)
      [] phase = "refresh" -> StatsRefresh(s, lost)

\* What a pass catches the error of, one by one; elsewhere an error ends the run.
Items(phase, d) ==
    CASE phase = "walletSync" -> DOMAIN SeedWorld.claims
      [] phase \in {"duneSearch", "graph"} -> {phase}
      [] phase = "social" -> UNION Range(SeedWorld.posts)
      [] phase = "confluence" -> Priced(d)
      [] phase = "csv" -> SeedWorld.csv
      [] phase = "validate" -> Keys(d, "candidateWallet")
      [] phase \in {"score", "rescore"} -> Traded(d)
      [] phase \in {"detect", "redetect"} -> Traded(d) \X {"read", "write"}
      [] phase = "dispatch" -> Announced(d)
      [] phase = "refresh" -> {k[1] : k \in Keys(d, "walletTokenTrade")}
      [] OTHER -> {}

LastStep == Len(WipeOrder) + Len(Phases)
Wiping == seed.at <= Len(WipeOrder)
Running == seed.exit = "running"
PhaseNow == Phases[seed.at - Len(WipeOrder)]
\* seedBacktestContinuation throws when MOCK_MODE is 'false'.
Refused == PhaseNow = "continuation" /\ ~seed.mock
Eventful == seedBounds.events < MaxSeedEvents
NewSeed(n, mock) ==
    [run |-> n, at |-> 1, memo |-> <<>>, lost |-> {}, others |-> {}, exit |-> "running", mock |-> mock]

SeedInit ==
    /\ \E found \in SeedWorld.found : seedRows = found /\ seedBounds = [events |-> 0]
    /\ \E mock \in BOOLEAN : seed = NewSeed(1, mock)

WipeTable ==
    /\ Running /\ Wiping
    /\ seedRows' = DeleteAll(seedRows, WipeOrder[seed.at])
    /\ seed' = [seed EXCEPT !.at = @ + 1]
    /\ UNCHANGED seedBounds

\* A phase, one item of it lost at most.
RunPhase ==
    /\ Running /\ ~Wiping /\ seed.at <= LastStep /\ ~Refused
    /\ \E lost \in {{}} \cup {{i} : i \in IF Eventful THEN Items(PhaseNow, seedRows) ELSE {}} :
           \E s \in {AfterPhase(PhaseNow, [db |-> seedRows, memo |-> seed.memo], lost)} :
               /\ seedRows' = s.db
               /\ seed' = [seed EXCEPT !.at = @ + 1, !.memo = s.memo,
                                       !.lost = @ \cup ({PhaseNow} \X lost)]
               /\ seedBounds' = [seedBounds EXCEPT !.events = @ + Cardinality(lost)]

Exit ==
    /\ Running /\ seed.at = LastStep + 1
    /\ seed' = [seed EXCEPT !.exit = IF SelfCheck(seedRows, seed.memo) THEN "ok" ELSE "failed",
                            !.at = @ + 1]
    /\ UNCHANGED <<seedRows, seedBounds>>
Refuse ==
    /\ Running /\ ~Wiping /\ seed.at <= LastStep /\ Refused
    /\ seed' = [seed EXCEPT !.exit = "failed"]
    /\ UNCHANGED <<seedRows, seedBounds>>

\* A statement throws or the process is killed, before or after what the
\* step would have written.
Die ==
    /\ Running /\ Eventful
    /\ \/ UNCHANGED seedRows
       \/ /\ ~Wiping /\ seed.at <= LastStep /\ ~Refused
          /\ seedRows' = AfterPhase(PhaseNow, [db |-> seedRows, memo |-> seed.memo], {}).db
    /\ seed' = [seed EXCEPT !.exit = "failed"]
    /\ seedBounds' = [seedBounds EXCEPT !.events = @ + 1]

StartAgain ==
    /\ ~Running /\ seed.run < MaxSeeds
    /\ \E mock \in BOOLEAN : seed' = NewSeed(seed.run + 1, mock)
    /\ UNCHANGED <<seedRows, seedBounds>>

\* The worker or the dashboard writes a row whose parents are there.
OtherWrites ==
    /\ Running /\ Eventful
    /\ \E r \in SeedWorld.others :
           /\ r[2] \notin Keys(seedRows, r[1]) /\ r \in Supported(seedRows \cup {r})
           /\ seedRows' = seedRows \cup {r}
           /\ seed' = [seed EXCEPT !.others = @ \cup {r}]
    /\ seedBounds' = [seedBounds EXCEPT !.events = @ + 1]

SeedNext == WipeTable \/ RunPhase \/ Exit \/ Refuse \/ Die \/ StartAgain \/ OtherWrites
-----------------------------------------------------------------------------
(* What a run promises.                                                    *)

\* What a run leaves that nothing disturbs.
Reference ==
    LET f[k \in 0..Len(Phases)] ==
            IF k = 0 THEN [db |-> {}, memo |-> <<>>] ELSE AfterPhase(Phases[k], f[k - 1], {})
    IN  f[Len(Phases)].db

\* What the self-check does not look at: posts, estimates and refreshed
\* statistics; the status of a snapshot whose rules were not written; and
\* the signals neither detection pass could write.
LostIn(phase, t) == \E side \in {"read", "write"} : <<phase, <<t, side>>>> \in seed.lost
NeverDetected(t) == LostIn("detect", t) /\ LostIn("redetect", t)
Unseen(r) ==
    \/ r[1] \in {"socialMention", "tokenConfluenceSnapshot"}
    \/ r[1] = "walletStats" /\ r[2][2] = "refreshed"
    \/ r[1] = "tokenFlowSnapshot" /\ LostIn("redetect", r[2][1])
    \/ r[1] \in {"signal", "alert", "backtestResult"} /\ NeverDetected(r[2][1])
    \/ r[1] = "tokenMarketSnapshot" /\ r[2][2] = "continuation" /\ NeverDetected(r[2][1])
Noticed(d) == {r \in d : ~Unseen(r)}

\* A wipe leaves no row of an earlier run, however that one ended; a phase
\* writes no row before the rows it needs, and no made-up price unless in mock
\* mode.  A run alone that loses nothing ends with exit code 0 and the same
\* rows every time, and exit code 0 means those rows but for what the
\* self-check does not look at.
SeedHonest ==
    /\ Running /\ seed.at = Len(WipeOrder) + 1 => seedRows \subseteq seed.others
    /\ Supported(seedRows) = seedRows
    /\ ~Wiping /\ ~seed.mock =>
           \A r \in In(seedRows, "tokenMarketSnapshot") : r[3] # "seed_synthetic_continuation"
    /\ seed.at > LastStep + 1 /\ seed.others = {} =>
           /\ seed.lost = {} => seed.exit = "ok" /\ seedRows = Reference
           /\ seed.exit = "ok" => Noticed(seedRows) = Noticed(Reference)
=============================================================================
