------------------------------ MODULE MCAnalysis ------------------------------
(***************************************************************************)
(* The analysis jobs, the replay reports, the passes that bring in posts,  *)
(* estimates and wallets, and the BullMQ runner, on small instances.  Only *)
(* clustering and scoring write what another reads (ScoredClusters), so a  *)
(* behaviour is about one of the scenarios and the other components keep   *)
(* their initial state.                                                    *)
(***************************************************************************)
EXTENDS ScoredClusters, ReplayReports, FifoUnits, GraphSearch, BridgeFlow, TokenOverlap,
        SocialIngest, ConfluenceIngest, WalletDiscovery, BullMqRunner, SeedRun,
        SettingsEdit, WalletCsv, SearchPages, SourceSwitches

CONSTANT DuneGroup    \* a group id in a Dune row

\* clusters: pairs of wallets linked by two transfers each, in a line and in
\* a ring; then worlds in which a registered address, a bridge, a shared
\* funder or dust decides.
Flow(id, s, t, action, usd, ts) ==
    [id |-> id, src |-> s, dst |-> t, action |-> action, usd |-> usd, ts |-> ts]
Pair(s, t, n, usd) ==
    {Flow(2 * n, s, t, "transfer", usd, 100), Flow(2 * n + 1, s, t, "transfer", usd, 100)}
Tracked == {"a", "b", "c", "d"}
ClusterWorld(edges, registry, firstTrade) ==
    [wallets |-> Tracked, registry |-> registry, edges |-> edges,
     firstTrade |-> firstTrade @@ [w \in Tracked |-> 5]]
Line == Pair("a", "b", 1, 50) \cup Pair("c", "d", 2, 50) \cup Pair("b", "d", 3, 50)
Crossing ==
    {Flow(1, "a", "bridge", "bridge_deposit", 100, 100),
     Flow(2, "bridge", "b", "bridge_withdrawal", 95, 150)}
      \cup Pair("b", "c", 2, 5)
      \cup {Flow(6, "d", "c", "transfer", 50, 90), Flow(7, "d", "c", "transfer", 20, 95)}
Funding ==
    {Flow(1, "c", "a", "transfer", 50, 1), Flow(2, "c", "b", "transfer", 50, 2),
     Flow(3, "a", "router", "swap", 50, 6), Flow(4, "router", "d", "swap", 50, 7)}
Interrupted ==
    {Flow(1, "cex", "a", "cex_withdrawal", 50, 1), Flow(20, "b", "cex", "cex_deposit", 50, 200)}
MCWorlds ==
    {ClusterWorld(Line, <<>>, <<>>),
     ClusterWorld(Line \cup Pair("a", "c", 4, 50), <<>>, <<>>),
     ClusterWorld(Line \cup Interrupted, "cex" :> "CEX", <<>>),
     ClusterWorld(Crossing, "bridge" :> "BRIDGE", "b" :> 160),
     ClusterWorld(Funding, "router" :> "ROUTER", ("a" :> 30) @@ ("b" :> 80))}

Trade(id, w, token, action, amount, usd, ts, mcap) ==
    [id |-> id, wallet |-> w, token |-> token, action |-> action, amount |-> amount,
     usd |-> usd, ts |-> ts, mcap |-> mcap, block |-> ts]
Holder(watched, labels) ==
    [watched |-> watched, profitable |-> FALSE, score |-> 50, labels |-> labels]
MCTokenRows ==
    "T" :> [trades |-> {Trade(1, "a", "T", "BUY", 1, 5, 5, Null),
                        Trade(2, "b", "T", "BUY", 1, 5, 5, Null),
                        Trade(3, "c", "T", "BUY", 1, 5, 5, Null)}, market |-> {}]
MCWalletInfo == [w \in Tracked |-> Holder(TRUE, {})]

\* replay: w1 takes a profit, bridges it to w2 or w4, sends some to w3.
Capital(id, s, t, action, usd, ts) == Flow(id, s, t, action, usd, ts) @@ [protocol |-> "P"]
Always == {Trade(1, "w1", "S", "BUY", 2, 10, 1, 3), Trade(2, "w1", "S", "SELL", 2, 40, 2, 3),
           Trade(4, "w2", "T", "BUY", 1, 19, 3, 3)}
Perhaps == {Trade(3, "w1", "T", "BUY", 2, 20, 2, 2), Trade(5, "w3", "T", "BUY", 1, 10, 6, 3),
            Trade(6, "w1", "T", "SELL", 2, 30, 6, 3)}
PerhapsMoved == {Capital(2, "bridge", "w2", "bridge_withdrawal", 19, 3),
                 Capital(3, "bridge", "w4", "bridge_withdrawal", 20, 4),
                 Capital(4, "w1", "w3", "transfer", 10, 3)}
PerhapsPriced ==
    {[id |-> 1, ts |-> 1, mcap |-> 3, liquidity |-> 11],
     [id |-> 2, ts |-> 2, mcap |-> 6, liquidity |-> 20],
     [id |-> 3, ts |-> 5, mcap |-> 9, liquidity |-> 10]}
MCReplayWorlds ==
    {[trades |-> Always \cup trades, market |-> market, clusters |-> {},
      edges |-> {Capital(1, "w1", "bridge", "bridge_deposit", 20, 2)} \cup edges,
      info |-> ("w1" :> Holder(TRUE, {"smart_money"})) @@ ("w2" :> Holder(TRUE, {}))
                 @@ ("w3" :> Holder(FALSE, {"human_like"})) @@ ("w4" :> Holder(FALSE, {}))] :
        trades \in SUBSET Perhaps, edges \in SUBSET PerhapsMoved, market \in SUBSET PerhapsPriced}
MCRuleSettings ==
    [A |-> [minWallets |-> 2, watchMinWallets |-> 1, minBuyVolumeUsd |-> 10, maxSoldPct |-> 30,
            minLiquidityUsd |-> 10, maxTokenAge |-> 4],
     B |-> [baseWallets |-> 1, targetWallets |-> 2, maxMcapExpansion |-> 2, maxSellToBuyPct |-> 50],
     C |-> [minHumanPct |-> 50, maxBotPct |-> 50, maxSingleBlockBuysPct |-> 60],
     D |-> [minWhaleBuyUsd |-> 20, minWallets |-> 1, minBuySellRatio |-> 2],
     E |-> [minDelay |-> 0, maxDelay |-> 3, maxMcap |-> 5, minBuyToFundingPct |-> 50,
            maxBuyToFundingPct |-> 110],
     F |-> [minRealizedProfitUsd |-> 5, maxTransferDelay |-> 2, minValueMatchPct |-> 85,
            maxValueMatchPct |-> 105, maxBuyDelay |-> 2, maxMcap |-> 5],
     G |-> [minExitedPct |-> 50, liquidityDropPct |-> 40, mcapPumpPct |-> 100,
            maxNewSmartBuyers |-> 1]]

\* fifo: lots split between sells, and sells of more than is held.
MCTrades ==
    {Trade(1, "a", "T", "BUY", 2, 10, 1, Null), Trade(2, "a", "T", "SELL", 3, 40, 2, Null),
     Trade(3, "a", "T", "BUY", 3, 7, 3, Null), Trade(4, "a", "T", "SELL", 1, 9, 4, Null),
     Trade(5, "a", "T", "BUY", 1, 20, 5, Null), Trade(6, "a", "T", "SELL", 3, 1, 6, Null)}
MCCurrentPrices == {0, 5, NoPrice}

\* outcomes: prices that double, halve, rug and recover; signals that share a
\* time; points that say little.
MCHorizons == <<1, 2, 4>>
Point(id, ts, p, mcap, liquidity, synthetic) ==
    [id |-> id, ts |-> ts, price |-> p, mcap |-> mcap, liquidity |-> liquidity,
     synthetic |-> synthetic]
Path(p, q, r, liquidity) ==
    {Point(1, 1, 10, 10, 50000, FALSE), Point(2, 2, p, p, 50000, FALSE),
     Point(3, 3, q, q, liquidity, FALSE), Point(4, 4, r, r, 60000, TRUE)}
Prices == {3, 9, 16, 60}
At(time, mcap) == [at |-> time, mcap |-> mcap]
OutcomeWorld(sigs, points, job, route) ==
    [signals |-> sigs, points |-> points, starts |-> [job |-> job, route |-> route]]
MCOutcomeWorlds ==
    {OutcomeWorld(1 :> At(1, Unknown), Path(p, q, r, l), {3, 4}, {}) :
        p \in Prices, q \in Prices, r \in {9, 60}, l \in {50000, 4000}}
    \cup {OutcomeWorld((1 :> At(1, Unknown)) @@ (2 :> At(2, 10)), Path(16, 3, 60, 500),
                       {3, 5}, {4, 5}),
          OutcomeWorld(1 :> At(1, 10),
                       {Point(1, 2, 10, 20, Unknown, FALSE), Point(2, 3, 8, Unknown, 900, FALSE)},
                       {2, 4}, {3, 5})}

\* reports: rule A fires in both halves, once before its token doubles; a
\* token with more trades than its period shows; a late purchase and a late
\* price; a period without a trade.
Quote(id, token, ts, p, synthetic) ==
    [id |-> id, token |-> token, ts |-> ts, price |-> p, mcap |-> p, liquidity |-> 20000 * p,
     synthetic |-> synthetic]
Ledger(trades, edges, market) ==
    [trades |-> trades, edges |-> edges, market |-> market, clusters |-> {},
     info |-> [w \in {"w1", "w2", "w3"} |-> Holder(TRUE, {"human_like"})]]
MCReports ==
    LET first  == {Trade(1, "w1", "T", "BUY", 1, 10, 1, 3), Trade(2, "w2", "T", "BUY", 1, 10, 3, 3)}
        second == {Trade(3, "w1", "T", "BUY", 1, 10, 6, 3), Trade(4, "w3", "T", "BUY", 1, 10, 7, 3)}
        other  == {Trade(5, "w1", "S", "BUY", 1, 10, 7, 3), Trade(6, "w2", "S", "BUY", 1, 10, 9, 3),
                   Trade(7, "w1", "S", "SELL", 1, 40, 9, 3)}
        quotes == {Quote(1, "T", 1, 3, FALSE), Quote(2, "T", 2, 4, FALSE),
                   Quote(3, "T", 6, 9, FALSE), Quote(4, "T", 8, 20, TRUE)}
        moved  == {Capital(1, "w1", "w2", "transfer", 10, 2)}
        late   == [trades |-> {Trade(8, "w3", "T", "BUY", 1, 10, 2, 3)},
                   market |-> {Quote(5, "T", 4, 30, FALSE)}]
    IN  {[rows |-> Ledger(first \cup trades, moved, seen), late |-> late] :
            trades \in {second, {}}, seen \in {quotes, quotes \ {Quote(1, "T", 1, 3, FALSE)}}}
        \cup
        {[rows |-> Ledger(first \cup second \cup other, {}, quotes \cup
                              {Quote(6, "S", 7, 5, FALSE), Quote(7, "S", 9, 20, FALSE)}),
          late |-> Null],
         [rows |-> Ledger(other \ {Trade(5, "w1", "S", "BUY", 1, 10, 7, 3)}, {}, quotes),
          late |-> late]}
MCGrid == <<[dimension |-> "minWallets", value |-> 1], [dimension |-> "minEntities", value |-> 2],
            [dimension |-> "minNetFlow", value |-> 15], [dimension |-> "maxSoldPct", value |-> 60],
            [dimension |-> "maxMcapExpansion", value |-> 1],
            [dimension |-> "minLiquidity", value |-> 50]>>
MCMcapBands == <<2, 4, 8>>
MCPoolBands == <<50000, 90000>>
MCEntityBands == <<2, 3>>

\* graph: a ring with parallel rows, and a star of registered hubs.
Sent(id, s, t, action, asset, usd, ts) ==
    Flow(id, s, t, action, usd, ts) @@ [asset |-> asset, tx |-> id]
Round ==
    {Sent(1, "r", "a", "transfer", "SOL", 20, 1), Sent(2, "a", "b", "transfer", "USDC", 50, 2),
     Sent(3, "b", "r", "transfer", "TOK", 30, 3), Sent(4, "b", "r", "transfer", "PEPE", 30, 4),
     Sent(5, "r", "b", "transfer", "TOK", 5, 1), Sent(6, "b", "c", "transfer", "SOL", 40, 3),
     Sent(7, "c", "d", "transfer", "SOL", 40, 4), Sent(8, "a", "b", "transfer", "USDC", 1, 2)}
Star ==
    {Sent(1, "r", "cex", "cex_deposit", "SOL", 20, 1),
     Sent(2, "cex", "b", "cex_withdrawal", "SOL", 50, 2),
     Sent(3, "r", "router", "swap", "TOK", 30, 3), Sent(4, "router", "b", "dex_buy", "PEPE", 30, 4),
     Sent(5, "r", "bridge", "bridge_deposit", "TOK", 10, 1),
     Sent(6, "bridge", "c", "bridge_withdrawal", "SOL", 4, 3),
     Sent(7, "c", "r", "lp_add", "SOL", 40, 4), Sent(8, "mixer", "c", "transfer", "USDC", 10, 2),
     Sent(9, "r", "c", "contract_interaction", "USDC", 10, 2)}
Category(category, doNotExpand) == [category |-> category, doNotExpand |-> doNotExpand]
Hubs == ("cex" :> Category("CEX", FALSE)) @@ ("router" :> Category("ROUTER", TRUE))
          @@ ("bridge" :> Category("BRIDGE", FALSE)) @@ ("mixer" :> Category("MIXER", FALSE))
Modes == {"DIRECT", "CAPITAL_FLOW", "ENTITY_DISCOVERY", "FULL_RAW"}
Search(rows, late, registry, mode, stored) ==
    [rows |-> rows, late |-> late, registry |-> registry, root |-> "r", mode |-> mode,
     stored |-> stored]
MCSearches ==
    {Search(Round, {}, <<>>, mode, stored) : mode \in Modes,
        stored \in {<<>>, [maxNodes |-> 3], [maxEdges |-> 4], [minTransferUsd |-> 6],
                    [maxDepth |-> 2]}}
    \cup {Search(Star, {}, Hubs, mode, stored) : mode \in Modes,
             stored \in {<<>>, [excludeRoutersPoolsContracts |-> TRUE], [timeFrom |-> 3],
                         [timeTo |-> 1, includeCex |-> FALSE]}}
    \cup {Search(Round, {Sent(9, "a", "b", "transfer", "USDC", 7, 2)}, <<>>, "FULL_RAW", <<>>)}
MCDefaults == [maxDepth |-> 3, minTransferUsd |-> 1, maxNodes |-> 10, maxEdges |-> 20]

\* bridge: two deposits that could each be the other's, a leg interrupted by
\* an exchange, a leg of another asset.
CrossLeg(id, kind, counterparty, asset, usd, ts) ==
    [id |-> id, kind |-> kind, address |-> "w", counterparty |-> counterparty,
     asset |-> asset, protocol |-> "P", usd |-> usd, ts |-> ts]
Deposit(id, usd, ts) == CrossLeg(id, "bridge_deposit", "p", "USDC", usd, ts)
Withdrawal(id, counterparty, usd, ts) ==
    CrossLeg(id, "bridge_withdrawal", counterparty, "USDC", usd, ts)
MCLegWorlds ==
    {[legs |-> {Deposit(1, 100, 1), Deposit(2, 98, 1), Withdrawal(3, "p", 97, 2),
                Withdrawal(4, "p", 100, 3), Withdrawal(5, "cex", 99, 5)},
      interrupters |-> {"cex"}],
     [legs |-> {Deposit(1, 100, 1), Withdrawal(3, "p", 100, 2), Deposit(2, 100, 2),
                CrossLeg(4, "bridge_withdrawal", "p", "SOL", 1, 4)},
      interrupters |-> {}]}

\* overlap: searches of every source; a wallet in several cohorts, one below
\* the minimum, Dune rows without a wallet or without a group.
Bought(w, t, usd) == [wallet |-> w, token |-> t, action |-> "BUY", usd |-> usd]
DuneRow(n, w, count, group) == [n |-> n, wallet |-> w, count |-> count, group |-> group]
Request(source, minTokens, maxResults) ==
    [source |-> source, tokens |-> {"T", "U"}, minUsd |-> 10, minTokens |-> minTokens,
     maxResults |-> maxResults]
LocalTrades ==
    {Bought("a", "T", 20), Bought("a", "U", 20), Bought("b", "T", 20), Bought("b", "U", 15),
     [Bought("b", "T", 60) EXCEPT !.action = "SELL"], Bought("c", "T", 20),
     [Bought("c", "U", 20) EXCEPT !.action = "SELL"], Bought("c", "U", 5)}
DuneAnswer(client) ==
    [rows |-> {DuneRow(1, "a", 2, DuneGroup), DuneRow(2, "d", 2, DuneGroup),
               DuneRow(3, "a", 1, NoGroup), DuneRow(4, NoWallet, 2, DuneGroup)},
     truncated |-> FALSE, client |-> client]
SearchWorld(requests, client, known) ==
    [requests |-> requests, trades |-> LocalTrades, dune |-> DuneAnswer(client),
     candidates |-> known]
MCOverlapWorlds ==
    {SearchWorld((1 :> Request("hybrid", 2, 5)) @@ (2 :> Request("dune", 2, 4)), TRUE, {}),
     SearchWorld((1 :> Request("local", 1, 2)) @@ (2 :> Request("provider", 2, 4)), TRUE, {"d"}),
     SearchWorld(1 :> Request("hybrid", 1, 2), FALSE, {"d"})}

\* social: one text posted by three authors and read by two sources, posts
\* that come during the pass, and a source on a chain nothing is recognised on.
Post(id, sources, chain, ts, author, hash, tokens) ==
    [id |-> id, sources |-> sources, chain |-> chain, ts |-> ts, author |-> author,
     hash |-> hash, length |-> 20, tokens |-> tokens]
Channel(chains, reader) == [chains |-> chains, reader |-> reader]
MCSpam == [window |-> 2, copypastaAuthorMin |-> 3, repeatAuthorMin |-> 3, lowContentMinChars |-> 10,
           weights |-> [copypasta |-> 80, repeat_author |-> 50, low_content |-> 30]]
MCSocialWorlds ==
    {[sources |-> ("x" :> Channel({"SOLANA"}, TRUE)) @@ ("y" :> Channel({"SOLANA", "BSC"}, TRUE)),
      present |-> {"x"},
      posts |-> {Post(1, {"x", "y"}, "SOLANA", 0, "p", "h", {"T"}),
                 Post(2, {"x"}, "SOLANA", 1, "q", "h", {"T", "U"}),
                 Post(3, {"y"}, "SOLANA", 1, "r", "h", {"T"}),
                 Post(4, {"y"}, "BSC", 1, NoAuthor, "g", {"T"})}],
     [sources |-> ("x" :> Channel({"SOLANA"}, TRUE)) @@ ("y" :> Channel({"SOLANA"}, FALSE)),
      present |-> {"x", "y"},
      posts |-> {Post(1, {"x"}, "SOLANA", 0, "p", "h", {"T"}),
                 [Post(2, {"x"}, "SOLANA", 0, "p", "g", {"T"}) EXCEPT !.length = 5],
                 Post(3, {"x"}, "SOLANA", 1, "p", "f", {"U"})}]}

\* confluence: a worker and the seed script over the same tokens; a worker
\* alone with a source that answers well or badly and one without a reader.
Seen(id, token, ts, liquidity, mcap) ==
    [id |-> id, token |-> token, ts |-> ts, liquidity |-> liquidity, mcap |-> mcap]
Answer(status, observedAt) == [status |-> status, observedAt |-> observedAt]
MCLiquidityBands == <<10, 40, 80>>
MCFragilityBands == <<5, 20, 60>>
MCConfluenceWorlds ==
    {[runners |-> {"worker", "seed"}, tokens |-> ("T" :> "SOLANA") @@ ("U" :> "BSC"),
      points |-> {Seen(1, "T", 1, 0, 5), Seen(2, "T", 1, 30, 90), Seen(3, "T", 2, 60, 90)},
      sources |-> "s" :> [enabled |-> FALSE, reader |-> FALSE, chains |-> {}, answers |-> {}]],
     [runners |-> {"worker"}, tokens |-> ("T" :> "SOLANA") @@ ("U" :> "SOLANA") @@ ("V" :> "BSC"),
      points |-> {Seen(1, "T", 1, 3, 90), Seen(2, "V", 1, 90, 100)},
      sources |-> ("s" :> [enabled |-> TRUE, reader |-> TRUE, chains |-> {"SOLANA"},
                           answers |-> {Answer("ok", 3), Answer("rate_limited", 0)}])
                  @@ ("t" :> [enabled |-> TRUE, reader |-> FALSE, chains |-> {}, answers |-> {}])]}

\* discovery: addresses an import and the ingest bring as well, on a chain
\* with a provider and one without; and tokens that rose, fell and are new.
Offers(provider, offered) == [provider |-> provider, offered |-> offered]
Cap(ts, mcap) == [ts |-> ts, mcap |-> mcap]
MCDiscoveryWorlds ==
    {[chains |-> <<Offers(TRUE, {"a", "b"}), Offers(FALSE, {})>>,
      imports |-> {"a"}, active |-> {"b"}, tokens |-> <<>>, provider |-> FALSE],
     [chains |-> <<>>, imports |-> {}, active |-> {}, provider |-> TRUE,
      tokens |-> ("T" :> [points |-> {Cap(0, 2), Cap(1, 3), Cap(2, 9)}, traders |-> {"a", "b"}])
             @@ ("U" :> [points |-> {Cap(0, 0), Cap(1, 5), Cap(2, 5)}, traders |-> {"b", "c"}])
             @@ ("V" :> [points |-> {Cap(2, 8)}, traders |-> {"d"}])]}

\* seed: a wallet that qualifies, one of the file, and candidates that are a
\* hub, a bot, poor and unknown; a rotation from N into B, noise on Z.
Aged(table, key) == Row(table, key, {})
MCSeedWorld ==
    [labels |-> ("s" :> {"smart_money"}) @@ ("v" :> {"human_like"}) @@ ("b" :> {"possible_bot"})
                  @@ ("p" :> {"unknown"}) @@ ("x" :> {"cex_related"}),
     scenarioHubs |-> ("router" :> "ROUTER") @@ ("wormhole" :> "BRIDGE"),
     listedHubs |-> ("x" :> "ROUTER") @@ ("jupiter" :> "ROUTER"),
     claims |-> ("kolscan" :> {"s", "b", "x", "p", "n"}) @@ ("cielo" :> {"s", "x"}),
     overlap |-> {"s", "x"},
     poisoned |-> [hub |-> {"x"}, bot |-> {"b"}, below |-> {"p"}],
     qualifying |-> {"s"},
     risky |-> ("N" :> FALSE) @@ ("B" :> FALSE) @@ ("Z" :> TRUE),
     quotes |-> {"USDC"},
     posts |-> [callers |-> {1}, degens |-> {2}],
     csv |-> {"v"},
     trades |-> {<<"s", "N", 1>>, <<"v", "B", 2>>, <<"b", "Z", 3>>, <<"p", "B", 4>>},
     edges |-> {<<"s", "v">>},
     clusters |-> {{"s", "v"}},
     rotations |-> {[from |-> "s", to |-> "v", sold |-> "N", bought |-> "B"]},
     fires |-> [N |-> {"A", "C"}, B |-> {}, Z |-> {"G"}, QUALIFY |-> {}],
     demanded |-> [N |-> {"A"}, B |-> {"F"}],
     flagship |-> "N",
     reached |-> {"r", "router"},
     atLeast |-> [wallet |-> 4, token |-> 4, walletTokenTrade |-> 5, tokenMarketSnapshot |-> 3],
     found |->
        {{},
         {Aged(t, "old") : t \in {"backtestRun", "walletGraphSearch", "socialSource",
                                  "externalWalletSource", "tokenOverlapSearch",
                                  "duneQuerySource", "externalConfluenceSource", "importJob",
                                  "addressRegistry", "providerSyncState", "settings", "chain",
                                  "tokenConfluenceSnapshot", "tokenOverlapGroupResult",
                                  "walletGraphEdge"}}
           \cup {Row("wallet", "s", "watched"), Row("token", "N", TRUE),
                 Row("signal", <<"N", "A", 1>>, "active"),
                 Row("alert", <<"N", "A", 1>>, "sent"),
                 Row("walletStats", <<"s", "refreshed">>, "computed"),
                 Row("moneyFlowEdge", <<"s", "z">>, {}), Row("entityCluster", {"s"}, 1),
                 Row("candidateWallet", <<"kolscan", "s">>, "excluded"),
                 Row("tokenFlowSnapshot", <<"N", 1>>, [clustered |-> FALSE, status |-> "fired"])}},
     others |-> {Row("signal", <<"N", "A", 9>>, "active"), Row("settings", "worker", {}),
                 Row("alert", <<"N", "A", 9>>, "sent"),
                 Row("backtestResult", <<"N", "A", 1>>, "outcome"),
                 Row("moneyFlowEdge", <<"s", "z">>, {}), Row("wallet", "z", "watched")}]

\* settings: a range of market caps, an interval, and a section the form does
\* not show; bodies with an empty range, unknown keys and a section of another
\* type; texts that give other numbers than they show, or none.
McapMinPath == <<"rules", "mcapMin">>
McapMaxPath == <<"rules", "mcapMax">>
PollPath == <<"intervals", "walletActivitySec">>
SyncPath == <<"connectors", "syncHours">>
MCSettingsWorld ==
    [defaults |-> (McapMinPath :> {1}) @@ (McapMaxPath :> {5}) @@ (PollPath :> {4})
                    @@ (SyncPath :> {6}),
     shown |-> {McapMinPath, McapMaxPath, PollPath},
     mcapMin |-> McapMinPath, mcapMax |-> McapMaxPath,
     found |-> {<<>>, <<(McapMinPath :> {2})>>},
     bodies |-> {<<>>, McapMaxPath :> {0}, (SyncPath :> {7}) @@ (<<"rules", "old">> :> {1}),
                 <<"interval">> :> {1}, <<"intervals">> :> {}},
     typable |-> (McapMaxPath :> {Plain({3}), Plain({1})})
                   @@ (PollPath :> {Plain({}), [num |-> {0}, plain |-> FALSE]})]

\* csv: all texts up to five characters; files with good rows, bad rows, a
\* wallet twice, a source of two lines, no header, and nothing at all.
MCCsvTexts == UNION {[1..n -> {"q", "c", "n", "r", "a"}] : n \in 0..5}
CsvRow(address, chain, valid, source, tags) ==
    [address |-> address, chain |-> chain, figures |-> valid, source |-> source, tags |-> tags]
CsvFile(rows) == [header |-> TRUE, rows |-> rows]
Headless(rows) == [header |-> FALSE, rows |-> rows]
MCCsvWorlds ==
    LET shape == ("" :> {}) @@ ("so1" :> {"SOLANA"}) @@ ("0xb" :> {"BSC"})
        good == CsvRow("so1", "SOLANA", TRUE, <<"gmgn">>, {"whale", "friend"})
        mine == CsvRow("so1", "SOLANA", TRUE, <<"manual">>, {"whale"})
        bsc == CsvRow("0xb", "BSC", TRUE, <<>>, {})
        bad == {CsvRow("", "BSC", TRUE, <<>>, {}), CsvRow("so1", "BSC", TRUE, <<>>, {}),
                CsvRow("so1", "ETH", TRUE, <<>>, {}), CsvRow("0xb", "BSC", FALSE, <<>>, {})}
        files(route, job, found) ==
            [files |-> [route |-> route, job |-> job], shape |-> shape, found |-> found]
    IN  {files(CsvFile(<<b, good, bsc>>), CsvFile(<<mine>>),
               <<"so1", "SOLANA">> :> <<"operator">>) : b \in bad}
        \cup
        {files(CsvFile(<<good>> \o SetToSeq(bad) \o <<good>>), Headless(<<mine>>), <<>>),
         files(CsvFile(SetToSeq(bad)),
               CsvFile(<<CsvRow("0xb", "BSC", TRUE, <<"two", "lines">>, {}), good>>), <<>>),
         files(Headless(<<>>), CsvFile(<<>>), <<>>)}

\* pages: a page with a search of before the routes tagged them, ended or not,
\* and what its form lets a user ask for.
Found(source, status) ==
    [source |-> source, tagged |-> FALSE, status |-> status, whole |-> status = "done",
     created |-> IF source = "dune" /\ status = "done" THEN 1 ELSE 0]
MCPageWorlds ==
    {[kind |-> "graph", asks |-> {"graph"}, found |-> <<Found("graph", status)>>] :
        status \in {"running", "done"}}
    \cup {[kind |-> "overlap", asks |-> asks, found |-> <<Found("dune", status)>>] :
             asks \in {{"local", "provider"}, {"dune"}, {"hybrid"}},
             status \in {"running", "done"}}

\* switches: two wallet sources; a social one, and names of it and of another.
MCSwitchWorlds ==
    {[social |-> FALSE, names |-> {"x", "y"}, typable |-> {}],
     [social |-> TRUE, names |-> {"x"}, typable |-> {"x", "z"}]}

-----------------------------------------------------------------------------
VARIABLE scenario

Scenarios == {"clusters", "replay", "fifo", "outcomes", "graph", "bridge", "overlap",
              "social", "confluence", "discovery", "bullmq", "reports", "seed", "settings", "csv",
              "pages", "switches"}

computeVars ==
    <<scoredVars, replayVars, fifoVars, outcomeVars, graphVars, bridgeVars, overlapVars>>
ingestVars == <<socialVars, confluenceVars, discoveryVars>>
extraVars == <<reportVars, seedVars, settingVars, csvVars, pageVars, switchVars>>
analysisVars == <<scenario, computeVars, ingestVars, runnerVars, extraVars>>

\* What may vary in the initial state of a component, if it is the one.
Choice(name, S) == IF scenario = name THEN S ELSE {CHOOSE x \in S : TRUE}

AnalysisInit ==
    /\ scenario \in Scenarios
    /\ world \in Choice("clusters", Worlds) /\ ScoredInit
    /\ history \in Choice("replay", ReplayWorlds) /\ ReplayInit
    /\ price \in Choice("fifo", CurrentPrices) /\ FifoInit
    /\ outcomeWorld \in Choice("outcomes", OutcomeWorlds) /\ OutcomeInit
    /\ asked \in Choice("graph", Searches) /\ GraphInit
    /\ legWorld \in Choice("bridge", LegWorlds) /\ BridgeInit
    /\ overlapWorld \in Choice("overlap", OverlapWorlds) /\ OverlapInit
    /\ socialWorld \in Choice("social", SocialWorlds) /\ SocialInit
    /\ confluenceWorld \in Choice("confluence", ConfluenceWorlds) /\ ConfluenceInit
    /\ discoveryWorld \in Choice("discovery", DiscoveryWorlds) /\ DiscoveryInit
    /\ BullMqInit
    /\ ledger \in Choice("reports", ReportWorlds) /\ ReportInit
    /\ SeedInit /\ (scenario # "seed" => seedRows = {} /\ seed.mock)
    /\ SettingsInit /\ (scenario # "settings" => settingRows = <<>>)
    /\ CsvInit /\ (scenario # "csv" => csvText = <<>> /\ csvWorld = CHOOSE w \in CsvWorlds : TRUE)
    /\ pageWorld \in Choice("pages", PageWorlds) /\ PagesInit
    /\ switchWorld \in Choice("switches", SwitchWorlds) /\ SwitchesInit
    /\ (scenario # "pages" => tab.nav = {SearchUrl(0)})

\* Of clustering and scoring a behaviour has one trouble at most, and one
\* scoring pass less when it has it.
Troubles == clusteringBounds.vanished + clusteringBounds.ingested + clusteringBounds.faults
              + scoringBounds.faults
Affordable == Troubles <= 1 /\ Troubles + scoringBounds.started <= MaxScorings

\* A step of the component the behaviour is about; the others stay.
Compute ==
    \/ /\ scenario = "clusters" /\ ScoredNext /\ Affordable'
       /\ UNCHANGED <<replayVars, fifoVars, outcomeVars, graphVars, bridgeVars, overlapVars>>
    \/ /\ scenario = "replay" /\ ReplayNext
       /\ UNCHANGED <<scoredVars, fifoVars, outcomeVars, graphVars, bridgeVars, overlapVars>>
    \/ /\ scenario = "fifo" /\ TradeKnown
       /\ UNCHANGED <<scoredVars, replayVars, outcomeVars, graphVars, bridgeVars, overlapVars>>
    \/ /\ scenario = "outcomes" /\ OutcomeNext
       /\ UNCHANGED <<scoredVars, replayVars, fifoVars, graphVars, bridgeVars, overlapVars>>
    \/ /\ scenario = "graph" /\ GraphNext
       /\ UNCHANGED <<scoredVars, replayVars, fifoVars, outcomeVars, bridgeVars, overlapVars>>
    \/ /\ scenario = "bridge" /\ BridgeNext
       /\ UNCHANGED <<scoredVars, replayVars, fifoVars, outcomeVars, graphVars, overlapVars>>
    \/ /\ scenario = "overlap" /\ OverlapNext
       /\ UNCHANGED <<scoredVars, replayVars, fifoVars, outcomeVars, graphVars, bridgeVars>>

Ingest ==
    \/ /\ scenario = "social" /\ SocialNext
       /\ UNCHANGED <<confluenceVars, discoveryVars>>
    \/ /\ scenario = "confluence" /\ ConfluenceNext
       /\ UNCHANGED <<socialVars, discoveryVars>>
    \/ /\ scenario = "discovery" /\ DiscoveryNext
       /\ UNCHANGED <<socialVars, confluenceVars>>

\* Of the runner it has four calls or faults at most.
RunnerEvents == Len(starts) + Len(stops) + runnerBounds.direct + runnerBounds.faults
Runner == scenario = "bullmq" /\ BullMqNext /\ RunnerEvents' <= 4

\* Beside a row of others no second trouble.
SeedTroubles == seed.others # {} => seedBounds.events <= 1

\* An event costs as much as two changes or saves.
SettingsAffordable ==
    settingHistory.typed + settingHistory.saves + 2 * settingHistory.events <= 4

\* Three searches, visits and faults at most.
PagesAffordable == pageBounds.submits + pageBounds.visits + pageBounds.faults <= 3
\* Three clicks, losses and changes from elsewhere at most.
SwitchesAffordable == switchBounds.clicks + switchBounds.events <= 3

Extra ==
    \/ /\ scenario = "reports" /\ ReportNext
       /\ UNCHANGED <<seedVars, settingVars, csvVars, pageVars, switchVars>>
    \/ /\ scenario = "seed" /\ SeedNext /\ SeedTroubles'
       /\ UNCHANGED <<reportVars, settingVars, csvVars, pageVars, switchVars>>
    \/ /\ scenario = "settings" /\ SettingsNext /\ SettingsAffordable'
       /\ UNCHANGED <<reportVars, seedVars, csvVars, pageVars, switchVars>>
    \/ /\ scenario = "csv" /\ CsvNext
       /\ UNCHANGED <<reportVars, seedVars, settingVars, pageVars, switchVars>>
    \/ /\ scenario = "pages" /\ PagesNext /\ PagesAffordable'
       /\ UNCHANGED <<reportVars, seedVars, settingVars, csvVars, switchVars>>
    \/ /\ scenario = "switches" /\ SwitchesNext /\ SwitchesAffordable'
       /\ UNCHANGED <<reportVars, seedVars, settingVars, csvVars, pageVars>>

AnalysisNext ==
    \/ Compute /\ UNCHANGED <<scenario, ingestVars, runnerVars, extraVars>>
    \/ Ingest /\ UNCHANGED <<scenario, computeVars, runnerVars, extraVars>>
    \/ Runner /\ UNCHANGED <<scenario, computeVars, ingestVars, extraVars>>
    \/ Extra /\ UNCHANGED <<scenario, computeVars, ingestVars, runnerVars>>

\* The only fairness: a graph search that was started is carried on.
AnalysisSpec ==
    AnalysisInit /\ [][AnalysisNext]_analysisVars
      /\ WF_analysisVars(scenario = "graph" /\ RunStep
             /\ UNCHANGED <<scenario, scoredVars, replayVars, fifoVars, outcomeVars, bridgeVars,
                            overlapVars, ingestVars, runnerVars, extraVars>>)

\* What the pages of the dashboard show and save, in SettingsEdit, SearchPages
\* and SourceSwitches, is what is stored.
DashboardHonest == SettingsHonest /\ PagesHonest /\ SwitchesHonest
=============================================================================
