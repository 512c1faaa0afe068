SPECIFICATION AnalysisSpec
CONSTANTS
    Null = Null
    NoPrice = NoPrice
    NoBound = NoBound
    NoGroup = NoGroup
    NoWallet = NoWallet
    Unknown = Unknown
    DuneGroup = DuneGroup
    EntityThreshold = 55
    Worlds <- MCWorlds
    MaxPasses = 2
    MaxVanish = 1
    MaxIngested = 1
    MaxPassFaults = 1
    LongWindow = 4
    ShortWindow = 1
    WHALE_BUY_USD = 10
    InflowSpikeMult = 3
    McapMin = 1
    McapMax = 5
    Scorers = {"tick", "rescore"}
    TokenRows <- MCTokenRows
    WalletInfo <- MCWalletInfo
    Penalties = {500}
    MaxScorings = 3
    MaxRiskFaults = 1
    Scale = 6
    BridgeLegWindow = 2
    RuleSettings <- MCRuleSettings
    ReplayWorlds <- MCReplayWorlds
    ReplayToken = "T"
    ReplayFrom = 1
    ReplayTo = 8
    ReplayStep = 2
    Trades <- MCTrades
    CurrentPrices <- MCCurrentPrices
    HorizonMinutes <- MCHorizons
    MIN_SIGNAL_AGE = 1
    OutcomeWorlds <- MCOutcomeWorlds
    BacktestPasses = {"job", "route"}
    LastTime = 5
    MaxBacktestFaults = 1
    Searches <- MCSearches
    GraphDefaults <- MCDefaults
    PerNodeTxCap = 5
    MaxReruns = 1
    MaxGraphFaults = 1
    LegWorlds <- MCLegWorlds
    PassTimes = {2, 4, 6}
    Lookback = 4
    BridgeWindow = 2
    MaxBridgeFaults = 1
    OverlapWorlds <- MCOverlapWorlds
    MaxOverlapFaults = 1
    NoAuthor = NoAuthor
    SocialWorlds <- MCSocialWorlds
    SpamConfig <- MCSpam
    LastSocialTime = 2
    MaxSocialFaults = 1
    MaxSourceEdits = 1
    ConfluenceWorlds <- MCConfluenceWorlds
    LiquidityBands <- MCLiquidityBands
    FragilityBands <- MCFragilityBands
    HourLength = 2
    MaxConfluencePasses = 2
    MaxConfluenceFaults = 1
    DiscoveryWorlds <- MCDiscoveryWorlds
    McapExpansionMin = 3
    BackfillLookback = 1
    LastDiscoveryTime = 2
    MaxDiscoveryFaults = 1
    QueueNames = {"walletActivity", "moneyFlow"}
    MaxStarts = 2
    MaxStops = 2
    MaxSchedules = 2
    MaxDirect = 1
    MaxRedisFaults = 1
    ReportWorlds <- MCReports
    Grid <- MCGrid
    MIN_SUFFICIENT_SAMPLE_SIZE = 2
    McapBands <- MCMcapBands
    PoolBands <- MCPoolBands
    EntityBands <- MCEntityBands
    MaxReports = 2
    MaxReportFaults = 1
    SeedWorld <- MCSeedWorld
    MaxSeeds = 2
    MaxSeedEvents = 2
    SettingsWorld <- MCSettingsWorld
    MaxTyped = 2
    MaxSaves = 2
    MaxSettingsEvents = 2
    CsvTexts <- MCCsvTexts
    CsvWorlds <- MCCsvWorlds
    WalletLabels = {"whale", "possible_bot"}
    MAX_RETURNED_ERRORS = 1
    MaxCsvFaults = 1
    PageWorlds <- MCPageWorlds
    MaxSubmits = 2
    MaxVisits = 2
    MaxPageFaults = 1
    SwitchWorlds <- MCSwitchWorlds
    MaxClicks = 3
    MaxSwitchEvents = 2
INVARIANTS
    WrittenTablesAgree
    LatestCountsWholeClusters
    ReplayIsBlind
    OutcomeRowsAgree
    GraphSound
    PassSettlesWindow
    FifoMatchesUnits
    OverlapHonest
    MentionsAccounted
    ConfluenceHonest
    DiscoveryOnlyAdds
    OneWorkerPerName
    ReportsHonest
    SeedHonest
    DashboardHonest
    ImportAccounted
PROPERTIES
    SearchSettles
CHECK_DEADLOCK FALSE
