---------------------------- MODULE WalletDiscovery ----------------------------
(***************************************************************************)
(* Two passes that bring in wallets nobody named: runWalletDiscovery of    *)
(* packages/db/src/walletDiscovery.ts, which creates a wallet with a row   *)
(* of zeroed figures for every address a provider offers, and              *)
(* runTokenTopTraderBackfill (tokenTopTraderBackfill.ts), which makes      *)
(* candidates of the top traders of tokens that rose.  Beside them a CSV   *)
(* import and the ingest of activity create the same wallets, and the      *)
(* validation decides on the same candidates (WalletIntake).               *)
(***************************************************************************)
EXTENDS Integers, FiniteSets, Sequences

CONSTANTS
    DiscoveryWorlds,     \* [chains, imports, active, tokens, provider]: chains is a sequence
                         \* of [provider, offered]; imports and active are wallets that come
                         \* otherwise; tokens maps each to [points, traders], a point being
                         \* [ts, mcap]; provider: there is one for top traders
    McapExpansionMin,    \* settings.connectors.topTraderBackfill
    BackfillLookback,
    LastDiscoveryTime,   \* bound: the clock
    MaxDiscoveryFaults   \* bound: statements and calls that throw, deaths of the worker

ASSUME DiscoveryAssumption ==
    /\ McapExpansionMin \in Nat /\ BackfillLookback \in Nat
    /\ LastDiscoveryTime \in Nat /\ MaxDiscoveryFaults \in Nat
    /\ \A world \in DiscoveryWorlds :
           /\ Len(world.chains) \in Nat /\ DOMAIN world.chains = 1..Len(world.chains)
           /\ \A t \in DOMAIN world.tokens : \A p \in world.tokens[t].points : p.ts \in Int

VARIABLES
    discoveryWorld,
    discoveryTime,
    walletRows,      \* Wallet: address -> [watched, discovered]
    figures,         \* WalletStats: set of [wallet, source, at]
    topCandidates,   \* CandidateWallet of source birdeye_top_traders: address -> status
    discovery,       \* the pass: chains left, addresses left, the one at hand
    import,          \* the row the CSV import is at
    backfill,        \* the pass: tokens left, traders left
    outside,         \* wallets and verdicts that may still come from elsewhere
    strays,          \* history: wallets a fault left without figures
    crossed,         \* history: wallets whose import was under way when they were found new
    verdicts,        \* history: what validation decided
    discoveryFaults

passVars == <<discovery, import, backfill>>
discoveryVars ==
    <<discoveryWorld, discoveryTime, walletRows, figures, topCandidates, passVars, outside,
      strays, crossed, verdicts, discoveryFaults>>

NoDiscovery == [at |-> "idle", chain |-> 0, left |-> {}, wallet |-> "none", now |-> 0]
NoImport == [at |-> "idle", wallet |-> "none", now |-> 0]
NoBackfill == [at |-> "idle", tokens |-> {}, traders |-> {}, now |-> 0]

DiscoveryInit ==
    /\ discoveryWorld \in DiscoveryWorlds
    /\ discoveryTime = 0
    /\ walletRows = <<>> /\ figures = {} /\ topCandidates = <<>>
    /\ discovery = NoDiscovery /\ import = NoImport /\ backfill = NoBackfill
    /\ outside = [imports |-> discoveryWorld.imports, active |-> discoveryWorld.active]
    /\ strays = {} /\ crossed = {} /\ verdicts = <<>>
    /\ discoveryFaults = 0

DiscoveryTick ==
    /\ discoveryTime < LastDiscoveryTime
    /\ discoveryTime' = discoveryTime + 1
    /\ UNCHANGED <<discoveryWorld, walletRows, figures, topCandidates, passVars, outside,
                   strays, crossed, verdicts, discoveryFaults>>

DiscoveryFault ==
    discoveryFaults < MaxDiscoveryFaults /\ discoveryFaults' = discoveryFaults + 1

\* f with x mapped to y.
With(f, x, y) == [z \in DOMAIN f \cup {x} |-> IF z = x THEN y ELSE f[z]]

-----------------------------------------------------------------------------
(* runWalletDiscovery.                                                     *)

ChainCount == Len(discoveryWorld.chains)

\* The chain is done with: the next one, or the end.
ChainLeft == [NoDiscovery EXCEPT !.at = "chain", !.chain = discovery.chain]

StartDiscovery ==
    /\ discovery.at = "idle"
    /\ discovery' = [NoDiscovery EXCEPT !.at = "chain"]
    /\ UNCHANGED <<discoveryWorld, discoveryTime, walletRows, figures, topCandidates, import,
                   backfill, outside, strays, crossed, verdicts, discoveryFaults>>

\* A chain without a provider offers nothing.
OpenChain ==
    /\ discovery.at = "chain" /\ discovery.chain < ChainCount
    /\ LET k == discovery.chain + 1
           chain == discoveryWorld.chains[k]
       IN  discovery' = [NoDiscovery EXCEPT !.at = IF chain.provider THEN "find" ELSE "chain",
               !.chain = k, !.left = IF chain.provider THEN chain.offered ELSE {}]
    /\ UNCHANGED <<discoveryWorld, discoveryTime, walletRows, figures, topCandidates, import,
                   backfill, outside, strays, crossed, verdicts, discoveryFaults>>

\* Only an address without a wallet is taken further.
FindWallet(w) ==
    /\ discovery.at = "find" /\ w \in discovery.left
    /\ discovery' = IF w \notin DOMAIN walletRows
                    THEN [discovery EXCEPT !.at = "create", !.left = @ \ {w}, !.wallet = w,
                                           !.now = discoveryTime]
                    ELSE [discovery EXCEPT !.left = @ \ {w}]
    /\ UNCHANGED <<discoveryWorld, discoveryTime, walletRows, figures, topCandidates, import,
                   backfill, outside, strays, crossed, verdicts, discoveryFaults>>

\* When another job has created the wallet since, the create throws and the
\* rest of the chain is given up.
CreateWallet ==
    /\ discovery.at = "create"
    /\ IF discovery.wallet \in DOMAIN walletRows
       THEN discovery' = ChainLeft /\ UNCHANGED walletRows
       ELSE /\ walletRows' = With(walletRows, discovery.wallet,
                                  [watched |-> FALSE, discovered |-> TRUE])
            /\ discovery' = [discovery EXCEPT !.at = "stats"]
    /\ UNCHANGED <<discoveryWorld, discoveryTime, figures, topCandidates, import, backfill,
                   outside, strays, crossed, verdicts, discoveryFaults>>

\* Zeroed figures, of the time at which the wallet was looked for.
CreateFigures ==
    /\ discovery.at = "stats"
    /\ figures' = figures \cup
           {[wallet |-> discovery.wallet, source |-> "provider", at |-> discovery.now]}
    /\ crossed' = IF import.wallet = discovery.wallet THEN crossed \cup {import.wallet}
                  ELSE crossed
    /\ discovery' = [discovery EXCEPT !.at = "find", !.wallet = "none", !.now = 0]
    /\ UNCHANGED <<discoveryWorld, discoveryTime, walletRows, topCandidates, import, backfill,
                   outside, strays, verdicts, discoveryFaults>>

Stray == IF discovery.at = "stats" THEN {discovery.wallet} ELSE {}

\* The provider or a statement throws: the next chain.
ChainThrows ==
    /\ discovery.at \in {"find", "create", "stats"} /\ DiscoveryFault
    /\ discovery' = ChainLeft /\ strays' = strays \cup Stray
    /\ UNCHANGED <<discoveryWorld, discoveryTime, walletRows, figures, topCandidates, import,
                   backfill, outside, crossed, verdicts>>

CloseChain ==
    /\ \/ discovery.at = "find" /\ discovery.left = {} /\ discovery' = ChainLeft
       \/ discovery.at = "chain" /\ discovery.chain = ChainCount /\ discovery' = NoDiscovery
    /\ UNCHANGED <<discoveryWorld, discoveryTime, walletRows, figures, topCandidates, import,
                   backfill, outside, strays, crossed, verdicts, discoveryFaults>>

-----------------------------------------------------------------------------
(* Other jobs that create wallets.                                         *)

\* upsertWalletFromCsvRow: the row's time is that at which it is begun; ...
BeginImport(w) ==
    /\ import.at = "idle" /\ w \in outside.imports
    /\ outside' = [outside EXCEPT !.imports = @ \ {w}]
    /\ import' = [at |-> "wallet", wallet |-> w, now |-> discoveryTime]
    /\ UNCHANGED <<discoveryWorld, discoveryTime, walletRows, figures, topCandidates, discovery,
                   backfill, strays, crossed, verdicts, discoveryFaults>>

\* ... a wallet that exists is left as it is ...
ImportWallet ==
    /\ import.at = "wallet"
    /\ walletRows' = IF import.wallet \in DOMAIN walletRows THEN walletRows
                     ELSE With(walletRows, import.wallet,
                               [watched |-> TRUE, discovered |-> FALSE])
    /\ import' = [import EXCEPT !.at = "stats"]
    /\ UNCHANGED <<discoveryWorld, discoveryTime, figures, topCandidates, discovery, backfill,
                   outside, strays, crossed, verdicts, discoveryFaults>>

\* ... and its figures are added.
ImportFigures ==
    /\ import.at = "stats"
    /\ figures' = figures \cup {[wallet |-> import.wallet, source |-> "csv", at |-> import.now]}
    /\ crossed' = IF discovery.wallet = import.wallet THEN crossed \cup {import.wallet}
                  ELSE crossed
    /\ import' = NoImport
    /\ UNCHANGED <<discoveryWorld, discoveryTime, walletRows, topCandidates, discovery, backfill,
                   outside, strays, verdicts, discoveryFaults>>

\* A statement throws: the row is reported as not written.
ImportThrows ==
    /\ import.at # "idle" /\ DiscoveryFault
    /\ import' = NoImport
    /\ UNCHANGED <<discoveryWorld, discoveryTime, walletRows, figures, topCandidates, discovery,
                   backfill, outside, strays, crossed, verdicts>>

\* The ingest of activity creates the wallet when it is not there.
WalletActive(w) ==
    /\ w \in outside.active
    /\ outside' = [outside EXCEPT !.active = @ \ {w}]
    /\ walletRows' = IF w \in DOMAIN walletRows THEN walletRows
                     ELSE With(walletRows, w, [watched |-> FALSE, discovered |-> FALSE])
    /\ UNCHANGED <<discoveryWorld, discoveryTime, figures, topCandidates, passVars, strays,
                   crossed, verdicts, discoveryFaults>>

-----------------------------------------------------------------------------
(* runTokenTopTraderBackfill.                                              *)

StartBackfill ==
    /\ backfill.at = "idle" /\ DOMAIN discoveryWorld.tokens # {}
    /\ backfill' = [at |-> "token", tokens |-> DOMAIN discoveryWorld.tokens, traders |-> {},
                    now |-> discoveryTime]
    /\ UNCHANGED <<discoveryWorld, discoveryTime, walletRows, figures, topCandidates, discovery,
                   import, outside, strays, crossed, verdicts, discoveryFaults>>

Stored(t) == {p \in discoveryWorld.tokens[t].points : p.ts <= discoveryTime}

\* The market caps a reader of the newest of these points may find.
NewestCap(points) ==
    {p.mcap : p \in {q \in points : \A o \in points : q.ts >= o.ts}}

\* Whether the cap rose enough since the lookback; a token without a point
\* that old, or with a cap of zero then, has not.
Expansions(t) ==
    LET old == {p \in Stored(t) : p.ts <= backfill.now - BackfillLookback} IN
    {was > 0 /\ is >= McapExpansionMin * was :
        was \in NewestCap(old), is \in NewestCap(Stored(t))}

ReadToken(t) ==
    /\ backfill.at = "token" /\ t \in backfill.tokens
    /\ \E expanded \in IF Expansions(t) = {} THEN {FALSE} ELSE Expansions(t) :
           backfill' = [backfill EXCEPT !.tokens = @ \ {t},
               !.at = IF expanded /\ discoveryWorld.provider THEN "trader" ELSE "token",
               !.traders = IF expanded /\ discoveryWorld.provider
                           THEN discoveryWorld.tokens[t].traders ELSE {}]
    /\ UNCHANGED <<discoveryWorld, discoveryTime, walletRows, figures, topCandidates, discovery,
                   import, outside, strays, crossed, verdicts, discoveryFaults>>

\* Faulty variant: a trader seen again is a candidate again.
PendingAgain(w) == "pending"

\* A known candidate keeps its status.
TraderStatus(w) == IF w \in DOMAIN topCandidates THEN topCandidates[w] ELSE "pending"

UpsertTrader(w) ==
    /\ backfill.at = "trader" /\ w \in backfill.traders
    /\ topCandidates' = With(topCandidates, w, TraderStatus(w))
    /\ backfill' = [backfill EXCEPT !.traders = @ \ {w}]
    /\ UNCHANGED <<discoveryWorld, discoveryTime, walletRows, figures, discovery, import,
                   outside, strays, crossed, verdicts, discoveryFaults>>

\* The provider or a statement throws: the next token.
TokenThrows ==
    /\ backfill.at \in {"token", "trader"} /\ DiscoveryFault
    /\ IF backfill.at = "trader"
       THEN backfill' = [backfill EXCEPT !.at = "token", !.traders = {}]
       ELSE \E t \in backfill.tokens : backfill' = [backfill EXCEPT !.tokens = @ \ {t}]
    /\ UNCHANGED <<discoveryWorld, discoveryTime, walletRows, figures, topCandidates, discovery,
                   import, outside, strays, crossed, verdicts>>

CloseToken ==
    /\ backfill.traders = {}
    /\ \/ backfill.at = "trader" /\ backfill' = [backfill EXCEPT !.at = "token"]
       \/ backfill.at = "token" /\ backfill.tokens = {} /\ backfill' = NoBackfill
    /\ UNCHANGED <<discoveryWorld, discoveryTime, walletRows, figures, topCandidates, discovery,
                   import, outside, strays, crossed, verdicts, discoveryFaults>>

\* Validation decides on a candidate.
Decide(w, verdict) ==
    /\ topCandidates[w] = "pending"
    /\ topCandidates' = [topCandidates EXCEPT ![w] = verdict]
    /\ verdicts' = With(verdicts, w, verdict)
    /\ UNCHANGED <<discoveryWorld, discoveryTime, walletRows, figures, passVars, outside,
                   strays, crossed, discoveryFaults>>

-----------------------------------------------------------------------------
\* The worker dies with both passes; the import is another process's.
WorkerDies ==
    /\ DiscoveryFault
    /\ strays' = strays \cup Stray
    /\ discovery' = NoDiscovery /\ backfill' = NoBackfill
    /\ UNCHANGED <<discoveryWorld, discoveryTime, walletRows, figures, topCandidates, import,
                   outside, crossed, verdicts>>

DiscoveryNext ==
    \/ DiscoveryTick \/ StartDiscovery \/ OpenChain \/ CreateWallet \/ CreateFigures
    \/ ChainThrows \/ CloseChain \/ ImportWallet \/ ImportFigures \/ ImportThrows
    \/ StartBackfill \/ TokenThrows \/ CloseToken \/ WorkerDies
    \/ \E w \in discovery.left : FindWallet(w)
    \/ \E w \in outside.imports : BeginImport(w)
    \/ \E w \in outside.active : WalletActive(w)
    \/ \E t \in backfill.tokens : ReadToken(t)
    \/ \E w \in backfill.traders : UpsertTrader(w)
    \/ \E w \in DOMAIN topCandidates, verdict \in {"promoted", "rejected"} : Decide(w, verdict)

DiscoverySpec == DiscoveryInit /\ [][DiscoveryNext]_discoveryVars

-----------------------------------------------------------------------------
\* The zeroed figures of a discovered wallet are never newer than the ones an
\* operator imported, unless both were being written at once.
ImportCounts ==
    \A csv, zero \in figures :
        csv.source = "csv" /\ zero.source = "provider" /\ csv.wallet = zero.wallet =>
            csv.at >= zero.at \/ csv.wallet \in crossed

\* Figures are made up for wallets that discovery created, once for each, and
\* such a wallet lacks them only in the pass or after a fault.
FiguresOfDiscovered ==
    /\ \A f, g \in figures :
           f.source = "provider" =>
               /\ walletRows[f.wallet].discovered
               /\ g.source = "provider" /\ g.wallet = f.wallet => f = g
    /\ \A w \in DOMAIN walletRows :
           walletRows[w].discovered =>
               \/ \E f \in figures : f.wallet = w
               \/ w \in strays \/ (discovery.at = "stats" /\ discovery.wallet = w)

VerdictsKept == \A w \in DOMAIN verdicts : topCandidates[w] = verdicts[w]

\* Only what rose is backfilled.
OnlyRisers ==
    \A w \in DOMAIN topCandidates :
        \E t \in DOMAIN discoveryWorld.tokens :
            /\ w \in discoveryWorld.tokens[t].traders
            /\ \E was, is \in Stored(t) :
                   /\ was.ts + BackfillLookback <= discoveryTime
                   /\ was.mcap > 0 /\ is.mcap >= McapExpansionMin * was.mcap

\* Discovery adds wallets and candidates and takes nothing from those known.
DiscoveryOnlyAdds ==
    ImportCounts /\ FiguresOfDiscovered /\ VerdictsKept /\ OnlyRisers
=============================================================================
