----------------------------- MODULE TokenOverlap -----------------------------
(***************************************************************************)
(* The overlap finder: which wallets bought several given tokens.  A       *)
(* request to apps/web/app/api/overlap/route.ts runs a search over the     *)
(* wallets' own trades (runLocalOverlapSearch, packages/db/src/dune/       *)
(* localOverlap.ts), one over Dune's rows (runTokenOverlapSearch,          *)
(* duneOverlap.ts), or both at once and merges them into a third search.   *)
(* Dune's search also makes a candidate of every wallet it finds.          *)
(*                                                                         *)
(* A search is named <<request, kind>>.  Requests run at the same time;    *)
(* every row is a statement of its own, any statement may throw, and the   *)
(* web process may die under a request.                                    *)
(***************************************************************************)
EXTENDS Integers, FiniteSets, FiniteSetsExt, TLC

CONSTANTS
    OverlapWorlds,   \* [requests, trades, dune, candidates]: requests maps each to
                     \* [source, tokens, minUsd, minTokens, maxResults]; a trade is
                     \* [wallet, token, action, usd]; dune is [client, rows, truncated],
                     \* what its client answers if there is one, a row being
                     \* [n, wallet, count, group]
    NoGroup, NoWallet, \* a row without one
    MaxOverlapFaults

VARIABLES
    overlapWorld,
    searches,        \* TokenOverlapSearch: search -> its row
    walletResults,   \* TokenOverlapWalletResult: set of [search, n, wallet, count, group]
    groupResults,    \* TokenOverlapGroupResult: set of [search, group, wallets, shared]
    candidates,      \* wallets with a candidate row of source dune_token_overlap
    leg,             \* search -> the run of it in memory
    overlapFaults

overlapVars == <<overlapWorld, searches, walletResults, groupResults, candidates, leg, overlapFaults>>

Requests == DOMAIN overlapWorld.requests
Asked(x) == overlapWorld.requests[x[1]]
LegsOf(source) == CASE source = "hybrid" -> {"local", "dune"}
                    [] source \in {"local", "dune"} -> {source}
                    [] OTHER -> {}

\* The run of a search: rows and groups still to write, the row whose wallet
\* is being made a candidate and whether it was one, the wallets it added,
\* and (for the properties) who was a candidate when it began.
NewLeg == [at |-> "fetch", todo |-> {}, groups |-> {}, returned |-> 0, truncated |-> FALSE,
           row |-> <<>>, existed |-> FALSE, created |-> {}, before |-> candidates]

NewSearch == [status |-> "running", source |-> "none", rowsReturned |-> 0,
              truncated |-> FALSE, candidatesCreated |-> 0]

OverlapInit ==
    /\ overlapWorld \in OverlapWorlds
    /\ searches = <<>>
    /\ walletResults = {}
    /\ groupResults = {}
    /\ candidates = overlapWorld.candidates
    /\ leg = <<>>
    /\ overlapFaults = 0

-----------------------------------------------------------------------------
(***************************************************************************)
(* What a search finds.                                                    *)
(***************************************************************************)
\* Local: the wallets with a large enough buy of enough of the tokens, those
\* that made the most first; wallets with the same tokens are one group.
Qualified(x) == {t \in overlapWorld.trades :
    t.token \in Asked(x).tokens /\ (t.action = "BUY" => t.usd >= Asked(x).minUsd)}
TokensHit(x, w) == {t.token : t \in {u \in Qualified(x) : u.wallet = w /\ u.action = "BUY"}}
Pnl(x, w) == LET sum(a) == MapThenSumSet(LAMBDA t : t.usd,
                               {t \in Qualified(x) : t.wallet = w /\ t.action = a})
             IN  sum("SELL") - sum("BUY")
Hits(x) == {w \in {t.wallet : t \in Qualified(x)} : Cardinality(TokensHit(x, w)) >= Asked(x).minTokens}

Limited(x) ==
    LET hits == Hits(x)
        k    == Min({Cardinality(hits), Asked(x).maxResults})
    IN  CHOOSE S \in kSubset(k, hits) : \A w \in S, v \in hits \ S : Pnl(x, w) >= Pnl(x, v)

LocalRows(x) == {[n |-> 0, wallet |-> w, count |-> Cardinality(TokensHit(x, w)),
                  group |-> TokensHit(x, w)] : w \in Limited(x)}

\* Dune: the rows the client returned that have a wallet.
DuneRows == {r \in overlapWorld.dune.rows : r.wallet # NoWallet}

\* Groups of at least two wallets, with the tokens all of them share.
GroupsOf(rows) ==
    LET inGroup(g) == {r \in rows : r.group = g}
    IN  {[group |-> g, wallets |-> {r.wallet : r \in inGroup(g)},
          shared |-> Min({r.count : r \in inGroup(g)})] :
            g \in {h \in {r.group : r \in rows} \ {NoGroup} :
                      Cardinality({r.wallet : r \in inGroup(h)}) >= 2}}

-----------------------------------------------------------------------------
Fetched(x, rows, returned, truncated) ==
    leg' = [leg EXCEPT ![x].at = "rows", ![x].todo = rows, ![x].groups = GroupsOf(rows),
                       ![x].returned = returned, ![x].truncated = truncated]

\* The request arrives: the rows of its searches are created.
StartRequest(r) ==
    LET kinds == LegsOf(overlapWorld.requests[r].source) IN
    /\ \A x \in DOMAIN searches : x[1] # r
    /\ IF kinds = {}
       THEN /\ searches' = (<<r, "provider">> :> [NewSearch EXCEPT !.status = "failed",
                                                                   !.source = "provider"]) @@ searches
            /\ UNCHANGED leg
       ELSE /\ searches' = [x \in {<<r, k>> : k \in kinds} |-> NewSearch] @@ searches
            /\ leg' = [x \in {<<r, k>> : k \in kinds} |-> NewLeg] @@ leg
    /\ UNCHANGED <<overlapWorld, walletResults, groupResults, candidates, overlapFaults>>

FetchLocal(x) ==
    /\ leg[x].at = "fetch" /\ x[2] = "local"
    /\ Fetched(x, LocalRows(x), Cardinality(Limited(x)),
               Cardinality(Hits(x)) > Asked(x).maxResults)
    /\ UNCHANGED <<overlapWorld, searches, walletResults, groupResults, candidates, overlapFaults>>

Failed(x) == searches' = [searches EXCEPT ![x].status = "failed"]

FetchDune(x) ==
    /\ leg[x].at = "fetch" /\ x[2] = "dune"
    /\ IF ~overlapWorld.dune.client
       THEN Failed(x) /\ leg' = [leg EXCEPT ![x].at = "over"]
       ELSE /\ Fetched(x, DuneRows, Cardinality(overlapWorld.dune.rows),
                       \/ overlapWorld.dune.truncated
                       \/ Cardinality(overlapWorld.dune.rows) >= Asked(x).maxResults)
            /\ UNCHANGED searches
    /\ UNCHANGED <<overlapWorld, walletResults, groupResults, candidates, overlapFaults>>

\* One wallet row; after it, Dune's search looks the candidate up.
WriteWalletRow(x) ==
    /\ leg[x].at = "rows" /\ leg[x].todo # {}
    /\ LET r == CHOOSE r \in leg[x].todo : TRUE IN
        /\ walletResults' = walletResults \cup {[search |-> x] @@ r}
        /\ leg' = [leg EXCEPT ![x].todo = @ \ {r}, ![x].row = r,
                              ![x].at = IF x[2] = "dune" THEN "lookup" ELSE "rows"]
    /\ UNCHANGED <<overlapWorld, searches, groupResults, candidates, overlapFaults>>

LookUpCandidate(x) ==
    /\ leg[x].at = "lookup"
    /\ leg' = [leg EXCEPT ![x].at = "upsert", ![x].existed = leg[x].row.wallet \in candidates]
    /\ UNCHANGED <<overlapWorld, searches, walletResults, groupResults, candidates, overlapFaults>>

\* Faulty variant: every wallet upserted counts as added.
UpsertCounted(x) ==
    /\ leg[x].at = "upsert"
    /\ candidates' = candidates \cup {leg[x].row.wallet}
    /\ leg' = [leg EXCEPT ![x].at = "rows", ![x].created = @ \cup {leg[x].row.wallet}]
    /\ UNCHANGED <<overlapWorld, searches, walletResults, groupResults, overlapFaults>>

UpsertCandidate(x) ==
    /\ leg[x].at = "upsert"
    /\ candidates' = candidates \cup {leg[x].row.wallet}
    /\ leg' = [leg EXCEPT ![x].at = "rows",
                          ![x].created = IF leg[x].existed THEN @ ELSE @ \cup {leg[x].row.wallet}]
    /\ UNCHANGED <<overlapWorld, searches, walletResults, groupResults, overlapFaults>>

WriteGroupRow(x) ==
    /\ leg[x].at = "rows" /\ leg[x].todo = {} /\ leg[x].groups # {}
    /\ LET g == CHOOSE g \in leg[x].groups : TRUE IN
        /\ groupResults' = groupResults \cup {[search |-> x, from |-> x] @@ g}
        /\ leg' = [leg EXCEPT ![x].groups = @ \ {g}]
    /\ UNCHANGED <<overlapWorld, searches, walletResults, candidates, overlapFaults>>

MarkDone(x) ==
    /\ leg[x].at = "rows" /\ leg[x].todo = {} /\ leg[x].groups = {}
    /\ searches' = [searches EXCEPT ![x].status = "done", ![x].rowsReturned = leg[x].returned,
                                    ![x].truncated = leg[x].truncated,
                                    ![x].candidatesCreated = Cardinality(leg[x].created)]
    /\ leg' = [leg EXCEPT ![x].at = "over"]
    /\ UNCHANGED <<overlapWorld, walletResults, groupResults, candidates, overlapFaults>>

\* A statement or the client throws; what is written stays.
LegThrows(x) ==
    /\ leg[x].at \in {"fetch", "rows", "lookup", "upsert"} /\ overlapFaults < MaxOverlapFaults
    /\ Failed(x)
    /\ leg' = [leg EXCEPT ![x].at = "over"]
    /\ overlapFaults' = overlapFaults + 1
    /\ UNCHANGED <<overlapWorld, walletResults, groupResults, candidates>>

\* The web process dies under the request, whatever it was at.
RequestDies(r) ==
    /\ overlapFaults < MaxOverlapFaults
    /\ \E x \in DOMAIN leg : x[1] = r /\ leg[x].at # "returned"
    /\ leg' = [x \in DOMAIN leg |-> IF x[1] = r THEN [leg[x] EXCEPT !.at = "lost"] ELSE leg[x]]
    /\ overlapFaults' = overlapFaults + 1
    /\ UNCHANGED <<overlapWorld, searches, walletResults, groupResults, candidates>>

-----------------------------------------------------------------------------
\* The route: once every search of the request is over, they are tagged.
TagSearches(r) ==
    LET mine == {x \in DOMAIN leg : x[1] = r} IN
    /\ mine # {} /\ \A x \in mine : leg[x].at = "over"
    /\ searches' = [x \in DOMAIN searches |->
                       IF x \in mine THEN [searches[x] EXCEPT !.source = x[2]] ELSE searches[x]]
    /\ leg' = [x \in DOMAIN leg |->
                  IF x \notin mine THEN leg[x]
                  ELSE [leg[x] EXCEPT !.at = IF Cardinality(mine) = 2 THEN "tagged" ELSE "returned"]]
    /\ UNCHANGED <<overlapWorld, walletResults, groupResults, candidates, overlapFaults>>

\* Wallets of both, by address, those of more tokens (of a tie the local);
\* the groups of both.
Merged(r) ==
    LET found(k) == {w \in walletResults : w.search = <<r, k>>}
        both     == found("local") \cup found("dune")
        beats(v, w) == v.count > w.count \/ (v.count = w.count /\ v # w
                           /\ v.search[2] = "local" /\ w.search[2] = "dune")
    IN  {CHOOSE w \in both : w.wallet = a /\ ~\E v \in both : v.wallet = a /\ beats(v, w) :
            a \in {w.wallet : w \in both}}
MergedGroups(r) == {g \in groupResults : g.search \in {<<r, "local">>, <<r, "dune">>}}

\* The hybrid row says done before its rows are there.
CreateHybrid(r) ==
    LET l == <<r, "local">> d == <<r, "dune">> h == <<r, "hybrid">>
        succeeded(x) == searches[x].status = "done"
    IN  /\ {l, d} \subseteq DOMAIN leg /\ h \notin DOMAIN leg
        /\ leg[l].at = "tagged" /\ leg[d].at = "tagged"
        /\ searches' = (h :> [status |-> "done", source |-> "hybrid",
                              rowsReturned |-> Cardinality(Merged(r)),
                              truncated |-> \E x \in {l, d} : succeeded(x) /\ searches[x].truncated,
                              candidatesCreated |-> IF succeeded(d) THEN searches[d].candidatesCreated
                                                    ELSE 0]) @@ searches
        /\ leg' = (h :> [NewLeg EXCEPT !.at = "merge", !.todo = Merged(r),
                                       !.groups = MergedGroups(r)]) @@ leg
        /\ UNCHANGED <<overlapWorld, walletResults, groupResults, candidates, overlapFaults>>

CopyRow(h) ==
    /\ leg[h].at = "merge" /\ leg[h].todo # {}
    /\ LET w == CHOOSE w \in leg[h].todo : TRUE IN
        /\ walletResults' = walletResults \cup {[w EXCEPT !.search = h]}
        /\ leg' = [leg EXCEPT ![h].todo = @ \ {w}]
    /\ UNCHANGED <<overlapWorld, searches, groupResults, candidates, overlapFaults>>

CopyGroup(h) ==
    /\ leg[h].at = "merge" /\ leg[h].todo = {} /\ leg[h].groups # {}
    /\ LET g == CHOOSE g \in leg[h].groups : TRUE IN
        /\ groupResults' = groupResults \cup {[g EXCEPT !.search = h]}
        /\ leg' = [leg EXCEPT ![h].groups = @ \ {g}]
    /\ UNCHANGED <<overlapWorld, searches, walletResults, candidates, overlapFaults>>

ReturnHybrid(h) ==
    /\ leg[h].at = "merge" /\ leg[h].todo = {} /\ leg[h].groups = {}
    /\ leg' = [x \in DOMAIN leg |-> IF x[1] = h[1] THEN [leg[x] EXCEPT !.at = "returned"] ELSE leg[x]]
    /\ UNCHANGED <<overlapWorld, searches, walletResults, groupResults, candidates, overlapFaults>>

SearchStep(x) == FetchLocal(x) \/ FetchDune(x) \/ WriteWalletRow(x) \/ LookUpCandidate(x)
                   \/ UpsertCandidate(x) \/ WriteGroupRow(x) \/ MarkDone(x) \/ LegThrows(x)
                   \/ CopyRow(x) \/ CopyGroup(x) \/ ReturnHybrid(x)
RouteStep(r) == StartRequest(r) \/ TagSearches(r) \/ CreateHybrid(r) \/ RequestDies(r)

OverlapNext ==
    \/ \E r \in Requests : RouteStep(r)
    \/ \E x \in DOMAIN leg : SearchStep(x)

-----------------------------------------------------------------------------
RowsOf(x) == {w \in walletResults : w.search = x}
GroupRowsOf(x) == {g \in groupResults : g.search = x}

\* A search that says it is done has a row for every wallet of its groups,
\* no group is of one, and a wallet is in one group of a search.  A hybrid
\* search, done from the start, shows this once its request has returned, and
\* then has one row per wallet, for the most tokens any of the two found.
DoneSearchIsWhole ==
    \A x \in DOMAIN leg :
        searches[x].status = "done" /\ (x[2] = "hybrid" => leg[x].at = "returned") =>
            /\ \A g \in GroupRowsOf(x) :
                   g.wallets \subseteq {w.wallet : w \in RowsOf(x)} /\ Cardinality(g.wallets) >= 2
            /\ x[2] = "local" => /\ Cardinality(RowsOf(x)) = searches[x].rowsReturned
                                 /\ \A w \in RowsOf(x), g \in GroupRowsOf(x) :
                                        w.wallet \in g.wallets <=> w.group = g.group
            /\ x[2] = "hybrid" =>
                   LET legs == RowsOf(<<x[1], "local">>) \cup RowsOf(<<x[1], "dune">>) IN
                   /\ Cardinality(RowsOf(x)) = searches[x].rowsReturned
                   /\ \A v \in legs : \E w \in RowsOf(x) : w.wallet = v.wallet /\ w.count >= v.count
                   /\ \A v, w \in RowsOf(x) : v.wallet = w.wallet => v = w

\* A wallet a search reports as newly added was no candidate when it began
\* and is one now, with requests racing for the same wallets and rows that
\* name a wallet twice; a search over wallets that were all known adds none.
AddedWereNew ==
    \A x \in DOMAIN leg :
        /\ leg[x].created \subseteq candidates \ leg[x].before
        /\ x[2] = "dune" /\ searches[x].status = "done" =>
               /\ {w.wallet : w \in RowsOf(x)} \subseteq candidates
               /\ searches[x].candidatesCreated <= Cardinality(candidates \ leg[x].before)

OverlapHonest == DoneSearchIsWhole /\ AddedWereNew
=============================================================================
