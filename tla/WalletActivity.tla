--------------------------- MODULE WalletActivity ---------------------------
(***************************************************************************)
(* How on-chain activity becomes rows: the walletActivity job polls each   *)
(* wallet's provider page by page (apps/worker/src/jobs/walletActivity.ts) *)
(* and hands every page to ingestNormalizedTxs (packages/db/src/ingest.ts),*)
(* which a seed run beside the worker calls as well.                       *)
(*                                                                         *)
(* The three providers page in three ways, and the job's cap on pages, its *)
(* early stop and its cursor meet each of them.  A step is the code from   *)
(* one await to the next; the upserts of wallet and token and the reads of *)
(* market cap and score are left out.  A transaction is one token transfer *)
(* to a counterparty the address registry may or may not call an exchange: *)
(* the leg that writes both a trade and an edge.                           *)
(***************************************************************************)
EXTENDS Integers, Sequences, SequencesExt, FiniteSets, FiniteSetsExt

CONSTANTS Wallets,
          Providers,  \* which of "mock", "helius", "bscscan" may be resolved
          PageSize,   \* transactions per page
          MaxPages,   \* WALLET_ACTIVITY_MAX_PAGES
          MaxTxs,     \* bound: transactions on the chain
          MaxTime,    \* bound: their timestamps
          MaxFaults   \* bound: outages and crashes

ASSUME ActivityAssumption ==
  /\ Providers \subseteq {"mock", "helius", "bscscan"} /\ Providers # {}
  /\ PageSize \in Nat \ {0} /\ MaxPages \in Nat \ {0}
  /\ MaxTxs \in Nat /\ MaxTime \in Nat /\ MaxFaults \in Nat

VARIABLES
  provider,  \* what the registry resolves
  chain,     \* external: transactions in the order of the blocks
  cursor,    \* per wallet: timestamp of the newest transaction seen, or 0
  trades,    \* WalletTokenTrade rows: wallet, transaction
  edges,     \* MoneyFlowEdge rows
  poll,      \* the job's cycle and its poll; got: what the poll was handed
  ing,       \* per caller: its run of ingestNormalizedTxs
  faults,
  handed,    \* history: what a poll that moved the cursor had been handed
  skipped,   \* history: what was beyond the cap of such a poll
  stamps,    \* history: per wallet, where its cursor has been
  collided   \* history: transactions two callers were about to create an edge for

rows == <<trades, edges>>
history == <<handed, skipped, stamps>>
vars == <<provider, chain, cursor, rows, poll, ing, faults, history, collided>>

Callers == {"worker", "seed"}
Feeds == {"txlist", "tokentx"}
Times == 1..MaxTime
Txs == [at : Times, parties : SUBSET Wallets \ {{}}, feeds : SUBSET Feeds \ {{}}]
Actions == {"transfer", "cex_deposit"}

PollIdle == [pc |-> "idle", todo |-> {}, wallet |-> "none", page |-> 0, pages |-> 0,
             latest |-> 0, got |-> {}]
IngIdle == [pc |-> "idle", wallet |-> "none", batch |-> <<>>, action |-> "transfer"]

Init == /\ provider \in Providers
        /\ chain = <<>>
        /\ cursor = [w \in Wallets |-> 0]
        /\ trades = {} /\ edges = {}
        /\ poll = PollIdle /\ ing = [i \in Callers |-> IngIdle]
        /\ faults = 0
        /\ handed = {} /\ skipped = {} /\ collided = {}
        /\ stamps = [w \in Wallets |-> {}]

Fault == faults < MaxFaults /\ faults' = faults + 1

\* A block adds a transaction, not older than the ones before it.  Only the two lists
\* of BscScan tell feeds apart.
Transact ==
  /\ Len(chain) < MaxTxs
  /\ \E tx \in Txs :
       /\ chain # <<>> => tx.at >= Last(chain).at
       /\ provider # "bscscan" => tx.feeds = Feeds
       /\ chain' = Append(chain, tx)
  /\ UNCHANGED <<provider, cursor, rows, poll, ing, faults, history, collided>>

-----------------------------------------------------------------------------
(* The providers.  A page is what is handed over and where the next one    *)
(* starts, 0 when there is none; since is exclusive, for the job stores a   *)
(* cursor one millisecond past what it has seen.                            *)

Mine(w) == {n \in DOMAIN chain : w \in chain[n].parties}

\* The element at place i is the one with i elements up to it.
Ascending(S) ==
  [i \in 1..Cardinality(S) |-> CHOOSE n \in S : Cardinality({m \in S : m <= n}) = i]

First(k, S) == LET s == Ascending(S) IN SubSeq(s, 1, IF Len(s) < k THEN Len(s) ELSE k)

After(S, since) == {n \in S : chain[n].at > since}

\* Ascending, filtered by time before it is paged; from is an index.
MockPage(w, since, from) ==
  LET fresh == Ascending(After(Mine(w), since))
      page  == SubSeq(fresh, from + 1, Min({from + PageSize, Len(fresh)}))
      end   == from + Len(page)
  IN  [txs |-> page, next |-> IF end < Len(fresh) THEN end ELSE 0]

\* Descending, paged before it is filtered by time; from is the last one seen.
HeliusPage(w, since, from) ==
  LET older == {n \in Mine(w) : from # 0 => n < from}
      raw   == SubSeq(Reverse(Ascending(older)), 1, Min({PageSize, Cardinality(older)}))
  IN  [txs  |-> Reverse(Ascending(After(ToSet(raw), since))),
       next |-> IF Len(raw) = PageSize THEN Last(raw) ELSE 0]

\* Two ascending lists from block from on, merged and then filtered by time.  A block
\* is identified by its timestamp.
BscScanPage(w, since, from) ==
  LET Rows(feed) == {n \in Mine(w) : feed \in chain[n].feeds /\ chain[n].at >= from}
      Raw(feed)  == ToSet(First(PageSize, Rows(feed)))
      fresh      == After(UNION {Raw(feed) : feed \in Feeds}, since)
      full       == \E feed \in Feeds : Cardinality(Raw(feed)) = PageSize
  IN  [txs  |-> Ascending(fresh),
       next |-> IF full /\ fresh # {} THEN Max({chain[n].at : n \in fresh}) + 1 ELSE 0]

Page == CASE provider = "mock"    -> MockPage(poll.wallet, cursor[poll.wallet], poll.page)
          [] provider = "helius"  -> HeliusPage(poll.wallet, cursor[poll.wallet], poll.page)
          [] provider = "bscscan" -> BscScanPage(poll.wallet, cursor[poll.wallet], poll.page)

-----------------------------------------------------------------------------
(* ingestNormalizedTxs.                                                    *)

Ingesting(w, batch) == [pc |-> "trade", wallet |-> w, batch |-> batch, action |-> "transfer"]

Leg(i) == Head(ing[i].batch)

\* On to the next transaction of the batch.
NextLeg(i) == [ing EXCEPT ![i] = IF Len(@.batch) = 1 THEN IngIdle
                                 ELSE Ingesting(@.wallet, Tail(@.batch))]

WriteTrade(i) ==
  /\ ing[i].pc = "trade"
  /\ trades' = trades \union {<<ing[i].wallet, Leg(i)>>}
  /\ ing' = [ing EXCEPT ![i].pc = "lookup"]
  /\ UNCHANGED <<provider, chain, cursor, edges, poll, faults, history, collided>>

\* Faulty variant: the look-up asks for the very action, as the unique key does.
RecordedSameAction(i, action) == [tx |-> Leg(i), action |-> action] \in edges

\* An edge of the leg under any action of the transfer family.
Recorded(i, action) == \E e \in edges : e.tx = Leg(i) /\ e.action \in Actions

\* The address registry decides the action: whoever edits it may have tagged or untagged
\* the counterparty since it was last asked.  A recorded leg is skipped.
LookupEdge(i) ==
  /\ ing[i].pc = "lookup"
  /\ \E action \in Actions :
       ing' = IF Recorded(i, action) THEN NextLeg(i)
              ELSE [ing EXCEPT ![i].pc = "create", ![i].action = action]
  /\ UNCHANGED <<provider, chain, cursor, rows, poll, faults, history, collided>>

\* create(); a row with the same key makes it a P2002, which is swallowed.
InsertEdge(i) ==
  /\ edges' = edges \union {[tx |-> Leg(i), action |-> ing[i].action]}
  /\ collided' = IF \E j \in Callers \ {i} : ing[j].pc = "create" /\ Leg(j) = Leg(i)
                 THEN collided \union {Leg(i)} ELSE collided

CreateEdge(i) ==
  /\ ing[i].pc = "create"
  /\ InsertEdge(i)
  /\ ing' = NextLeg(i)
  /\ UNCHANGED <<provider, chain, cursor, trades, poll, faults, history>>

\* A failed call may have taken effect all the same.
PerhapsWritten(i) ==
  \/ UNCHANGED <<rows, collided>>
  \/ /\ ing[i].pc = "trade"
     /\ trades' = trades \union {<<ing[i].wallet, Leg(i)>>}
     /\ UNCHANGED <<edges, collided>>
  \/ ing[i].pc = "create" /\ InsertEdge(i) /\ UNCHANGED trades

\* The seed ingests the whole stream of a wallet of the mock world.
StartSeed(w) ==
  /\ provider = "mock"
  /\ ing["seed"].pc = "idle" /\ Mine(w) # {}
  /\ ing' = [ing EXCEPT !["seed"] = Ingesting(w, Ascending(Mine(w)))]
  /\ UNCHANGED <<provider, chain, cursor, rows, poll, faults, history, collided>>

\* A call of the seed fails, and it exits.
FailSeed ==
  /\ ing["seed"].pc # "idle"
  /\ Fault
  /\ PerhapsWritten("seed")
  /\ ing' = [ing EXCEPT !["seed"] = IngIdle]
  /\ UNCHANGED <<provider, chain, cursor, poll, history>>

-----------------------------------------------------------------------------
(* The walletActivity job.                                                 *)

StartCycle ==
  /\ poll.pc = "idle"
  /\ poll' = [PollIdle EXCEPT !.pc = "next", !.todo = Wallets]
  /\ UNCHANGED <<provider, chain, cursor, rows, ing, faults, history, collided>>

BeginWallet(w) ==
  /\ poll.pc = "next"
  /\ w \in poll.todo
  /\ poll' = [poll EXCEPT !.pc = "fetch", !.todo = @ \ {w}, !.wallet = w]
  /\ UNCHANGED <<provider, chain, cursor, rows, ing, faults, history, collided>>

\* An empty page ends an incremental poll at once.
FetchPage ==
  /\ poll.pc = "fetch"
  /\ poll.pages < MaxPages
  /\ LET fetched == [poll EXCEPT !.page = Page.next, !.pages = @ + 1]
     IN  \/ /\ Page.txs # <<>>
            /\ poll' = [fetched EXCEPT !.pc = "ingest", !.got = @ \union ToSet(Page.txs),
                          !.latest = Max({@} \union {chain[n].at : n \in ToSet(Page.txs)})]
            /\ ing' = [ing EXCEPT !["worker"] = Ingesting(poll.wallet, Page.txs)]
         \/ /\ Page.txs = <<>>
            /\ poll' = IF cursor[poll.wallet] # 0 \/ Page.next = 0
                       THEN [fetched EXCEPT !.pc = "save"] ELSE fetched
            /\ UNCHANGED ing
  /\ UNCHANGED <<provider, chain, cursor, rows, faults, history, collided>>

\* The page is ingested.
AfterPage ==
  /\ poll.pc = "ingest"
  /\ ing["worker"].pc = "idle"
  /\ poll' = [poll EXCEPT !.pc = IF poll.page = 0 THEN "save" ELSE "fetch"]
  /\ UNCHANGED <<provider, chain, cursor, rows, ing, faults, history, collided>>

NextWallet == [PollIdle EXCEPT !.pc = "next", !.todo = poll.todo]

\* Faulty variant: a poll that reaches the cap keeps its cursor.
TruncateForgets ==
  /\ poll.pc = "fetch"
  /\ poll.pages = MaxPages
  /\ poll' = NextWallet
  /\ UNCHANGED <<provider, chain, cursor, rows, ing, faults, history, collided>>

\* The page cap: the poll ends as if there were no further page.
Truncate ==
  /\ poll.pc = "fetch"
  /\ poll.pages = MaxPages
  /\ poll' = [poll EXCEPT !.pc = "save"]
  /\ UNCHANGED <<provider, chain, cursor, rows, ing, faults, history, collided>>

\* What lies on the pages of a newest-first provider that were not fetched.
BeyondCap == {n \in Mine(poll.wallet) :
                /\ provider = "helius" /\ poll.pages = MaxPages /\ n < poll.page
                /\ chain[n].at > cursor[poll.wallet]}

StoreCursor ==
  LET w == poll.wallet
  IN  /\ cursor' = [cursor EXCEPT ![w] = IF poll.latest = 0 THEN @ ELSE poll.latest]
      /\ handed' = handed \union ({w} \X poll.got)
      /\ skipped' = skipped \union ({w} \X BeyondCap)
      /\ stamps' = [stamps EXCEPT ![w] = @ \union {cursor'[w]}]

SaveCursor ==
  /\ poll.pc = "save"
  /\ StoreCursor
  /\ poll' = NextWallet
  /\ UNCHANGED <<provider, chain, rows, ing, faults, collided>>

\* Faulty variant: the cursor is stored although a page could not be ingested.
FailPollStored ==
  /\ poll.pc \in {"fetch", "ingest", "save"}
  /\ Fault
  /\ PerhapsWritten("worker")
  /\ poll' = [poll EXCEPT !.pc = "save"]
  /\ ing' = [ing EXCEPT !["worker"] = IngIdle]
  /\ UNCHANGED <<provider, chain, cursor, history>>

\* The provider, a write of the ingest or the upsert of the cursor fails.
FailPoll ==
  /\ poll.pc \in {"fetch", "ingest", "save"}
  /\ Fault
  /\ PerhapsWritten("worker")
  /\ \/ UNCHANGED <<cursor, history>>
     \/ poll.pc = "save" /\ StoreCursor
  /\ poll' = [poll EXCEPT !.pc = "failed"]
  /\ ing' = [ing EXCEPT !["worker"] = IngIdle]
  /\ UNCHANGED <<provider, chain>>

\* recordSyncFailure leaves the cursor alone.
RecordFailure ==
  /\ poll.pc = "failed"
  /\ poll' = NextWallet
  /\ UNCHANGED <<provider, chain, cursor, rows, ing, faults, history, collided>>

\* It is outside the try: when the outage goes on it fails too, and the cycle is over.
FailRecordFailure ==
  /\ poll.pc = "failed"
  /\ poll' = PollIdle
  /\ UNCHANGED <<provider, chain, cursor, rows, ing, faults, history, collided>>

EndCycle ==
  /\ poll.pc = "next"
  /\ poll.todo = {}
  /\ poll' = PollIdle
  /\ UNCHANGED <<provider, chain, cursor, rows, ing, faults, history, collided>>

\* The worker dies; a write under way may have taken effect.
Crash ==
  /\ Fault
  /\ PerhapsWritten("worker")
  /\ poll' = PollIdle
  /\ ing' = [ing EXCEPT !["worker"] = IngIdle]
  /\ UNCHANGED <<provider, chain, cursor, history>>

IngestStep(i) == WriteTrade(i) \/ LookupEdge(i) \/ CreateEdge(i)

JobStep == \/ StartCycle \/ FetchPage \/ AfterPage \/ Truncate \/ SaveCursor
           \/ RecordFailure \/ EndCycle
           \/ \E w \in Wallets : BeginWallet(w)
           \/ IngestStep("worker")

Next == \/ JobStep \/ IngestStep("seed")
        \/ FailPoll \/ FailRecordFailure \/ Crash \/ FailSeed
        \/ \E w \in Wallets : StartSeed(w)
        \/ Transact

Spec == Init /\ [][Next]_vars

\* The runner's timer keeps starting the cycle, and what it awaits settles.
FairSpec == Spec /\ WF_vars(JobStep)

-----------------------------------------------------------------------------
(* Properties.                                                             *)

TypeOK ==
  /\ provider \in Providers /\ chain \in Seq(Txs)
  /\ cursor \in [Wallets -> 0..MaxTime]
  /\ trades \subseteq Wallets \X (1..MaxTxs)
  /\ edges \subseteq [tx : 1..MaxTxs, action : Actions]
  /\ poll \in [pc : {"idle", "next", "fetch", "ingest", "save", "failed"},
               todo : SUBSET Wallets, wallet : Wallets \union {"none"}, page : Nat,
               pages : 0..MaxPages, latest : 0..MaxTime, got : SUBSET (1..MaxTxs)]
  /\ ing \in [Callers -> [pc : {"idle", "trade", "lookup", "create"},
                          wallet : Wallets \union {"none"}, batch : Seq(1..MaxTxs),
                          action : Actions]]
  /\ faults \in 0..MaxFaults
  /\ handed \subseteq Wallets \X (1..MaxTxs) /\ skipped \subseteq Wallets \X (1..MaxTxs)
  /\ stamps \in [Wallets -> SUBSET (0..MaxTime)] /\ collided \subseteq 1..MaxTxs

Ingested(w, n) == <<w, n>> \in trades /\ \E e \in edges : e.tx = n

\* The cursor never passes a transaction that is not ingested, trade and edge, however
\* polls fail or crash half-way: only one that no poll was handed, because it lay beyond
\* the cap of a newest-first provider or bears the very timestamp of a cursor.
CursorCovers ==
  \A w \in Wallets : \A n \in Mine(w) : chain[n].at <= cursor[w] =>
    \/ Ingested(w, n)
    \/ <<w, n>> \notin handed /\ (<<w, n>> \in skipped \/ chain[n].at \in stamps[w])

\* First write wins: a leg has one edge, whichever streams and callers deliver it and
\* whatever becomes of the registry; two only when two callers were about to create it
\* at the same time (ingest.ts:21-34).
OneEdgePerLeg ==
  \A e, f \in edges : e.tx = f.tx /\ e # f => e.tx \in collided

\* Every transaction of a wallet is ingested or passed by the cursor in the end: the job
\* catches up with the chain although polls fail and are cut off at the cap.  (What is
\* reached stays reached.)
EveryTxIsReached ==
  []<>(\A w \in Wallets : \A n \in Mine(w) : Ingested(w, n) \/ chain[n].at <= cursor[w])

\* As walletActivity.ts:168-171 has it: an incremental poll that meets an empty page has
\* nothing left to fetch.
EmptyPageMeansDone ==
  [][poll.pc = "fetch" /\ poll'.pc = "save" /\ poll.pages < MaxPages
       /\ cursor[poll.wallet] # 0
     => \A n \in Mine(poll.wallet) : chain[n].at <= cursor[poll.wallet] \/ n \in poll.got]_vars
=============================================================================
