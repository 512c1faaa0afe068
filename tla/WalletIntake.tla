---------------------------- MODULE WalletIntake ----------------------------
(***************************************************************************)
(* How wallets come under watch: candidates offered by external sources,   *)
(* the validation pass that promotes or rejects them (packages/db/src/     *)
(* candidateValidation.ts), and whose figures count for a wallet: the      *)
(* operator's CSV import, the promotion, or the periodic recomputation     *)
(* (csv/importWalletsCsv.ts, walletStatsRefresh.ts).                       *)
(*                                                                         *)
(* The worker runs these as jobs that interleave at every await; a manual  *)
(* seed run may validate at the same time from a process of its own.  A    *)
(* step is the code from one await to the next.  Claimed figures, notes,   *)
(* labels and the arithmetic of the evidence are left out: whether trades  *)
(* exist, and the verdict they lead to, is what remains of it.             *)
(***************************************************************************)
EXTENDS Integers, FiniteSets

CONSTANTS Candidates,  \* CandidateWallet keys: address, chain, source
          Wallets,     \* Wallet keys: address, chain
          WalletOf,    \* the wallet at a candidate's address
          Passes,      \* who runs runCandidateValidation: "worker", "seed"
          BatchSize,   \* settings.connectors.validationBatchSize
          MaxTime,     \* bound: the clock
          MaxFaults    \* bound: failed calls and crashes

ASSUME IntakeAssumption ==
  /\ WalletOf \in [Candidates -> Wallets] /\ "none" \notin Candidates
  /\ Passes \subseteq {"worker", "seed"} /\ "worker" \in Passes
  /\ BatchSize \in Nat \ {0} /\ MaxTime \in Nat /\ MaxFaults \in Nat

VARIABLES
  now, faults,
  status,     \* per candidate: validationStatus, or none before its first sync
  firstSeen,  \* per candidate: firstSeenAt
  known,      \* wallets that have a Wallet row
  watched,    \* those with isWatched
  traded,     \* those with BUY or SELL trades
  latest,     \* per wallet: the greatest computedAt of its WalletStats rows, and
              \* the source of every row that bears it
  val,        \* the validation passes; shared: history, what another pass held too
  ref,        \* the stats refresh pass
  imp,        \* the row the CSV import is at
  dropped     \* history: candidates a pass lost by a fault while it held them

clock == <<now, faults>>
intake == <<status, firstSeen>>
wallets == <<known, watched, traded>>
vars == <<clock, intake, wallets, latest, val, ref, imp, dropped>>

Times == 0..MaxTime
Terminal == {"promoted", "rejected"}
NoStats == [at |-> 0, sources |-> {}]

ValIdle == [pc |-> "idle", todo |-> {}, cur |-> "none", at |-> 0, verdict |-> "none",
            raced |-> FALSE, shared |-> {}]
RefIdle == [pc |-> "idle", todo |-> {}, raced |-> {}]
ImpIdle == [pc |-> "idle", wallet |-> "none", at |-> 0]

Init == /\ now = 0 /\ faults = 0
        /\ status = [c \in Candidates |-> "none"]
        /\ firstSeen = [c \in Candidates |-> 0]
        /\ known = {} /\ watched = {} /\ traded = {}
        /\ latest = [w \in Wallets |-> NoStats]
        /\ val = [p \in Passes |-> ValIdle]
        /\ ref = RefIdle /\ imp = ImpIdle
        /\ dropped = {}

Tick == /\ now < MaxTime
        /\ now' = now + 1
        /\ UNCHANGED <<faults, intake, wallets, latest, val, ref, imp, dropped>>

Fault == faults < MaxFaults /\ faults' = faults + 1 /\ UNCHANGED now

-----------------------------------------------------------------------------
(* WalletStats: rows are only ever inserted, and the newest one counts.     *)

\* A row older than the newest changes nothing; of rows of the same time a reader may
\* find any.
Insert(w, source, at) ==
  latest' = [latest EXCEPT ![w] =
    IF @.sources = {} \/ at > @.at THEN [at |-> at, sources |-> {source}]
    ELSE IF at = @.at THEN [at |-> at, sources |-> @.sources \union {source}] ELSE @]

\* The sources a reader of the latest row may find.
Found(w) == IF latest[w].sources = {} THEN {"none"} ELSE latest[w].sources

-----------------------------------------------------------------------------
(* The sources and the trades.                                             *)

\* Faulty variant: the sync resets what it sees again.
SyncResets(c) ==
  /\ status' = [status EXCEPT ![c] = "pending"]
  /\ firstSeen' = [firstSeen EXCEPT ![c] = IF status[c] = "none" THEN now ELSE @]
  /\ UNCHANGED <<clock, wallets, latest, val, ref, imp, dropped>>

\* A source's candidate is upserted: new ones are pending, known ones keep their status.
Sync(c) ==
  /\ status' = [status EXCEPT ![c] = IF @ = "none" THEN "pending" ELSE @]
  /\ firstSeen' = [firstSeen EXCEPT ![c] = IF status[c] = "none" THEN now ELSE @]
  /\ UNCHANGED <<clock, wallets, latest, val, ref, imp, dropped>>

\* Activity of wallet w is ingested, its first trades among it.
Ingest(w) ==
  /\ known' = known \union {w} /\ traded' = traded \union {w}
  /\ UNCHANGED <<clock, intake, watched, latest, val, ref, imp, dropped>>

-----------------------------------------------------------------------------
(* runCandidateValidation.                                                 *)

PendingNow == {c \in Candidates : status[c] = "pending"}

BatchLimit(p) == IF p = "seed" THEN Cardinality(Candidates) ELSE BatchSize

\* Faulty variant: the newest are taken first.
BatchesNewestFirst(p) ==
  {B \in SUBSET PendingNow :
     /\ Cardinality(B) <= BatchLimit(p)
     /\ Cardinality(B) < BatchLimit(p) => B = PendingNow
     /\ \A c \in B, d \in PendingNow \ B : firstSeen[c] >= firstSeen[d]}

\* take: batchSize, orderBy: { firstSeenAt: 'asc' }; ties come in no given order.
Batches(p) ==
  {B \in SUBSET PendingNow :
     /\ Cardinality(B) <= BatchLimit(p)
     /\ Cardinality(B) < BatchLimit(p) => B = PendingNow
     /\ \A c \in B, d \in PendingNow \ B : firstSeen[c] <= firstSeen[d]}

Held(p) == val[p].todo \union ({val[p].cur} \ {"none"})

\* Without a pending candidate the pass ends at once.
StartValidation(p) ==
  /\ val[p].pc = "idle"
  /\ PendingNow # {}
  /\ \E B \in Batches(p) :
       /\ val' = [q \in Passes |->
            IF q = p THEN [ValIdle EXCEPT !.pc = "mark", !.todo = B,
                             !.shared = B \cap UNION {Held(o) : o \in Passes \ {p}}]
            ELSE [val[q] EXCEPT !.shared = @ \union (B \cap Held(q))]]
       /\ dropped' = dropped \ B
  /\ UNCHANGED <<clock, intake, wallets, latest, ref, imp>>

Marked(B) == [c \in Candidates |-> IF c \in B THEN "validating" ELSE status[c]]

\* updateMany by id, whatever the status is by now.
MarkBatch(p) ==
  /\ val[p].pc = "mark"
  /\ status' = Marked(val[p].todo)
  /\ val' = [val EXCEPT ![p].pc = "next"]
  /\ UNCHANGED <<clock, firstSeen, wallets, latest, ref, imp, dropped>>

\* The one write that is not guarded: the pass is over, the batch perhaps marked.
FailMark(p) ==
  /\ val[p].pc = "mark"
  /\ Fault
  /\ status' = status \/ status' = Marked(val[p].todo)
  /\ val' = [val EXCEPT ![p] = ValIdle]
  /\ dropped' = dropped \union val[p].todo
  /\ UNCHANGED <<firstSeen, wallets, latest, ref, imp>>

\* What evaluateCandidate may say: service addresses and bots are rejected whatever
\* their figures; without trades there are none, since no provider of figures is
\* resolved; with trades the thresholds decide.
Verdicts(w) == {"reject"} \union (IF w \in traded THEN {"promote"} ELSE {"insufficient"})

IsNext(p, c) == c \in val[p].todo /\ \A d \in val[p].todo : firstSeen[c] <= firstSeen[d]

\* The evidence is assembled and evaluated; promoteCandidate reads its clock.
Assess(p, c) ==
  /\ val[p].pc = "next"
  /\ IsNext(p, c)
  /\ \E v \in Verdicts(WalletOf[c]) :
       val' = [val EXCEPT ![p] = [val[p] EXCEPT !.todo = @ \ {c}, !.cur = c, !.verdict = v,
                !.at = IF v = "promote" THEN now ELSE 0,
                !.pc = IF v = "promote" THEN "watch" ELSE "verdict"]]
  /\ UNCHANGED <<clock, intake, wallets, latest, ref, imp, dropped>>

WatchWallet(w) == known' = known \union {w} /\ watched' = watched \union {w}

Watch(p) ==
  /\ val[p].pc = "watch"
  /\ WatchWallet(WalletOf[val[p].cur])
  /\ val' = [val EXCEPT ![p].pc = "lookup"]
  /\ UNCHANGED <<clock, intake, traded, latest, ref, imp, dropped>>

\* The anti-clobber guard of promoteCandidate.
Lookup(p) ==
  /\ val[p].pc = "lookup"
  /\ \E source \in Found(WalletOf[val[p].cur]) :
       val' = [val EXCEPT ![p].pc = IF source = "csv" THEN "verdict" ELSE "stats"]
  /\ UNCHANGED <<clock, intake, wallets, latest, ref, imp, dropped>>

InsertStats(p) ==
  /\ val[p].pc = "stats"
  /\ Insert(WalletOf[val[p].cur], "computed", val[p].at)
  /\ val' = [val EXCEPT ![p].pc = "verdict", ![p].raced = FALSE]
  /\ UNCHANGED <<clock, intake, wallets, ref, imp, dropped>>

StatusOf(verdict) == CASE verdict = "promote" -> "promoted"
                       [] verdict = "reject" -> "rejected"
                       [] verdict = "insufficient" -> "pending"

SaveVerdict(p) == status' = [status EXCEPT ![val[p].cur] = StatusOf(val[p].verdict)]

\* On to the next candidate of the batch.
Proceed(p) ==
  [val EXCEPT ![p] = [ValIdle EXCEPT !.pc = "next", !.todo = val[p].todo,
                                     !.shared = val[p].shared \ {val[p].cur}]]

WriteVerdict(p) ==
  /\ val[p].pc = "verdict"
  /\ SaveVerdict(p)
  /\ val' = Proceed(p)
  /\ UNCHANGED <<clock, firstSeen, wallets, latest, ref, imp, dropped>>

\* The evidence cannot be read.
FailAssess(p, c) ==
  /\ val[p].pc = "next"
  /\ IsNext(p, c)
  /\ Fault
  /\ val' = [val EXCEPT ![p] = [val[p] EXCEPT !.todo = @ \ {c}, !.cur = c, !.pc = "reset"]]
  /\ UNCHANGED <<intake, wallets, latest, ref, imp, dropped>>

\* A failed call may have taken effect all the same.
PerhapsDone(p) ==
  \/ UNCHANGED <<status, wallets, latest>>
  \/ /\ val[p].pc = "watch"
     /\ WatchWallet(WalletOf[val[p].cur]) /\ UNCHANGED <<status, traded, latest>>
  \/ /\ val[p].pc = "stats"
     /\ Insert(WalletOf[val[p].cur], "computed", val[p].at) /\ UNCHANGED <<status, wallets>>
  \/ /\ val[p].pc = "verdict"
     /\ SaveVerdict(p) /\ UNCHANGED <<wallets, latest>>

InCandidate == {"watch", "lookup", "stats", "verdict"}

\* Faulty variant: promoteCandidate swallows its errors.
FailCandidateCaught(p) ==
  /\ val[p].pc \in InCandidate
  /\ Fault
  /\ PerhapsDone(p)
  /\ val' = [val EXCEPT ![p].pc = "verdict"]
  /\ UNCHANGED <<firstSeen, ref, imp, dropped>>

\* Faulty variant: the catch logs and goes on.
FailCandidateLogged(p) ==
  /\ val[p].pc \in InCandidate
  /\ Fault
  /\ PerhapsDone(p)
  /\ val' = Proceed(p)
  /\ UNCHANGED <<firstSeen, ref, imp, dropped>>

FailCandidate(p) ==
  /\ val[p].pc \in InCandidate
  /\ Fault
  /\ PerhapsDone(p)
  /\ val' = [val EXCEPT ![p].pc = "reset"]
  /\ UNCHANGED <<firstSeen, ref, imp, dropped>>

Reset(p) == status' = [status EXCEPT ![val[p].cur] = "pending"]

\* The catch: the candidate is made pending again.
ResetCandidate(p) ==
  /\ val[p].pc = "reset"
  /\ Reset(p)
  /\ val' = Proceed(p)
  /\ UNCHANGED <<clock, firstSeen, wallets, latest, ref, imp, dropped>>

\* .catch(() => undefined)
FailReset(p) ==
  /\ val[p].pc = "reset"
  /\ Fault
  /\ Reset(p) \/ UNCHANGED status
  /\ val' = Proceed(p)
  /\ dropped' = dropped \union {val[p].cur}
  /\ UNCHANGED <<firstSeen, wallets, latest, ref, imp>>

EndValidation(p) ==
  /\ val[p].pc = "next"
  /\ val[p].todo = {}
  /\ val' = [val EXCEPT ![p] = ValIdle]
  /\ UNCHANGED <<clock, intake, wallets, latest, ref, imp, dropped>>

-----------------------------------------------------------------------------
(* runWalletStatsRefresh.                                                  *)

\* Faulty variant: every wallet with trades is recomputed.
StartRefreshAll ==
  /\ ref.pc = "idle"
  /\ ref' = [pc |-> "next", todo |-> traded, raced |-> {}]
  /\ UNCHANGED <<clock, intake, wallets, latest, val, imp, dropped>>

\* The wallets with trades whose latest row is not the operator's, decided for all of
\* them before the first is recomputed.
StartRefresh ==
  /\ ref.pc = "idle"
  /\ \E source \in [traded -> {"none", "csv", "computed"}] :
       /\ \A w \in traded : source[w] \in Found(w)
       /\ ref' = [pc |-> "next", todo |-> {w \in traded : source[w] # "csv"}, raced |-> {}]
  /\ UNCHANGED <<clock, intake, wallets, latest, val, imp, dropped>>

RefreshDone(w) == [ref EXCEPT !.todo = @ \ {w}, !.raced = @ \ {w}]

RefreshWallet(w) ==
  /\ w \in ref.todo
  /\ Insert(w, "computed", now)
  /\ ref' = RefreshDone(w)
  /\ UNCHANGED <<clock, intake, wallets, val, imp, dropped>>

FailRefresh(w) ==
  /\ w \in ref.todo
  /\ Fault
  /\ Insert(w, "computed", now) \/ UNCHANGED latest
  /\ ref' = RefreshDone(w)
  /\ UNCHANGED <<intake, wallets, val, imp, dropped>>

EndRefresh ==
  /\ ref.pc = "next"
  /\ ref.todo = {}
  /\ ref' = RefIdle
  /\ UNCHANGED <<clock, intake, wallets, latest, val, imp, dropped>>

-----------------------------------------------------------------------------
(* importWalletsCsv: one row after the other, each with the clock of its    *)
(* start.  Only a wallet the row creates is watched.                        *)

ImportRow(w) ==
  /\ imp.pc = "idle"
  /\ known' = known \union {w}
  /\ watched' = IF w \in known THEN watched ELSE watched \union {w}
  /\ imp' = [pc |-> "stats", wallet |-> w, at |-> now]
  /\ UNCHANGED <<clock, intake, traded, latest, val, ref, dropped>>

\* Passes that have looked at the wallet's figures already will not look again.
Overtaken(w) ==
  /\ val' = [p \in Passes |->
       IF val[p].pc = "stats" /\ WalletOf[val[p].cur] = w
       THEN [val[p] EXCEPT !.raced = TRUE] ELSE val[p]]
  /\ ref' = [ref EXCEPT !.raced = IF w \in ref.todo THEN @ \union {w} ELSE @]

ImportStats ==
  /\ imp.pc = "stats"
  /\ Insert(imp.wallet, "csv", imp.at)
  /\ Overtaken(imp.wallet)
  /\ imp' = ImpIdle
  /\ UNCHANGED <<clock, intake, wallets, dropped>>

\* The error is added to the report and the import goes on with the next row.
FailImport ==
  /\ imp.pc = "stats"
  /\ Fault
  /\ imp' = ImpIdle
  /\ \/ UNCHANGED <<latest, val, ref>>
     \/ Insert(imp.wallet, "csv", imp.at) /\ Overtaken(imp.wallet)
  /\ UNCHANGED <<intake, wallets, dropped>>

-----------------------------------------------------------------------------
\* The process of pass p dies; the worker's takes the other jobs with it.
Crash(p) ==
  /\ Fault
  /\ val' = [val EXCEPT ![p] = ValIdle]
  /\ dropped' = dropped \union Held(p)
  /\ IF p = "worker" THEN ref' = RefIdle /\ imp' = ImpIdle ELSE UNCHANGED <<ref, imp>>
  /\ UNCHANGED <<intake, wallets, latest>>

ValidationStep(p) ==
  \/ MarkBatch(p) \/ Watch(p) \/ Lookup(p) \/ InsertStats(p) \/ WriteVerdict(p)
  \/ ResetCandidate(p) \/ EndValidation(p)
  \/ \E c \in Candidates : Assess(p, c)

ValidationFault(p) == FailMark(p) \/ FailCandidate(p) \/ FailReset(p)
                      \/ \E c \in Candidates : FailAssess(p, c)

RefreshStep == \/ StartRefresh \/ EndRefresh
               \/ \E w \in Wallets : RefreshWallet(w) \/ FailRefresh(w)

ImportStep == ImportStats \/ FailImport \/ \E w \in Wallets : ImportRow(w)

Next == \/ \E c \in Candidates : Sync(c)
        \/ \E w \in Wallets : Ingest(w)
        \/ \E p \in Passes : StartValidation(p) \/ ValidationStep(p)
                             \/ ValidationFault(p) \/ Crash(p)
        \/ RefreshStep \/ ImportStep
        \/ Tick

\* The worker's timer keeps starting its pass, and a pass under way is scheduled again
\* after each await.  Nothing is asked of the seed.
Fairness == WF_vars(StartValidation("worker")) /\ WF_vars(ValidationStep("worker"))

Spec == Init /\ [][Next]_vars

FairSpec == Spec /\ Fairness

-----------------------------------------------------------------------------
(* Properties.                                                             *)

TypeOK ==
  /\ now \in Times /\ faults \in 0..MaxFaults
  /\ status \in [Candidates -> {"none", "pending", "validating"} \union Terminal]
  /\ firstSeen \in [Candidates -> Times]
  /\ known \subseteq Wallets /\ watched \subseteq known /\ traded \subseteq known
  /\ latest \in [Wallets -> [at : Times, sources : SUBSET {"csv", "computed"}]]
  /\ val \in [Passes -> [pc : {"idle", "mark", "next", "reset"} \union InCandidate,
                         todo : SUBSET Candidates, cur : Candidates \union {"none"},
                         at : Times, raced : BOOLEAN, shared : SUBSET Candidates,
                         verdict : {"none", "promote", "reject", "insufficient"}]]
  /\ ref \in [pc : {"idle", "next"}, todo : SUBSET Wallets, raced : SUBSET Wallets]
  /\ imp \in [pc : {"idle", "stats"}, wallet : Wallets \union {"none"}, at : Times]
  /\ dropped \subseteq Candidates

\* A candidate is called promoted only when its wallet is watched and has figures,
\* wherever a pass was interrupted and whoever else validated it.
PromotedIsTracked ==
  \A c \in Candidates : status[c] = "promoted" =>
    WalletOf[c] \in watched /\ latest[WalletOf[c]].sources # {}

\* A candidate that is validating is in the hands of a pass, unless a crash or a failed
\* write has lost it: the error paths of a pass give back what they hold.
StrandedOnlyByFault ==
  \A c \in Candidates : status[c] = "validating" =>
    c \in dropped \/ \E p \in Passes : c \in Held(p)

\* A verdict stands, whatever the sources offer again.  Only a pass that held the
\* candidate together with another one, or whose own write of the verdict reported an
\* error, takes it back (externalWalletSource.ts:175-180).
VerdictIsFinal ==
  [][\A c \in Candidates :
       status[c] \in Terminal /\ status'[c] # status[c] =>
         \E p \in Passes :
           c \in Held(p) /\ (c \in val[p].shared \/ val[p].pc = "reset")]_vars

\* A recomputed or promoted figure takes the place of the operator's only when the pass
\* that writes it had looked before the operator's row was there.
CsvOverruledOnlyByRace ==
  [][\A w \in Wallets :
       latest[w].sources = {"csv"} /\ "csv" \notin latest'[w].sources =>
         w \in ref.raced \/ \E p \in Passes : val[p].raced /\ WalletOf[val[p].cur] = w]_vars

\* A pending candidate with less than a batch in front of it is examined: the passes
\* end, whatever fails, and take the candidates in their order.
HeadIsExamined ==
  \A c \in Candidates :
    LET AtHead == /\ status[c] = "pending"
                  /\ Cardinality({d \in PendingNow \ {c} : firstSeen[d] <= firstSeen[c]}) < BatchSize
    IN  AtHead ~> ~AtHead

\* As walletStatsRefresh.ts:6-12 has it: figures an operator imported are never
\* clobbered by computed ones.
CsvIsNeverClobbered ==
  [][\A w \in Wallets : "csv" \in latest[w].sources => "csv" \in latest'[w].sources]_latest

\* As seed.ts:488-491 has it: what one tick leaves pending, a next tick examines.
PendingIsExamined ==
  \A c \in Candidates : (status[c] = "pending") ~> (status[c] # "pending")
=============================================================================
