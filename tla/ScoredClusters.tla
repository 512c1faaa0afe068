---------------------------- MODULE ScoredClusters ----------------------------
(***************************************************************************)
(* Clustering and flow scoring side by side, over one EntityClusterWallet  *)
(* table: the entityClustering job (apps/worker/src/jobs/                  *)
(* entityClustering.ts) clusters and then re-scores, while the flowScoring *)
(* job scores on its own schedule and may read the tables in the middle of *)
(* a wipe.                                                                 *)
(***************************************************************************)
EXTENDS FlowScoring

scoredVars == <<clusteringVars, scoringVars>>

ScoredInit == ClusteringInit /\ ScoringInit

\* The job's own re-scoring pass begins, and the job waits for its end.
BeginRescore == EnterRescore /\ StartScoring("rescore")
FinishJob    == scoring["rescore"].at = "idle" /\ EndJob /\ UNCHANGED scoringVars

\* A fault ends the job wherever it is, its re-scoring pass with it.
JobFails == PassFails /\ ScoringDies("rescore")

ClusteringSide ==
    \/ (StartPass \/ DeriveLinks \/ WriteStep \/ WalletVanishes \/ TradeIngested)
          /\ UNCHANGED scoringVars
    \/ BeginRescore \/ FinishJob \/ JobFails

\* The flowScoring job starts a pass of its own at any time.
ScoringSide ==
    /\ \/ StartScoring("tick")
       \/ \E s \in Scorers : ScoringStep(s)
    /\ UNCHANGED clusteringVars

ScoredNext == ClusteringSide \/ ScoringSide

-----------------------------------------------------------------------------
\* Once a clustering job has ended well, the snapshot a reader takes for a
\* token counts its entities by the clusters now in the table, however the
\* scheduled scoring passes overlapped the wipe: a pass that read half of the
\* tables began before the job's own, so its snapshot is the older one even
\* when it is written last.
LatestCountsWholeClusters ==
    /\ pass.at = "idle" /\ lastPass = "ok"
    /\ clusteringBounds.vanished = 0 /\ scoringBounds.faults = 0
    => \A t \in DOMAIN latest :
           latest[t].ts > 0 =>
               latest[t].uniqueEntityCount =
                   Entities(Memberships(t), latest[t].smart)
=============================================================================
