--------------------------- MODULE MCAlertPipeline ---------------------------
(***************************************************************************)
(* One token, one wallet pair and Rule F.  The profitRotation job and the  *)
(* scoring pass stay out of this instance: they only add rows, which       *)
(* MCSignalDetection explores, and with them the product of the three jobs *)
(* is beyond an exhaustive search.  AlertPipelineProofs covers all of them.*)
(***************************************************************************)
EXTENDS AlertPipeline

CONSTANT t1

MCDestOf == [k \in Keys |-> t1]

MCNext == \/ /\ \/ Detection!RotationStep("signalDetection")
                \/ Detection!TokenStep
                \/ Detection!Tick
             /\ UNCHANGED dispatchVars
          \/ Alert
          \/ Crash

MCSpec == Init /\ [][MCNext]_vars
=============================================================================
