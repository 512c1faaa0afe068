------------------------- MODULE AlertPipelineProofs -------------------------
(***************************************************************************)
(* The detection jobs and the dispatcher together behave, as far as the    *)
(* dispatcher's variables go, like the dispatcher in its own environment:  *)
(* what was proved of the dispatcher alone holds of the composed system.   *)
(***************************************************************************)
EXTENDS AlertPipeline, SequenceTheorems, TLAPS

DP == INSTANCE SignalDetectionProofs

AP == INSTANCE AlertDispatchProofs WITH SignalRows <- Detection!SignalRows,
                                        RotationRows <- Detection!RotationRows

LEMMA DetectionAssumed == DP!DetectionAssumption
<1>1. {"A", "B", "C", "D", "E", "F", "G"} \subseteq DP!ToSet(DP!RuleOrder)
  <2>1. DOMAIN DP!RuleOrder = 1..7
    BY DEF DP!RuleOrder
  <2>2. /\ DP!RuleOrder[1] = "A" /\ DP!RuleOrder[2] = "B" /\ DP!RuleOrder[3] = "C"
        /\ DP!RuleOrder[4] = "D" /\ DP!RuleOrder[5] = "E" /\ DP!RuleOrder[6] = "F"
        /\ DP!RuleOrder[7] = "G"
    BY DEF DP!RuleOrder
  <2> QED BY <2>1, <2>2, SMT DEF DP!ToSet
<1> QED BY <1>1, PipelineAssumption DEF DP!DetectionAssumption

-----------------------------------------------------------------------------
(* The instances speak of the same steps.                                  *)

LEMMA SameTokenStep == Detection!TokenStep <=> DP!TokenStep
  BY DEF
     Detection!TokenStep, DP!TokenStep, Detection!BeginToken, DP!BeginToken, Detection!SkipToken,
     DP!SkipToken, Detection!DedupeSignal, DP!DedupeSignal, Detection!CreateSignal,
     DP!CreateSignal, Detection!ReadSnapshot, DP!ReadSnapshot, Detection!WriteStatus,
     DP!WriteStatus, Detection!FailToken, DP!FailToken, Detection!EndPass, DP!EndPass,
     Detection!FiredSets, DP!FiredSets, Detection!FiredRule, DP!FiredRule, Detection!Severities,
     DP!Severities, Detection!NextFired, DP!NextFired, Detection!ActiveSignal, DP!ActiveSignal,
     Detection!PassClock, DP!PassClock, Detection!SignalRow, DP!SignalRow, Detection!LeaveToken,
     DP!LeaveToken, Detection!StatusFor, DP!StatusFor, Detection!Fault, DP!Fault,
     Detection!DetIdle, DP!DetIdle, Detection!RotIdle, DP!RotIdle, Detection!Position,
     DP!Position, Detection!RuleOrder, DP!RuleOrder

LEMMA SameRotationStep == \A j : Detection!RotationStep(j) <=> DP!RotationStep(j)
  BY DEF
     Detection!RotationStep, DP!RotationStep, Detection!StartPass, DP!StartPass,
     Detection!CheckRotation, DP!CheckRotation, Detection!CreateRotation, DP!CreateRotation,
     Detection!FailRotation, DP!FailRotation, Detection!EndRotation, DP!EndRotation,
     Detection!CandidateLists, DP!CandidateLists, Detection!RotationRow, DP!RotationRow,
     Detection!RecentRotation, DP!RecentRotation, Detection!NextCandidate, DP!NextCandidate,
     Detection!ToSet, DP!ToSet, Detection!Fault, DP!Fault, Detection!DetIdle, DP!DetIdle,
     Detection!RotIdle, DP!RotIdle

LEMMA SameCrash == Detection!Crash <=> DP!Crash
  BY DEF
     Detection!Crash, DP!Crash, Detection!Fault, DP!Fault, Detection!DetIdle, DP!DetIdle,
     Detection!RotIdle, DP!RotIdle, Detection!Jobs, DP!Jobs

LEMMA DetectIsDetection == Detect => DP!Next
<1>1. Detection!Jobs = DP!Jobs
  BY DEF Detection!Jobs, DP!Jobs
<1>2. Detection!Tick <=> DP!Tick
  BY DEF Detection!Tick, DP!Tick
<1>3. \A t \in Tokens : Detection!ScoreToken(t) <=> DP!ScoreToken(t)
  BY DEF Detection!ScoreToken, DP!ScoreToken
<1> QED
  BY <1>1, <1>2, <1>3, SameTokenStep, SameRotationStep DEF Detect, DP!Next

LEMMA SameDispatchInit == Dispatch!Init <=> AP!Init
  BY DEF Dispatch!Init, AP!Init, Dispatch!Idle, AP!Idle

LEMMA SameDispatchNext == Dispatch!Next <=> AP!Next
  BY DEF
     Dispatch!Next, AP!Next, Dispatch!DispatchStep, AP!DispatchStep, Dispatch!Progress,
     AP!Progress, Dispatch!StartDispatch, AP!StartDispatch, Dispatch!Send, AP!Send,
     Dispatch!Record, AP!Record, Dispatch!Decide, AP!Decide, Dispatch!BeginRotations,
     AP!BeginRotations, Dispatch!EndDispatch, AP!EndDispatch, Dispatch!FailDecide, AP!FailDecide,
     Dispatch!FailSend, AP!FailSend, Dispatch!FailRecord, AP!FailRecord, Dispatch!Crash,
     AP!Crash, Dispatch!Outside, AP!Outside, Dispatch!GrowsBy, AP!GrowsBy, Dispatch!Fault,
     AP!Fault, Dispatch!Idle, AP!Idle, Dispatch!Pending, AP!Pending, Dispatch!HasAlert,
     AP!HasAlert, Dispatch!Rows, AP!Rows, Dispatch!Ref, AP!Ref, Dispatch!CooldownOk,
     AP!CooldownOk, Dispatch!AlertsFor, AP!AlertsFor, Dispatch!LatestAlerts, AP!LatestAlerts,
     Dispatch!ShouldSend, AP!ShouldSend, Dispatch!SameTokenAndRule, AP!SameTokenAndRule,
     Dispatch!IsNext, AP!IsNext, Dispatch!Arrives, AP!Arrives, Dispatch!AlertRow, AP!AlertRow,
     Dispatch!Continue, AP!Continue, Dispatch!Unrecorded, AP!Unrecorded, Dispatch!outside,
     AP!outside, Dispatch!telegram, AP!telegram

-----------------------------------------------------------------------------
(* The detection jobs as the dispatcher's environment.                     *)

LEMMA TypeInit == Init => DP!TypeInv
<1>1. Detection!Init => DP!Init
  BY DEF Detection!Init, DP!Init, Detection!NoSnapshot, DP!NoSnapshot, Detection!RotIdle,
     DP!RotIdle, Detection!DetIdle, DP!DetIdle, Detection!Jobs, DP!Jobs
<1> QED BY <1>1, DetectionAssumed, DP!TypeInit DEF Init

\* The dispatcher leaves everything the detection jobs rest on alone, except that its
\* faults count as well.
LEMMA DispatchStepFrame ==
  ASSUME DP!TypeInv, Dispatch!DispatchStep
  PROVE  /\ UNCHANGED <<now, rotations, signals>>
         /\ faults' \in 0..MaxFaults
<1>1. UNCHANGED <<now, rotations, signals>>
  BY DEF Dispatch!DispatchStep, Dispatch!Progress, Dispatch!StartDispatch, Dispatch!Send,
     Dispatch!Record, Dispatch!Decide, Dispatch!BeginRotations, Dispatch!EndDispatch,
     Dispatch!FailDecide, Dispatch!FailSend, Dispatch!FailRecord, Dispatch!outside
<1>2. faults' = faults \/ (faults < MaxFaults /\ faults' = faults + 1)
  BY DEF Dispatch!DispatchStep, Dispatch!Progress, Dispatch!StartDispatch, Dispatch!Send,
     Dispatch!Record, Dispatch!Decide, Dispatch!BeginRotations, Dispatch!EndDispatch,
     Dispatch!FailDecide, Dispatch!FailSend, Dispatch!FailRecord, Dispatch!Fault
<1>3. faults \in 0..MaxFaults
  BY DEF DP!TypeInv, DP!TypeOK
<1> QED BY <1>1, <1>2, <1>3, PipelineAssumption, SMT

LEMMA TypeNext == DP!TypeInv /\ [Next]_vars => DP!TypeInv'
<1> SUFFICES ASSUME DP!TypeInv, [Next]_vars PROVE DP!TypeInv'
  OBVIOUS
<1>s. ASSUME UNCHANGED <<now, rotations, signals, status, rot, det>>, faults' \in 0..MaxFaults
      PROVE  DP!TypeInv'
  BY <1>s DEF DP!TypeInv, DP!TypeOK, DP!WorkInHand, DP!ClocksRead
<1>1. CASE Detect
  BY <1>1, DetectIsDetection, DetectionAssumed, DP!TypeNext
<1>2. CASE Alert
  BY <1>2, <1>s, DispatchStepFrame DEF Alert, detectVars
<1>3. CASE Crash
  BY <1>3, SameCrash, DetectionAssumed, DP!TypeNext DEF Crash, DP!Next
<1>4. CASE UNCHANGED vars
  <2>1. faults' \in 0..MaxFaults
    BY <1>4 DEF vars, DP!TypeInv, DP!TypeOK
  <2> QED BY <1>4, <1>s, <2>1 DEF vars, detectVars
<1> QED BY <1>1, <1>2, <1>3, <1>4 DEF Next

LEMMA DetectIsOutside ==
  ASSUME DP!TypeInv, Detect
  PROVE  Dispatch!Outside
<1>1. [DP!Next]_(DP!vars)
  BY DetectIsDetection
<1>2. now' \in now..MaxTime /\ faults' \in faults..MaxFaults
  BY <1>1, DetectionAssumed, DP!ClockAndFaults
<1>3. Dispatch!GrowsBy(signals, Detection!SignalRows)
  <2>1. \/ signals' = signals
        \/ det.pc = "create" /\ signals' = Append(signals, DP!SignalRow)
    BY <1>1, DetectionAssumed, DP!SignalsGrow
  <2>2. det.pc = "create" => DP!SignalRow \in DP!SignalRows /\ DP!SignalRow.at <= now
    BY DetectionAssumed, DP!SignalRowType
  <2>3. DP!SignalRows = Detection!SignalRows
    BY DEF DP!SignalRows, Detection!SignalRows, DP!Times, Detection!Times
  <2> QED BY <2>1, <2>2, <2>3 DEF Dispatch!GrowsBy
<1>4. Dispatch!GrowsBy(rotations, Detection!RotationRows)
  <2>1. \/ rotations' = rotations
        \/ \E j \in DP!Jobs : /\ rot[j].pc = "create"
                              /\ rotations' = Append(rotations, DP!RotationRow(j))
    BY <1>1, DetectionAssumed, DP!RotationsGrow
  <2>2. \A j \in DP!Jobs : rot[j].pc = "create" =>
          DP!RotationRow(j) \in DP!RotationRows /\ DP!RotationRow(j).at <= now
    BY DetectionAssumed, DP!RotationRowType
  <2>3. DP!RotationRows = Detection!RotationRows
    BY DEF DP!RotationRows, Detection!RotationRows, DP!Times, Detection!Times, DP!Jobs,
       Detection!Jobs
  <2> QED BY <2>1, <2>2, <2>3 DEF Dispatch!GrowsBy
<1>5. UNCHANGED <<alerts, dis, Dispatch!telegram>>
  BY DEF Detect, dispatchVars, Dispatch!telegram
<1> QED BY <1>2, <1>3, <1>4, <1>5 DEF Dispatch!Outside

LEMMA StepRefines == DP!TypeInv /\ [Next]_vars => [Dispatch!Next]_(Dispatch!vars)
<1> SUFFICES ASSUME DP!TypeInv, [Next]_vars PROVE [Dispatch!Next]_(Dispatch!vars)
  OBVIOUS
<1>1. CASE Detect
  BY <1>1, DetectIsOutside DEF Dispatch!Next
<1>2. CASE Alert
  BY <1>2 DEF Alert, Dispatch!Next
<1>3. CASE Crash
  BY <1>3 DEF Crash, Dispatch!Next
<1>4. CASE UNCHANGED vars
  BY <1>4 DEF vars, dispatchVars, Dispatch!vars, Dispatch!outside, Dispatch!telegram
<1> QED BY <1>1, <1>2, <1>3, <1>4 DEF Next

\* The composed system implements the dispatcher's specification: every step of the
\* detection jobs is one its environment may take, for any tokens, rules and bounds.
THEOREM PipelineImplementsDispatch == Spec => RefinesDispatch
<1>1. Init => Dispatch!Init
  BY DEF Init
<1> QED
  BY <1>1, TypeInit, TypeNext, StepRefines, PTL DEF Spec, RefinesDispatch, Dispatch!Spec

-----------------------------------------------------------------------------
(* What holds of the dispatcher holds of the whole.                        *)

LEMMA DispatchAssumed == AP!DispatchAssumption
  BY PipelineAssumption DEF AP!DispatchAssumption, Detection!SignalRows, Detection!RotationRows,
     Detection!Times

LEMMA SameDispatchStutter == UNCHANGED Dispatch!vars => UNCHANGED AP!vars
BY DEF Dispatch!vars, AP!vars, Dispatch!outside, AP!outside, Dispatch!telegram, AP!telegram

LEMMA SameDispatch == Dispatch!Spec => AP!Spec
<1>1. [Dispatch!Next]_(Dispatch!vars) => [AP!Next]_(AP!vars)
  BY SameDispatchNext, SameDispatchStutter
<1> QED BY <1>1, SameDispatchInit, PTL DEF Dispatch!Spec, AP!Spec

\* With the jobs that really raise the signals and rotations, and with crashes that take
\* all of them down, each still gets one Alert row.
THEOREM PipelineAlertsOnce == Spec => []OneAlertPerRow
<1>1. AP!Spec => []AP!OneAlertPerRow
  BY DispatchAssumed, AP!RowsAreAlertedOnce
<1>2. AP!OneAlertPerRow => OneAlertPerRow
  BY DEF AP!OneAlertPerRow, OneAlertPerRow, Dispatch!OneAlertPerRow
<1> QED BY <1>1, <1>2, PipelineImplementsDispatch, SameDispatch, PTL DEF RefinesDispatch

\* And nothing is delivered twice unless the row that would have said so was lost.
THEOREM PipelineDeliversOnce == Spec => []RedeliveredOnlyUnrecorded
<1>1. AP!Spec => []AP!RedeliveredOnlyUnrecorded
  BY DispatchAssumed, AP!DeliveredAgainOnlyUnrecorded
<1>2. AP!RedeliveredOnlyUnrecorded => RedeliveredOnlyUnrecorded
  BY DEF AP!RedeliveredOnlyUnrecorded, RedeliveredOnlyUnrecorded,
     Dispatch!RedeliveredOnlyUnrecorded
<1> QED BY <1>1, <1>2, PipelineImplementsDispatch, SameDispatch, PTL DEF RefinesDispatch

-----------------------------------------------------------------------------
(* The cooldown holds with the signals the detector really raises.         *)

PipelineCooldownInv == DP!TypeInv /\ DP!SeveritiesFit /\ AP!CooldownInv

LEMMA DispatchStepOfPipeline ==
  ASSUME DP!TypeInv, [Next]_vars
  PROVE  [AP!Next]_(AP!vars)
  BY StepRefines, SameDispatchNext, SameDispatchStutter

LEMMA SeveritiesNext ==
  ASSUME DP!TypeInv, DP!SeveritiesFit, [Next]_vars
  PROVE  DP!SeveritiesFit'
<1>1. CASE Detect
  BY <1>1, DetectIsDetection, DetectionAssumed, DP!SeveritiesFitNext
<1>2. CASE Alert \/ Crash \/ UNCHANGED vars
  <2>1. signals' = signals
    BY <1>2, DispatchStepFrame DEF Alert, Crash, Detection!Crash, vars
  <2> QED BY <2>1 DEF DP!SeveritiesFit
<1> QED BY <1>1, <1>2 DEF Next

LEMMA SignalsAreEvenlyCritical ==
  ASSUME DP!TypeInv, DP!SeveritiesFit
  PROVE  AP!EvenlyCritical
<1> SUFFICES ASSUME NEW m \in DOMAIN signals, NEW n \in DOMAIN signals,
                    signals[n].rule = signals[m].rule
             PROVE  signals[m].severity = "CRITICAL" <=> signals[n].severity = "CRITICAL"
  BY DEF AP!EvenlyCritical, AP!SameTokenAndRule
<1> QED BY DetectionAssumed, DP!CriticalIsRuleG

LEMMA PipelineCooldownNext == PipelineCooldownInv /\ [Next]_vars => PipelineCooldownInv'
  BY TypeNext, SeveritiesNext, SignalsAreEvenlyCritical, DispatchStepOfPipeline, DispatchAssumed,
     AP!CooldownNext DEF PipelineCooldownInv

\* With the signals the detection jobs raise, two attempts to alert to a rule on a token
\* lie a cooldown apart, for any tokens, rules, windows, cooldown and number of faults.
THEOREM PipelineKeepsCooldown == Spec => []CooldownSpacing
<1>1. Init => PipelineCooldownInv
  <2> SUFFICES ASSUME Init PROVE PipelineCooldownInv
    OBVIOUS
  <2>1. AP!CooldownInv
    BY SameDispatchInit, DispatchAssumed, AP!CooldownInit DEF Init
  <2>2. DP!SeveritiesFit
    BY EmptySeq DEF Init, Detection!Init, DP!SeveritiesFit
  <2> QED BY TypeInit, <2>1, <2>2 DEF PipelineCooldownInv
<1>2. PipelineCooldownInv => CooldownSpacing
  BY DEF PipelineCooldownInv, AP!CooldownInv, AP!CooldownSpacing, CooldownSpacing,
     Dispatch!CooldownSpacing, AP!Contacted, Dispatch!Contacted, AP!SameTokenAndRule,
     Dispatch!SameTokenAndRule
<1> QED BY <1>1, <1>2, PipelineCooldownNext, PTL DEF Spec
=============================================================================
