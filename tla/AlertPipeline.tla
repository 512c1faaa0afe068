---------------------------- MODULE AlertPipeline ----------------------------
(***************************************************************************)
(* The detection jobs and the alert dispatcher on one database, one clock  *)
(* and one worker process.  The jobs are serial with themselves (the       *)
(* runner's overlap guard, InlineRunner) and interleave with each other;   *)
(* a crash takes all of them down at once.                                 *)
(***************************************************************************)
EXTENDS Integers, Sequences

CONSTANTS Tokens, Keys, DestOf, Rules, DedupeWindow, Cooldown,
          MaxCandidates, MaxTime, MaxFaults

ASSUME PipelineAssumption ==
  /\ DestOf \in [Keys -> Tokens]
  /\ Rules \subseteq {"A", "B", "C", "D", "E", "F", "G"} /\ "F" \in Rules
  /\ DedupeWindow \in Nat /\ Cooldown \in Nat /\ MaxCandidates \in Nat
  /\ MaxTime \in Nat /\ MaxFaults \in Nat

VARIABLES now, faults, rotations, signals, status, rot, det,
          alerts, dis, delivered, redelivered, unrecorded

Detection == INSTANCE SignalDetection

Dispatch == INSTANCE AlertDispatch WITH SignalRows <- Detection!SignalRows,
                                        RotationRows <- Detection!RotationRows

detectVars == <<status, rot, det>>
dispatchVars == <<alerts, dis, delivered, redelivered, unrecorded>>
vars == <<now, faults, rotations, signals, detectVars, dispatchVars>>

Init == Detection!Init /\ Dispatch!Init

Crash == Detection!Crash /\ Dispatch!Crash

Detect == /\ \/ \E j \in Detection!Jobs : Detection!RotationStep(j)
             \/ Detection!TokenStep
             \/ \E t \in Tokens : Detection!ScoreToken(t)
             \/ Detection!Tick
          /\ UNCHANGED dispatchVars

Alert == Dispatch!DispatchStep /\ UNCHANGED detectVars

Next == Detect \/ Alert \/ Crash

Spec == Init /\ [][Next]_vars

-----------------------------------------------------------------------------
(* Properties.                                                             *)

OneAlertPerRow            == Dispatch!OneAlertPerRow
RedeliveredOnlyUnrecorded == Dispatch!RedeliveredOnlyUnrecorded

\* To the dispatcher the detection jobs are an environment that only adds rows of the
\* types and times it expects, whatever they do to the rest of the database.
RefinesDispatch == Dispatch!Spec

\* With the signals the detector really raises, two attempts to alert to a rule on a
\* token lie a cooldown apart.  (With arbitrary signals they need not: a
\* skipped_cooldown row of lower severity reopens the way for a CRITICAL one.)
CooldownSpacing == Dispatch!CooldownSpacing
=============================================================================
