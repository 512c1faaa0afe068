--------------------------- MODULE SignalDetection ---------------------------
(***************************************************************************)
(* How signals and rotations come to be: the worker's profitRotation and   *)
(* signalDetection jobs (packages/db/src/rotation.ts, signals.ts) and the  *)
(* flowScoring job as far as it creates the snapshots whose status the     *)
(* detector writes.                                                        *)
(*                                                                         *)
(* Both jobs run runProfitRotation: the one for its rows, the other to     *)
(* hand the candidates to Rule F.  Each is serial with itself (the         *)
(* runner's overlap guard) but not with the other.  A step is the code     *)
(* from one await to the next; a pass keeps the clock it read at its       *)
(* start.  The trades, transfers and market data behind the candidates     *)
(* and the fired rules are chosen freely.                                  *)
(***************************************************************************)
EXTENDS Integers, Sequences, SequencesExt

CONSTANTS Tokens,
          Keys,           \* what a rotation is deduplicated on: source wallet,
                          \* destination wallet, destination token
          DestOf,         \* the destination token of a key
          Rules,          \* which of the rules A..G are in use
          DedupeWindow,   \* DEDUPE_WINDOW_MS, in ticks of the model's clock
          MaxCandidates,  \* bound: candidates matched in one pass
          MaxTime,        \* bound: the clock
          MaxFaults       \* bound: failed calls and crashes

RuleOrder == <<"A", "B", "C", "D", "E", "F", "G">>

ASSUME DetectionAssumption ==
  /\ DestOf \in [Keys -> Tokens]
  /\ Rules \subseteq ToSet(RuleOrder) /\ "F" \in Rules
  /\ DedupeWindow \in Nat /\ MaxCandidates \in Nat
  /\ MaxTime \in Nat /\ MaxFaults \in Nat

VARIABLES
  now,        \* the wall clock
  faults,     \* failed calls and crashes so far
  rotations,  \* ProfitRotationSignal rows, in the order of creation
  signals,    \* Signal rows, in the order of creation
  status,     \* per token: signalStatus of its latest TokenFlowSnapshot, and for
              \* one that rests on a rule the clock of the pass that wrote it
  rot,        \* per job: its run of runProfitRotation
  det         \* the rest of the signal-detection pass

vars == <<now, faults, rotations, signals, status, rot, det>>

Jobs == {"profitRotation", "signalDetection"}
Times == 0..MaxTime

\* The severities a rule reports when it fires.
Severities(rule) == CASE rule = "A" -> {"WATCH", "HIGH"}
                      [] rule \in {"B", "C"} -> {"WATCH"}
                      [] rule \in {"D", "E", "F"} -> {"HIGH"}
                      [] rule = "G" -> {"CRITICAL"}

FiredRule == UNION {[rule : {r}, severity : Severities(r)] : r \in Rules}

NoSnapshot == [value |-> "none", asOf |-> 0]

RotIdle == [pc |-> "idle", at |-> 0, todo |-> <<>>]
DetIdle == [pc |-> "idle", matched |-> {}, todo |-> {}, token |-> "none",
            fired |-> {}, left |-> {}, superseded |-> FALSE]

Init == /\ now = 0 /\ faults = 0
        /\ rotations = <<>> /\ signals = <<>>
        /\ status = [t \in Tokens |-> NoSnapshot]
        /\ rot = [j \in Jobs |-> RotIdle]
        /\ det = DetIdle

Tick == /\ now < MaxTime
        /\ now' = now + 1
        /\ UNCHANGED <<faults, rotations, signals, status, rot, det>>

Fault == faults < MaxFaults /\ faults' = faults + 1

-----------------------------------------------------------------------------
(* runProfitRotation.                                                      *)

CandidateLists == UNION {[1..n -> Keys] : n \in 0..MaxCandidates}

\* The job's tick.  matchRotations has returned list, in its order; one key may
\* occur twice (two transfers, the same pair of wallets and destination).
StartPass(j) ==
  /\ rot[j].pc = "idle"
  /\ j = "signalDetection" => det.pc = "idle"
  /\ \E list \in CandidateLists :
       /\ rot' = [rot EXCEPT ![j] = [pc |-> "check", at |-> now, todo |-> list]]
       /\ det' = IF j = "signalDetection"
                 THEN [det EXCEPT !.pc = "rotations",
                                  !.matched = {DestOf[k] : k \in ToSet(list)}]
                 ELSE det
  /\ UNCHANGED <<now, faults, rotations, signals, status>>

\* Faulty variant: the look-back starts one tick late.
RecentRotationShort(key, at) ==
  \E i \in DOMAIN rotations : /\ rotations[i].key = key
                              /\ rotations[i].at > at - DedupeWindow

RecentRotation(key, at) ==
  \E i \in DOMAIN rotations : /\ rotations[i].key = key
                              /\ rotations[i].at >= at - DedupeWindow

NextCandidate(j) == [rot EXCEPT ![j].pc = "check", ![j].todo = Tail(@)]

\* The findFirst of the deduplication, and the read of the destination's market cap.
CheckRotation(j) ==
  /\ rot[j].pc = "check"
  /\ rot[j].todo # <<>>
  /\ rot' = IF RecentRotation(Head(rot[j].todo), rot[j].at)
            THEN NextCandidate(j)
            ELSE [rot EXCEPT ![j].pc = "create"]
  /\ UNCHANGED <<now, faults, rotations, signals, status, det>>

\* by records which job created the row; the code does not keep it.
RotationRow(j) == [key |-> Head(rot[j].todo), at |-> rot[j].at, by |-> j]

CreateRotation(j) ==
  /\ rot[j].pc = "create"
  /\ rotations' = Append(rotations, RotationRow(j))
  /\ rot' = NextCandidate(j)
  /\ UNCHANGED <<now, faults, signals, status, det>>

\* Faulty variant: a failed create is logged and the pass goes on.
FailRotationCaught(j) ==
  /\ rot[j].pc = "create"
  /\ Fault
  /\ rot' = NextCandidate(j)
  /\ UNCHANGED <<now, rotations, signals, status, det>>

\* Nothing is caught in runProfitRotation: a failed call ends the pass, and with it
\* the signal-detection pass that made the call.  A failed create may have committed.
FailRotation(j) ==
  /\ rot[j].pc \in {"check", "create"}
  /\ Fault
  /\ \/ UNCHANGED rotations
     \/ rot[j].pc = "create" /\ rotations' = Append(rotations, RotationRow(j))
  /\ rot' = [rot EXCEPT ![j] = RotIdle]
  /\ det' = IF j = "signalDetection" THEN DetIdle ELSE det
  /\ UNCHANGED <<now, signals, status>>

EndRotation(j) ==
  /\ rot[j].pc = "check"
  /\ rot[j].todo = <<>>
  /\ IF j = "signalDetection"
     THEN /\ rot' = [rot EXCEPT ![j].pc = "idle"]
          /\ det' = [det EXCEPT !.pc = "tokens", !.todo = Tokens]
     ELSE /\ rot' = [rot EXCEPT ![j] = RotIdle]
          /\ UNCHANGED det
  /\ UNCHANGED <<now, faults, rotations, signals, status>>

-----------------------------------------------------------------------------
(* runSignalDetectionPass, after the rotations.                            *)

PassClock == rot["signalDetection"].at

\* Faulty variant: the results are not filtered by fired; such a one says INFO.
FiredSetsUnfiltered(t) == {{[rule |-> r, severity |-> "INFO"] : r \in Rules}}

\* What evaluateAllRules may report for token t: at most one result per rule, and
\* Rule F exactly when a candidate of this pass is destined to t, because
\* matchRotations has applied every threshold of ruleF already.
FiredSets(t) ==
  {S \in SUBSET FiredRule :
     /\ \A x, y \in S : x.rule = y.rule => x = y
     /\ (\E x \in S : x.rule = "F") <=> t \in det.matched}

\* The token's trades, market and funding have been read and its rules evaluated.
BeginToken(t) ==
  /\ det.pc = "tokens"
  /\ t \in det.todo
  /\ \E S \in FiredSets(t) :
       det' = [det EXCEPT !.pc = "dedupe", !.todo = @ \ {t}, !.token = t,
                          !.fired = S, !.left = S]
  /\ UNCHANGED <<now, faults, rotations, signals, status, rot>>

\* A token without trades in the window, or a failed read, is passed over.
SkipToken(t) ==
  /\ det.pc = "tokens"
  /\ t \in det.todo
  /\ det' = [det EXCEPT !.todo = @ \ {t}]
  /\ UNCHANGED <<now, faults, rotations, signals, status, rot>>

Position(rule) == CHOOSE i \in DOMAIN RuleOrder : RuleOrder[i] = rule

\* The fired rule whose turn it is, in the order A..G.
NextFired == CHOOSE x \in det.left :
               \A y \in det.left : Position(x.rule) <= Position(y.rule)

\* Faulty variant: the look-back of the deduplication starts one tick late.
ActiveSignalShort(t, rule) ==
  \E i \in DOMAIN signals : /\ signals[i].token = t /\ signals[i].rule = rule
                            /\ signals[i].at > PassClock - DedupeWindow

\* No code ever moves a Signal out of status 'active'.
ActiveSignal(t, rule) ==
  \E i \in DOMAIN signals : /\ signals[i].token = t /\ signals[i].rule = rule
                            /\ signals[i].at >= PassClock - DedupeWindow

DedupeSignal ==
  /\ det.pc = "dedupe"
  /\ det.left # {}
  /\ det' = IF ActiveSignal(det.token, NextFired.rule)
            THEN [det EXCEPT !.left = @ \ {NextFired}]
            ELSE [det EXCEPT !.pc = "create"]
  /\ UNCHANGED <<now, faults, rotations, signals, status, rot>>

SignalRow == [token |-> det.token, rule |-> NextFired.rule,
              severity |-> NextFired.severity, at |-> PassClock]

CreateSignal ==
  /\ det.pc = "create"
  /\ signals' = Append(signals, SignalRow)
  /\ det' = [det EXCEPT !.pc = "dedupe", !.left = @ \ {NextFired}]
  /\ UNCHANGED <<now, faults, rotations, status, rot>>

LeaveToken == [det EXCEPT !.pc = "tokens", !.token = "none", !.fired = {},
                          !.left = {}, !.superseded = FALSE]

\* updateSnapshotSignalStatus: the latest snapshot is read; there may be none.
ReadSnapshot ==
  /\ det.pc = "dedupe"
  /\ det.left = {}
  /\ det' = IF status[det.token].value = "none" THEN LeaveToken
            ELSE [det EXCEPT !.pc = "status"]
  /\ UNCHANGED <<now, faults, rotations, signals, status, rot>>

\* What the fired rules make of the snapshot.  Without any, a low score and no
\* tracked volume decide between dead and watching.
StatusFor(fired) ==
  LET rules == {x.rule : x \in fired}
  IN  CASE "G" \in rules -> {"exit_warning"}
        [] "G" \notin rules /\ "F" \in rules -> {"profit_rotation"}
        [] rules # {} /\ rules \subseteq {"A", "B", "C", "D", "E"} -> {"hot"}
        [] rules = {} -> {"dead", "watching"}

\* The update goes to the row that was read.  When the scoring pass has created a
\* newer one since, the latest snapshot is untouched.
WriteStatus ==
  /\ det.pc = "status"
  /\ \/ det.superseded /\ UNCHANGED status
     \/ /\ ~det.superseded
        /\ \E s \in StatusFor(det.fired) :
             status' = [status EXCEPT ![det.token] =
                          [value |-> s, asOf |-> IF det.fired = {} THEN 0 ELSE PassClock]]
  /\ det' = LeaveToken
  /\ UNCHANGED <<now, faults, rotations, signals, rot>>

\* Faulty variant: a failed create is logged and the token's remaining work is done.
FailTokenCaught ==
  /\ det.pc = "create"
  /\ Fault
  /\ det' = [det EXCEPT !.pc = "dedupe", !.left = @ \ {NextFired}]
  /\ UNCHANGED <<now, rotations, signals, status, rot>>

\* A failed call leaves the token as it is, and the pass goes on with the next one.
\* A failed create may have committed.
FailToken ==
  /\ det.pc \in {"dedupe", "create", "status"}
  /\ Fault
  /\ \/ UNCHANGED signals
     \/ det.pc = "create" /\ signals' = Append(signals, SignalRow)
  /\ det' = LeaveToken
  /\ UNCHANGED <<now, rotations, status, rot>>

EndPass ==
  /\ det.pc = "tokens"
  /\ det.todo = {}
  /\ det' = DetIdle
  /\ rot' = [rot EXCEPT !["signalDetection"] = RotIdle]
  /\ UNCHANGED <<now, faults, rotations, signals, status>>

-----------------------------------------------------------------------------
\* The flowScoring job creates a snapshot of token t.
ScoreToken(t) ==
  /\ status' = [status EXCEPT ![t] = [value |-> "watching", asOf |-> 0]]
  /\ det' = IF det.pc = "status" /\ det.token = t
            THEN [det EXCEPT !.superseded = TRUE] ELSE det
  /\ UNCHANGED <<now, faults, rotations, signals, rot>>

\* The worker dies and is started again: the passes are gone, the rows stay.
Crash ==
  /\ Fault
  /\ rot' = [j \in Jobs |-> RotIdle]
  /\ det' = DetIdle
  /\ UNCHANGED <<now, rotations, signals, status>>

RotationStep(j) == StartPass(j) \/ CheckRotation(j) \/ CreateRotation(j)
                   \/ FailRotation(j) \/ EndRotation(j)

TokenStep == \/ \E t \in Tokens : BeginToken(t) \/ SkipToken(t)
             \/ DedupeSignal \/ CreateSignal \/ ReadSnapshot \/ WriteStatus
             \/ FailToken \/ EndPass

Next == \/ \E j \in Jobs : RotationStep(j)
        \/ TokenStep
        \/ \E t \in Tokens : ScoreToken(t)
        \/ Crash
        \/ Tick

Spec == Init /\ [][Next]_vars

-----------------------------------------------------------------------------
(* Properties.                                                             *)

RotationRows == [key : Keys, at : Times, by : Jobs]
SignalRows == [token : Tokens, rule : Rules, severity : {"WATCH", "HIGH", "CRITICAL"},
               at : Times]
StatusValues == {"none", "watching", "hot", "profit_rotation", "exit_warning", "dead"}

TypeOK ==
  /\ now \in Times /\ faults \in 0..MaxFaults
  /\ rotations \in Seq(RotationRows)
  /\ signals \in Seq(SignalRows)
  /\ status \in [Tokens -> [value : StatusValues, asOf : Times]]
  /\ rot \in [Jobs -> [pc : {"idle", "check", "create"}, at : Times, todo : Seq(Keys)]]
  /\ det \in [pc : {"idle", "rotations", "tokens", "dedupe", "create", "status"},
              matched : SUBSET Tokens, todo : SUBSET Tokens,
              token : Tokens \union {"none"},
              fired : SUBSET FiredRule, left : SUBSET FiredRule, superseded : BOOLEAN]

Close(x, y) == x.at - y.at \in (-DedupeWindow)..DedupeWindow

\* A rule that keeps firing for a token does not get a second signal within the
\* deduplication window, whatever passes fail, crash, or run late (signals.ts:19-24).
NoDuplicateSignal ==
  \A i, k \in DOMAIN signals :
    i # k /\ signals[i].token = signals[k].token /\ signals[i].rule = signals[k].rule
      => ~Close(signals[i], signals[k])

\* One job alone never records a rotation twice within the window: two rows that
\* close always come from the two jobs that run runProfitRotation.
OneRotationPerJob ==
  \A i, k \in DOMAIN rotations :
    i # k /\ rotations[i].key = rotations[k].key /\ Close(rotations[i], rotations[k])
      => rotations[i].by # rotations[k].by

\* A Rule F signal never stands alone: a rotation towards its token was recorded
\* within the window before the pass that raised it.
RuleFBackedByRotation ==
  \A i \in DOMAIN signals : signals[i].rule = "F" =>
    \E k \in DOMAIN rotations :
       /\ DestOf[rotations[k].key] = signals[i].token
       /\ rotations[k].at >= signals[i].at - DedupeWindow

RulesBehind(value) == CASE value = "exit_warning" -> {"G"}
                        [] value = "profit_rotation" -> {"F"}
                        [] value = "hot" -> {"A", "B", "C", "D", "E"}
                        [] OTHER -> {}

\* A token is shown as exit_warning, profit_rotation or hot only when a Signal row
\* of such a rule exists from the window before the pass that wrote the status.
StatusBackedBySignal ==
  \A t \in Tokens : RulesBehind(status[t].value) # {} =>
    \E i \in DOMAIN signals :
       /\ signals[i].token = t
       /\ signals[i].rule \in RulesBehind(status[t].value)
       /\ signals[i].at >= status[t].asOf - DedupeWindow

\* As profitRotation.ts:8-15 and rotation.ts:45-50 have it: calling runProfitRotation
\* from two jobs records no rotation twice within the window.
NoDuplicateRotation ==
  \A i, k \in DOMAIN rotations :
    i # k /\ rotations[i].key = rotations[k].key => ~Close(rotations[i], rotations[k])
=============================================================================
