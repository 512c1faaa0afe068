---------------------------- MODULE AlertDispatch ----------------------------
(***************************************************************************)
(* The alertDispatch job: dispatchPendingAlerts (packages/db/src/alerts.ts)*)
(* with the cooldown rule (packages/core/src/alerts/cooldown.ts) and the   *)
(* Telegram sender.  A pass reads the clock and the pending signals, and   *)
(* then, one after the other, decides, sends and records; when the signals *)
(* are through it reads the pending rotations and does the same without a  *)
(* cooldown.  A signal or rotation is pending as long as it has no Alert   *)
(* row.                                                                    *)
(*                                                                         *)
(* Signals and rotations are only read here.  Standing alone, this module  *)
(* lets any of them appear at any time; AlertPipeline puts the detection   *)
(* jobs in their place.                                                    *)
(***************************************************************************)
EXTENDS Integers, Sequences, FiniteSets

CONSTANTS SignalRows,    \* the Signal rows there can be: token, rule, severity, at
          RotationRows,  \* the ProfitRotationSignal rows there can be: at, ...
          Cooldown,      \* settings.alerts.cooldownMin, in ticks
          MaxTime,       \* bound: the clock
          MaxFaults      \* bound: failed calls and crashes

ASSUME DispatchAssumption ==
  /\ \A r \in SignalRows \union RotationRows : r.at \in 0..MaxTime
  /\ Cooldown \in Nat /\ MaxTime \in Nat /\ MaxFaults \in Nat

VARIABLES
  now, faults,
  rotations, signals,  \* rows in the order of creation; a row is never deleted
  alerts,       \* Alert rows of type SIGNAL and ROTATION, in the order of creation
  dis,          \* the dispatch pass
  delivered,    \* external: what Telegram has shown at least once
  redelivered,  \* external: what Telegram has shown more than once
  unrecorded    \* history: handed to Telegram, but a create() failed or the worker
                \* died before an Alert row said so

outside == <<now, rotations, signals>>
telegram == <<delivered, redelivered, unrecorded>>
vars == <<outside, faults, alerts, dis, telegram>>

Kinds == {"SIGNAL", "ROTATION"}
Statuses == {"sent", "failed", "skipped_cooldown", "skipped_no_token"}

\* What an Alert row points to: signalId or rotationSignalId.
Refs == [kind : Kinds, n : Nat]

Rows(kind) == IF kind = "SIGNAL" THEN signals ELSE rotations

HasAlert(ref) == \E i \in DOMAIN alerts : alerts[i].ref = ref

\* Faulty variant: what was not sent counts as pending.
PendingUnlessSent(kind) ==
  {n \in DOMAIN Rows(kind) :
     ~\E i \in DOMAIN alerts : /\ alerts[i].ref = [kind |-> kind, n |-> n]
                               /\ alerts[i].status = "sent"}

\* where: { alerts: { none: {} } }
Pending(kind) == {n \in DOMAIN Rows(kind) : ~HasAlert([kind |-> kind, n |-> n])}

Idle == [pc |-> "idle", kind |-> "SIGNAL", at |-> 0, sender |-> FALSE, todo |-> {},
         cur |-> 0, result |-> "none"]

Init == /\ now = 0 /\ faults = 0
        /\ rotations = <<>> /\ signals = <<>>
        /\ alerts = <<>> /\ dis = Idle
        /\ delivered = {} /\ redelivered = {} /\ unrecorded = {}

Fault == faults < MaxFaults /\ faults' = faults + 1

Ref == [kind |-> dis.kind, n |-> dis.cur]

-----------------------------------------------------------------------------
(* The cooldown.                                                           *)

SameTokenAndRule(s, n) == signals[n].token = s.token /\ signals[n].rule = s.rule

AlertsFor(s) == {i \in DOMAIN alerts : /\ alerts[i].ref.kind = "SIGNAL"
                                       /\ SameTokenAndRule(s, alerts[i].ref.n)}

\* findFirst by sentAt, descending: rows with the same sentAt come in no given order.
LatestAlerts(s) ==
  {i \in AlertsFor(s) : \A k \in AlertsFor(s) : alerts[k].at <= alerts[i].at}

\* Faulty variant: the age of an alert is counted from its signal, not from sentAt.
ShouldSendByTrigger(s, i, at) ==
  \/ at - signals[alerts[i].ref.n].at >= Cooldown
  \/ s.severity = "CRITICAL" /\ signals[alerts[i].ref.n].severity # "CRITICAL"

\* shouldSendAlert against the alert i that was found.
ShouldSend(s, i, at) ==
  \/ at - alerts[i].at >= Cooldown
  \/ s.severity = "CRITICAL" /\ signals[alerts[i].ref.n].severity # "CRITICAL"

\* The answers the lookup may lead to.
CooldownOk(s, at) == IF AlertsFor(s) = {} THEN {TRUE}
                     ELSE {ShouldSend(s, i, at) : i \in LatestAlerts(s)}

-----------------------------------------------------------------------------
(* The pass.                                                               *)

\* Faulty variant: only signals raised in the current tick are looked for.
StartDispatchRecent ==
  /\ dis.pc = "idle"
  /\ \E sender \in BOOLEAN :
       dis' = [Idle EXCEPT !.pc = "next", !.at = now, !.sender = sender,
                           !.todo = {n \in Pending("SIGNAL") : signals[n].at = now}]
  /\ UNCHANGED <<outside, faults, alerts, telegram>>

\* The job's tick; the sender depends on the environment variables of the moment.
StartDispatch ==
  /\ dis.pc = "idle"
  /\ \E sender \in BOOLEAN :
       dis' = [Idle EXCEPT !.pc = "next", !.at = now, !.sender = sender,
                           !.todo = Pending("SIGNAL")]
  /\ UNCHANGED <<outside, faults, alerts, telegram>>

\* The oldest row that is left; rows of the same time come in no given order.
IsNext(n) == n \in dis.todo /\ \A k \in dis.todo : Rows(dis.kind)[n].at <= Rows(dis.kind)[k].at

\* Lookup, cooldown and the rendering of the text.
Decide(n) ==
  /\ dis.pc = "next"
  /\ IsNext(n)
  /\ \E ok \in IF dis.kind = "SIGNAL" THEN CooldownOk(signals[n], dis.at) ELSE {TRUE} :
       LET take == [dis EXCEPT !.todo = @ \ {n}, !.cur = n]
       IN  dis' = IF ok /\ dis.sender THEN [take EXCEPT !.pc = "send"]
                  ELSE [take EXCEPT !.pc = "record",
                          !.result = IF ok THEN "skipped_no_token" ELSE "skipped_cooldown"]
  /\ UNCHANGED <<outside, faults, alerts, telegram>>

\* A failed read leaves the row pending and goes on with the next one.
FailDecide(n) ==
  /\ dis.pc = "next"
  /\ IsNext(n)
  /\ Fault
  /\ dis' = [dis EXCEPT !.todo = @ \ {n}]
  /\ UNCHANGED <<outside, alerts, telegram>>

Arrives == /\ delivered' = delivered \union {Ref}
           /\ redelivered' = IF Ref \in delivered THEN redelivered \union {Ref}
                             ELSE redelivered

Send ==
  /\ dis.pc = "send"
  /\ dis' = [dis EXCEPT !.pc = "record", !.result = "sent"]
  /\ Arrives
  /\ UNCHANGED <<outside, faults, alerts, unrecorded>>

\* Faulty variant: an error of the send is left to the next pass, without a row.
FailSendUnrecorded ==
  /\ dis.pc = "send"
  /\ Fault
  /\ dis' = [dis EXCEPT !.pc = "next", !.cur = 0]
  /\ Arrives \/ UNCHANGED <<delivered, redelivered>>
  /\ UNCHANGED <<outside, alerts, unrecorded>>

\* sendMessage reports an error; the message may have gone out all the same.
FailSend ==
  /\ dis.pc = "send"
  /\ Fault
  /\ dis' = [dis EXCEPT !.pc = "record", !.result = "failed"]
  /\ Arrives \/ UNCHANGED <<delivered, redelivered>>
  /\ UNCHANGED <<outside, alerts, unrecorded>>

AlertRow == [ref |-> Ref, at |-> dis.at, status |-> dis.result]

Continue == [dis EXCEPT !.pc = "next", !.cur = 0, !.result = "none"]

Record ==
  /\ dis.pc = "record"
  /\ alerts' = Append(alerts, AlertRow)
  /\ dis' = Continue
  /\ UNCHANGED <<outside, faults, telegram>>

Unrecorded == unrecorded' = IF dis.result \in {"sent", "failed"}
                            THEN unrecorded \union {Ref} ELSE unrecorded

\* create() reports an error; the row may have been written all the same.  After a
\* send the error is taken for the send's and a row 'failed' is tried; when that
\* fails too, or there was no send, the row stays pending.
FailRecord ==
  /\ dis.pc = "record"
  /\ Fault
  /\ alerts' = alerts \/ alerts' = Append(alerts, AlertRow)
  /\ dis' = IF dis.result = "sent" THEN [dis EXCEPT !.result = "failed"] ELSE Continue
  /\ Unrecorded
  /\ UNCHANGED <<outside, delivered, redelivered>>

\* The signals are through: the pending rotations are read now.
BeginRotations ==
  /\ dis.pc = "next" /\ dis.kind = "SIGNAL" /\ dis.todo = {}
  /\ dis' = [dis EXCEPT !.kind = "ROTATION", !.todo = Pending("ROTATION")]
  /\ UNCHANGED <<outside, faults, alerts, telegram>>

EndDispatch ==
  /\ dis.pc = "next" /\ dis.kind = "ROTATION" /\ dis.todo = {}
  /\ dis' = Idle
  /\ UNCHANGED <<outside, faults, alerts, telegram>>

\* The worker dies, or the read of the pending rotations fails: the pass is gone.  A
\* message on its way may still arrive.
Crash ==
  /\ Fault
  /\ dis' = Idle
  /\ IF dis.pc = "send" THEN unrecorded' = unrecorded \union {Ref} ELSE Unrecorded
  /\ \/ UNCHANGED <<delivered, redelivered>>
     \/ dis.pc = "send" /\ Arrives
  /\ UNCHANGED <<outside, alerts>>

Progress == \/ StartDispatch \/ Send \/ Record
            \/ \E n \in dis.todo : Decide(n)
            \/ BeginRotations \/ EndDispatch

DispatchStep == \/ Progress
                \/ \E n \in dis.todo : FailDecide(n)
                \/ FailSend \/ FailRecord

-----------------------------------------------------------------------------
(* What the rest of the worker may do meanwhile.                           *)

GrowsBy(rows, S) == \/ rows' = rows
                    \/ \E r \in S : r.at <= now /\ rows' = Append(rows, r)

Outside ==
  /\ now' \in now..MaxTime
  /\ faults' \in faults..MaxFaults
  /\ GrowsBy(signals, SignalRows) /\ GrowsBy(rotations, RotationRows)
  /\ UNCHANGED <<alerts, dis, telegram>>

Next == DispatchStep \/ Crash \/ Outside

Spec == Init /\ [][Next]_vars

-----------------------------------------------------------------------------
(* Properties.                                                             *)

TypeOK ==
  /\ now \in 0..MaxTime /\ faults \in 0..MaxFaults
  /\ signals \in Seq(SignalRows) /\ rotations \in Seq(RotationRows)
  /\ alerts \in Seq([ref : Refs, at : 0..MaxTime, status : Statuses])
  /\ dis \in [pc : {"idle", "next", "send", "record"}, kind : Kinds, at : 0..MaxTime,
              sender : BOOLEAN, todo : SUBSET Nat, cur : Nat,
              result : Statuses \union {"none"}]
  /\ delivered \subseteq Refs /\ redelivered \subseteq delivered
  /\ unrecorded \subseteq Refs

\* A signal or rotation gets one Alert row, whatever interrupts the passes.  Only when
\* create() failed after a send can there be a second one.
OneAlertPerRow ==
  \A i, k \in DOMAIN alerts :
    i # k /\ alerts[i].ref = alerts[k].ref => alerts[i].ref \in unrecorded

\* Nobody is alerted twice to the same thing unless the row that would have said so
\* could not be written, or the worker died before it was.
RedeliveredOnlyUnrecorded == redelivered \subseteq unrecorded

Contacted(i) == alerts[i].ref.kind = "SIGNAL" /\ alerts[i].status \in {"sent", "failed"}

\* Two attempts to alert to the same rule on the same token lie a cooldown apart.
CooldownSpacing ==
  \A i, k \in DOMAIN alerts :
    /\ i < k /\ Contacted(i) /\ Contacted(k)
    /\ alerts[i].ref # alerts[k].ref
    /\ SameTokenAndRule(signals[alerts[i].ref.n], alerts[k].ref.n)
    => alerts[k].at - alerts[i].at >= Cooldown

\* Every signal and every rotation is eventually answered by an Alert row, although
\* calls fail and the worker dies (finitely often).
EveryRowIsAlerted ==
  \A ref \in [kind : Kinds, n : 1..2] :
    ref.n \in Pending(ref.kind) ~> HasAlert(ref)
=============================================================================
