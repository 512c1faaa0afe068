------------------------- MODULE AlertDispatchProofs -------------------------
(***************************************************************************)
(* What the alert dispatcher guarantees for any rows, any cooldown and any *)
(* number of faults.                                                       *)
(*                                                                         *)
(* The argument: what a pass still has to do has no Alert row, because     *)
(* nobody else writes one; what it has in hand has none either, unless it  *)
(* has itself lost track of one; so a message can only be sent again, or a *)
(* row written again, for something that is already known as unrecorded.   *)
(***************************************************************************)
EXTENDS AlertDispatch, SequenceTheorems, TLAPS

AlertRows == [ref : Refs, at : 0..MaxTime, status : Statuses]

-----------------------------------------------------------------------------
(* Types.                                                                  *)

\* A result is there exactly when it is about to be recorded.
ResultKnown == dis.pc = "record" <=> dis.result # "none"

TypeInv == TypeOK /\ ResultKnown

DisType == [pc : {"idle", "next", "send", "record"}, kind : Kinds, at : 0..MaxTime,
            sender : BOOLEAN, todo : SUBSET Nat, cur : Nat,
            result : Statuses \union {"none"}]

LEMMA AppendAlert ==
  ASSUME NEW S, NEW s \in Seq(S), NEW x \in S
  PROVE  /\ Append(s, x) \in Seq(S)
         /\ DOMAIN Append(s, x) = DOMAIN s \union {Len(s) + 1}
         /\ \A i \in DOMAIN s : Append(s, x)[i] = s[i] /\ i # Len(s) + 1 /\ i \in Nat
         /\ Append(s, x)[Len(s) + 1] = x
<1>1. DOMAIN s = 1..Len(s) /\ Len(s) \in Nat
  BY LenProperties
<1>2. /\ Append(s, x) \in Seq(S)
      /\ Len(Append(s, x)) = Len(s) + 1
      /\ \A i \in 1..Len(s) : Append(s, x)[i] = s[i]
      /\ Append(s, x)[Len(s) + 1] = x
  BY AppendProperties
<1>3. DOMAIN Append(s, x) = 1..(Len(s) + 1)
  BY <1>2, LenProperties
<1> QED
  BY <1>1, <1>2, <1>3, SMT

LEMMA AlertRowType == TypeInv /\ dis.pc = "record" => AlertRow \in AlertRows
  BY SMT DEF TypeInv, TypeOK, ResultKnown, AlertRow, AlertRows, Ref, Refs

LEMMA RowsAreIndexed ==
  ASSUME TypeOK, NEW kind \in Kinds
  PROVE  DOMAIN Rows(kind) \subseteq Nat
<1>1. DOMAIN signals \subseteq Nat /\ DOMAIN rotations \subseteq Nat
  <2>1. DOMAIN signals = 1..Len(signals) /\ Len(signals) \in Nat
    BY LenProperties DEF TypeOK
  <2>2. DOMAIN rotations = 1..Len(rotations) /\ Len(rotations) \in Nat
    BY LenProperties DEF TypeOK
  <2> QED BY <2>1, <2>2, SMT
<1> QED BY <1>1 DEF Rows

LEMMA TypeInit == Init => TypeInv
  BY DispatchAssumption, EmptySeq, SMT
     DEF Init, TypeInv, TypeOK, ResultKnown, Idle, Kinds, Statuses, Refs

\* What each step of a pass makes of it.
LEMMA StartStep ==
  ASSUME TypeInv, StartDispatch
  PROVE  /\ dis' \in DisType /\ dis'.pc = "next" /\ dis'.kind = "SIGNAL" /\ dis'.at = now
         /\ dis'.todo = Pending("SIGNAL") /\ dis'.result = "none"
<1> DEFINE f(sender) == [pc |-> "next", kind |-> "SIGNAL", at |-> now, sender |-> sender,
                         todo |-> Pending("SIGNAL"), cur |-> 0, result |-> "none"]
<1>1. PICK sender \in BOOLEAN :
        dis' = [Idle EXCEPT !.pc = "next", !.at = now, !.sender = sender,
                            !.todo = Pending("SIGNAL")]
  BY DEF StartDispatch
<1>2. dis' = f(sender)
  BY <1>1, Zenon DEF Idle
<1>3. now \in 0..MaxTime
  BY DEF TypeInv, TypeOK
<1>4. Pending("SIGNAL") \subseteq Nat
  BY RowsAreIndexed DEF Pending, TypeInv, Kinds
<1>5. f(sender) \in DisType
  BY <1>3, <1>4, SMT DEF DisType, Kinds
<1> QED BY <1>2, <1>5

LEMMA DisIsTyped == TypeInv => dis \in DisType
  BY DEF TypeInv, TypeOK, DisType

LEMMA DecideStep ==
  ASSUME TypeInv, NEW n \in dis.todo, Decide(n)
  PROVE  /\ dis' \in DisType /\ dis.pc = "next"
         /\ dis'.kind = dis.kind /\ dis'.at = dis.at /\ dis'.cur = n
         /\ dis'.todo = dis.todo \ {n}
         /\ \/ dis'.pc = "send" /\ dis'.result = "none"
            \/ /\ dis'.pc = "record"
               /\ dis'.result \in {"skipped_no_token", "skipped_cooldown"}
<1> DEFINE take == [dis EXCEPT !.todo = @ \ {n}, !.cur = n]
           after(pc, result) == [pc |-> pc, kind |-> dis.kind, at |-> dis.at, sender |-> dis.sender,
                                 todo |-> dis.todo \ {n}, cur |-> n, result |-> result]
<1>1. dis \in DisType
  BY DisIsTyped
<1>2. dis.result = "none" /\ dis.pc = "next"
  BY DEF Decide, TypeInv, ResultKnown
<1>3. ASSUME dis' = [take EXCEPT !.pc = "send"] PROVE dis' = after("send", dis.result)
  BY <1>1, <1>3, Zenon DEF DisType
<1>4. ASSUME NEW r, dis' = [take EXCEPT !.pc = "record", !.result = r]
      PROVE  dis' = after("record", r)
  BY <1>1, <1>4, Zenon DEF DisType
<1>5. PICK r \in {"skipped_no_token", "skipped_cooldown"} :
        dis' = [take EXCEPT !.pc = "send"] \/ dis' = [take EXCEPT !.pc = "record", !.result = r]
  BY Zenon DEF Decide
<1>6. dis' = after("send", "none") \/ dis' = after("record", r)
  BY <1>2, <1>3, <1>4, <1>5
<1> QED BY <1>1, <1>2, <1>6, SMT DEF DisType, Statuses

LEMMA FailDecideStep ==
  ASSUME TypeInv, NEW n \in dis.todo, dis' = [dis EXCEPT !.todo = @ \ {n}]
  PROVE  /\ dis' \in DisType /\ dis'.pc = dis.pc /\ dis'.kind = dis.kind /\ dis'.at = dis.at
         /\ dis'.cur = dis.cur /\ dis'.result = dis.result /\ dis'.todo = dis.todo \ {n}
<1>1. dis' = [pc |-> dis.pc, kind |-> dis.kind, at |-> dis.at, sender |-> dis.sender,
              todo |-> dis.todo \ {n}, cur |-> dis.cur, result |-> dis.result]
  BY DisIsTyped, Zenon DEF DisType
<1> QED BY <1>1, DisIsTyped, SMT DEF DisType

LEMMA SentStep ==
  ASSUME TypeInv, NEW r \in {"sent", "failed"}, dis' = [dis EXCEPT !.pc = "record", !.result = r]
  PROVE  /\ dis' \in DisType /\ dis'.pc = "record" /\ dis'.kind = dis.kind /\ dis'.at = dis.at
         /\ dis'.cur = dis.cur /\ dis'.result = r /\ dis'.todo = dis.todo
<1>1. dis' = [pc |-> "record", kind |-> dis.kind, at |-> dis.at, sender |-> dis.sender,
              todo |-> dis.todo, cur |-> dis.cur, result |-> r]
  BY DisIsTyped, Zenon DEF DisType
<1> QED BY <1>1, DisIsTyped, SMT DEF DisType, Statuses

LEMMA FailedStep ==
  ASSUME TypeInv, dis.pc = "record", dis' = [dis EXCEPT !.result = "failed"]
  PROVE  /\ dis' \in DisType /\ dis'.pc = "record" /\ dis'.kind = dis.kind /\ dis'.at = dis.at
         /\ dis'.cur = dis.cur /\ dis'.result = "failed" /\ dis'.todo = dis.todo
<1>1. dis' = [pc |-> dis.pc, kind |-> dis.kind, at |-> dis.at, sender |-> dis.sender,
              todo |-> dis.todo, cur |-> dis.cur, result |-> "failed"]
  BY DisIsTyped, Zenon DEF DisType
<1> QED BY <1>1, DisIsTyped, SMT DEF DisType, Statuses

LEMMA ContinueStep ==
  ASSUME TypeInv, dis' = Continue
  PROVE  /\ dis' \in DisType /\ dis'.pc = "next" /\ dis'.kind = dis.kind /\ dis'.at = dis.at
         /\ dis'.result = "none" /\ dis'.todo = dis.todo
<1>1. dis' = [pc |-> "next", kind |-> dis.kind, at |-> dis.at, sender |-> dis.sender,
              todo |-> dis.todo, cur |-> 0, result |-> "none"]
  BY DisIsTyped, Zenon DEF DisType, Continue
<1> QED BY <1>1, DisIsTyped, SMT DEF DisType, Statuses

LEMMA RotationsStep ==
  ASSUME TypeInv, NEW S \in SUBSET Nat, dis' = [dis EXCEPT !.kind = "ROTATION", !.todo = S]
  PROVE  /\ dis' \in DisType /\ dis'.pc = dis.pc /\ dis'.kind = "ROTATION" /\ dis'.at = dis.at
         /\ dis'.result = dis.result /\ dis'.todo = S
<1>1. dis' = [pc |-> dis.pc, kind |-> "ROTATION", at |-> dis.at, sender |-> dis.sender,
              todo |-> S, cur |-> dis.cur, result |-> dis.result]
  BY DisIsTyped, Zenon DEF DisType
<1> QED BY <1>1, DisIsTyped, SMT DEF DisType, Kinds

LEMMA IdleStep == Idle \in DisType /\ Idle.pc = "idle" /\ Idle.todo = {} /\ Idle.result = "none"
                  /\ Idle.kind = "SIGNAL"
  BY DispatchAssumption, SMT DEF Idle, DisType, Kinds, Statuses

\* What Telegram shows, and what is known to be unrecorded, are always such rows.
LEMMA RefIsTyped == TypeInv => Ref \in Refs
  BY SMT DEF TypeInv, TypeOK, Ref, Refs

LEMMA TypeNext == TypeInv /\ [Next]_vars => TypeInv'
<1> SUFFICES ASSUME TypeInv, [Next]_vars PROVE TypeInv'
  OBVIOUS
<1> USE DispatchAssumption
<1> DEFINE Rest == /\ now \in 0..MaxTime /\ faults \in 0..MaxFaults
                   /\ signals \in Seq(SignalRows) /\ rotations \in Seq(RotationRows)
                   /\ alerts \in Seq(AlertRows)
                   /\ delivered \subseteq Refs /\ redelivered \subseteq delivered
                   /\ unrecorded \subseteq Refs
<1>a. Rest /\ Ref \in Refs
  BY RefIsTyped DEF TypeInv, TypeOK, AlertRows
<1>b. Rest' /\ (dis \in DisType)' /\ ResultKnown' => TypeInv'
  BY DEF TypeInv, TypeOK, DisType, AlertRows
<1>c. Fault => faults' \in 0..MaxFaults
  BY <1>a, SMT DEF Fault
<1>1. CASE StartDispatch
  <2>1. (dis \in DisType)' /\ ResultKnown'
    BY <1>1, StartStep DEF ResultKnown
  <2> QED
    BY <1>1, <1>a, <1>b, <2>1 DEF StartDispatch, outside, telegram
<1>2. ASSUME NEW n \in dis.todo, Decide(n) PROVE TypeInv'
  <2>1. (dis \in DisType)' /\ ResultKnown'
    BY <1>2, DecideStep DEF ResultKnown
  <2> QED BY <1>2, <1>a, <1>b, <2>1 DEF Decide, outside, telegram
<1>3. ASSUME NEW n \in dis.todo, FailDecide(n) PROVE TypeInv'
  <2>1. (dis \in DisType)' /\ ResultKnown'
    BY <1>3, FailDecideStep DEF ResultKnown, TypeInv, FailDecide
  <2> QED BY <1>3, <1>a, <1>b, <1>c, <2>1 DEF FailDecide, outside, telegram
<1>4. CASE Send
  <2>1. (dis \in DisType)' /\ ResultKnown'
    BY <1>4, SentStep DEF ResultKnown, Send
  <2> QED BY <1>4, <1>a, <1>b, <2>1 DEF Send, Arrives, outside
<1>5. CASE FailSend
  <2>1. (dis \in DisType)' /\ ResultKnown'
    BY <1>5, SentStep DEF ResultKnown, FailSend
  <2> QED BY <1>5, <1>a, <1>b, <1>c, <2>1 DEF FailSend, Arrives, outside
<1>6. CASE Record
  <2>1. (alerts \in Seq(AlertRows))'
    BY <1>6, <1>a, AlertRowType, AppendAlert DEF Record
  <2>2. (dis \in DisType)' /\ ResultKnown'
    BY <1>6, ContinueStep DEF Record, ResultKnown
  <2> QED BY <1>6, <1>a, <1>b, <2>1, <2>2 DEF Record, outside, telegram
<1>7. CASE FailRecord
  <2>1. (alerts \in Seq(AlertRows))'
    <3>1. CASE alerts' = alerts
      BY <3>1, <1>a
    <3>2. CASE alerts' = Append(alerts, AlertRow)
      BY <3>2, <1>7, <1>a, AlertRowType, AppendAlert DEF FailRecord
    <3> QED BY <1>7, <3>1, <3>2 DEF FailRecord
  <2>2. (dis \in DisType)' /\ ResultKnown'
    BY <1>7, ContinueStep, FailedStep DEF FailRecord, ResultKnown
  <2> QED BY <1>7, <1>a, <1>b, <1>c, <2>1, <2>2 DEF FailRecord, Unrecorded, outside
<1>8. CASE BeginRotations
  <2>1. Pending("ROTATION") \subseteq Nat
    BY RowsAreIndexed DEF Pending, TypeInv, Kinds
  <2>2. (dis \in DisType)' /\ ResultKnown'
    BY <1>8, <2>1, RotationsStep DEF BeginRotations, ResultKnown, TypeInv
  <2> QED BY <1>8, <1>a, <1>b, <2>2 DEF BeginRotations, outside, telegram
<1>9. CASE EndDispatch
  <2>1. (dis \in DisType)' /\ ResultKnown'
    BY <1>9, IdleStep DEF EndDispatch, ResultKnown
  <2> QED BY <1>9, <1>a, <1>b, <2>1 DEF EndDispatch, outside, telegram
<1>10. CASE Crash
  <2>1. (dis \in DisType)' /\ ResultKnown'
    BY <1>10, IdleStep DEF Crash, ResultKnown
  <2> QED BY <1>10, <1>a, <1>b, <1>c, <2>1 DEF Crash, Arrives, Unrecorded, outside
<1>11. CASE Outside
  <2>1. (signals \in Seq(SignalRows) /\ rotations \in Seq(RotationRows))'
    <3>1. ASSUME NEW S, NEW s \in Seq(S), NEW t, t = s \/ \E x \in S : x.at <= now /\ t = Append(s, x)
          PROVE  t \in Seq(S)
      BY <3>1, AppendAlert
    <3>2. (signals \in Seq(SignalRows))'
      BY <1>11, <1>a, <3>1 DEF Outside, GrowsBy
    <3>3. (rotations \in Seq(RotationRows))'
      BY <1>11, <1>a, <3>1 DEF Outside, GrowsBy
    <3> QED BY <3>2, <3>3
  <2>2. now' \in 0..MaxTime /\ faults' \in 0..MaxFaults
    BY <1>11, <1>a, SMT DEF Outside
  <2>3. (dis \in DisType)' /\ ResultKnown'
    BY <1>11, DisIsTyped DEF Outside, TypeInv, ResultKnown
  <2> QED BY <1>11, <1>a, <1>b, <2>1, <2>2, <2>3 DEF Outside, telegram
<1>12. CASE UNCHANGED vars
  <2>1. (dis \in DisType)' /\ ResultKnown'
    BY <1>12, DisIsTyped DEF vars, TypeInv, ResultKnown
  <2> QED BY <1>12, <1>a, <1>b, <2>1 DEF vars, outside, telegram
<1> QED
  BY <1>1, <1>2, <1>3, <1>4, <1>5, <1>6, <1>7, <1>8, <1>9, <1>10, <1>11, <1>12
     DEF Next, DispatchStep, Progress

\* The dispatcher's variables keep their types, for any rows and any bounds.
THEOREM TypeCorrect == Spec => []TypeOK
<1>1. TypeInv => TypeOK
  BY DEF TypeInv
<1> QED BY TypeInit, TypeNext, <1>1, PTL DEF Spec

-----------------------------------------------------------------------------
(* Delivery.                                                               *)

\* What a pass has still to do has no Alert row.
TodoPending == \A n \in dis.todo : ~HasAlert([kind |-> dis.kind, n |-> n])

\* What it has in hand is not also still to do, and has no Alert row either, or is known
\* to be unrecorded.
HandPending ==
  /\ dis.pc \in {"send", "record"} => dis.cur \notin dis.todo
  /\ dis.pc = "send" => ~HasAlert(Ref)
  /\ dis.pc = "record" /\ HasAlert(Ref) => Ref \in unrecorded

\* What was delivered has an Alert row, or is unrecorded, or is about to be recorded.
Accounted ==
  \A r \in delivered :
    \/ HasAlert(r) \/ r \in unrecorded
    \/ dis.pc = "record" /\ dis.result \in {"sent", "failed"} /\ r = Ref

DeliveryInv == /\ TypeInv /\ TodoPending /\ HandPending /\ Accounted
               /\ OneAlertPerRow /\ RedeliveredOnlyUnrecorded

LEMMA SameAlerts ==
  ASSUME alerts' = alerts
  PROVE  \A ref : HasAlert(ref)' <=> HasAlert(ref)
  BY DEF HasAlert

LEMMA NewAlert ==
  ASSUME TypeInv, dis.pc = "record", alerts' = Append(alerts, AlertRow)
  PROVE  \A ref : HasAlert(ref)' <=> HasAlert(ref) \/ ref = Ref
<1>1. alerts \in Seq(AlertRows) /\ AlertRow \in AlertRows /\ AlertRow.ref = Ref
  BY AlertRowType DEF TypeInv, TypeOK, AlertRows, AlertRow
<1>2. /\ DOMAIN alerts' = DOMAIN alerts \union {Len(alerts) + 1}
      /\ \A i \in DOMAIN alerts : alerts'[i] = alerts[i] /\ i # Len(alerts) + 1
      /\ alerts'[Len(alerts) + 1] = AlertRow
  BY <1>1, AppendAlert
<1> QED BY <1>1, <1>2 DEF HasAlert

\* A row that is written again was in hand without one, or is known as unrecorded.
LEMMA OneMoreAlert ==
  ASSUME TypeInv, dis.pc = "record", HandPending, OneAlertPerRow,
         alerts' = Append(alerts, AlertRow), unrecorded \subseteq unrecorded'
  PROVE  OneAlertPerRow'
<1>1. alerts \in Seq(AlertRows) /\ AlertRow \in AlertRows /\ AlertRow.ref = Ref
  BY AlertRowType DEF TypeInv, TypeOK, AlertRows, AlertRow
<1>2. /\ DOMAIN alerts' = DOMAIN alerts \union {Len(alerts) + 1}
      /\ \A i \in DOMAIN alerts : alerts'[i] = alerts[i] /\ i # Len(alerts) + 1
      /\ alerts'[Len(alerts) + 1] = AlertRow
  BY <1>1, AppendAlert
<1>3. ASSUME NEW i \in DOMAIN alerts, alerts[i].ref = Ref PROVE Ref \in unrecorded'
  BY <1>3 DEF HandPending, HasAlert
<1>4. ASSUME NEW i \in DOMAIN alerts', NEW k \in DOMAIN alerts', i # k,
             alerts'[i].ref = alerts'[k].ref
      PROVE  alerts'[i].ref \in unrecorded'
  <2>1. CASE i \in DOMAIN alerts /\ k \in DOMAIN alerts
    BY <1>2, <1>4, <2>1 DEF OneAlertPerRow
  <2>2. CASE i \in DOMAIN alerts /\ k = Len(alerts) + 1
    BY <1>1, <1>2, <1>3, <1>4, <2>2
  <2>3. CASE i = Len(alerts) + 1 /\ k \in DOMAIN alerts
    BY <1>1, <1>2, <1>3, <1>4, <2>3
  <2> QED BY <1>2, <1>4, <2>1, <2>2, <2>3
<1> QED BY <1>4 DEF OneAlertPerRow

LEMMA DeliveryInit == Init => DeliveryInv
<1> SUFFICES ASSUME Init PROVE DeliveryInv
  OBVIOUS
<1>1. DOMAIN alerts = {}
  BY EmptySeq, SMT DEF Init
<1> QED
  BY <1>1, TypeInit, IdleStep DEF Init, DeliveryInv, TodoPending, HandPending, Accounted,
     OneAlertPerRow, RedeliveredOnlyUnrecorded

LEMMA DeliveryNext == DeliveryInv /\ [Next]_vars => DeliveryInv'
<1> SUFFICES ASSUME DeliveryInv, [Next]_vars PROVE DeliveryInv'
  OBVIOUS
<1>a. TypeInv /\ TypeInv'
  BY TypeNext DEF DeliveryInv
<1>b. TodoPending /\ HandPending /\ Accounted /\ OneAlertPerRow /\ RedeliveredOnlyUnrecorded
  BY DEF DeliveryInv
<1>s. ASSUME alerts' = alerts, unrecorded' = unrecorded
      PROVE  OneAlertPerRow'
  BY <1>b, <1>s DEF OneAlertPerRow
\* A step that delivers nothing and writes no row.
<1>q. ASSUME alerts' = alerts, UNCHANGED telegram, TodoPending', HandPending',
             dis.pc = "record" => dis' = dis
      PROVE  DeliveryInv'
  <2>1. Accounted'
    BY <1>b, <1>q, SameAlerts DEF Accounted, telegram, Ref
  <2>2. RedeliveredOnlyUnrecorded'
    BY <1>b, <1>q DEF RedeliveredOnlyUnrecorded, telegram
  <2> QED BY <1>a, <1>q, <1>s, <2>1, <2>2 DEF DeliveryInv, telegram
<1>1. CASE StartDispatch
  <2>1. TodoPending' /\ HandPending'
    BY <1>1, <1>a, StartStep, SameAlerts
       DEF StartDispatch, TodoPending, HandPending, Pending
  <2> QED BY <1>1, <1>q, <2>1 DEF StartDispatch
<1>2. ASSUME NEW n \in dis.todo, Decide(n) PROVE DeliveryInv'
  <2>1. alerts' = alerts /\ UNCHANGED telegram
    BY <1>2 DEF Decide
  <2>2. Ref' = [kind |-> dis.kind, n |-> n]
    BY <1>2, <1>a, DecideStep DEF Ref
  <2>3. ~HasAlert(Ref')
    BY <1>b, <2>2 DEF TodoPending
  <2>4. TodoPending' /\ HandPending'
    BY <1>2, <1>a, <1>b, <2>1, <2>3, DecideStep, SameAlerts DEF TodoPending, HandPending
  <2> QED BY <1>2, <1>a, <1>q, <2>1, <2>4, DecideStep
<1>3. ASSUME NEW n \in dis.todo, FailDecide(n) PROVE DeliveryInv'
  <2>1. TodoPending' /\ HandPending'
    BY <1>3, <1>a, <1>b, FailDecideStep, SameAlerts DEF FailDecide, TodoPending, HandPending
  <2> QED BY <1>3, <1>q, <2>1 DEF FailDecide
<1>h. ASSUME dis.pc = "send", alerts' = alerts, unrecorded' = unrecorded,
             NEW r \in {"sent", "failed"}, dis' = [dis EXCEPT !.pc = "record", !.result = r],
             Arrives \/ UNCHANGED <<delivered, redelivered>>
      PROVE  DeliveryInv'
  <2>1. /\ dis'.pc = "record" /\ dis'.result \in {"sent", "failed"}
        /\ dis'.todo = dis.todo /\ dis'.kind = dis.kind /\ dis'.cur = dis.cur /\ Ref' = Ref
    BY <1>a, <1>h, SentStep DEF Ref
  <2>2. TodoPending' /\ HandPending'
    BY <1>b, <1>h, <2>1, SameAlerts DEF TodoPending, HandPending
  <2>3. Accounted'
    BY <1>b, <1>h, <2>1, SameAlerts DEF Accounted, Arrives
  <2>4. Ref \in delivered => Ref \in unrecorded
    BY <1>b, <1>h DEF Accounted, HandPending
  <2>5. RedeliveredOnlyUnrecorded'
    BY <1>b, <1>h, <2>4 DEF RedeliveredOnlyUnrecorded, Arrives
  <2> QED BY <1>a, <1>h, <1>s, <2>2, <2>3, <2>5 DEF DeliveryInv
<1>4. CASE Send
  BY <1>4, <1>h DEF Send
<1>5. CASE FailSend
  BY <1>5, <1>h DEF FailSend
<1>6. CASE Record
  <2>1. dis.pc = "record" /\ alerts' = Append(alerts, AlertRow) /\ UNCHANGED telegram
    BY <1>6 DEF Record
  <2>2. /\ dis'.pc = "next" /\ dis'.todo = dis.todo /\ dis'.kind = dis.kind
    BY <1>6, <1>a, ContinueStep DEF Record
  <2>3. TodoPending' /\ HandPending'
    BY <1>a, <1>b, <2>1, <2>2, NewAlert DEF TodoPending, HandPending, Ref
  <2>4. Accounted'
    BY <1>a, <1>b, <2>1, <2>2, NewAlert DEF Accounted, telegram
  <2>5. OneAlertPerRow'
    BY <1>a, <1>b, <2>1, OneMoreAlert DEF telegram
  <2>6. RedeliveredOnlyUnrecorded'
    BY <1>b, <2>1 DEF RedeliveredOnlyUnrecorded, telegram
  <2> QED BY <1>a, <2>3, <2>4, <2>5, <2>6 DEF DeliveryInv
<1>7. CASE FailRecord
  <2>1. /\ dis.pc = "record" /\ delivered' = delivered /\ redelivered' = redelivered
        /\ alerts' = alerts \/ alerts' = Append(alerts, AlertRow)
    BY <1>7 DEF FailRecord
  <2>2. /\ unrecorded \subseteq unrecorded'
        /\ dis.result \in {"sent", "failed"} => Ref \in unrecorded'
    BY <1>7 DEF FailRecord, Unrecorded
  <2>3. /\ dis'.todo = dis.todo /\ dis'.kind = dis.kind
        /\ dis'.pc = "next" \/ (dis'.pc = "record" /\ dis.result = "sent" /\ Ref' = Ref)
    BY <1>7, <1>a, ContinueStep, FailedStep DEF FailRecord, Ref
  <2>4. \A ref : /\ HasAlert(ref)' => HasAlert(ref) \/ ref = Ref
                 /\ HasAlert(ref) => HasAlert(ref)'
    BY <1>a, <2>1, NewAlert, SameAlerts
  <2>5. TodoPending'
    BY <1>b, <2>1, <2>3, <2>4 DEF TodoPending, HandPending, Ref
  <2>6. HandPending'
    <3>1. dis'.pc = "record" => Ref' \in unrecorded' /\ dis'.cur \notin dis'.todo
      BY <1>7, <1>a, <1>b, <2>1, <2>2, <2>3, FailedStep DEF FailRecord, HandPending
    <3> QED BY <2>3, <3>1 DEF HandPending
  <2>7. Accounted'
    BY <1>b, <2>1, <2>2, <2>4 DEF Accounted
  <2>8. OneAlertPerRow'
    <3>1. CASE alerts' = alerts
      BY <1>b, <2>2, <3>1 DEF OneAlertPerRow
    <3>2. CASE alerts' = Append(alerts, AlertRow)
      BY <1>a, <1>b, <2>1, <2>2, <3>2, OneMoreAlert
    <3> QED BY <2>1, <3>1, <3>2
  <2>9. RedeliveredOnlyUnrecorded'
    BY <1>b, <2>1, <2>2 DEF RedeliveredOnlyUnrecorded
  <2> QED BY <1>a, <2>5, <2>6, <2>7, <2>8, <2>9 DEF DeliveryInv
<1>8. CASE BeginRotations
  <2>1. dis'.todo = Pending("ROTATION") /\ dis'.kind = "ROTATION" /\ dis'.pc = "next"
    <3>1. Pending("ROTATION") \subseteq Nat
      BY <1>a, RowsAreIndexed DEF Pending, TypeInv, Kinds
    <3> QED BY <1>8, <1>a, <3>1, RotationsStep DEF BeginRotations
  <2>2. TodoPending' /\ HandPending'
    BY <1>8, <2>1, SameAlerts DEF BeginRotations, TodoPending, HandPending, Pending
  <2> QED BY <1>8, <1>q, <2>2 DEF BeginRotations
<1>9. CASE EndDispatch
  <2>1. TodoPending' /\ HandPending'
    BY <1>9, IdleStep DEF EndDispatch, TodoPending, HandPending
  <2> QED BY <1>9, <1>q, <2>1 DEF EndDispatch
<1>10. CASE Crash
  <2>1. TodoPending' /\ HandPending' /\ alerts' = alerts
    BY <1>10, IdleStep DEF Crash, TodoPending, HandPending
  <2>2. /\ unrecorded \subseteq unrecorded'
        /\ dis.pc = "send" => Ref \in unrecorded'
        /\ dis.pc = "record" /\ dis.result \in {"sent", "failed"} => Ref \in unrecorded'
    BY <1>10 DEF Crash, Unrecorded
  <2>3. /\ delivered' \subseteq delivered \union (IF dis.pc = "send" THEN {Ref} ELSE {})
        /\ redelivered' \subseteq redelivered \union (IF dis.pc = "send" THEN {Ref} ELSE {})
    BY <1>10 DEF Crash, Arrives
  <2>4. Accounted'
    BY <1>b, <2>1, <2>2, <2>3, SameAlerts DEF Accounted
  <2>5. RedeliveredOnlyUnrecorded'
    BY <1>b, <2>2, <2>3 DEF RedeliveredOnlyUnrecorded
  <2>6. OneAlertPerRow'
    BY <1>b, <2>1, <2>2 DEF OneAlertPerRow
  <2> QED BY <1>a, <2>1, <2>4, <2>5, <2>6 DEF DeliveryInv
<1>11. CASE Outside
  <2>1. TodoPending' /\ HandPending'
    BY <1>11, <1>b, SameAlerts DEF Outside, TodoPending, HandPending, Ref, telegram
  <2> QED BY <1>11, <1>q, <2>1 DEF Outside
<1>12. CASE UNCHANGED vars
  <2>1. TodoPending' /\ HandPending'
    BY <1>12, <1>b, SameAlerts DEF vars, TodoPending, HandPending, Ref, telegram
  <2> QED BY <1>12, <1>q, <2>1 DEF vars
<1> QED
  BY <1>1, <1>2, <1>3, <1>4, <1>5, <1>6, <1>7, <1>8, <1>9, <1>10, <1>11, <1>12
     DEF Next, DispatchStep, Progress

\* Every signal and rotation has at most one Alert row unless it is known that one could
\* not be written, for any rows, cooldown and number of faults.
THEOREM RowsAreAlertedOnce == Spec => []OneAlertPerRow
<1>1. DeliveryInv => OneAlertPerRow
  BY DEF DeliveryInv
<1> QED BY DeliveryInit, DeliveryNext, <1>1, PTL DEF Spec

\* Telegram never shows anything twice unless the row that would have said so was lost.
THEOREM DeliveredAgainOnlyUnrecorded == Spec => []RedeliveredOnlyUnrecorded
<1>1. DeliveryInv => RedeliveredOnlyUnrecorded
  BY DEF DeliveryInv
<1> QED BY DeliveryInit, DeliveryNext, <1>1, PTL DEF Spec

-----------------------------------------------------------------------------
(* The cooldown.                                                           *)

\* The signals of one rule on one token are all CRITICAL or none of them is: what the
\* rules report (SignalDetection), and what keeps a rule from escalating past its cooldown.
EvenlyCritical ==
  \A m, n \in DOMAIN signals : SameTokenAndRule(signals[m], n) =>
    (signals[m].severity = "CRITICAL" <=> signals[n].severity = "CRITICAL")

\* The signals that alerts and the pass speak of exist.
RefsExist ==
  /\ \A i \in DOMAIN alerts : alerts[i].ref.kind = "SIGNAL" => alerts[i].ref.n \in DOMAIN signals
  /\ dis.kind = "SIGNAL" =>
       /\ dis.todo \subseteq DOMAIN signals
       /\ dis.pc \in {"send", "record"} => dis.cur \in DOMAIN signals

\* The signal in hand has been decided to be sent.
Cleared == /\ dis.kind = "SIGNAL"
           /\ dis.pc = "send" \/ (dis.pc = "record" /\ dis.result \in {"sent", "failed"})

\* Then every alert to its token and rule is a cooldown old, save its own.
HandSpaced ==
  Cleared => \A i \in AlertsFor(signals[dis.cur]) :
               alerts[i].ref = Ref \/ dis.at - alerts[i].at >= Cooldown

CooldownInv == TypeInv /\ RefsExist /\ HandSpaced /\ CooldownSpacing

\* Nothing that happens deletes or changes a signal.
LEMMA SignalsRemain ==
  ASSUME TypeInv, [Next]_vars
  PROVE  \A n \in DOMAIN signals : n \in DOMAIN signals' /\ signals'[n] = signals[n]
<1>1. CASE Outside
  <2>1. ASSUME NEW r \in SignalRows, signals' = Append(signals, r)
        PROVE  \A n \in DOMAIN signals : n \in DOMAIN signals' /\ signals'[n] = signals[n]
    BY <2>1, AppendAlert DEF TypeInv, TypeOK
  <2> QED BY <1>1, <2>1 DEF Outside, GrowsBy
<1>2. CASE DispatchStep \/ Crash \/ UNCHANGED vars
  <2>1. signals' = signals
    BY <1>2 DEF DispatchStep, Progress, StartDispatch, Send, Record, Decide, BeginRotations,
       EndDispatch, FailDecide, FailSend, FailRecord, Crash, vars, outside
  <2> QED BY <2>1
<1> QED BY <1>1, <1>2 DEF Next

\* While no row is written, the alerts to a signal's rule stay the same.
LEMMA SameAlertsFor ==
  ASSUME RefsExist, NEW n \in DOMAIN signals, alerts' = alerts,
         \A m \in DOMAIN signals : m \in DOMAIN signals' /\ signals'[m] = signals[m]
  PROVE  AlertsFor(signals[n])' = AlertsFor(signals[n])
<1>1. \A i \in DOMAIN alerts : alerts[i].ref.kind = "SIGNAL" =>
        alerts[i].ref.n \in DOMAIN signals /\ signals'[alerts[i].ref.n] = signals[alerts[i].ref.n]
  BY DEF RefsExist
<1>2. signals'[n] = signals[n]
  OBVIOUS
<1> QED BY <1>1, <1>2 DEF AlertsFor, SameTokenAndRule

\* A signal that passes the cooldown is a cooldown away from every alert to its rule.
LEMMA ClearedIsSpaced ==
  ASSUME TypeInv, RefsExist, EvenlyCritical, NEW n \in DOMAIN signals, NEW at \in 0..MaxTime,
         TRUE \in CooldownOk(signals[n], at), NEW i \in AlertsFor(signals[n])
  PROVE  at - alerts[i].at >= Cooldown
<1>1. PICK l \in LatestAlerts(signals[n]) : ShouldSend(signals[n], l, at)
  BY DEF CooldownOk
<1>2. l \in AlertsFor(signals[n]) /\ alerts[i].at <= alerts[l].at
  BY <1>1 DEF LatestAlerts
<1>3. /\ l \in DOMAIN alerts /\ alerts[l].ref.n \in DOMAIN signals
      /\ SameTokenAndRule(signals[n], alerts[l].ref.n)
  BY <1>2 DEF AlertsFor, RefsExist
<1>4. signals[n].severity = "CRITICAL" => signals[alerts[l].ref.n].severity = "CRITICAL"
  BY <1>3 DEF EvenlyCritical
<1>5. at - alerts[l].at >= Cooldown
  BY <1>1, <1>4 DEF ShouldSend
<1>6. i \in DOMAIN alerts /\ alerts[i].at \in Int /\ alerts[l].at \in Int
  <2>1. alerts \in Seq(AlertRows)
    BY DEF TypeInv, TypeOK, AlertRows
  <2>2. \A k \in DOMAIN alerts : alerts[k] \in AlertRows
    BY <2>1, ElementOfSeq, LenProperties
  <2> QED BY <1>3, <2>2, SMT DEF AlertsFor, AlertRows
<1> QED BY <1>2, <1>5, <1>6, DispatchAssumption, SMT

\* The row of the signal in hand keeps the spacing; a row of anything else has no part in it.
LEMMA RecordedIsSpaced ==
  ASSUME TypeInv, RefsExist, HandSpaced, CooldownSpacing, dis.pc = "record",
         alerts' = Append(alerts, AlertRow), signals' = signals
  PROVE  /\ CooldownSpacing'
         /\ \A i \in DOMAIN alerts' : alerts'[i].ref.kind = "SIGNAL" =>
              alerts'[i].ref.n \in DOMAIN signals'
         /\ \A s : \A i \in AlertsFor(s)' :
              \/ i \in AlertsFor(s) /\ alerts'[i] = alerts[i]
              \/ alerts'[i].ref = Ref
<1>1. /\ alerts \in Seq(AlertRows) /\ AlertRow \in AlertRows
      /\ AlertRow.ref = Ref /\ AlertRow.at = dis.at /\ AlertRow.status = dis.result
      /\ Ref.kind = dis.kind /\ Ref.n = dis.cur
  BY AlertRowType DEF TypeInv, TypeOK, AlertRows, AlertRow, Ref
<1>2. /\ DOMAIN alerts' = DOMAIN alerts \union {Len(alerts) + 1}
      /\ \A i \in DOMAIN alerts : alerts'[i] = alerts[i] /\ i # Len(alerts) + 1
      /\ alerts'[Len(alerts) + 1] = AlertRow
  BY <1>1, AppendAlert
<1>3. DOMAIN alerts = 1..Len(alerts) /\ Len(alerts) \in Nat
  BY <1>1, LenProperties
<1>4. ASSUME NEW i \in DOMAIN alerts', NEW k \in DOMAIN alerts', i < k,
             Contacted(i)', Contacted(k)', alerts'[i].ref # alerts'[k].ref,
             SameTokenAndRule(signals[alerts'[i].ref.n], alerts'[k].ref.n)
      PROVE  alerts'[k].at - alerts'[i].at >= Cooldown
  <2>1. i \in DOMAIN alerts
    BY <1>2, <1>3, <1>4, SMT
  <2>2. CASE k \in DOMAIN alerts
    BY <1>2, <1>4, <2>1, <2>2 DEF CooldownSpacing, Contacted
  <2>3. CASE k = Len(alerts) + 1
    <3>1. Cleared /\ alerts'[k].at = dis.at /\ alerts'[k].ref = Ref
      BY <1>1, <1>2, <1>4, <2>3 DEF Contacted, Cleared
    <3>2. i \in AlertsFor(signals[dis.cur])
      BY <1>1, <1>2, <1>4, <2>1, <3>1 DEF AlertsFor, Contacted, SameTokenAndRule
    <3> QED BY <1>2, <1>4, <2>1, <3>1, <3>2 DEF HandSpaced
  <2> QED BY <1>2, <2>2, <2>3
<1>5. CooldownSpacing'
  BY <1>4 DEF CooldownSpacing, SameTokenAndRule
<1>6. \A i \in DOMAIN alerts' : alerts'[i].ref.kind = "SIGNAL" => alerts'[i].ref.n \in DOMAIN signals
  BY <1>1, <1>2 DEF RefsExist
<1>7. \A s : \A i \in AlertsFor(s)' :
        \/ i \in AlertsFor(s) /\ alerts'[i] = alerts[i]
        \/ alerts'[i].ref = Ref
  BY <1>1, <1>2 DEF AlertsFor, SameTokenAndRule
<1> QED BY <1>5, <1>6, <1>7

LEMMA CooldownInit == Init => CooldownInv
<1> SUFFICES ASSUME Init PROVE CooldownInv
  OBVIOUS
<1>1. DOMAIN alerts = {}
  BY EmptySeq, SMT DEF Init
<1> QED
  BY <1>1, TypeInit, IdleStep
     DEF Init, CooldownInv, RefsExist, HandSpaced, Cleared, CooldownSpacing

LEMMA CooldownNext == CooldownInv /\ EvenlyCritical /\ [Next]_vars => CooldownInv'
<1> SUFFICES ASSUME CooldownInv, EvenlyCritical, [Next]_vars PROVE CooldownInv'
  OBVIOUS
<1>a. TypeInv /\ TypeInv' /\ RefsExist /\ HandSpaced /\ CooldownSpacing
  BY TypeNext DEF CooldownInv
<1>b. \A n \in DOMAIN signals : n \in DOMAIN signals' /\ signals'[n] = signals[n]
  BY <1>a, SignalsRemain
\* A step that writes no row, and keeps what it has in hand.
<1>q. ASSUME alerts' = alerts,
             dis'.kind = "SIGNAL" => dis'.todo \subseteq DOMAIN signals,
             dis'.kind = "SIGNAL" /\ dis'.pc \in {"send", "record"} => dis'.cur \in DOMAIN signals,
             Cleared' => \/ /\ Cleared /\ dis'.cur = dis.cur
                            /\ dis'.kind = dis.kind /\ dis'.at = dis.at
                         \/ TRUE \in CooldownOk(signals[dis'.cur], dis'.at)
      PROVE  CooldownInv'
  <2>1. RefsExist'
    BY <1>a, <1>b, <1>q DEF RefsExist
  <2>2. CooldownSpacing'
    BY <1>a, <1>b, <1>q DEF CooldownSpacing, Contacted, SameTokenAndRule, RefsExist
  <2>3. ASSUME Cleared', NEW n, n = dis'.cur, NEW i \in AlertsFor(signals[n])'
        PROVE  alerts'[i].ref = Ref' \/ dis'.at - alerts'[i].at >= Cooldown
    <3>1. n \in DOMAIN signals
      BY <1>q, <2>3 DEF Cleared
    <3>2. i \in AlertsFor(signals[n])
      BY <1>a, <1>b, <1>q, <2>3, <3>1, SameAlertsFor
    <3>3. CASE Cleared /\ dis'.cur = dis.cur /\ dis'.kind = dis.kind /\ dis'.at = dis.at
      BY <1>a, <1>q, <2>3, <3>2, <3>3 DEF HandSpaced, Ref
    <3>4. CASE TRUE \in CooldownOk(signals[dis'.cur], dis'.at)
      <4>1. PICK at \in 0..MaxTime : at = dis'.at
        BY <1>a DEF TypeInv, TypeOK
      <4> QED BY <1>a, <1>q, <2>3, <3>1, <3>2, <3>4, <4>1, ClearedIsSpaced
    <3> QED BY <1>q, <2>3, <3>3, <3>4
  <2>4. HandSpaced'
    BY <2>3 DEF HandSpaced
  <2> QED BY <1>a, <2>1, <2>2, <2>4 DEF CooldownInv
<1>1. CASE StartDispatch
  BY <1>1, <1>a, <1>q, StartStep DEF StartDispatch, Pending, Rows, Cleared
<1>2. ASSUME NEW n \in dis.todo, Decide(n) PROVE CooldownInv'
  <2>1. /\ alerts' = alerts /\ dis'.kind = dis.kind /\ dis'.at = dis.at /\ dis'.cur = n
        /\ dis'.todo = dis.todo \ {n}
    BY <1>2, <1>a, DecideStep DEF Decide
  <2>2. Cleared' => TRUE \in CooldownOk(signals[n], dis.at)
    <3> SUFFICES ASSUME dis.kind = "SIGNAL", Cleared' PROVE TRUE \in CooldownOk(signals[n], dis.at)
      BY <2>1 DEF Cleared
    <3>1. PICK ok \in CooldownOk(signals[n], dis.at) :
            ~ok => \E r : dis' = [[dis EXCEPT !.todo = @ \ {n}, !.cur = n]
                                    EXCEPT !.pc = "record", !.result = r]
      BY <1>2, Zenon DEF Decide
    <3>2. ASSUME ~ok PROVE FALSE
      <4>1. dis'.pc = "record"
        <5>1. PICK r : dis' = [[dis EXCEPT !.todo = @ \ {n}, !.cur = n]
                                EXCEPT !.pc = "record", !.result = r]
          BY <3>1, <3>2
        <5>2. dis \in DisType
          BY <1>a, DisIsTyped
        <5> QED BY <5>1, <5>2, Zenon DEF DisType
      <4> QED BY <1>2, <1>a, <4>1, DecideStep DEF Cleared
    <3>3. ok \in BOOLEAN
      BY <3>1 DEF CooldownOk, ShouldSend
    <3> QED BY <3>1, <3>2, <3>3
  <2> QED BY <1>a, <1>2, <1>q, <2>1, <2>2 DEF RefsExist, Decide
<1>3. ASSUME NEW n \in dis.todo, FailDecide(n) PROVE CooldownInv'
  BY <1>3, <1>a, <1>q, FailDecideStep DEF FailDecide, RefsExist, Cleared
<1>h. ASSUME dis.pc = "send", alerts' = alerts, NEW r \in {"sent", "failed"},
             dis' = [dis EXCEPT !.pc = "record", !.result = r]
      PROVE  CooldownInv'
  BY <1>a, <1>h, <1>q, SentStep DEF RefsExist, Cleared
<1>4. CASE Send \/ FailSend
  BY <1>4, <1>h DEF Send, FailSend
<1>w. ASSUME dis.pc = "record", alerts' = Append(alerts, AlertRow), signals' = signals,
             dis'.kind = dis.kind, dis'.todo = dis.todo,
             \/ dis'.pc = "next"
             \/ /\ dis.result = "sent" /\ dis'.cur = dis.cur /\ dis'.at = dis.at
                /\ dis'.pc = "record"
      PROVE  CooldownInv'
  <2>1. CooldownSpacing' /\ RefsExist'
    BY <1>a, <1>w, RecordedIsSpaced DEF RefsExist
  <2>2. HandSpaced'
    <3> SUFFICES ASSUME Cleared', NEW n, n = dis'.cur, NEW i \in AlertsFor(signals[n])'
                 PROVE  alerts'[i].ref = Ref' \/ dis'.at - alerts'[i].at >= Cooldown
      BY DEF HandSpaced
    <3>1. Cleared /\ dis'.cur = dis.cur /\ dis'.at = dis.at /\ Ref' = Ref
      BY <1>w DEF Cleared, Ref
    <3>2. PICK s : s = signals[n]
      OBVIOUS
    <3>3. i \in AlertsFor(s)'
      BY <1>w, <3>2
    <3>4. (i \in AlertsFor(s) /\ alerts'[i] = alerts[i]) \/ alerts'[i].ref = Ref
      BY <1>a, <1>w, <3>3, RecordedIsSpaced
    <3> QED BY <1>a, <3>1, <3>2, <3>4 DEF HandSpaced
  <2> QED BY <1>a, <2>1, <2>2 DEF CooldownInv
<1>5. CASE Record
  BY <1>5, <1>a, <1>w, ContinueStep DEF Record, outside
<1>6. CASE FailRecord
  <2>1. CASE dis.result = "sent"
    <3>1. /\ dis.pc = "record" /\ dis'.pc = "record" /\ dis'.kind = dis.kind
          /\ dis'.cur = dis.cur /\ dis'.at = dis.at /\ dis'.todo = dis.todo /\ signals' = signals
          /\ alerts' = alerts \/ alerts' = Append(alerts, AlertRow)
      BY <1>6, <1>a, <2>1, FailedStep DEF FailRecord, outside
    <3>2. CASE alerts' = alerts
      BY <1>a, <1>q, <2>1, <3>1, <3>2 DEF Cleared, RefsExist
    <3>3. CASE alerts' = Append(alerts, AlertRow)
      BY <1>w, <2>1, <3>1, <3>3
    <3> QED BY <3>1, <3>2, <3>3
  <2>2. CASE dis.result # "sent"
    <3>1. /\ dis.pc = "record" /\ dis'.pc = "next" /\ dis'.kind = dis.kind
          /\ dis'.todo = dis.todo /\ signals' = signals
          /\ alerts' = alerts \/ alerts' = Append(alerts, AlertRow)
      BY <1>6, <1>a, <2>2, ContinueStep DEF FailRecord, outside
    <3>2. CASE alerts' = alerts
      BY <1>a, <1>q, <3>1, <3>2 DEF Cleared, RefsExist
    <3>3. CASE alerts' = Append(alerts, AlertRow)
      BY <1>w, <3>1, <3>3
    <3> QED BY <3>1, <3>2, <3>3
  <2> QED BY <2>1, <2>2
<1>7. CASE BeginRotations
  <2>1. Pending("ROTATION") \subseteq Nat
    BY <1>a, RowsAreIndexed DEF Pending, TypeInv, Kinds
  <2>2. dis'.kind = "ROTATION" /\ alerts' = alerts
    BY <1>7, <1>a, <2>1, RotationsStep DEF BeginRotations
  <2> QED BY <1>q, <2>2 DEF Cleared
<1>8. CASE EndDispatch \/ Crash
  BY <1>8, <1>q, IdleStep DEF EndDispatch, Crash, Cleared
<1>9. CASE Outside \/ UNCHANGED vars
  BY <1>9, <1>a, <1>q DEF Outside, vars, RefsExist, Cleared
<1> QED
  BY <1>1, <1>2, <1>3, <1>4, <1>5, <1>6, <1>7, <1>8, <1>9 DEF Next, DispatchStep, Progress

\* Where the signals of a rule on a token do not differ in being CRITICAL, two attempts to
\* alert to them lie a cooldown apart, for any rows, cooldown and number of faults.
THEOREM CooldownHolds == Spec /\ []EvenlyCritical => []CooldownSpacing
<1>1. CooldownInv => CooldownSpacing
  BY DEF CooldownInv
<1> QED BY CooldownInit, CooldownNext, <1>1, PTL DEF Spec
=============================================================================
