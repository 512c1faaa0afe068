------------------------ MODULE SignalDetectionProofs ------------------------
(***************************************************************************)
(* What signal detection guarantees for any tokens, rules, windows and     *)
(* number of faults.                                                       *)
(*                                                                         *)
(* The argument: whoever is about to create a row has looked, with the     *)
(* clock the row will carry, and nobody else creates such a row meanwhile; *)
(* and what a pass has established for the rules that fired stays true,    *)
(* because rows are never deleted.                                         *)
(***************************************************************************)
EXTENDS SignalDetection, SequenceTheorems, TLAPS

RotType == [pc : {"idle", "check", "create"}, at : Times, todo : Seq(Keys)]

DetType == [pc : {"idle", "rotations", "tokens", "dedupe", "create", "status"},
            matched : SUBSET Tokens, todo : SUBSET Tokens, token : Tokens \union {"none"},
            fired : SUBSET FiredRule, left : SUBSET FiredRule, superseded : BOOLEAN]

-----------------------------------------------------------------------------
(* Types.                                                                  *)

\* A create has its candidate or its rule at hand, and a token's work a token.
WorkInHand ==
  /\ \A j \in Jobs : rot[j].pc = "create" => rot[j].todo # <<>>
  /\ det.pc \in {"dedupe", "create", "status"} => det.token \in Tokens
  /\ det.pc = "create" => det.left # {}
  /\ det.left \subseteq det.fired

\* A pass keeps a clock that was read in the past.
ClocksRead == \A j \in Jobs : rot[j].at <= now

TypeInv == TypeOK /\ WorkInHand /\ ClocksRead

LEMMA RulesAreKnown == Rules \subseteq {"A", "B", "C", "D", "E", "F", "G"}
<1>1. ToSet(RuleOrder) = {"A", "B", "C", "D", "E", "F", "G"}
  <2>1. DOMAIN RuleOrder = 1..7
    BY DEF RuleOrder
  <2>2. /\ RuleOrder[1] = "A" /\ RuleOrder[2] = "B" /\ RuleOrder[3] = "C" /\ RuleOrder[4] = "D"
        /\ RuleOrder[5] = "E" /\ RuleOrder[6] = "F" /\ RuleOrder[7] = "G"
    BY DEF RuleOrder
  <2> QED BY <2>1, <2>2, SMT DEF ToSet
<1> QED BY <1>1, DetectionAssumption

LEMMA SeveritiesAreKnown ==
  \A x \in FiredRule : x.rule \in Rules /\ x.severity \in {"WATCH", "HIGH", "CRITICAL"}
<1> SUFFICES ASSUME NEW x \in FiredRule
             PROVE  x.rule \in Rules /\ x.severity \in {"WATCH", "HIGH", "CRITICAL"}
  OBVIOUS
<1>1. PICK r \in Rules : x \in [rule : {r}, severity : Severities(r)]
  BY DEF FiredRule
<1>2. Severities(r) \subseteq {"WATCH", "HIGH", "CRITICAL"}
  BY RulesAreKnown, SMT DEF Severities
<1> QED BY <1>1, <1>2

\* Of any rules the first in the order A..G exists.
LEMMA FirstOfSome ==
  ASSUME NEW S \in SUBSET (1..7), S # {}
  PROVE  \E m \in S : \A n \in S : m <= n
<1>1. CASE 1 \in S BY <1>1, SMT
<1>2. CASE 1 \notin S /\ 2 \in S BY <1>2, SMT
<1>3. CASE 1 \notin S /\ 2 \notin S /\ 3 \in S BY <1>3, SMT
<1>4. CASE 1 \notin S /\ 2 \notin S /\ 3 \notin S /\ 4 \in S BY <1>4, SMT
<1>5. CASE 1 \notin S /\ 2 \notin S /\ 3 \notin S /\ 4 \notin S
  <2>1. S \subseteq {5, 6, 7}
    BY <1>5, SMT
  <2>2. CASE 5 \in S BY <2>1, <2>2, SMT
  <2>3. CASE 5 \notin S /\ 6 \in S
    <3>1. \A n \in S : n = 6 \/ n = 7
      BY <2>1, <2>3, SMT
    <3> QED BY <2>3, <3>1, SMT
  <2>4. CASE 5 \notin S /\ 6 \notin S
    <3>1. \A n \in S : n = 7
      BY <2>1, <2>4, SMT
    <3>2. 7 \in S
      BY <3>1
    <3> QED BY <3>1, <3>2, SMT
  <2> QED BY <2>2, <2>3, <2>4
<1> QED BY <1>1, <1>2, <1>3, <1>4, <1>5

LEMMA NextFiredIsLeft ==
  ASSUME NEW left \in SUBSET FiredRule, det.left = left, left # {}
  PROVE  NextFired \in left
<1>1. \A x \in left : Position(x.rule) \in 1..7
  <2> SUFFICES ASSUME NEW x \in left PROVE Position(x.rule) \in 1..7
    OBVIOUS
  <2>1. x.rule \in ToSet(RuleOrder)
    BY SeveritiesAreKnown, DetectionAssumption
  <2>2. PICK i \in DOMAIN RuleOrder : RuleOrder[i] = x.rule
    BY <2>1 DEF ToSet
  <2>3. Position(x.rule) \in DOMAIN RuleOrder
    BY <2>2 DEF Position
  <2>4. DOMAIN RuleOrder = 1..7
    BY DEF RuleOrder
  <2> QED BY <2>3, <2>4
<1> DEFINE S == {Position(x.rule) : x \in left}
<1>2. S \in SUBSET (1..7) /\ S # {}
  BY <1>1
<1>3. PICK m \in S : \A n \in S : m <= n
  BY <1>2, FirstOfSome
<1>4. PICK x \in left : Position(x.rule) = m
  OBVIOUS
<1>5. \A y \in left : Position(x.rule) <= Position(y.rule)
  BY <1>3, <1>4
<1> QED BY <1>5 DEF NextFired

LEMMA TypeInit == Init => TypeInv
<1> SUFFICES ASSUME Init PROVE TypeInv
  OBVIOUS
<1>1. RotIdle \in RotType /\ RotIdle.pc = "idle" /\ RotIdle.at = 0
  BY DetectionAssumption, EmptySeq, SMT DEF RotIdle, RotType, Times
<1>2. DetIdle \in DetType /\ DetIdle.pc = "idle" /\ DetIdle.left = DetIdle.fired
  BY SMT DEF DetIdle, DetType
<1>3. rot \in [Jobs -> RotType] /\ \A j \in Jobs : rot[j] = RotIdle
  BY <1>1 DEF Init
<1>4. status \in [Tokens -> [value : StatusValues, asOf : Times]]
  BY DetectionAssumption, SMT DEF Init, NoSnapshot, StatusValues, Times
<1>5. WorkInHand /\ ClocksRead
  BY <1>1, <1>2, <1>3 DEF Init, WorkInHand, ClocksRead
<1>6. TypeOK
  BY <1>2, <1>3, <1>4, DetectionAssumption, EmptySeq DEF Init, TypeOK, RotType, DetType, Times
<1> QED BY <1>5, <1>6 DEF TypeInv

-----------------------------------------------------------------------------
(* What each step makes of the passes.                                     *)

LEMMA PassesAreTyped ==
  ASSUME TypeInv
  PROVE  rot \in [Jobs -> RotType] /\ det \in DetType
  BY DEF TypeInv, TypeOK, RotType, DetType

\* One pass is put somewhere; the other keeps its place.
LEMMA RotStep ==
  ASSUME TypeInv, NEW j \in Jobs, NEW r \in RotType, rot' = [rot EXCEPT ![j] = r]
  PROVE  /\ rot' \in [Jobs -> RotType]
         /\ rot'[j] = r
         /\ \A i \in Jobs : i # j => rot'[i] = rot[i]
  BY PassesAreTyped

LEMMA Advanced ==
  ASSUME NEW r \in RotType, NEW list, NEW x, x = [r EXCEPT !.pc = "check", !.todo = list]
  PROVE  x = [pc |-> "check", at |-> r.at, todo |-> list]
  BY Zenon DEF RotType

LEMMA PcChanged ==
  ASSUME TypeInv, NEW j \in Jobs, NEW pc \in {"idle", "check", "create"},
         rot' = [rot EXCEPT ![j].pc = pc]
  PROVE  /\ rot' \in [Jobs -> RotType]
         /\ rot'[j].pc = pc /\ rot'[j].at = rot[j].at /\ rot'[j].todo = rot[j].todo
         /\ \A i \in Jobs : i # j => rot'[i] = rot[i]
<1> DEFINE r == [pc |-> pc, at |-> rot[j].at, todo |-> rot[j].todo]
<1>1. rot \in [Jobs -> RotType] /\ rot[j] \in RotType
  BY PassesAreTyped
<1>2. ASSUME NEW q \in RotType, NEW x, x = [q EXCEPT !.pc = pc]
      PROVE  x = [pc |-> pc, at |-> q.at, todo |-> q.todo]
  BY <1>2, Zenon DEF RotType
<1>3. [rot[j] EXCEPT !.pc = pc] = r
  BY <1>1, <1>2
<1>4. rot' = [rot EXCEPT ![j] = r]
  BY <1>3, Zenon
<1>5. r \in RotType
  BY <1>1 DEF RotType
<1>6. rot' \in [Jobs -> RotType] /\ rot'[j] = r /\ \A i \in Jobs : i # j => rot'[i] = rot[i]
  BY <1>4, <1>5, RotStep
<1> QED BY <1>6

LEMMA NextCandidateStep ==
  ASSUME TypeInv, NEW j \in Jobs, rot[j].todo # <<>>, rot' = NextCandidate(j)
  PROVE  /\ rot' \in [Jobs -> RotType]
         /\ rot'[j].pc = "check" /\ rot'[j].at = rot[j].at /\ rot'[j].todo = Tail(rot[j].todo)
         /\ \A i \in Jobs : i # j => rot'[i] = rot[i]
<1> DEFINE r == [pc |-> "check", at |-> rot[j].at, todo |-> Tail(rot[j].todo)]
<1>1. rot[j] \in RotType
  BY PassesAreTyped
<1>2. Tail(rot[j].todo) \in Seq(Keys)
  BY <1>1, HeadTailProperties DEF RotType
<1>3. r \in RotType
  BY <1>1, <1>2 DEF RotType
<1>4. [rot[j] EXCEPT !.pc = "check", !.todo = Tail(rot[j].todo)] = r
  BY <1>1, Advanced
<1>5. rot' = [rot EXCEPT ![j] = r]
  BY <1>1, <1>4, PassesAreTyped, Zenon DEF NextCandidate, RotType
<1>6. rot' \in [Jobs -> RotType] /\ rot'[j] = r /\ \A i \in Jobs : i # j => rot'[i] = rot[i]
  BY <1>3, <1>5, RotStep
<1> QED BY <1>6

DetRecord(pc, matched, todo, token, fired, left, superseded) ==
  [pc |-> pc, matched |-> matched, todo |-> todo, token |-> token, fired |-> fired,
   left |-> left, superseded |-> superseded]

LEMMA DetSteps ==
  ASSUME TypeInv
  PROVE  /\ \A m : det' = [det EXCEPT !.pc = "rotations", !.matched = m] =>
              det' = DetRecord("rotations", m, det.todo, det.token, det.fired, det.left,
                               det.superseded)
         /\ det' = [det EXCEPT !.pc = "tokens", !.todo = Tokens] =>
              det' = DetRecord("tokens", det.matched, Tokens, det.token, det.fired, det.left,
                               det.superseded)
         /\ \A t, S : det' = [det EXCEPT !.pc = "dedupe", !.todo = @ \ {t}, !.token = t,
                                        !.fired = S, !.left = S] =>
              det' = DetRecord("dedupe", det.matched, det.todo \ {t}, t, S, S, det.superseded)
         /\ \A t : det' = [det EXCEPT !.todo = @ \ {t}] =>
              det' = DetRecord(det.pc, det.matched, det.todo \ {t}, det.token, det.fired,
                               det.left, det.superseded)
         /\ \A x : det' = [det EXCEPT !.left = @ \ {x}] =>
              det' = DetRecord(det.pc, det.matched, det.todo, det.token, det.fired,
                               det.left \ {x}, det.superseded)
         /\ \A x : det' = [det EXCEPT !.pc = "dedupe", !.left = @ \ {x}] =>
              det' = DetRecord("dedupe", det.matched, det.todo, det.token, det.fired,
                               det.left \ {x}, det.superseded)
         /\ \A pc : det' = [det EXCEPT !.pc = pc] =>
              det' = DetRecord(pc, det.matched, det.todo, det.token, det.fired, det.left,
                               det.superseded)
         /\ det' = LeaveToken =>
              det' = DetRecord("tokens", det.matched, det.todo, "none", {}, {}, FALSE)
         /\ det' = [det EXCEPT !.superseded = TRUE] =>
              det' = DetRecord(det.pc, det.matched, det.todo, det.token, det.fired, det.left, TRUE)
  BY PassesAreTyped, Zenon DEF DetType, DetRecord, LeaveToken

LEMMA IdleIsTyped ==
  /\ RotIdle \in RotType /\ RotIdle.pc = "idle" /\ RotIdle.at = 0
  /\ DetIdle \in DetType /\ DetIdle.pc = "idle" /\ DetIdle.left = {} /\ DetIdle.fired = {}
<1>1. RotIdle \in RotType /\ RotIdle.pc = "idle" /\ RotIdle.at = 0
  BY DetectionAssumption, EmptySeq, SMT DEF RotIdle, RotType, Times
<1>2. DetIdle \in DetType /\ DetIdle.pc = "idle" /\ DetIdle.left = {} /\ DetIdle.fired = {}
  BY SMT DEF DetIdle, DetType
<1> QED BY <1>1, <1>2

-----------------------------------------------------------------------------
(* The rows.                                                               *)

LEMMA AppendRow ==
  ASSUME NEW S, NEW s \in Seq(S), NEW x \in S
  PROVE  /\ Append(s, x) \in Seq(S)
         /\ DOMAIN Append(s, x) = DOMAIN s \union {Len(s) + 1}
         /\ \A i \in DOMAIN s : Append(s, x)[i] = s[i] /\ i # Len(s) + 1
         /\ Append(s, x)[Len(s) + 1] = x
<1>1. DOMAIN s = 1..Len(s) /\ Len(s) \in Nat
  BY LenProperties
<1>2. /\ Append(s, x) \in Seq(S)
      /\ Len(Append(s, x)) = Len(s) + 1
      /\ \A i \in 1..Len(s) : Append(s, x)[i] = s[i]
      /\ Append(s, x)[Len(s) + 1] = x
  BY AppendProperties
<1>3. DOMAIN Append(s, x) = 1..(Len(s) + 1)
  BY <1>2, LenProperties
<1> QED
  BY <1>1, <1>2, <1>3, SMT

LEMMA RotationRowType ==
  ASSUME TypeInv, NEW j \in Jobs, rot[j].pc = "create"
  PROVE  /\ RotationRow(j) \in RotationRows
         /\ RotationRow(j).key = Head(rot[j].todo)
         /\ RotationRow(j).at = rot[j].at /\ RotationRow(j).by = j
         /\ rot[j].at <= now
<1>1. rot[j] \in RotType /\ rot[j].todo # <<>>
  BY PassesAreTyped DEF TypeInv, WorkInHand
<1>2. Head(rot[j].todo) \in Keys
  BY <1>1, HeadTailProperties DEF RotType
<1> QED BY <1>1, <1>2 DEF RotationRow, RotationRows, RotType, TypeInv, ClocksRead

LEMMA SignalRowType ==
  ASSUME TypeInv, det.pc = "create"
  PROVE  /\ SignalRow \in SignalRows
         /\ SignalRow.token = det.token /\ SignalRow.rule = NextFired.rule
         /\ SignalRow.at = PassClock /\ PassClock <= now
         /\ NextFired \in det.left
<1>1. det \in DetType /\ rot["signalDetection"] \in RotType
  BY PassesAreTyped DEF Jobs
<1>2. NextFired \in det.left /\ NextFired \in FiredRule
  BY <1>1, NextFiredIsLeft DEF TypeInv, WorkInHand, DetType
<1>3. det.token \in Tokens
  BY DEF TypeInv, WorkInHand
<1>4. PassClock \in Times /\ PassClock <= now
  BY <1>1 DEF PassClock, RotType, TypeInv, ClocksRead, Jobs
<1>5. NextFired.rule \in Rules /\ NextFired.severity \in {"WATCH", "HIGH", "CRITICAL"}
  BY <1>2, SeveritiesAreKnown
<1> QED BY <1>2, <1>3, <1>4, <1>5, SMT DEF SignalRow, SignalRows

-----------------------------------------------------------------------------
(* The invariance of the types.                                            *)

DetOK == /\ det \in DetType
         /\ det.pc \in {"dedupe", "create", "status"} => det.token \in Tokens
         /\ det.pc = "create" => det.left # {}
         /\ det.left \subseteq det.fired

RotOK == /\ rot \in [Jobs -> RotType]
         /\ \A j \in Jobs : /\ rot[j].pc = "create" => rot[j].todo # <<>>
                            /\ rot[j].at <= now

RowsOK == /\ now \in Times /\ faults \in 0..MaxFaults
          /\ rotations \in Seq(RotationRows) /\ signals \in Seq(SignalRows)
          /\ status \in [Tokens -> [value : StatusValues, asOf : Times]]

LEMMA TypeInvParts == TypeInv <=> DetOK /\ RotOK /\ RowsOK
  BY DEF TypeInv, TypeOK, WorkInHand, ClocksRead, DetOK, RotOK, RowsOK, DetType, RotType

LEMMA TypeInvPartsNext == DetOK' /\ RotOK' /\ RowsOK' => TypeInv'
  BY TypeInvParts, PTL

LEMMA RowsStay ==
  ASSUME TypeInv, faults' \in 0..MaxFaults, UNCHANGED <<now, rotations, signals, status>>
  PROVE  RowsOK'
  BY TypeInvParts DEF RowsOK

LEMMA FaultIsBounded ==
  ASSUME TypeInv, Fault
  PROVE  faults' \in 0..MaxFaults
  BY DetectionAssumption, SMT DEF Fault, TypeInv, TypeOK

LEMMA CandidatesAreKeys ==
  ASSUME NEW list \in CandidateLists
  PROVE  list \in Seq(Keys)
<1>1. PICK n \in 0..MaxCandidates : list \in [1..n -> Keys]
  BY DEF CandidateLists
<1>2. n \in Nat
  BY <1>1, DetectionAssumption, SMT
<1> QED BY <1>1, <1>2, SeqDef

\* The rotation pass of job j, and with it perhaps the signal-detection pass.
LEMMA RotationStepTypes ==
  ASSUME TypeInv, NEW j \in Jobs, RotationStep(j)
  PROVE  TypeInv'
<1>a. DetOK /\ RotOK /\ RowsOK
  BY TypeInvParts
<1>b. rot[j] \in RotType /\ now \in Times
  BY <1>a DEF RotOK, RowsOK
<1>c. DetOK' /\ RotOK' /\ RowsOK' => TypeInv'
  BY TypeInvPartsNext
<1>1. CASE StartPass(j)
  <2>1. PICK list \in CandidateLists :
          /\ rot' = [rot EXCEPT ![j] = [pc |-> "check", at |-> now, todo |-> list]]
          /\ det' = IF j = "signalDetection"
                    THEN [det EXCEPT !.pc = "rotations",
                                     !.matched = {DestOf[k] : k \in ToSet(list)}]
                    ELSE det
    BY <1>1 DEF StartPass
  <2>2. list \in Seq(Keys)
    BY CandidatesAreKeys
  <2>3. [pc |-> "check", at |-> now, todo |-> list] \in RotType
    BY <1>b, <2>2 DEF RotType
  <2>4. RotOK'
    BY <1>1, <1>a, <1>b, <2>1, <2>3, RotStep, SMT DEF RotOK, StartPass, Times
  <2>5. {DestOf[k] : k \in ToSet(list)} \subseteq Tokens
    <3>1. \A i \in DOMAIN list : list[i] \in Keys
      BY <2>2, ElementOfSeq, LenProperties
    <3> QED BY <3>1, DetectionAssumption DEF ToSet
  <2>6. DetOK'
    <3>1. CASE j # "signalDetection"
      BY <1>a, <2>1, <3>1 DEF DetOK
    <3>2. CASE j = "signalDetection"
      <4>1. det' = DetRecord("rotations", {DestOf[k] : k \in ToSet(list)}, det.todo, det.token,
                             det.fired, det.left, det.superseded)
        BY <2>1, <3>2, DetSteps
      <4> QED BY <1>a, <2>5, <4>1, SMT DEF DetOK, DetType, DetRecord
    <3> QED BY <3>1, <3>2
  <2>7. RowsOK'
    BY <1>1, <1>a, RowsStay DEF StartPass, RowsOK
  <2> QED BY <1>c, <2>4, <2>6, <2>7
<1>2. CASE CheckRotation(j)
  <2>1. RotOK'
    <3>1. CASE rot' = NextCandidate(j)
      BY <1>2, <1>a, <3>1, NextCandidateStep, SMT DEF RotOK, CheckRotation
    <3>2. CASE rot' = [rot EXCEPT ![j].pc = "create"]
      BY <1>2, <1>a, <3>2, PcChanged DEF RotOK, CheckRotation
    <3> QED BY <1>2, <3>1, <3>2 DEF CheckRotation
  <2>2. DetOK' /\ RowsOK'
    BY <1>2, <1>a DEF CheckRotation, DetOK, RowsOK
  <2> QED BY <1>c, <2>1, <2>2
<1>3. CASE CreateRotation(j)
  <2>1. rot[j].todo # <<>> /\ rot[j].pc = "create"
    BY <1>3, <1>a DEF RotOK, CreateRotation
  <2>2. RotOK'
    BY <1>3, <1>a, <2>1, NextCandidateStep, SMT DEF RotOK, CreateRotation
  <2>3. DetOK'
    BY <1>3, <1>a DEF CreateRotation, DetOK
  <2>4. (rotations \in Seq(RotationRows))'
    BY <1>3, <1>a, <2>1, RotationRowType, AppendRow DEF CreateRotation, RowsOK
  <2> QED BY <1>3, <1>a, <1>c, <2>2, <2>3, <2>4 DEF CreateRotation, RowsOK
<1>4. CASE FailRotation(j)
  <2>1. RotOK'
    BY <1>4, <1>a, <1>b, IdleIsTyped, RotStep, SMT DEF RotOK, FailRotation, Times
  <2>2. DetOK'
    <3>1. CASE det' = det
      BY <1>a, <3>1 DEF DetOK
    <3>2. CASE det' = DetIdle
      BY <3>2, IdleIsTyped DEF DetOK
    <3> QED BY <1>4, <3>1, <3>2 DEF FailRotation
  <2>3. (rotations \in Seq(RotationRows))'
    <3>1. CASE rotations' = rotations
      BY <1>a, <3>1 DEF RowsOK
    <3>2. CASE rot[j].pc = "create" /\ rotations' = Append(rotations, RotationRow(j))
      BY <1>a, <3>2, RotationRowType, AppendRow DEF RowsOK
    <3> QED BY <1>4, <3>1, <3>2 DEF FailRotation
  <2>4. faults' \in 0..MaxFaults
    BY <1>4, FaultIsBounded DEF FailRotation
  <2> QED BY <1>4, <1>a, <1>c, <2>1, <2>2, <2>3, <2>4 DEF FailRotation, RowsOK
<1>5. CASE EndRotation(j)
  <2>1. RotOK'
    <3>1. CASE rot' = [rot EXCEPT ![j].pc = "idle"]
      <4>1. /\ rot' \in [Jobs -> RotType]
            /\ rot'[j].pc = "idle" /\ rot'[j].at = rot[j].at
            /\ \A i \in Jobs : i # j => rot'[i] = rot[i]
        BY <3>1, PcChanged
      <4>2. now' = now
        BY <1>5 DEF EndRotation
      <4> QED BY <1>a, <4>1, <4>2 DEF RotOK
    <3>2. CASE rot' = [rot EXCEPT ![j] = RotIdle]
      BY <1>a, <1>5, <1>b, <3>2, IdleIsTyped, RotStep, SMT DEF RotOK, Times, EndRotation
    <3> QED BY <1>5, <3>1, <3>2 DEF EndRotation
  <2>2. DetOK'
    <3>1. CASE det' = det
      BY <1>a, <3>1 DEF DetOK
    <3>2. CASE det' = [det EXCEPT !.pc = "tokens", !.todo = Tokens]
      <4>1. det' = DetRecord("tokens", det.matched, Tokens, det.token, det.fired, det.left,
                             det.superseded)
        BY <3>2, DetSteps
      <4> QED BY <1>a, <4>1, SMT DEF DetOK, DetType, DetRecord
    <3> QED BY <1>5, <3>1, <3>2 DEF EndRotation
  <2>3. RowsOK'
    BY <1>5, <1>a DEF EndRotation, RowsOK
  <2> QED BY <1>c, <2>1, <2>2, <2>3
<1> QED
  BY <1>1, <1>2, <1>3, <1>4, <1>5 DEF RotationStep

\* The signal-detection pass after its rotations.
LEMMA TokenStepTypes ==
  ASSUME TypeInv, TokenStep
  PROVE  TypeInv'
<1>a. DetOK /\ RotOK /\ RowsOK
  BY TypeInvParts
<1>c. DetOK' /\ RotOK' /\ RowsOK' => TypeInv'
  BY TypeInvPartsNext
<1>r. ASSUME UNCHANGED <<now, rot>> PROVE RotOK'
  BY <1>a, <1>r DEF RotOK
<1>1. ASSUME NEW t \in Tokens, BeginToken(t) PROVE TypeInv'
  <2>1. PICK S \in FiredSets(t) :
          det' = [det EXCEPT !.pc = "dedupe", !.todo = @ \ {t}, !.token = t,
                             !.fired = S, !.left = S]
    BY <1>1 DEF BeginToken
  <2>2. det' = DetRecord("dedupe", det.matched, det.todo \ {t}, t, S, S, det.superseded)
    BY <2>1, DetSteps
  <2>3. S \subseteq FiredRule
    BY DEF FiredSets
  <2>4. DetOK'
    BY <1>a, <2>2, <2>3, SMT DEF DetOK, DetType, DetRecord
  <2> QED BY <1>1, <1>a, <1>c, <1>r, <2>4 DEF BeginToken, RowsOK
<1>2. ASSUME NEW t \in Tokens, SkipToken(t) PROVE TypeInv'
  <2>1. det' = DetRecord(det.pc, det.matched, det.todo \ {t}, det.token, det.fired, det.left,
                         det.superseded)
    BY <1>2, DetSteps DEF SkipToken
  <2>2. DetOK'
    BY <1>a, <2>1, SMT DEF DetOK, DetType, DetRecord
  <2> QED BY <1>2, <1>a, <1>c, <1>r, <2>2 DEF SkipToken, RowsOK
<1>3. CASE DedupeSignal
  <2>1. ASSUME det' = [det EXCEPT !.left = @ \ {NextFired}] PROVE DetOK'
    <3>1. det' = DetRecord(det.pc, det.matched, det.todo, det.token, det.fired,
                           det.left \ {NextFired}, det.superseded)
      BY <2>1, DetSteps
    <3> QED BY <1>3, <1>a, <3>1, SMT DEF DetOK, DetType, DetRecord, DedupeSignal
  <2>2. ASSUME det' = [det EXCEPT !.pc = "create"] PROVE DetOK'
    <3>1. det' = DetRecord("create", det.matched, det.todo, det.token, det.fired, det.left,
                           det.superseded)
      BY <2>2, DetSteps
    <3> QED BY <1>3, <1>a, <3>1, SMT DEF DetOK, DetType, DetRecord, DedupeSignal
  <2> QED BY <1>3, <1>a, <1>c, <1>r, <2>1, <2>2 DEF DedupeSignal, RowsOK
<1>4. CASE CreateSignal
  <2>1. det' = DetRecord("dedupe", det.matched, det.todo, det.token, det.fired,
                         det.left \ {NextFired}, det.superseded)
    BY <1>4, DetSteps DEF CreateSignal
  <2>2. DetOK'
    BY <1>4, <1>a, <2>1, SMT DEF DetOK, DetType, DetRecord, CreateSignal
  <2>3. (signals \in Seq(SignalRows))'
    BY <1>4, <1>a, SignalRowType, AppendRow DEF CreateSignal, RowsOK
  <2> QED BY <1>4, <1>a, <1>c, <1>r, <2>2, <2>3 DEF CreateSignal, RowsOK
<1>l. ASSUME det' = LeaveToken PROVE DetOK'
  <2>1. det' = DetRecord("tokens", det.matched, det.todo, "none", {}, {}, FALSE)
    BY <1>l, DetSteps
  <2> QED BY <1>a, <2>1, SMT DEF DetOK, DetType, DetRecord
<1>5. CASE ReadSnapshot
  <2>1. ASSUME det' = [det EXCEPT !.pc = "status"] PROVE DetOK'
    <3>1. det' = DetRecord("status", det.matched, det.todo, det.token, det.fired, det.left,
                           det.superseded)
      BY <2>1, DetSteps
    <3> QED BY <1>5, <1>a, <3>1, SMT DEF DetOK, DetType, DetRecord, ReadSnapshot
  <2> QED BY <1>5, <1>a, <1>c, <1>r, <1>l, <2>1 DEF ReadSnapshot, RowsOK
<1>6. CASE WriteStatus
  <2>1. det.fired \subseteq FiredRule
    BY <1>a DEF DetOK, DetType
  <2>2. StatusFor(det.fired) \subseteq StatusValues
    <3> DEFINE rules == {x.rule : x \in det.fired}
    <3>1. rules \subseteq {"A", "B", "C", "D", "E", "F", "G"}
      BY <2>1, SeveritiesAreKnown, RulesAreKnown
    <3>2. CASE "G" \in rules
      BY <3>2 DEF StatusFor, StatusValues
    <3>3. CASE "G" \notin rules /\ "F" \in rules
      BY <3>3 DEF StatusFor, StatusValues
    <3>4. CASE "G" \notin rules /\ "F" \notin rules
      BY <3>1, <3>4 DEF StatusFor, StatusValues
    <3> QED BY <3>2, <3>3, <3>4
  <2>3. PassClock \in Times /\ 0 \in Times
    BY <1>a, DetectionAssumption, SMT DEF PassClock, RotOK, RotType, Jobs, Times
  <2>4. (status \in [Tokens -> [value : StatusValues, asOf : Times]])'
    <3>1. CASE status' = status
      BY <1>a, <3>1 DEF RowsOK
    <3>2. CASE ~det.superseded
      <4>1. PICK v \in StatusFor(det.fired) :
              status' = [status EXCEPT ![det.token] =
                           [value |-> v, asOf |-> IF det.fired = {} THEN 0 ELSE PassClock]]
        BY <1>6, <3>2 DEF WriteStatus
      <4>2. [value |-> v, asOf |-> IF det.fired = {} THEN 0 ELSE PassClock]
              \in [value : StatusValues, asOf : Times]
        BY <2>2, <2>3
      <4> QED BY <1>a, <4>1, <4>2 DEF RowsOK
    <3> QED BY <1>6, <3>1, <3>2 DEF WriteStatus
  <2> QED BY <1>6, <1>a, <1>c, <1>r, <1>l, <2>4 DEF WriteStatus, RowsOK
<1>7. CASE FailToken
  <2>1. (signals \in Seq(SignalRows))'
    <3>1. CASE signals' = signals
      BY <1>a, <3>1 DEF RowsOK
    <3>2. CASE det.pc = "create" /\ signals' = Append(signals, SignalRow)
      BY <1>a, <3>2, SignalRowType, AppendRow DEF RowsOK
    <3> QED BY <1>7, <3>1, <3>2 DEF FailToken
  <2>2. faults' \in 0..MaxFaults
    BY <1>7, FaultIsBounded DEF FailToken
  <2> QED BY <1>7, <1>a, <1>c, <1>r, <1>l, <2>1, <2>2 DEF FailToken, RowsOK
<1>8. CASE EndPass
  <2>1. RotOK'
    BY <1>8, <1>a, IdleIsTyped, RotStep, SMT DEF RotOK, RowsOK, Times, EndPass, Jobs
  <2>2. DetOK'
    BY <1>8, IdleIsTyped DEF DetOK, EndPass
  <2> QED BY <1>8, <1>a, <1>c, <2>1, <2>2 DEF EndPass, RowsOK
<1> QED
  BY <1>1, <1>2, <1>3, <1>4, <1>5, <1>6, <1>7, <1>8 DEF TokenStep

LEMMA TypeNext == TypeInv /\ [Next]_vars => TypeInv'
<1> SUFFICES ASSUME TypeInv, [Next]_vars PROVE TypeInv'
  OBVIOUS
<1>a. DetOK /\ RotOK /\ RowsOK
  BY TypeInvParts
<1>c. DetOK' /\ RotOK' /\ RowsOK' => TypeInv'
  BY TypeInvPartsNext
<1>1. ASSUME NEW j \in Jobs, RotationStep(j) PROVE TypeInv'
  BY <1>1, RotationStepTypes
<1>2. CASE TokenStep
  BY <1>2, TokenStepTypes
<1>3. ASSUME NEW t \in Tokens, ScoreToken(t) PROVE TypeInv'
  <2>1. DetOK'
    <3>1. CASE det' = det
      BY <1>a, <3>1 DEF DetOK
    <3>2. CASE det' = [det EXCEPT !.superseded = TRUE]
      <4>1. det' = DetRecord(det.pc, det.matched, det.todo, det.token, det.fired, det.left, TRUE)
        BY <3>2, DetSteps
      <4> QED BY <1>a, <4>1, SMT DEF DetOK, DetType, DetRecord
    <3> QED BY <1>3, <3>1, <3>2 DEF ScoreToken
  <2>2. [value |-> "watching", asOf |-> 0] \in [value : StatusValues, asOf : Times]
    BY DetectionAssumption, SMT DEF StatusValues, Times
  <2>3. RowsOK'
    BY <1>3, <1>a, <2>2 DEF ScoreToken, RowsOK
  <2>4. RotOK'
    BY <1>3, <1>a DEF ScoreToken, RotOK
  <2> QED BY <1>c, <2>1, <2>3, <2>4
<1>4. CASE Crash
  <2>1. RotOK'
    BY <1>4, <1>a, IdleIsTyped, SMT DEF Crash, RotOK, RowsOK, Times
  <2>2. DetOK'
    BY <1>4, IdleIsTyped DEF Crash, DetOK
  <2>3. faults' \in 0..MaxFaults
    BY <1>4, FaultIsBounded DEF Crash
  <2> QED BY <1>4, <1>a, <1>c, <2>1, <2>2, <2>3 DEF Crash, RowsOK
<1>5. CASE Tick
  <2>1. now' \in Times /\ \A j \in Jobs : rot[j].at <= now'
    BY <1>5, <1>a, DetectionAssumption, SMT DEF Tick, RotOK, RotType, RowsOK, Times
  <2>2. RotOK' /\ RowsOK' /\ DetOK'
    BY <1>5, <1>a, <2>1 DEF Tick, RotOK, RowsOK, DetOK
  <2> QED BY <1>c, <2>2
<1>6. CASE UNCHANGED vars
  BY <1>6, <1>a, <1>c DEF vars, RotOK, RowsOK, DetOK
<1> QED
  BY <1>1, <1>2, <1>3, <1>4, <1>5, <1>6 DEF Next

\* The variables of signal detection keep their types, for any tokens, rules and bounds.
THEOREM TypeCorrect == Spec => []TypeOK
<1>1. TypeInv => TypeOK
  BY DEF TypeInv
<1> QED BY TypeInit, TypeNext, <1>1, PTL DEF Spec

-----------------------------------------------------------------------------
(* Signals.                                                                *)

\* The one signal that may appear in a step is the one about to be created.
LEMMA SignalsGrow ==
  ASSUME TypeInv, [Next]_vars
  PROVE  \/ signals' = signals
         \/ /\ det.pc = "create" /\ det'.pc # "create"
            /\ signals' = Append(signals, SignalRow)
<1>1. CASE CreateSignal
  <2>1. det' = DetRecord("dedupe", det.matched, det.todo, det.token, det.fired,
                         det.left \ {NextFired}, det.superseded)
    BY <1>1, DetSteps DEF CreateSignal
  <2> QED BY <1>1, <2>1 DEF CreateSignal, DetRecord
<1>2. CASE FailToken
  <2>1. det' = DetRecord("tokens", det.matched, det.todo, "none", {}, {}, FALSE)
    BY <1>2, DetSteps DEF FailToken
  <2> QED BY <1>2, <2>1 DEF FailToken, DetRecord
<1>3. ASSUME ~CreateSignal, ~FailToken PROVE signals' = signals
  BY <1>3 DEF Next, RotationStep, TokenStep, StartPass, CheckRotation, CreateRotation, FailRotation,
     EndRotation, BeginToken, SkipToken, DedupeSignal, ReadSnapshot, WriteStatus, EndPass,
     ScoreToken, Crash, Tick, vars
<1> QED BY <1>1, <1>2, <1>3

\* A job's pass keeps its clock until it is over.
LEMMA RotationClock ==
  ASSUME TypeInv, NEW j \in Jobs, NEW i \in Jobs, RotationStep(j)
  PROVE  \/ rot'[i].at = rot[i].at
         \/ i = j /\ StartPass(j)
         \/ i = j /\ rot'[j] = RotIdle /\ (FailRotation(j) \/ EndRotation(j))
<1>1. CASE StartPass(j)
  <2>1. i # j => rot'[i] = rot[i]
    BY <1>1, PassesAreTyped DEF StartPass
  <2> QED BY <1>1, <2>1
<1>2. CASE CheckRotation(j)
  <2>1. CASE rot' = NextCandidate(j)
    BY <1>2, <2>1, NextCandidateStep DEF CheckRotation
  <2>2. CASE rot' = [rot EXCEPT ![j].pc = "create"]
    BY <2>2, PcChanged
  <2> QED BY <1>2, <2>1, <2>2 DEF CheckRotation
<1>3. CASE CreateRotation(j)
  BY <1>3, NextCandidateStep DEF CreateRotation, TypeInv, WorkInHand
<1>4. CASE FailRotation(j)
  <2>1. rot' = [rot EXCEPT ![j] = RotIdle]
    BY <1>4 DEF FailRotation
  <2>2. rot'[j] = RotIdle /\ (i # j => rot'[i] = rot[i])
    BY <2>1, IdleIsTyped, RotStep
  <2> QED BY <1>4, <2>2
<1>5. CASE EndRotation(j)
  <2>1. CASE rot' = [rot EXCEPT ![j] = RotIdle]
    <3>1. rot'[j] = RotIdle /\ (i # j => rot'[i] = rot[i])
      BY <2>1, IdleIsTyped, RotStep
    <3> QED BY <1>5, <3>1
  <2>2. CASE rot' = [rot EXCEPT ![j].pc = "idle"]
    BY <2>2, PcChanged
  <2> QED BY <1>5, <2>1, <2>2 DEF EndRotation
<1> QED
  BY <1>1, <1>2, <1>3, <1>4, <1>5 DEF RotationStep

\* Whoever is about to create a signal has looked: nothing was changed since.
Looked == det.pc = "create" => ~ActiveSignal(det.token, NextFired.rule)

LEMMA LookedNext ==
  ASSUME TypeInv, Looked, [Next]_vars, det'.pc = "create"
  PROVE  /\ signals' = signals /\ PassClock' = PassClock
         /\ det'.left = det.left /\ det'.token = det.token
         /\ det.pc = "create" \/ (DedupeSignal /\ ~ActiveSignal(det.token, NextFired.rule))
<1>a. det \in DetType /\ rot \in [Jobs -> RotType]
  BY PassesAreTyped
<1>s. signals' = signals
  BY SignalsGrow
<1>1. ASSUME NEW j \in Jobs, RotationStep(j)
      PROVE  /\ PassClock' = PassClock /\ det'.left = det.left /\ det'.token = det.token
             /\ det.pc = "create"
  <2>1. CASE j # "signalDetection"
    <3>1. det' = det
      BY <1>1, <2>1 DEF RotationStep, StartPass, CheckRotation, CreateRotation, FailRotation, EndRotation
    <3>2. rot'["signalDetection"].at = rot["signalDetection"].at
      BY <1>1, <2>1, RotationClock DEF Jobs
    <3> QED BY <3>1, <3>2 DEF PassClock
  <2>2. CASE j = "signalDetection"
    <3>1. ~StartPass(j)
      <4>1. ASSUME StartPass(j) PROVE FALSE
        <5>1. PICK list \in CandidateLists :
                det' = [det EXCEPT !.pc = "rotations", !.matched = {DestOf[k] : k \in ToSet(list)}]
          BY <4>1, <2>2 DEF StartPass
        <5>2. det' = DetRecord("rotations", {DestOf[k] : k \in ToSet(list)}, det.todo, det.token,
                               det.fired, det.left, det.superseded)
          BY <5>1, DetSteps
        <5> QED BY <5>2 DEF DetRecord
      <4> QED BY <4>1
    <3>2. ~FailRotation(j)
      BY <2>2, IdleIsTyped DEF FailRotation
    <3>3. ~EndRotation(j)
      <4>1. ASSUME EndRotation(j) PROVE FALSE
        <5>1. det' = DetRecord("tokens", det.matched, Tokens, det.token, det.fired, det.left,
                               det.superseded)
          BY <4>1, <2>2, DetSteps DEF EndRotation
        <5> QED BY <5>1 DEF DetRecord
      <4> QED BY <4>1
    <3>4. det' = det
      BY <1>1, <3>1, <3>2, <3>3 DEF RotationStep, CheckRotation, CreateRotation
    <3>5. rot'["signalDetection"].at = rot["signalDetection"].at
      BY <1>1, <2>2, <3>1, <3>2, <3>3, RotationClock
    <3> QED BY <3>4, <3>5 DEF PassClock
  <2> QED BY <2>1, <2>2
<1>2. ASSUME TokenStep
      PROVE  /\ PassClock' = PassClock /\ det'.left = det.left /\ det'.token = det.token
             /\ DedupeSignal /\ ~ActiveSignal(det.token, NextFired.rule)
  <2>1. ASSUME NEW t \in Tokens, BeginToken(t) PROVE FALSE
    <3>1. PICK S : det' = [det EXCEPT !.pc = "dedupe", !.todo = @ \ {t}, !.token = t,
                                      !.fired = S, !.left = S]
      BY <2>1 DEF BeginToken
    <3>2. det' = DetRecord("dedupe", det.matched, det.todo \ {t}, t, S, S, det.superseded)
      BY <3>1, DetSteps
    <3> QED BY <3>2 DEF DetRecord
  <2>2. ASSUME NEW t \in Tokens, SkipToken(t) PROVE FALSE
    <3>1. det' = DetRecord(det.pc, det.matched, det.todo \ {t}, det.token, det.fired, det.left,
                           det.superseded)
      BY <2>2, DetSteps DEF SkipToken
    <3> QED BY <2>2, <3>1 DEF DetRecord, SkipToken
  <2>3. det' # LeaveToken
    <3>1. det' = LeaveToken => det' = DetRecord("tokens", det.matched, det.todo, "none", {}, {}, FALSE)
      BY DetSteps
    <3> QED BY <3>1 DEF DetRecord
  <2>4. ~CreateSignal
    <3>1. CreateSignal => det' = DetRecord("dedupe", det.matched, det.todo, det.token, det.fired,
                                           det.left \ {NextFired}, det.superseded)
      BY DetSteps DEF CreateSignal
    <3> QED BY <3>1 DEF DetRecord
  <2>5. ~ReadSnapshot
    <3>1. ReadSnapshot => det' = DetRecord("status", det.matched, det.todo, det.token, det.fired,
                                           det.left, det.superseded)
      BY <2>3, DetSteps DEF ReadSnapshot
    <3> QED BY <3>1 DEF DetRecord
  <2>6. ~WriteStatus /\ ~FailToken /\ ~EndPass
    BY <2>3, IdleIsTyped DEF WriteStatus, FailToken, EndPass
  <2>7. DedupeSignal
    BY <1>2, <2>1, <2>2, <2>4, <2>5, <2>6 DEF TokenStep
  <2>8. ~ActiveSignal(det.token, NextFired.rule) /\ det' = [det EXCEPT !.pc = "create"]
    <3>1. det' = [det EXCEPT !.left = @ \ {NextFired}] =>
            det' = DetRecord(det.pc, det.matched, det.todo, det.token, det.fired,
                             det.left \ {NextFired}, det.superseded)
      BY DetSteps
    <3>2. det.pc = "dedupe"
      BY <2>7 DEF DedupeSignal
    <3>3. det' # [det EXCEPT !.left = @ \ {NextFired}]
      BY <3>1, <3>2 DEF DetRecord
    <3> QED BY <2>7, <3>3 DEF DedupeSignal
  <2>9. det' = DetRecord("create", det.matched, det.todo, det.token, det.fired, det.left,
                         det.superseded)
    BY <2>8, DetSteps
  <2> QED BY <2>7, <2>8, <2>9 DEF DetRecord, DedupeSignal, PassClock
<1>3. ASSUME NEW t \in Tokens, ScoreToken(t)
      PROVE  /\ PassClock' = PassClock /\ det'.left = det.left /\ det'.token = det.token
             /\ det.pc = "create"
  <2>1. det' = det \/ det' = DetRecord(det.pc, det.matched, det.todo, det.token, det.fired,
                                       det.left, TRUE)
    BY <1>3, DetSteps DEF ScoreToken
  <2> QED BY <1>3, <2>1 DEF DetRecord, ScoreToken, PassClock
<1>4. ~Crash
  BY IdleIsTyped DEF Crash
<1>5. ASSUME Tick \/ UNCHANGED vars
      PROVE  /\ PassClock' = PassClock /\ det'.left = det.left /\ det'.token = det.token
             /\ det.pc = "create"
  BY <1>5 DEF Tick, vars, PassClock
<1> QED BY <1>s, <1>1, <1>2, <1>3, <1>4, <1>5 DEF Next

SignalInv == TypeInv /\ Looked /\ NoDuplicateSignal

LEMMA SignalNext == SignalInv /\ [Next]_vars => SignalInv'
<1> SUFFICES ASSUME SignalInv, [Next]_vars PROVE SignalInv'
  OBVIOUS
<1>1. TypeInv /\ Looked /\ NoDuplicateSignal /\ TypeInv'
  BY TypeNext DEF SignalInv
<1>2. Looked'
  <2> SUFFICES ASSUME det'.pc = "create" PROVE ~ActiveSignal(det.token, NextFired.rule)'
    BY DEF Looked
  <2>1. /\ signals' = signals /\ PassClock' = PassClock
        /\ det'.left = det.left /\ det'.token = det.token
        /\ ~ActiveSignal(det.token, NextFired.rule)
    BY <1>1, LookedNext DEF Looked
  <2>2. NextFired' = NextFired
    BY <2>1 DEF NextFired
  <2> QED BY <2>1, <2>2 DEF ActiveSignal
<1>3. NoDuplicateSignal'
  <2>1. CASE signals' = signals
    BY <1>1, <2>1 DEF NoDuplicateSignal
  <2>2. CASE det.pc = "create" /\ signals' = Append(signals, SignalRow)
    <3>1. /\ signals \in Seq(SignalRows) /\ SignalRow \in SignalRows
          /\ SignalRow.token = det.token /\ SignalRow.rule = NextFired.rule
          /\ SignalRow.at = PassClock
      BY <1>1, <2>2, SignalRowType DEF TypeInv, TypeOK
    <3>2. /\ DOMAIN signals' = DOMAIN signals \union {Len(signals) + 1}
          /\ \A i \in DOMAIN signals : signals'[i] = signals[i] /\ i # Len(signals) + 1
          /\ signals'[Len(signals) + 1] = SignalRow
      BY <2>2, <3>1, AppendRow
    <3>3. \A i \in DOMAIN signals : signals[i] \in SignalRows
      BY <3>1, ElementOfSeq, LenProperties
    <3>4. \A i \in DOMAIN signals :
            signals[i].token = SignalRow.token /\ signals[i].rule = SignalRow.rule =>
              /\ ~Close(signals[i], SignalRow) /\ ~Close(SignalRow, signals[i])
      <4> SUFFICES ASSUME NEW i \in DOMAIN signals, signals[i].token = SignalRow.token,
                          signals[i].rule = SignalRow.rule
                   PROVE  ~Close(signals[i], SignalRow) /\ ~Close(SignalRow, signals[i])
        OBVIOUS
      <4>1. ~(signals[i].at >= PassClock - DedupeWindow)
        BY <1>1, <2>2, <3>1 DEF Looked, ActiveSignal
      <4>2. signals[i].at \in Int /\ SignalRow.at \in Int /\ DedupeWindow \in Nat
        BY <3>1, <3>3, DetectionAssumption, SMT DEF SignalRows, Times
      <4>3. ASSUME NEW x \in Int, NEW y \in Int, NEW w \in Nat, ~(x >= y - w)
            PROVE  ~(x - y \in (-w)..w) /\ ~(y - x \in (-w)..w)
        BY <4>3, SMT
      <4> QED BY <3>1, <4>1, <4>2, <4>3 DEF Close
    <3> QED BY <1>1, <3>2, <3>4 DEF NoDuplicateSignal
  <2> QED BY <1>1, <2>1, <2>2, SignalsGrow
<1> QED BY <1>1, <1>2, <1>3 DEF SignalInv

\* No rule is signalled twice for a token within the window, for any tokens, rules and
\* window, whatever passes fail, crash or run late.
THEOREM SignalsAreNotDuplicated == Spec => []NoDuplicateSignal
<1>1. Init => SignalInv
  <2> SUFFICES ASSUME Init PROVE SignalInv
    OBVIOUS
  <2>1. DOMAIN signals = {} /\ det.pc = "idle"
    BY EmptySeq, IdleIsTyped, SMT DEF Init
  <2> QED BY <2>1, TypeInit DEF SignalInv, Looked, NoDuplicateSignal
<1>2. SignalInv => NoDuplicateSignal
  BY DEF SignalInv
<1> QED BY <1>1, <1>2, SignalNext, PTL DEF Spec

-----------------------------------------------------------------------------
(* Rotations.                                                              *)

\* The one rotation that may appear in a step is one that is about to be created.
LEMMA RotationsGrow ==
  ASSUME TypeInv, [Next]_vars
  PROVE  \/ rotations' = rotations
         \/ \E j \in Jobs : /\ rot[j].pc = "create" /\ rot'[j].pc # "create"
                            /\ \A i \in Jobs : i # j => rot'[i] = rot[i]
                            /\ rotations' = Append(rotations, RotationRow(j))
<1>1. ASSUME NEW j \in Jobs, CreateRotation(j)
      PROVE  /\ rot[j].pc = "create" /\ rot'[j].pc # "create"
             /\ \A i \in Jobs : i # j => rot'[i] = rot[i]
             /\ rotations' = Append(rotations, RotationRow(j))
  <2>1. /\ rot'[j].pc = "check"
        /\ \A i \in Jobs : i # j => rot'[i] = rot[i]
    BY <1>1, NextCandidateStep DEF CreateRotation, TypeInv, WorkInHand
  <2> QED BY <1>1, <2>1 DEF CreateRotation
<1>2. ASSUME NEW j \in Jobs, FailRotation(j), rotations' # rotations
      PROVE  /\ rot[j].pc = "create" /\ rot'[j].pc # "create"
             /\ \A i \in Jobs : i # j => rot'[i] = rot[i]
             /\ rotations' = Append(rotations, RotationRow(j))
  <2>1. rot'[j] = RotIdle /\ \A i \in Jobs : i # j => rot'[i] = rot[i]
    BY <1>2, IdleIsTyped, RotStep DEF FailRotation
  <2> QED BY <1>2, <2>1, IdleIsTyped DEF FailRotation
<1>3. ASSUME \A j \in Jobs : ~CreateRotation(j) /\ ~FailRotation(j)
      PROVE  rotations' = rotations
  BY <1>3 DEF Next, RotationStep, TokenStep, StartPass, CheckRotation, EndRotation,
     BeginToken, SkipToken, DedupeSignal, CreateSignal, ReadSnapshot, WriteStatus, FailToken,
     EndPass, ScoreToken, Crash, Tick, vars
<1> QED BY <1>1, <1>2, <1>3

\* Time and faults only ever grow, up to their bounds.
LEMMA ClockAndFaults ==
  ASSUME TypeInv, [Next]_vars
  PROVE  now' \in now..MaxTime /\ faults' \in faults..MaxFaults
<1>1. now \in 0..MaxTime /\ faults \in 0..MaxFaults /\ MaxTime \in Nat /\ MaxFaults \in Nat
  BY DetectionAssumption DEF TypeInv, TypeOK, Times
<1>2. \/ now' = now
      \/ now < MaxTime /\ now' = now + 1
  BY DEF Next, RotationStep, TokenStep, StartPass, CheckRotation, CreateRotation, FailRotation,
     EndRotation, BeginToken, SkipToken, DedupeSignal, CreateSignal, ReadSnapshot, WriteStatus,
     FailToken, EndPass, ScoreToken, Crash, Tick, vars
<1>3. \/ faults' = faults
      \/ faults < MaxFaults /\ faults' = faults + 1
  BY DEF Next, RotationStep, TokenStep, StartPass, CheckRotation, CreateRotation, FailRotation,
     EndRotation, BeginToken, SkipToken, DedupeSignal, CreateSignal, ReadSnapshot, WriteStatus,
     FailToken, EndPass, ScoreToken, Crash, Tick, vars, Fault
<1> QED BY <1>1, <1>2, <1>3, SMT

\* A pass about to create a row found none of its own job's within the window, and the
\* job has created none since.
LookedForRotation ==
  \A j \in Jobs : rot[j].pc = "create" =>
    \A i \in DOMAIN rotations :
      rotations[i].key = Head(rot[j].todo) /\ rotations[i].by = j =>
        ~(rotations[i].at >= rot[j].at - DedupeWindow)

LEMMA AboutToCreate ==
  ASSUME TypeInv, [Next]_vars, NEW j \in Jobs, rot'[j].pc = "create"
  PROVE  \/ rot'[j] = rot[j]
         \/ /\ rot'[j].todo = rot[j].todo /\ rot'[j].at = rot[j].at
            /\ ~RecentRotation(Head(rot[j].todo), rot[j].at)
            /\ rotations' = rotations
<1>1. ASSUME NEW i \in Jobs, RotationStep(i), i # j PROVE rot'[j] = rot[j]
  <2>1. CASE StartPass(i)
    BY <1>1, <2>1, PassesAreTyped DEF StartPass
  <2>2. CASE CheckRotation(i)
    <3>1. CASE rot' = NextCandidate(i)
      BY <1>1, <2>2, <3>1, NextCandidateStep DEF CheckRotation
    <3>2. CASE rot' = [rot EXCEPT ![i].pc = "create"]
      BY <1>1, <3>2, PcChanged
    <3> QED BY <2>2, <3>1, <3>2 DEF CheckRotation
  <2>3. CASE CreateRotation(i)
    BY <1>1, <2>3, NextCandidateStep DEF CreateRotation, TypeInv, WorkInHand
  <2>4. CASE FailRotation(i)
    BY <1>1, <2>4, IdleIsTyped, RotStep DEF FailRotation
  <2>5. CASE EndRotation(i)
    <3>1. CASE rot' = [rot EXCEPT ![i] = RotIdle]
      BY <1>1, <3>1, IdleIsTyped, RotStep
    <3>2. CASE rot' = [rot EXCEPT ![i].pc = "idle"]
      BY <1>1, <3>2, PcChanged
    <3> QED BY <2>5, <3>1, <3>2 DEF EndRotation
  <2> QED BY <1>1, <2>1, <2>2, <2>3, <2>4, <2>5 DEF RotationStep
<1>2. ASSUME RotationStep(j)
      PROVE  /\ rot'[j].todo = rot[j].todo /\ rot'[j].at = rot[j].at
             /\ ~RecentRotation(Head(rot[j].todo), rot[j].at)
             /\ rotations' = rotations
  <2>1. ~StartPass(j)
    <3>1. ASSUME StartPass(j) PROVE rot'[j].pc = "check"
      BY <3>1, PassesAreTyped DEF StartPass
    <3> QED BY <3>1
  <2>2. ~CreateRotation(j)
    <3>1. ASSUME CreateRotation(j) PROVE rot'[j].pc = "check"
      BY <3>1, NextCandidateStep DEF CreateRotation, TypeInv, WorkInHand
    <3> QED BY <3>1
  <2>3. ~FailRotation(j)
    <3>1. ASSUME FailRotation(j) PROVE rot'[j].pc = "idle"
      BY <3>1, IdleIsTyped, RotStep DEF FailRotation
    <3> QED BY <3>1
  <2>4. ~EndRotation(j)
    <3>1. ASSUME rot' = [rot EXCEPT ![j] = RotIdle] PROVE rot'[j].pc = "idle"
      BY <3>1, IdleIsTyped, RotStep
    <3>2. ASSUME rot' = [rot EXCEPT ![j].pc = "idle"] PROVE rot'[j].pc = "idle"
      BY <3>2, PcChanged
    <3> QED BY <3>1, <3>2 DEF EndRotation
  <2>5. CheckRotation(j)
    BY <1>2, <2>1, <2>2, <2>3, <2>4 DEF RotationStep
  <2>6. ~RecentRotation(Head(rot[j].todo), rot[j].at)
    <3>1. ASSUME rot' = NextCandidate(j) PROVE rot'[j].pc = "check"
      BY <2>5, <3>1, NextCandidateStep DEF CheckRotation
    <3> QED BY <2>5, <3>1 DEF CheckRotation
  <2>7. rot'[j].todo = rot[j].todo /\ rot'[j].at = rot[j].at
    BY <2>5, <2>6, PcChanged DEF CheckRotation
  <2> QED BY <2>5, <2>6, <2>7 DEF CheckRotation
<1>3. ASSUME TokenStep PROVE rot'[j] = rot[j]
  <2>1. CASE EndPass
    BY <2>1, PassesAreTyped, IdleIsTyped, RotStep DEF EndPass, Jobs
  <2>2. CASE ~EndPass
    BY <1>3, <2>2 DEF TokenStep, BeginToken, SkipToken, DedupeSignal, CreateSignal, ReadSnapshot,
       WriteStatus, FailToken
  <2> QED BY <2>1, <2>2
<1>4. ~Crash
  BY IdleIsTyped DEF Crash
<1>5. ASSUME Tick \/ UNCHANGED vars \/ \E t \in Tokens : ScoreToken(t) PROVE rot'[j] = rot[j]
  BY <1>5 DEF Tick, vars, ScoreToken
<1> QED BY <1>1, <1>2, <1>3, <1>4, <1>5 DEF Next

RotationInv == TypeInv /\ LookedForRotation /\ OneRotationPerJob

LEMMA RotationNext == RotationInv /\ [Next]_vars => RotationInv'
<1> SUFFICES ASSUME RotationInv, [Next]_vars PROVE RotationInv'
  OBVIOUS
<1>1. TypeInv /\ LookedForRotation /\ OneRotationPerJob /\ TypeInv'
  BY TypeNext DEF RotationInv
<1>r. rotations \in Seq(RotationRows) /\ \A i \in DOMAIN rotations : rotations[i] \in RotationRows
  BY <1>1, ElementOfSeq, LenProperties DEF TypeInv, TypeOK
<1>2. CASE rotations' = rotations
  <2>1. LookedForRotation'
    <3> SUFFICES ASSUME NEW j \in Jobs, rot'[j].pc = "create", NEW i \in DOMAIN rotations,
                        rotations[i].key = Head(rot'[j].todo), rotations[i].by = j
                 PROVE  ~(rotations[i].at >= rot'[j].at - DedupeWindow)
      BY <1>2 DEF LookedForRotation
    <3>1. CASE rot'[j] = rot[j]
      BY <1>1, <3>1 DEF LookedForRotation
    <3>2. CASE rot'[j] # rot[j]
      BY <1>1, <3>2, AboutToCreate DEF RecentRotation
    <3> QED BY <3>1, <3>2
  <2>2. OneRotationPerJob'
    BY <1>1, <1>2 DEF OneRotationPerJob
  <2> QED BY <1>1, <2>1, <2>2 DEF RotationInv
<1>3. ASSUME NEW j \in Jobs, rot[j].pc = "create", rot'[j].pc # "create",
             \A i \in Jobs : i # j => rot'[i] = rot[i],
             rotations' = Append(rotations, RotationRow(j))
      PROVE  RotationInv'
  <2>1. /\ RotationRow(j) \in RotationRows /\ RotationRow(j).key = Head(rot[j].todo)
        /\ RotationRow(j).at = rot[j].at /\ RotationRow(j).by = j
    BY <1>1, <1>3, RotationRowType
  <2>2. /\ DOMAIN rotations' = DOMAIN rotations \union {Len(rotations) + 1}
        /\ \A i \in DOMAIN rotations : rotations'[i] = rotations[i] /\ i # Len(rotations) + 1
        /\ rotations'[Len(rotations) + 1] = RotationRow(j)
    BY <1>3, <1>r, <2>1, AppendRow
  <2>3. LookedForRotation'
    <3> SUFFICES ASSUME NEW k \in Jobs, rot'[k].pc = "create", NEW i \in DOMAIN rotations',
                        rotations'[i].key = Head(rot'[k].todo), rotations'[i].by = k
                 PROVE  ~(rotations'[i].at >= rot'[k].at - DedupeWindow)
      BY DEF LookedForRotation
    <3>1. k # j /\ rot'[k] = rot[k]
      BY <1>3
    <3>2. i \in DOMAIN rotations
      BY <2>1, <2>2, <3>1
    <3> QED BY <1>1, <2>2, <3>1, <3>2 DEF LookedForRotation
  <2>4. \A i \in DOMAIN rotations :
          rotations[i].key = RotationRow(j).key /\ rotations[i].by = j =>
            /\ ~Close(rotations[i], RotationRow(j)) /\ ~Close(RotationRow(j), rotations[i])
    <3> SUFFICES ASSUME NEW i \in DOMAIN rotations, rotations[i].key = RotationRow(j).key,
                        rotations[i].by = j
                 PROVE  ~Close(rotations[i], RotationRow(j)) /\ ~Close(RotationRow(j), rotations[i])
      OBVIOUS
    <3>1. ~(rotations[i].at >= rot[j].at - DedupeWindow)
      BY <1>1, <1>3, <2>1 DEF LookedForRotation
    <3>2. rotations[i].at \in Int /\ RotationRow(j).at \in Int /\ DedupeWindow \in Nat
      BY <1>r, <2>1, DetectionAssumption, SMT DEF RotationRows, Times
    <3>3. ASSUME NEW x \in Int, NEW y \in Int, NEW w \in Nat, ~(x >= y - w)
          PROVE  ~(x - y \in (-w)..w) /\ ~(y - x \in (-w)..w)
      BY <3>3, SMT
    <3> QED BY <2>1, <3>1, <3>2, <3>3 DEF Close
  <2>5. OneRotationPerJob'
    <3> SUFFICES ASSUME NEW i \in DOMAIN rotations', NEW k \in DOMAIN rotations', i # k,
                        rotations'[i].key = rotations'[k].key,
                        Close(rotations'[i], rotations'[k])
                 PROVE  rotations'[i].by # rotations'[k].by
      BY DEF OneRotationPerJob, Close
    <3>1. CASE i \in DOMAIN rotations /\ k \in DOMAIN rotations
      BY <1>1, <2>2, <3>1 DEF OneRotationPerJob
    <3>2. CASE i \in DOMAIN rotations /\ k = Len(rotations) + 1
      BY <2>1, <2>2, <2>4, <3>2
    <3>3. CASE i = Len(rotations) + 1 /\ k \in DOMAIN rotations
      BY <2>1, <2>2, <2>4, <3>3
    <3> QED BY <2>2, <3>1, <3>2, <3>3
  <2> QED BY <1>1, <2>3, <2>5 DEF RotationInv
<1> QED BY <1>1, <1>2, <1>3, RotationsGrow

\* One job never records a rotation twice within the window, for any keys, windows and
\* candidates; two rows that are close come from the two jobs.
THEOREM JobsRecordRotationsOnce == Spec => []OneRotationPerJob
<1>1. Init => RotationInv
  <2> SUFFICES ASSUME Init PROVE RotationInv
    OBVIOUS
  <2>1. DOMAIN rotations = {} /\ \A j \in Jobs : rot[j].pc = "idle"
    BY EmptySeq, IdleIsTyped, SMT DEF Init
  <2> QED BY <2>1, TypeInit DEF RotationInv, LookedForRotation, OneRotationPerJob
<1>2. RotationInv => OneRotationPerJob
  BY DEF RotationInv
<1> QED BY <1>1, <1>2, RotationNext, PTL DEF Spec

-----------------------------------------------------------------------------
(* Signals and their rotations.                                            *)

\* A rotation towards token t is on record from the window before at.
Backed(t, at) ==
  \E k \in DOMAIN rotations : /\ DestOf[rotations[k].key] = t
                              /\ rotations[k].at >= at - DedupeWindow

AtWork == {"dedupe", "create", "status"}

\* While the pass records its rotations, every token it has matched has one on record
\* or one still to do.
MatchedInHand ==
  det.pc = "rotations" =>
    \A t \in det.matched : \/ Backed(t, PassClock)
                           \/ \E k \in ToSet(rot["signalDetection"].todo) : DestOf[k] = t

\* After that every such token has one on record.
MatchedBacked ==
  det.pc \in {"tokens"} \union AtWork => \A t \in det.matched : Backed(t, PassClock)

RotationsComeFirst == rot["signalDetection"].pc # "idle" => det.pc = "rotations"

\* Rule F fires for matched tokens only.
RuleFIsMatched ==
  det.pc \in AtWork => \A x \in det.fired : x.rule = "F" => det.token \in det.matched

\* A rule that fired either has its turn ahead or an active signal.
FiredSettled ==
  det.pc \in AtWork =>
    /\ \A x \in det.fired : x \in det.left \/ ActiveSignal(det.token, x.rule)
    /\ det.pc = "status" => det.left = {}

LEMMA RowsRemain ==
  ASSUME TypeInv, [Next]_vars
  PROVE  /\ \A i \in DOMAIN rotations : i \in DOMAIN rotations' /\ rotations'[i] = rotations[i]
         /\ \A i \in DOMAIN signals : i \in DOMAIN signals' /\ signals'[i] = signals[i]
<1>1. rotations \in Seq(RotationRows) /\ signals \in Seq(SignalRows)
  BY DEF TypeInv, TypeOK
<1>2. ASSUME rotations' # rotations
      PROVE  \A i \in DOMAIN rotations : i \in DOMAIN rotations' /\ rotations'[i] = rotations[i]
  <2>1. PICK j \in Jobs : rot[j].pc = "create" /\ rotations' = Append(rotations, RotationRow(j))
    BY <1>2, RotationsGrow
  <2> QED BY <1>1, <2>1, RotationRowType, AppendRow
<1>3. ASSUME signals' # signals
      PROVE  \A i \in DOMAIN signals : i \in DOMAIN signals' /\ signals'[i] = signals[i]
  <2>1. det.pc = "create" /\ signals' = Append(signals, SignalRow)
    BY <1>3, SignalsGrow
  <2> QED BY <1>1, <2>1, SignalRowType, AppendRow
<1> QED BY <1>2, <1>3, Zenon

\* What rows once said they say for good.
LEMMA BackingStays ==
  ASSUME TypeInv, [Next]_vars, PassClock' = PassClock
  PROVE  /\ \A t : Backed(t, PassClock) => Backed(t, PassClock)'
         /\ \A t, r : ActiveSignal(t, r) => ActiveSignal(t, r)'
  BY RowsRemain DEF Backed, ActiveSignal

\* A step of the pass after its rotations ends the pass, begins with a token, does a part
\* of its work, or leaves it.
LEMMA WorkSteps ==
  ASSUME TypeInv, TokenStep, ~EndPass
  PROVE  /\ det.pc \in {"tokens"} \union AtWork
         /\ det'.matched = det.matched /\ rot' = rot /\ rotations' = rotations
         /\ \/ det'.pc = "tokens"
            \/ /\ det.pc = "tokens" /\ det'.pc = "dedupe"
               /\ det'.fired \in FiredSets(det'.token) /\ det'.left = det'.fired
            \/ /\ det.pc \in AtWork /\ det'.pc \in AtWork
               /\ det'.token = det.token /\ det'.fired = det.fired
               /\ \/ det'.left = det.left /\ (det'.pc = "status" => det.left = {})
                  \/ /\ det'.left = det.left \ {NextFired} /\ det'.pc = "dedupe"
                     /\ \/ ActiveSignal(det.token, NextFired.rule)
                        \/ det.pc = "create" /\ signals' = Append(signals, SignalRow)
<1>a. det \in DetType
  BY PassesAreTyped
<1>1. CASE \E t \in Tokens : BeginToken(t)
  <2>1. PICK t \in Tokens : BeginToken(t)
    BY <1>1
  <2>2. PICK S \in FiredSets(t) :
          det' = [det EXCEPT !.pc = "dedupe", !.todo = @ \ {t}, !.token = t,
                             !.fired = S, !.left = S]
    BY <2>1 DEF BeginToken
  <2>3. det' = DetRecord("dedupe", det.matched, det.todo \ {t}, t, S, S, det.superseded)
    BY <2>2, DetSteps
  <2>4. /\ det'.pc = "dedupe" /\ det'.matched = det.matched /\ det'.token = t
        /\ det'.fired = S /\ det'.left = S
    BY <2>3 DEF DetRecord
  <2> QED BY <2>1, <2>2, <2>4 DEF BeginToken, AtWork
<1>2. CASE \E t \in Tokens : SkipToken(t)
  <2>1. PICK t \in Tokens : SkipToken(t)
    BY <1>2
  <2>2. det' = DetRecord(det.pc, det.matched, det.todo \ {t}, det.token, det.fired, det.left,
                         det.superseded)
    BY <2>1, DetSteps DEF SkipToken
  <2> QED BY <2>1, <2>2 DEF DetRecord, SkipToken, AtWork
<1>3. CASE DedupeSignal
  <2>1. CASE ActiveSignal(det.token, NextFired.rule)
    <3>1. det' = [det EXCEPT !.left = @ \ {NextFired}]
      BY <1>3, <2>1 DEF DedupeSignal
    <3>2. det' = DetRecord(det.pc, det.matched, det.todo, det.token, det.fired,
                           det.left \ {NextFired}, det.superseded)
      BY <3>1, DetSteps
    <3> QED BY <1>3, <2>1, <3>2 DEF DedupeSignal, DetRecord, AtWork
  <2>2. CASE ~ActiveSignal(det.token, NextFired.rule)
    <3>1. det' = DetRecord("create", det.matched, det.todo, det.token, det.fired, det.left,
                           det.superseded)
      BY <1>3, <2>2, DetSteps DEF DedupeSignal
    <3> QED BY <1>3, <3>1 DEF DedupeSignal, DetRecord, AtWork
  <2> QED BY <2>1, <2>2
<1>4. CASE CreateSignal
  <2>1. det' = DetRecord("dedupe", det.matched, det.todo, det.token, det.fired,
                         det.left \ {NextFired}, det.superseded)
    BY <1>4, DetSteps DEF CreateSignal
  <2> QED BY <1>4, <2>1 DEF CreateSignal, DetRecord, AtWork
<1>5. CASE (ReadSnapshot \/ WriteStatus \/ FailToken) /\ det' = LeaveToken
  <2>1. det' = DetRecord("tokens", det.matched, det.todo, "none", {}, {}, FALSE)
    BY <1>5, DetSteps
  <2> QED BY <1>5, <2>1 DEF DetRecord, AtWork, ReadSnapshot, WriteStatus, FailToken
<1>6. CASE ReadSnapshot /\ det' # LeaveToken
  <2>1. det' = DetRecord("status", det.matched, det.todo, det.token, det.fired, det.left,
                         det.superseded)
    BY <1>6, DetSteps DEF ReadSnapshot
  <2> QED BY <1>6, <2>1 DEF ReadSnapshot, DetRecord, AtWork
<1> QED
  BY <1>1, <1>2, <1>3, <1>4, <1>5, <1>6 DEF TokenStep, WriteStatus, FailToken

SD == "signalDetection"

\* The other job's rotations, the scoring job and the clock leave the pass alone.
LEMMA PassUndisturbed ==
  ASSUME TypeInv, \/ \E j \in Jobs : RotationStep(j) /\ j # SD
                  \/ \E t \in Tokens : ScoreToken(t)
                  \/ Tick
                  \/ UNCHANGED vars
  PROVE  /\ rot'[SD] = rot[SD]
         /\ det'.pc = det.pc /\ det'.matched = det.matched /\ det'.token = det.token
         /\ det'.fired = det.fired /\ det'.left = det.left
<1>1. ASSUME NEW j \in Jobs, RotationStep(j), j # SD
      PROVE  det' = det /\ rot'[SD] = rot[SD]
  <2>1. det' = det
    BY <1>1 DEF RotationStep, StartPass, CheckRotation, CreateRotation, FailRotation, EndRotation, SD
  <2>2. SD \in Jobs
    BY DEF SD, Jobs
  <2>3. CASE StartPass(j)
    BY <1>1, <2>1, <2>2, <2>3, PassesAreTyped DEF StartPass
  <2>4. CASE rot' = NextCandidate(j) /\ rot[j].todo # <<>>
    BY <1>1, <2>1, <2>2, <2>4, NextCandidateStep
  <2>5. ASSUME NEW pc \in {"idle", "create"}, rot' = [rot EXCEPT ![j].pc = pc]
        PROVE  rot'[SD] = rot[SD]
    BY <1>1, <2>2, <2>5, PcChanged
  <2>6. CASE rot' = [rot EXCEPT ![j] = RotIdle]
    BY <1>1, <2>1, <2>2, <2>6, IdleIsTyped, RotStep
  <2>7. \/ StartPass(j)
        \/ rot' = NextCandidate(j) /\ rot[j].todo # <<>>
        \/ rot' = [rot EXCEPT ![j].pc = "create"] \/ rot' = [rot EXCEPT ![j].pc = "idle"]
        \/ rot' = [rot EXCEPT ![j] = RotIdle]
    BY <1>1 DEF RotationStep, CheckRotation, CreateRotation, FailRotation, EndRotation,
       TypeInv, WorkInHand
  <2> QED BY <2>1, <2>3, <2>4, <2>5, <2>6, <2>7
<1>2. ASSUME NEW t \in Tokens, ScoreToken(t)
      PROVE  /\ rot' = rot
             /\ det'.pc = det.pc /\ det'.matched = det.matched /\ det'.token = det.token
             /\ det'.fired = det.fired /\ det'.left = det.left
  <2>1. det' = det \/ det' = DetRecord(det.pc, det.matched, det.todo, det.token, det.fired,
                                       det.left, TRUE)
    BY <1>2, DetSteps DEF ScoreToken
  <2> QED BY <1>2, <2>1 DEF DetRecord, ScoreToken
<1>3. ASSUME Tick \/ UNCHANGED vars PROVE rot' = rot /\ det' = det
  BY <1>3 DEF Tick, vars
<1> QED BY <1>1, <1>2, <1>3

LEMMA HeadOrTail ==
  ASSUME NEW s \in Seq(Keys), s # <<>>, NEW k \in ToSet(s)
  PROVE  k = Head(s) \/ k \in ToSet(Tail(s))
<1>1. PICK i \in DOMAIN s : s[i] = k
  BY DEF ToSet
<1>2. DOMAIN s = 1..Len(s) /\ Len(s) \in Nat
  BY LenProperties
<1>3. /\ Head(s) = s[1] /\ Len(Tail(s)) = Len(s) - 1 /\ Tail(s) \in Seq(Keys)
      /\ \A n \in 1..Len(Tail(s)) : Tail(s)[n] = s[n + 1]
  BY HeadTailProperties
<1>4. CASE i = 1
  BY <1>1, <1>3, <1>4
<1>5. CASE i # 1
  <2>1. i - 1 \in 1..Len(Tail(s)) /\ Tail(s)[i - 1] = s[i]
    BY <1>1, <1>2, <1>3, <1>5
  <2>2. DOMAIN Tail(s) = 1..Len(Tail(s))
    BY <1>3, LenProperties
  <2> QED BY <1>1, <2>1, <2>2 DEF ToSet
<1> QED BY <1>4, <1>5

\* The rotations of the signal-detection pass itself.
LEMMA OwnRotations ==
  ASSUME TypeInv, RotationStep(SD)
  PROVE  \/ /\ det'.pc = "rotations"
            /\ \E list \in CandidateLists :
                 /\ rot'[SD].todo = list
                 /\ det'.matched = {DestOf[k] : k \in ToSet(list)}
         \/ /\ det' = det /\ rot[SD].pc # "idle" /\ rot'[SD].at = rot[SD].at
            /\ \/ rot'[SD].todo = rot[SD].todo
               \/ /\ rot[SD].todo # <<>> /\ rot'[SD].todo = Tail(rot[SD].todo)
                  /\ \/ RecentRotation(Head(rot[SD].todo), rot[SD].at)
                     \/ /\ rot[SD].pc = "create"
                        /\ rotations' = Append(rotations, RotationRow(SD))
         \/ det' = DetIdle /\ rot'[SD].pc = "idle"
         \/ /\ rot[SD].pc # "idle" /\ rot[SD].todo = <<>>
            /\ rot'[SD].pc = "idle" /\ rot'[SD].at = rot[SD].at
            /\ det'.pc = "tokens" /\ det'.matched = det.matched
<1>a. SD \in Jobs
  BY DEF SD, Jobs
<1>1. CASE StartPass(SD)
  <2>1. PICK list \in CandidateLists :
          /\ rot' = [rot EXCEPT ![SD] = [pc |-> "check", at |-> now, todo |-> list]]
          /\ det' = [det EXCEPT !.pc = "rotations", !.matched = {DestOf[k] : k \in ToSet(list)}]
    BY <1>1 DEF StartPass, SD
  <2>2. det' = DetRecord("rotations", {DestOf[k] : k \in ToSet(list)}, det.todo, det.token,
                         det.fired, det.left, det.superseded)
    BY <2>1, DetSteps
  <2>3. rot'[SD].todo = list
    BY <1>a, <2>1, PassesAreTyped
  <2> QED BY <2>2, <2>3 DEF DetRecord
<1>2. CASE CheckRotation(SD)
  <2>1. CASE RecentRotation(Head(rot[SD].todo), rot[SD].at)
    BY <1>2, <1>a, <2>1, NextCandidateStep DEF CheckRotation
  <2>2. CASE ~RecentRotation(Head(rot[SD].todo), rot[SD].at)
    <3>1. rot' = [rot EXCEPT ![SD].pc = "create"]
      BY <1>2, <2>2 DEF CheckRotation
    <3>2. rot'[SD].todo = rot[SD].todo /\ rot'[SD].at = rot[SD].at
      BY <1>a, <3>1, PcChanged
    <3> QED BY <1>2, <3>2 DEF CheckRotation
  <2> QED BY <2>1, <2>2
<1>3. CASE CreateRotation(SD)
  BY <1>3, <1>a, NextCandidateStep DEF CreateRotation, TypeInv, WorkInHand
<1>4. CASE FailRotation(SD)
  BY <1>4, <1>a, IdleIsTyped, RotStep DEF FailRotation, SD
<1>5. CASE EndRotation(SD)
  <2>1. /\ rot' = [rot EXCEPT ![SD].pc = "idle"]
        /\ det' = [det EXCEPT !.pc = "tokens", !.todo = Tokens]
        /\ rot[SD].pc = "check" /\ rot[SD].todo = <<>>
    BY <1>5 DEF EndRotation, SD
  <2>2. det' = DetRecord("tokens", det.matched, Tokens, det.token, det.fired, det.left,
                         det.superseded)
    BY <2>1, DetSteps
  <2>3. rot'[SD].pc = "idle" /\ rot'[SD].at = rot[SD].at
    BY <1>a, <2>1, PcChanged
  <2> QED BY <2>1, <2>2, <2>3 DEF DetRecord
<1> QED BY <1>1, <1>2, <1>3, <1>4, <1>5 DEF RotationStep

PassBacked == MatchedInHand /\ MatchedBacked /\ RotationsComeFirst /\ RuleFIsMatched /\ FiredSettled

LEMMA PassBackedNext ==
  ASSUME TypeInv, PassBacked, [Next]_vars
  PROVE  PassBacked'
<1>a. det \in DetType /\ rot[SD] \in RotType /\ SD \in Jobs
  BY PassesAreTyped DEF SD, Jobs
<1>i. ASSUME det'.pc = "idle", rot'[SD].pc = "idle" PROVE PassBacked'
  BY <1>i DEF PassBacked, MatchedInHand, MatchedBacked, RotationsComeFirst, RuleFIsMatched,
     FiredSettled, AtWork, SD
<1>1. CASE \/ \E j \in Jobs : RotationStep(j) /\ j # SD
           \/ \E t \in Tokens : ScoreToken(t)
           \/ Tick
           \/ UNCHANGED vars
  <2>1. /\ rot'[SD] = rot[SD]
        /\ det'.pc = det.pc /\ det'.matched = det.matched /\ det'.token = det.token
        /\ det'.fired = det.fired /\ det'.left = det.left
    BY <1>1, PassUndisturbed
  <2>2. PassClock' = PassClock
    BY <2>1 DEF PassClock, SD
  <2>3. /\ \A t : Backed(t, PassClock) => Backed(t, PassClock)'
        /\ \A t, r : ActiveSignal(t, r) => ActiveSignal(t, r)'
    BY <2>2, BackingStays
  <2>4. MatchedInHand' /\ MatchedBacked' /\ RotationsComeFirst'
    BY <2>1, <2>3 DEF PassBacked, MatchedInHand, MatchedBacked, RotationsComeFirst, SD
  <2>5. RuleFIsMatched' /\ FiredSettled'
    BY <2>1, <2>3 DEF PassBacked, RuleFIsMatched, FiredSettled
  <2> QED BY <2>4, <2>5 DEF PassBacked
<1>2. CASE RotationStep(SD)
  <2>1. ASSUME det'.pc = "rotations", NEW list \in CandidateLists, rot'[SD].todo = list,
               det'.matched = {DestOf[k] : k \in ToSet(list)}
        PROVE  PassBacked'
    BY <2>1 DEF PassBacked, MatchedInHand, MatchedBacked, RotationsComeFirst, RuleFIsMatched,
       FiredSettled, AtWork, SD
  <2>2. ASSUME det' = det, rot[SD].pc # "idle", PassClock' = PassClock,
               \A t \in det.matched :
                 (\E k \in ToSet(rot[SD].todo) : DestOf[k] = t) =>
                   Backed(t, PassClock)' \/ \E k \in ToSet(rot'[SD].todo) : DestOf[k] = t
        PROVE  PassBacked'
    <3>1. det.pc = "rotations"
      BY <2>2 DEF PassBacked, RotationsComeFirst, SD
    <3>2. \A t : Backed(t, PassClock) => Backed(t, PassClock)'
      BY <2>2, BackingStays
    <3>3. MatchedInHand'
      BY <2>2, <3>1, <3>2 DEF PassBacked, MatchedInHand, SD
    <3> QED BY <2>2, <3>1, <3>3 DEF PassBacked, MatchedBacked, RotationsComeFirst,
               RuleFIsMatched, FiredSettled, AtWork, SD
  <2>3. ASSUME det' = det, rot[SD].pc # "idle", rot'[SD].at = rot[SD].at,
               rot'[SD].todo = rot[SD].todo
        PROVE  PassBacked'
    BY <2>2, <2>3 DEF PassClock, SD
  <2>4. ASSUME det' = det, rot[SD].pc # "idle", rot'[SD].at = rot[SD].at,
               rot[SD].todo # <<>>, rot'[SD].todo = Tail(rot[SD].todo),
               \/ RecentRotation(Head(rot[SD].todo), rot[SD].at)
               \/ /\ rot[SD].pc = "create"
                  /\ rotations' = Append(rotations, RotationRow(SD))
        PROVE  PassBacked'
    <3>1. PassClock' = PassClock /\ PassClock = rot[SD].at
      BY <2>4 DEF PassClock, SD
    <3>2. ASSUME NEW key, key = Head(rot[SD].todo) PROVE Backed(DestOf[key], PassClock)'
      <4>1. CASE RecentRotation(Head(rot[SD].todo), rot[SD].at)
        <5>1. Backed(DestOf[key], PassClock)
          BY <3>1, <3>2, <4>1 DEF RecentRotation, Backed
        <5> QED BY <3>1, <5>1, BackingStays
      <4>2. CASE rot[SD].pc = "create" /\ rotations' = Append(rotations, RotationRow(SD))
        <5>1. /\ RotationRow(SD) \in RotationRows
              /\ RotationRow(SD).key = key /\ RotationRow(SD).at = PassClock'
          BY <1>a, <3>1, <3>2, <4>2, RotationRowType
        <5>2. /\ Len(rotations) + 1 \in DOMAIN rotations'
              /\ rotations'[Len(rotations) + 1] = RotationRow(SD)
          BY <4>2, <5>1, AppendRow DEF TypeInv, TypeOK
        <5>3. PassClock' >= PassClock' - DedupeWindow
          BY <1>a, <3>1, DetectionAssumption, SMT DEF RotType, Times
        <5> QED BY <5>1, <5>2, <5>3 DEF Backed
      <4> QED BY <2>4, <4>1, <4>2
    <3>3. \A k \in ToSet(rot[SD].todo) : k = Head(rot[SD].todo) \/ k \in ToSet(rot'[SD].todo)
      BY <1>a, <2>4, HeadOrTail DEF RotType
    <3>4. \A t \in det.matched :
            (\E k \in ToSet(rot[SD].todo) : DestOf[k] = t) =>
              Backed(t, PassClock)' \/ \E k \in ToSet(rot'[SD].todo) : DestOf[k] = t
      BY <3>2, <3>3, Zenon
    <3> QED BY <2>2, <2>4, <3>1, <3>4
  <2>5. ASSUME rot[SD].pc # "idle", rot[SD].todo = <<>>,
               rot'[SD].pc = "idle", rot'[SD].at = rot[SD].at,
               det'.pc = "tokens", det'.matched = det.matched
        PROVE  PassBacked'
    <3>1. det.pc = "rotations" /\ ToSet(rot[SD].todo) = {}
      BY <2>5, EmptySeq DEF PassBacked, RotationsComeFirst, SD, ToSet
    <3>2. PassClock' = PassClock
      BY <2>5 DEF PassClock, SD
    <3>3. \A t \in det.matched : Backed(t, PassClock)
      BY <3>1 DEF PassBacked, MatchedInHand, SD
    <3>4. \A t \in det.matched : Backed(t, PassClock)'
      BY <3>2, <3>3, BackingStays
    <3> QED BY <2>5, <3>4 DEF PassBacked, MatchedInHand, MatchedBacked, RotationsComeFirst,
               RuleFIsMatched, FiredSettled, AtWork, SD
  <2>6. ASSUME det' = DetIdle, rot'[SD].pc = "idle" PROVE PassBacked'
    BY <1>i, <2>6, IdleIsTyped
  <2> QED BY <1>2, <2>1, <2>3, <2>4, <2>5, <2>6, OwnRotations, Zenon
<1>3. CASE TokenStep /\ ~EndPass
  <2>1. /\ det.pc \in {"tokens"} \union AtWork
        /\ det'.matched = det.matched /\ rot' = rot /\ rotations' = rotations
    BY <1>3, WorkSteps
  <2>2. PassClock' = PassClock
    BY <2>1 DEF PassClock
  <2>3. /\ \A t : Backed(t, PassClock) => Backed(t, PassClock)'
        /\ \A t, r : ActiveSignal(t, r) => ActiveSignal(t, r)'
    BY <2>2, BackingStays
  <2>4. det.pc # "rotations" /\ rot[SD].pc = "idle" /\ rot'[SD].pc = "idle"
    BY <2>1 DEF PassBacked, RotationsComeFirst, AtWork, SD
  <2>5. \A t \in det.matched : Backed(t, PassClock)'
    BY <2>1, <2>3 DEF PassBacked, MatchedBacked
  <2>6. det'.pc # "rotations"
    BY <1>3, WorkSteps DEF AtWork
  <2>7. MatchedInHand' /\ MatchedBacked' /\ RotationsComeFirst'
    BY <2>1, <2>4, <2>5, <2>6 DEF MatchedInHand, MatchedBacked, RotationsComeFirst, SD
  <2>8. RuleFIsMatched' /\ FiredSettled'
    <3>1. CASE det'.pc = "tokens"
      BY <3>1 DEF RuleFIsMatched, FiredSettled, AtWork
    <3>2. CASE /\ det.pc = "tokens" /\ det'.pc = "dedupe"
               /\ det'.fired \in FiredSets(det'.token) /\ det'.left = det'.fired
      <4>1. \A x \in det'.fired : x.rule = "F" => det'.token \in det.matched
        BY <3>2 DEF FiredSets
      <4> QED BY <2>1, <3>2, <4>1 DEF RuleFIsMatched, FiredSettled
    <3>3. ASSUME det.pc \in AtWork, det'.pc \in AtWork, det'.token = det.token,
                 det'.fired = det.fired
          PROVE  RuleFIsMatched'
      BY <2>1, <3>3 DEF PassBacked, RuleFIsMatched
    <3>4. ASSUME det.pc \in AtWork, det'.token = det.token, det'.fired = det.fired,
                 det'.left = det.left, det'.pc = "status" => det.left = {}
          PROVE  FiredSettled'
      BY <2>3, <3>4 DEF PassBacked, FiredSettled
    <3>5. ASSUME det.pc \in AtWork, det'.token = det.token, det'.fired = det.fired,
                 det'.left = det.left \ {NextFired}, det'.pc = "dedupe",
                 \/ ActiveSignal(det.token, NextFired.rule)
                 \/ det.pc = "create" /\ signals' = Append(signals, SignalRow)
          PROVE  FiredSettled'
      <4>1. ASSUME NEW t, t = det.token, NEW r, r = NextFired.rule PROVE ActiveSignal(t, r)'
        <5>1. CASE ActiveSignal(det.token, NextFired.rule)
          BY <2>3, <4>1, <5>1
        <5>2. CASE det.pc = "create" /\ signals' = Append(signals, SignalRow)
          <6>1. /\ SignalRow \in SignalRows /\ SignalRow.token = t
                /\ SignalRow.rule = r /\ SignalRow.at = PassClock'
            BY <2>2, <4>1, <5>2, SignalRowType
          <6>2. /\ Len(signals) + 1 \in DOMAIN signals'
                /\ signals'[Len(signals) + 1] = SignalRow
            BY <5>2, <6>1, AppendRow DEF TypeInv, TypeOK
          <6>3. PassClock' >= PassClock' - DedupeWindow
            BY <1>a, <2>2, DetectionAssumption, SMT DEF RotType, Times, PassClock, SD
          <6> QED BY <6>1, <6>2, <6>3 DEF ActiveSignal
        <5> QED BY <3>5, <5>1, <5>2
      <4>2. \A x \in det.fired : x \in det'.left \/ x = NextFired \/ ActiveSignal(det.token, x.rule)
        BY <3>5 DEF PassBacked, FiredSettled
      <4>3. ASSUME NEW x \in det.fired, x \notin det'.left PROVE ActiveSignal(det.token, x.rule)'
        <5>1. PICK t : t = det.token
          OBVIOUS
        <5>2. PICK r : r = x.rule
          OBVIOUS
        <5>3. ActiveSignal(t, r)'
          BY <2>3, <4>1, <4>2, <4>3, <5>1, <5>2
        <5> QED BY <3>5, <5>1, <5>2, <5>3
      <4> QED BY <3>5, <4>3 DEF FiredSettled
    <3> QED BY <1>3, <3>1, <3>2, <3>3, <3>4, <3>5, WorkSteps
  <2> QED BY <2>7, <2>8 DEF PassBacked
<1>4. CASE EndPass \/ Crash
  <2>1. det' = DetIdle /\ rot'[SD] = RotIdle
    BY <1>4, <1>a, IdleIsTyped, RotStep, PassesAreTyped DEF EndPass, Crash, SD
  <2> QED BY <1>i, <2>1, IdleIsTyped
<1> QED BY <1>1, <1>2, <1>3, <1>4 DEF Next

LEMMA RuleFNext ==
  ASSUME TypeInv, PassBacked, RuleFBackedByRotation, [Next]_vars
  PROVE  RuleFBackedByRotation'
<1>1. signals \in Seq(SignalRows)
  BY DEF TypeInv, TypeOK
<1>2. ASSUME NEW i \in DOMAIN signals, signals[i].rule = "F"
      PROVE  \E k \in DOMAIN rotations' : /\ DestOf[rotations'[k].key] = signals[i].token
                                          /\ rotations'[k].at >= signals[i].at - DedupeWindow
  BY <1>2, RowsRemain DEF RuleFBackedByRotation
<1>3. CASE signals' = signals
  BY <1>2, <1>3 DEF RuleFBackedByRotation
<1>4. CASE det.pc = "create" /\ signals' = Append(signals, SignalRow)
  <2>1. /\ SignalRow \in SignalRows /\ SignalRow.token = det.token
        /\ SignalRow.rule = NextFired.rule /\ SignalRow.at = PassClock
        /\ NextFired \in det.fired
    BY <1>4, SignalRowType DEF TypeInv, WorkInHand
  <2>2. /\ DOMAIN signals' = DOMAIN signals \union {Len(signals) + 1}
        /\ \A i \in DOMAIN signals : signals'[i] = signals[i]
        /\ signals'[Len(signals) + 1] = SignalRow
    BY <1>1, <1>4, <2>1, AppendRow
  <2>3. ASSUME SignalRow.rule = "F"
        PROVE  \E k \in DOMAIN rotations' : /\ DestOf[rotations'[k].key] = SignalRow.token
                                            /\ rotations'[k].at >= SignalRow.at - DedupeWindow
    <3>1. Backed(det.token, PassClock)
      BY <1>4, <2>1, <2>3 DEF PassBacked, RuleFIsMatched, MatchedBacked, AtWork
    <3> QED BY <2>1, <3>1, RowsRemain DEF Backed
  <2> QED BY <1>2, <2>2, <2>3 DEF RuleFBackedByRotation
<1> QED BY <1>3, <1>4, SignalsGrow

\* A step changes a status by scoring the token or by writing what the fired rules make of it.
LEMMA StatusChange ==
  ASSUME TypeInv, [Next]_vars, NEW t \in Tokens, status'[t] # status[t]
  PROVE  \/ status'[t].value = "watching"
         \/ /\ det.pc = "status" /\ t = det.token
            /\ \E s \in StatusFor(det.fired) :
                 status'[t] = [value |-> s, asOf |-> IF det.fired = {} THEN 0 ELSE PassClock]
<1>1. status \in [Tokens -> [value : StatusValues, asOf : Times]]
  BY DEF TypeInv, TypeOK
<1>2. CASE \E u \in Tokens : ScoreToken(u)
  BY <1>1, <1>2 DEF ScoreToken
<1>3. CASE WriteStatus
  BY <1>1, <1>3 DEF WriteStatus
<1>4. CASE (\A u \in Tokens : ~ScoreToken(u)) /\ ~WriteStatus
  BY <1>4 DEF Next, RotationStep, TokenStep, StartPass, CheckRotation, CreateRotation,
     FailRotation, EndRotation, BeginToken, SkipToken, DedupeSignal, CreateSignal, ReadSnapshot,
     FailToken, EndPass, Crash, Tick, vars
<1> QED BY <1>2, <1>3, <1>4

\* A status that claims a rule is written for one that fired.
LEMMA StatusNamesFired ==
  ASSUME NEW fired \in SUBSET FiredRule, NEW s \in StatusFor(fired), RulesBehind(s) # {}
  PROVE  \E x \in fired : x.rule \in RulesBehind(s)
<1> DEFINE rules == {x.rule : x \in fired}
<1>1. rules \subseteq {"A", "B", "C", "D", "E", "F", "G"}
  BY SeveritiesAreKnown, RulesAreKnown
<1>2. CASE "G" \in rules
  <2>1. s = "exit_warning"
    BY <1>2 DEF StatusFor
  <2> QED BY <1>2, <2>1 DEF RulesBehind
<1>3. CASE "G" \notin rules /\ "F" \in rules
  <2>1. s = "profit_rotation"
    BY <1>3 DEF StatusFor
  <2> QED BY <1>3, <2>1 DEF RulesBehind
<1>4. CASE rules # {} /\ "G" \notin rules /\ "F" \notin rules
  <2>1. rules \subseteq {"A", "B", "C", "D", "E"}
    BY <1>1, <1>4
  <2>2. s = "hot"
    BY <1>4, <2>1 DEF StatusFor
  <2> QED BY <1>4, <2>1, <2>2 DEF RulesBehind
<1>5. CASE rules = {}
  <2>1. s \in {"dead", "watching"}
    BY <1>5 DEF StatusFor
  <2> QED BY <2>1 DEF RulesBehind
<1> QED BY <1>2, <1>3, <1>4, <1>5

LEMMA StatusNext ==
  ASSUME TypeInv, PassBacked, StatusBackedBySignal, [Next]_vars
  PROVE  StatusBackedBySignal'
<1> SUFFICES ASSUME NEW t \in Tokens, RulesBehind(status'[t].value) # {}
             PROVE  \E i \in DOMAIN signals' :
                       /\ signals'[i].token = t
                       /\ signals'[i].rule \in RulesBehind(status'[t].value)
                       /\ signals'[i].at >= status'[t].asOf - DedupeWindow
  BY DEF StatusBackedBySignal
<1>1. CASE status'[t] = status[t]
  <2>1. PICK i \in DOMAIN signals : /\ signals[i].token = t
                                    /\ signals[i].rule \in RulesBehind(status[t].value)
                                    /\ signals[i].at >= status[t].asOf - DedupeWindow
    BY <1>1 DEF StatusBackedBySignal
  <2> QED BY <1>1, <2>1, RowsRemain
<1>2. CASE status'[t].value = "watching"
  BY <1>2 DEF RulesBehind
<1>3. ASSUME det.pc = "status", t = det.token, NEW s \in StatusFor(det.fired),
             status'[t] = [value |-> s, asOf |-> IF det.fired = {} THEN 0 ELSE PassClock]
      PROVE  \E i \in DOMAIN signals' :
                /\ signals'[i].token = t
                /\ signals'[i].rule \in RulesBehind(status'[t].value)
                /\ signals'[i].at >= status'[t].asOf - DedupeWindow
  <2>1. det.fired \in SUBSET FiredRule
    BY PassesAreTyped DEF DetType
  <2>2. PICK x \in det.fired : x.rule \in RulesBehind(s)
    BY <1>3, <2>1, StatusNamesFired
  <2>3. ActiveSignal(det.token, x.rule)
    BY <1>3, <2>2 DEF PassBacked, FiredSettled, AtWork
  <2>4. PICK i \in DOMAIN signals : /\ signals[i].token = t /\ signals[i].rule = x.rule
                                    /\ signals[i].at >= PassClock - DedupeWindow
    BY <1>3, <2>3 DEF ActiveSignal
  <2>5. status'[t].value = s /\ status'[t].asOf = PassClock
    BY <1>3, <2>2
  <2> QED BY <2>2, <2>4, <2>5, RowsRemain
<1> QED BY <1>1, <1>2, <1>3, StatusChange

BackingInv == TypeInv /\ PassBacked /\ RuleFBackedByRotation /\ StatusBackedBySignal

LEMMA BackingInit == Init => BackingInv
<1> SUFFICES ASSUME Init PROVE BackingInv
  OBVIOUS
<1>1. /\ DOMAIN signals = {} /\ det.pc = "idle" /\ rot["signalDetection"].pc = "idle"
      /\ \A t \in Tokens : status[t].value = "none"
  BY EmptySeq, IdleIsTyped, SMT DEF Init, NoSnapshot, Jobs
<1>2. PassBacked
  BY <1>1 DEF PassBacked, MatchedInHand, MatchedBacked, RotationsComeFirst, RuleFIsMatched,
     FiredSettled, AtWork
<1>3. RuleFBackedByRotation /\ StatusBackedBySignal
  BY <1>1 DEF RuleFBackedByRotation, StatusBackedBySignal, RulesBehind
<1> QED BY <1>2, <1>3, TypeInit DEF BackingInv

LEMMA BackingNext == BackingInv /\ [Next]_vars => BackingInv'
  BY TypeNext, PassBackedNext, RuleFNext, StatusNext DEF BackingInv

\* A Rule F signal always has a rotation towards its token on record, for any tokens,
\* keys, windows and candidates, whatever the other job writes and whatever fails.
THEOREM RuleFSignalsAreBacked == Spec => []RuleFBackedByRotation
<1>1. BackingInv => RuleFBackedByRotation
  BY DEF BackingInv
<1> QED BY <1>1, BackingInit, BackingNext, PTL DEF Spec

\* A token shown as exit_warning, profit_rotation or hot has a signal of such a rule, for
\* any rules, windows and interleaving with the scoring job.
THEOREM StatusesAreBacked == Spec => []StatusBackedBySignal
<1>1. BackingInv => StatusBackedBySignal
  BY DEF BackingInv
<1> QED BY <1>1, BackingInit, BackingNext, PTL DEF Spec

-----------------------------------------------------------------------------
(* Severities.                                                             *)

\* A signal is as severe as its rule reports.
SeveritiesFit == \A i \in DOMAIN signals : signals[i].severity \in Severities(signals[i].rule)

LEMMA SeveritiesFitNext ==
  ASSUME TypeInv, SeveritiesFit, [Next]_vars
  PROVE  SeveritiesFit'
<1>1. CASE signals' = signals
  BY <1>1 DEF SeveritiesFit
<1>2. CASE det.pc = "create" /\ signals' = Append(signals, SignalRow)
  <2>1. /\ SignalRow \in SignalRows /\ SignalRow.rule = NextFired.rule
        /\ SignalRow.severity = NextFired.severity /\ NextFired \in FiredRule
    BY <1>2, SignalRowType, PassesAreTyped DEF SignalRow, DetType
  <2>2. SignalRow.severity \in Severities(SignalRow.rule)
    <3>1. PICK r \in Rules : NextFired \in [rule : {r}, severity : Severities(r)]
      BY <2>1 DEF FiredRule
    <3> QED BY <2>1, <3>1
  <2>3. /\ DOMAIN signals' = DOMAIN signals \union {Len(signals) + 1}
        /\ \A i \in DOMAIN signals : signals'[i] = signals[i]
        /\ signals'[Len(signals) + 1] = SignalRow
    BY <1>2, <2>1, AppendRow DEF TypeInv, TypeOK
  <2> QED BY <2>2, <2>3 DEF SeveritiesFit
<1> QED BY <1>1, <1>2, SignalsGrow

\* Which makes being CRITICAL a matter of the rule.
LEMMA CriticalIsRuleG ==
  ASSUME TypeInv, SeveritiesFit, NEW i \in DOMAIN signals
  PROVE  signals[i].severity = "CRITICAL" <=> signals[i].rule = "G"
<1>1. signals \in Seq(SignalRows)
  BY DEF TypeInv, TypeOK
<1>2. signals[i] \in SignalRows
  BY <1>1, ElementOfSeq, LenProperties
<1>3. signals[i].rule \in {"A", "B", "C", "D", "E", "F", "G"}
  BY <1>2, RulesAreKnown DEF SignalRows
<1> QED BY <1>3, SMT DEF SeveritiesFit, Severities
=============================================================================
