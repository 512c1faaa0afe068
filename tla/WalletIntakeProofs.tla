------------------------- MODULE WalletIntakeProofs -------------------------
(***************************************************************************)
(* What intake guarantees for any candidates, wallets, passes and batches, *)
(* and any number of faults.                                               *)
(*                                                                         *)
(* The argument: a pass that is about to write a verdict holds a candidate *)
(* whose wallet it has seen to; what it holds and somebody else has judged *)
(* meanwhile it holds together with somebody else; and a figure of the     *)
(* operator that a pass is about to overrule came after that pass had      *)
(* looked.                                                                 *)
(***************************************************************************)
EXTENDS WalletIntake, TLAPS

PassType == [pc : {"idle", "mark", "next", "reset"} \union InCandidate,
             todo : SUBSET Candidates, cur : Candidates \union {"none"},
             at : Times, raced : BOOLEAN, shared : SUBSET Candidates,
             verdict : {"none", "promote", "reject", "insufficient"}]

\* What a pass has in hand at each of its steps.
InHand(v) ==
  /\ v.pc = "idle" => v.todo = {}
  /\ v.pc \in {"idle", "mark", "next"} <=> v.cur = "none"
  /\ v.cur \notin v.todo
  /\ v.pc \in {"watch", "lookup", "stats"} => v.verdict = "promote"
  /\ v.pc = "verdict" => v.verdict # "none"

TypeInv == /\ TypeOK /\ \A p \in Passes : InHand(val[p])
           /\ imp.pc = "stats" => imp.wallet \in Wallets

Tracked(w) == w \in watched /\ latest[w].sources # {}
\* The wallet of a candidate about to be promoted is watched, and then has figures.
PromotionIsTracked ==
  \A p \in Passes :
    /\ val[p].pc \in {"lookup", "stats"} => WalletOf[val[p].cur] \in watched
    /\ val[p].pc = "verdict" /\ val[p].verdict = "promote" => Tracked(WalletOf[val[p].cur])
TrackInv == TypeInv /\ PromotedIsTracked /\ PromotionIsTracked

\* Of what two passes hold each of them knows.
SharedIsKnown ==
  \A p, q \in Passes : p # q => Held(p) \cap Held(q) \subseteq val[p].shared
\* What a pass holds of judged candidates another pass judged, or its own
\* write of the verdict has failed.
JudgedIsShared ==
  \A p \in Passes : \A c \in Held(p) :
    status[c] \in Terminal => c \in val[p].shared \/ (val[p].pc = "reset" /\ val[p].cur = c)
VerdictInv == TypeInv /\ SharedIsKnown /\ JudgedIsShared

\* Only the operator's figures count for w.
OnlyCsv(w) == latest[w].sources = {"csv"}
\* A pass that is about to write figures all the same had looked before.
RacedIsKnown ==
  /\ \A w \in ref.todo : OnlyCsv(w) => w \in ref.raced
  /\ \A p \in Passes : val[p].pc = "stats" /\ OnlyCsv(WalletOf[val[p].cur]) => val[p].raced
RaceInv == TypeInv /\ RacedIsKnown

-----------------------------------------------------------------------------
(* What a step makes of a pass, and of the figures.                        *)

Pass(pc, todo, cur, at, verdict, raced, shared) ==
  [pc |-> pc, todo |-> todo, cur |-> cur, at |-> at, verdict |-> verdict,
   raced |-> raced, shared |-> shared]
\* Pass p becomes v, the others stay.
Becomes(p, v) ==
  /\ val' \in [Passes -> PassType] /\ val'[p] = v
  /\ \A q \in Passes \ {p} : val'[q] = val[q]

LEMMA PassesAreTyped == TypeInv => val \in [Passes -> PassType]
  BY DEF TypeInv, TypeOK, PassType

LEMMA SetPass ==
  ASSUME TypeInv, NEW p \in Passes, NEW v, v \in PassType, val' = [val EXCEPT ![p] = v]
  PROVE  Becomes(p, v)
  BY PassesAreTyped DEF Becomes

PcTypes == {"idle", "mark", "next", "reset"} \union InCandidate
VerdictTypes == {"none", "promote", "reject", "insufficient"}

\* Records with one field or another set.
LEMMA EditPc ==
  ASSUME NEW r \in PassType, NEW pc \in PcTypes, NEW x, x = [r EXCEPT !.pc = pc]
  PROVE  /\ x \in PassType
         /\ x = Pass(pc, r.todo, r.cur, r.at, r.verdict, r.raced, r.shared)
  BY Zenon DEF PassType, Pass, PcTypes

LEMMA EditInserted ==
  ASSUME NEW r \in PassType, NEW x, x = [r EXCEPT !.pc = "verdict", !.raced = FALSE]
  PROVE  /\ x \in PassType
         /\ x = Pass("verdict", r.todo, r.cur, r.at, r.verdict, FALSE, r.shared)
  BY Zenon DEF PassType, Pass, InCandidate

LEMMA EditFailed ==
  ASSUME NEW r \in PassType, NEW c \in Candidates, NEW x,
         x = [r EXCEPT !.todo = @ \ {c}, !.cur = c, !.pc = "reset"]
  PROVE  /\ x \in PassType
         /\ x = Pass("reset", r.todo \ {c}, c, r.at, r.verdict, r.raced, r.shared)
<1>1. x = Pass("reset", r.todo \ {c}, c, r.at, r.verdict, r.raced, r.shared)
  BY Zenon DEF PassType, Pass
<1>2. r.todo \ {c} \in SUBSET Candidates
  BY DEF PassType
<1> QED BY <1>1, <1>2, Zenon DEF PassType, Pass

LEMMA EditProceeds ==
  ASSUME NEW todo \in SUBSET Candidates, NEW shared \in SUBSET Candidates, NEW x,
         NEW pc \in PcTypes,
         x = [ValIdle EXCEPT !.pc = pc, !.todo = todo, !.shared = shared]
  PROVE  /\ x \in PassType
         /\ x = Pass(pc, todo, "none", 0, "none", FALSE, shared)
<1>1. x = Pass(pc, todo, "none", 0, "none", FALSE, shared)
  BY Zenon DEF ValIdle, Pass
<1>2. 0 \in Times
  BY IntakeAssumption DEF Times
<1>3. Pass(pc, todo, "none", 0, "none", FALSE, shared) \in PassType
  BY <1>2, Zenon DEF PassType, Pass, PcTypes
<1> QED BY <1>1, <1>3, Zenon

LEMMA EditOvertaken ==
  ASSUME NEW r \in PassType, NEW x, x = [r EXCEPT !.raced = TRUE]
  PROVE  /\ x \in PassType
         /\ x = Pass(r.pc, r.todo, r.cur, r.at, r.verdict, TRUE, r.shared)
  BY Zenon DEF PassType, Pass

LEMMA EditShared ==
  ASSUME NEW r \in PassType, NEW S \in SUBSET Candidates, NEW x,
         x = [r EXCEPT !.shared = @ \union S]
  PROVE  /\ x \in PassType
         /\ x = Pass(r.pc, r.todo, r.cur, r.at, r.verdict, r.raced, r.shared \union S)
<1>1. x = Pass(r.pc, r.todo, r.cur, r.at, r.verdict, r.raced, r.shared \union S)
  BY Zenon DEF PassType, Pass
<1>2. r.shared \union S \in SUBSET Candidates
  BY DEF PassType
<1> QED BY <1>1, <1>2, Zenon DEF PassType, Pass

LEMMA PcStep ==
  ASSUME TypeInv, NEW p \in Passes, NEW x \in PcTypes, val' = [val EXCEPT ![p].pc = x]
  PROVE  Becomes(p, Pass(x, val[p].todo, val[p].cur, val[p].at, val[p].verdict, val[p].raced,
                         val[p].shared))
<1> DEFINE e == [val[p] EXCEPT !.pc = x]
<1>1. val[p] \in PassType /\ val' = [val EXCEPT ![p] = e]
  BY PassesAreTyped
<1>2. /\ e \in PassType
      /\ e = Pass(x, val[p].todo, val[p].cur, val[p].at, val[p].verdict, val[p].raced,
                  val[p].shared)
  BY <1>1, EditPc, Zenon
<1> QED BY <1>1, <1>2, SetPass, Zenon

LEMMA InsertedStep ==
  ASSUME TypeInv, NEW p \in Passes, val' = [val EXCEPT ![p].pc = "verdict", ![p].raced = FALSE]
  PROVE  Becomes(p, Pass("verdict", val[p].todo, val[p].cur, val[p].at, val[p].verdict, FALSE,
                         val[p].shared))
<1> DEFINE e == [val[p] EXCEPT !.pc = "verdict", !.raced = FALSE]
<1>1. val[p] \in PassType /\ val' = [val EXCEPT ![p] = e]
  BY PassesAreTyped
<1>2. /\ e \in PassType
      /\ e = Pass("verdict", val[p].todo, val[p].cur, val[p].at, val[p].verdict, FALSE,
                  val[p].shared)
  BY <1>1, EditInserted, Zenon
<1> QED BY <1>1, <1>2, SetPass, Zenon

LEMMA IdleStep ==
  ASSUME TypeInv, NEW p \in Passes, val' = [val EXCEPT ![p] = ValIdle]
  PROVE  Becomes(p, Pass("idle", {}, "none", 0, "none", FALSE, {}))
<1>1. ValIdle = Pass("idle", {}, "none", 0, "none", FALSE, {})
  BY Zenon DEF ValIdle, Pass
<1>2. 0 \in Times
  BY IntakeAssumption DEF Times
<1>3. ValIdle \in PassType
  BY <1>1, <1>2, Zenon DEF PassType, Pass
<1> QED BY <1>1, <1>3, SetPass, Zenon

LEMMA ProceedStep ==
  ASSUME TypeInv, NEW p \in Passes, val' = Proceed(p)
  PROVE  Becomes(p, Pass("next", val[p].todo, "none", 0, "none", FALSE,
                         val[p].shared \ {val[p].cur}))
<1> DEFINE e == [ValIdle EXCEPT !.pc = "next", !.todo = val[p].todo,
                                !.shared = val[p].shared \ {val[p].cur}]
<1>1. val[p] \in PassType /\ val' = [val EXCEPT ![p] = e]
  BY PassesAreTyped DEF Proceed
<1>2. val[p].todo \in SUBSET Candidates /\ val[p].shared \ {val[p].cur} \in SUBSET Candidates
  BY <1>1 DEF PassType
<1>3. /\ e \in PassType
      /\ e = Pass("next", val[p].todo, "none", 0, "none", FALSE, val[p].shared \ {val[p].cur})
  BY <1>2, EditProceeds, Zenon DEF PcTypes
<1> QED BY <1>1, <1>3, SetPass, Zenon

LEMMA FailAssessStep ==
  ASSUME TypeInv, NEW p \in Passes, NEW c \in Candidates,
         val' = [val EXCEPT ![p] = [val[p] EXCEPT !.todo = @ \ {c}, !.cur = c, !.pc = "reset"]]
  PROVE  Becomes(p, Pass("reset", val[p].todo \ {c}, c, val[p].at, val[p].verdict, val[p].raced,
                         val[p].shared))
<1> DEFINE e == [val[p] EXCEPT !.todo = @ \ {c}, !.cur = c, !.pc = "reset"]
<1>1. val[p] \in PassType /\ val' = [val EXCEPT ![p] = e]
  BY PassesAreTyped
<1>2. /\ e \in PassType
      /\ e = Pass("reset", val[p].todo \ {c}, c, val[p].at, val[p].verdict, val[p].raced,
                  val[p].shared)
  BY <1>1, EditFailed, Zenon
<1> QED BY <1>1, <1>2, SetPass, Zenon

LEMMA AssessStep ==
  ASSUME TypeInv, NEW p \in Passes, NEW c \in Candidates, Assess(p, c)
  PROVE  \E v \in {"reject", "promote", "insufficient"}, t \in Times :
           Becomes(p, Pass(IF v = "promote" THEN "watch" ELSE "verdict", val[p].todo \ {c}, c, t, v,
                           val[p].raced, val[p].shared))
<1>1. PICK v \in Verdicts(WalletOf[c]) :
        val' = [val EXCEPT ![p] = [val[p] EXCEPT !.todo = @ \ {c}, !.cur = c, !.verdict = v,
                 !.at = IF v = "promote" THEN now ELSE 0,
                 !.pc = IF v = "promote" THEN "watch" ELSE "verdict"]]
  BY Zenon DEF Assess
<1>2. v \in {"reject", "promote", "insufficient"}
  BY <1>1 DEF Verdicts
<1>3. v \in VerdictTypes
  BY <1>2 DEF VerdictTypes
<1> DEFINE t == IF v = "promote" THEN now ELSE 0
           pc == IF v = "promote" THEN "watch" ELSE "verdict"
<1>4. t \in Times /\ pc \in PcTypes
  BY IntakeAssumption DEF TypeInv, TypeOK, Times, InCandidate, PcTypes
<1> HIDE DEF t, pc
<1>5. PICK r, x : /\ r = val[p] /\ val' = [val EXCEPT ![p] = x]
                  /\ x = [r EXCEPT !.todo = @ \ {c}, !.cur = c, !.verdict = v, !.at = t, !.pc = pc]
  BY <1>1, Zenon DEF t, pc
<1>6. r \in PassType
  BY <1>5, PassesAreTyped
<1>7. x \in PassType /\ x = Pass(pc, r.todo \ {c}, c, t, v, r.raced, r.shared)
  <2>1. x = [r EXCEPT !.todo = @ \ {c}, !.cur = c, !.verdict = v, !.at = t, !.pc = pc]
    BY <1>5
  <2>2. x = Pass(pc, r.todo \ {c}, c, t, v, r.raced, r.shared)
    BY <1>6, <2>1, Zenon DEF PassType, Pass
  <2>3. r.todo \ {c} \in SUBSET Candidates
    BY <1>6 DEF PassType
  <2> QED BY <1>3, <1>4, <1>6, <2>2, <2>3, Zenon DEF PassType, Pass, PcTypes, VerdictTypes
<1>8. Becomes(p, Pass(pc, val[p].todo \ {c}, c, t, v, val[p].raced, val[p].shared))
  BY <1>5, <1>7, SetPass, Zenon
<1> QED BY <1>2, <1>4, <1>8, Zenon DEF pc

-----------------------------------------------------------------------------
(* The same, field by field.                                               *)

\* Pass p moves to these values, the others stay.
Moves(p, pc, todo, cur, verdict, raced, shared) ==
  /\ val' \in [Passes -> PassType]
  /\ \A q \in Passes \ {p} : val'[q] = val[q]
  /\ val'[p].pc = pc /\ val'[p].todo = todo /\ val'[p].cur = cur
  /\ val'[p].verdict = verdict /\ val'[p].raced = raced /\ val'[p].shared = shared

LEMMA MovesTo ==
  ASSUME NEW p, NEW pc, NEW todo, NEW cur, NEW at, NEW verdict, NEW raced, NEW shared,
         Becomes(p, Pass(pc, todo, cur, at, verdict, raced, shared))
  PROVE  Moves(p, pc, todo, cur, verdict, raced, shared)
<1> DEFINE v == Pass(pc, todo, cur, at, verdict, raced, shared)
<1>1. /\ v.pc = pc /\ v.todo = todo /\ v.cur = cur
      /\ v.verdict = verdict /\ v.raced = raced /\ v.shared = shared
  BY DEF Pass
<1> HIDE DEF v
<1>2. Becomes(p, v)
  BY DEF v
<1> QED BY <1>1, <1>2, Zenon DEF Moves, Becomes

\* Only the pc of pass p moves.
MovesPc(p, pc) ==
  Moves(p, pc, val[p].todo, val[p].cur, val[p].verdict, val[p].raced, val[p].shared)
\* Pass p is through with its candidate.
MovesOn(p) == Moves(p, "next", val[p].todo, "none", "none", FALSE, val[p].shared \ {val[p].cur})
\* Pass p is over.
MovesOut(p) == Moves(p, "idle", {}, "none", "none", FALSE, {})

LEMMA PcTypeFacts == {"idle", "mark", "next", "reset", "watch", "lookup", "stats", "verdict"}
                       \subseteq PcTypes
  BY DEF PcTypes, InCandidate

LEMMA MovesOfPass ==
  ASSUME TypeInv, NEW p \in Passes
  PROVE  /\ MarkBatch(p) => MovesPc(p, "next")
         /\ Watch(p) => MovesPc(p, "lookup")
         /\ Lookup(p) => \E source \in Found(WalletOf[val[p].cur]) :
                           MovesPc(p, IF source = "csv" THEN "verdict" ELSE "stats")
         /\ FailCandidate(p) => MovesPc(p, "reset")
         /\ InsertStats(p) => Moves(p, "verdict", val[p].todo, val[p].cur, val[p].verdict, FALSE,
                                    val[p].shared)
         /\ WriteVerdict(p) \/ ResetCandidate(p) \/ FailReset(p) => MovesOn(p)
         /\ FailMark(p) \/ EndValidation(p) \/ Crash(p) => MovesOut(p)
<1>1. ASSUME NEW x \in PcTypes, val' = [val EXCEPT ![p].pc = x]
      PROVE  MovesPc(p, x)
  BY <1>1, PcStep, MovesTo, Zenon DEF MovesPc
<1>2. ASSUME InsertStats(p)
      PROVE  Moves(p, "verdict", val[p].todo, val[p].cur, val[p].verdict, FALSE, val[p].shared)
  BY <1>2, InsertedStep, MovesTo, Zenon DEF InsertStats
<1>3. ASSUME val' = Proceed(p) PROVE MovesOn(p)
  BY <1>3, ProceedStep, MovesTo, Zenon DEF MovesOn
<1>4. ASSUME val' = [val EXCEPT ![p] = ValIdle] PROVE MovesOut(p)
  BY <1>4, IdleStep, MovesTo, Zenon DEF MovesOut
<1>5. MarkBatch(p) => MovesPc(p, "next")
  BY <1>1, PcTypeFacts DEF MarkBatch
<1>6. Watch(p) => MovesPc(p, "lookup")
  BY <1>1, PcTypeFacts DEF Watch
<1>7. FailCandidate(p) => MovesPc(p, "reset")
  BY <1>1, PcTypeFacts DEF FailCandidate
<1>8. ASSUME Lookup(p)
      PROVE  \E source \in Found(WalletOf[val[p].cur]) :
               MovesPc(p, IF source = "csv" THEN "verdict" ELSE "stats")
  <2>1. PICK source \in Found(WalletOf[val[p].cur]) :
          val' = [val EXCEPT ![p].pc = IF source = "csv" THEN "verdict" ELSE "stats"]
    BY <1>8, Zenon DEF Lookup
  <2>2. (IF source = "csv" THEN "verdict" ELSE "stats") \in PcTypes
    BY PcTypeFacts
  <2> QED BY <1>1, <2>1, <2>2, Zenon
<1>9. WriteVerdict(p) \/ ResetCandidate(p) \/ FailReset(p) => MovesOn(p)
  BY <1>3, Zenon DEF WriteVerdict, ResetCandidate, FailReset
<1>10. FailMark(p) \/ EndValidation(p) \/ Crash(p) => MovesOut(p)
  BY <1>4, Zenon DEF FailMark, EndValidation, Crash
<1> QED BY <1>2, <1>5, <1>6, <1>7, <1>8, <1>9, <1>10, Zenon

LEMMA MovesOfAssess ==
  ASSUME TypeInv, NEW p \in Passes, NEW c \in Candidates
  PROVE  /\ Assess(p, c) => \E v \in {"reject", "promote", "insufficient"} :
              Moves(p, IF v = "promote" THEN "watch" ELSE "verdict", val[p].todo \ {c}, c, v,
                    val[p].raced, val[p].shared)
         /\ FailAssess(p, c) => Moves(p, "reset", val[p].todo \ {c}, c, val[p].verdict,
                                      val[p].raced, val[p].shared)
<1>1. ASSUME Assess(p, c)
      PROVE  \E v \in {"reject", "promote", "insufficient"} :
              Moves(p, IF v = "promote" THEN "watch" ELSE "verdict", val[p].todo \ {c}, c, v,
                    val[p].raced, val[p].shared)
  <2>1. PICK v \in {"reject", "promote", "insufficient"}, t \in Times :
          Becomes(p, Pass(IF v = "promote" THEN "watch" ELSE "verdict", val[p].todo \ {c}, c, t, v,
                          val[p].raced, val[p].shared))
    BY <1>1, AssessStep, Zenon
  <2>2. Moves(p, IF v = "promote" THEN "watch" ELSE "verdict", val[p].todo \ {c}, c, v,
              val[p].raced, val[p].shared)
    BY <2>1, MovesTo, Zenon
  <2> QED BY <2>2
<1>2. ASSUME FailAssess(p, c)
      PROVE  Moves(p, "reset", val[p].todo \ {c}, c, val[p].verdict, val[p].raced, val[p].shared)
  <2>1. val' = [val EXCEPT ![p] = [val[p] EXCEPT !.todo = @ \ {c}, !.cur = c, !.pc = "reset"]]
    BY <1>2, Zenon DEF FailAssess
  <2> QED BY <2>1, FailAssessStep, MovesTo, Zenon
<1> QED BY <1>1, <1>2, Zenon

\* A pass that starts, as the others see it and as it sees them.
Starts(p, B) ==
  /\ val' \in [Passes -> PassType]
  /\ val'[p].pc = "mark" /\ val'[p].todo = B /\ val'[p].cur = "none"
  /\ val'[p].verdict = "none"
  /\ val'[p].shared = B \cap UNION {Held(o) : o \in Passes \ {p}}
  /\ \A q \in Passes \ {p} :
       /\ val'[q].pc = val[q].pc /\ val'[q].todo = val[q].todo /\ val'[q].cur = val[q].cur
       /\ val'[q].verdict = val[q].verdict /\ val'[q].raced = val[q].raced
       /\ val'[q].shared = val[q].shared \union (B \cap Held(q))

LEMMA StartsPass ==
  ASSUME TypeInv, NEW p \in Passes, StartValidation(p)
  PROVE  \E B \in Batches(p) : Starts(p, B) /\ dropped' = dropped \ B
<1> DEFINE Others == UNION {Held(o) : o \in Passes \ {p}}
<1>1. PICK B \in Batches(p) :
        /\ val' = [q \in Passes |->
             IF q = p THEN [ValIdle EXCEPT !.pc = "mark", !.todo = B, !.shared = B \cap Others]
             ELSE [val[q] EXCEPT !.shared = @ \union (B \cap Held(q))]]
        /\ dropped' = dropped \ B
  BY Zenon DEF StartValidation
<1>2. B \in SUBSET Candidates
  BY DEF Batches, PendingNow
<1> HIDE DEF Others
<1>3. /\ val'[p] \in PassType
      /\ val'[p] = Pass("mark", B, "none", 0, "none", FALSE, B \cap Others)
  <2>1. val'[p] = [ValIdle EXCEPT !.pc = "mark", !.todo = B, !.shared = B \cap Others]
    BY <1>1, Zenon
  <2>2. B \cap Others \in SUBSET Candidates
    BY <1>2
  <2>3. "mark" \in PcTypes
    BY PcTypeFacts
  <2> QED BY <1>2, <2>1, <2>2, <2>3, EditProceeds, Zenon
<1>4. /\ val'[p].pc = "mark" /\ val'[p].todo = B /\ val'[p].cur = "none"
      /\ val'[p].verdict = "none" /\ val'[p].shared = B \cap Others
  BY <1>3 DEF Pass
<1>5. ASSUME NEW q \in Passes \ {p}
      PROVE  /\ val'[q] \in PassType
             /\ val'[q] = Pass(val[q].pc, val[q].todo, val[q].cur, val[q].at, val[q].verdict,
                               val[q].raced, val[q].shared \union (B \cap Held(q)))
  <2>1. val'[q] = [val[q] EXCEPT !.shared = @ \union (B \cap Held(q))]
    BY <1>1, <1>5, Zenon
  <2>2. B \cap Held(q) \in SUBSET Candidates
    BY <1>2
  <2>3. val[q] \in PassType
    BY <1>5, PassesAreTyped
  <2> QED BY <2>1, <2>2, <2>3, EditShared, Zenon
<1>6. ASSUME NEW q \in Passes \ {p}
      PROVE  /\ val'[q].pc = val[q].pc /\ val'[q].todo = val[q].todo /\ val'[q].cur = val[q].cur
             /\ val'[q].verdict = val[q].verdict /\ val'[q].raced = val[q].raced
             /\ val'[q].shared = val[q].shared \union (B \cap Held(q))
  <2>1. val'[q] = Pass(val[q].pc, val[q].todo, val[q].cur, val[q].at, val[q].verdict,
                       val[q].raced, val[q].shared \union (B \cap Held(q)))
    BY <1>5
  <2> QED BY <2>1 DEF Pass
<1>7. val' \in [Passes -> PassType]
  BY <1>1, <1>3, <1>5
<1> QED BY <1>1, <1>4, <1>6, <1>7, Zenon DEF Starts, Others

\* What the passes remember of a row of the operator's for wallet w.
Overtakes(w) ==
  /\ val' \in [Passes -> PassType]
  /\ \A q \in Passes :
       /\ val'[q].pc = val[q].pc /\ val'[q].todo = val[q].todo /\ val'[q].cur = val[q].cur
       /\ val'[q].verdict = val[q].verdict /\ val'[q].shared = val[q].shared
       /\ val[q].raced => val'[q].raced
       /\ val[q].pc = "stats" /\ WalletOf[val[q].cur] = w => val'[q].raced

LEMMA OvertakesPasses ==
  ASSUME TypeInv, NEW w, Overtaken(w)
  PROVE  Overtakes(w)
<1> DEFINE Late(q) == val[q].pc = "stats" /\ WalletOf[val[q].cur] = w
<1>1. val' = [q \in Passes |-> IF Late(q) THEN [val[q] EXCEPT !.raced = TRUE] ELSE val[q]]
  BY Zenon DEF Overtaken
<1> HIDE DEF Late
<1>2. ASSUME NEW q \in Passes
      PROVE  /\ val'[q] \in PassType
             /\ val'[q].pc = val[q].pc /\ val'[q].todo = val[q].todo /\ val'[q].cur = val[q].cur
             /\ val'[q].verdict = val[q].verdict /\ val'[q].shared = val[q].shared
             /\ val[q].raced => val'[q].raced
             /\ Late(q) => val'[q].raced
  <2>1. val[q] \in PassType
    BY PassesAreTyped
  <2>2. CASE Late(q)
    <3>1. val'[q] = [val[q] EXCEPT !.raced = TRUE]
      BY <1>1, <2>2, Zenon
    <3>2. /\ val'[q] \in PassType
          /\ val'[q] = Pass(val[q].pc, val[q].todo, val[q].cur, val[q].at, val[q].verdict, TRUE,
                            val[q].shared)
      BY <2>1, <3>1, EditOvertaken, Zenon
    <3>3. /\ val'[q].pc = val[q].pc /\ val'[q].todo = val[q].todo /\ val'[q].cur = val[q].cur
          /\ val'[q].verdict = val[q].verdict /\ val'[q].shared = val[q].shared
          /\ val'[q].raced = TRUE
      BY <3>2 DEF Pass
    <3> QED BY <3>2, <3>3, Zenon
  <2>3. CASE ~Late(q)
    <3>1. val'[q] = val[q]
      BY <1>1, <2>3, Zenon
    <3> QED BY <2>1, <2>3, <3>1, Zenon
  <2> QED BY <2>2, <2>3, Zenon
<1>3. val' \in [Passes -> PassType]
  BY <1>1, <1>2
<1> QED BY <1>2, <1>3, Zenon DEF Overtakes, Late

StatsType == [at : Times, sources : SUBSET {"csv", "computed"}]

\* Figures are only added: the newest of a wallet may change its source, but a wallet that
\* had figures keeps some, and computed ones never leave the operator's alone.
Adds(w) ==
  /\ latest' \in [Wallets -> StatsType]
  /\ \A u \in Wallets \ {w} : latest'[u] = latest[u]
  /\ latest'[w].sources # {}

LEMMA InsertAdds ==
  ASSUME latest \in [Wallets -> StatsType], NEW w \in Wallets, NEW at \in Times,
         NEW source \in {"csv", "computed"}, Insert(w, source, at)
  PROVE  /\ Adds(w)
         /\ source = "computed" /\ OnlyCsv(w)' => OnlyCsv(w)
         /\ source = "csv" /\ "csv" \in latest[w].sources => "csv" \in latest'[w].sources
<1> DEFINE old == latest[w]
           new == IF old.sources = {} \/ at > old.at THEN [at |-> at, sources |-> {source}]
                  ELSE IF at = old.at THEN [at |-> at, sources |-> old.sources \union {source}] ELSE old
<1>1. latest' = [latest EXCEPT ![w] = new]
  BY Zenon DEF Insert
<1>2. old \in StatsType
  OBVIOUS
<1>3. /\ new \in StatsType /\ new.sources # {}
      /\ source = "computed" /\ new.sources = {"csv"} => old.sources = {"csv"}
      /\ source = "csv" /\ "csv" \in old.sources => "csv" \in new.sources
  BY <1>2 DEF StatsType
<1> HIDE DEF new
<1> QED BY <1>1, <1>3 DEF Adds, OnlyCsv

-----------------------------------------------------------------------------
(* Types.                                                                  *)

StatusType == {"none", "pending", "validating"} \union Terminal
ClocksTyped == now \in Times /\ faults \in 0..MaxFaults
IntakeTyped == /\ status \in [Candidates -> StatusType]
               /\ firstSeen \in [Candidates -> Times]
               /\ dropped \subseteq Candidates
WalletsTyped == /\ known \subseteq Wallets /\ watched \subseteq known /\ traded \subseteq known
                /\ latest \in [Wallets -> StatsType]
RefType == [pc : {"idle", "next"}, todo : SUBSET Wallets, raced : SUBSET Wallets]
ImpType == [pc : {"idle", "stats"}, wallet : Wallets \union {"none"}, at : Times]
JobsTyped == ref \in RefType /\ imp \in ImpType /\ (imp.pc = "stats" => imp.wallet \in Wallets)
PassesTyped == val \in [Passes -> PassType] /\ \A p \in Passes : InHand(val[p])

LEMMA TypeParts ==
  TypeInv <=> ClocksTyped /\ IntakeTyped /\ WalletsTyped /\ JobsTyped /\ PassesTyped
  BY Zenon DEF TypeInv, TypeOK, ClocksTyped, IntakeTyped, WalletsTyped, JobsTyped, PassesTyped,
     StatusType, StatsType, RefType, ImpType, PassType

LEMMA HandFacts ==
  ASSUME TypeInv, NEW p \in Passes
  PROVE  /\ val[p].todo \subseteq Candidates /\ val[p].shared \subseteq Candidates
         /\ val[p].at \in Times /\ val[p].pc \in PcTypes /\ InHand(val[p])
         /\ val[p].pc \in InCandidate \union {"reset"} =>
              val[p].cur \in Candidates /\ WalletOf[val[p].cur] \in Wallets
<1>1. val[p] \in PassType /\ InHand(val[p])
  BY PassesAreTyped DEF TypeInv
<1>2. val[p].pc \in InCandidate \union {"reset"} => val[p].cur \in Candidates
  BY <1>1 DEF PassType, InHand, InCandidate
<1> QED BY <1>1, <1>2, IntakeAssumption DEF PassType, PcTypes

LEMMA MoveTyped ==
  ASSUME TypeInv, NEW p \in Passes, NEW pc, NEW todo, NEW cur, NEW verdict, NEW raced, NEW shared,
         Moves(p, pc, todo, cur, verdict, raced, shared),
         pc = "idle" => todo = {}, pc \in {"idle", "mark", "next"} <=> cur = "none", cur \notin todo,
         pc \in {"watch", "lookup", "stats"} => verdict = "promote",
         pc = "verdict" => verdict # "none"
  PROVE  PassesTyped'
<1>1. InHand(val'[p])
  BY DEF Moves, InHand
<1>2. ASSUME NEW q \in Passes \ {p} PROVE InHand(val'[q])
  BY <1>2, HandFacts DEF Moves
<1> QED BY <1>1, <1>2 DEF Moves, PassesTyped

LEMMA StartTyped ==
  ASSUME TypeInv, NEW p \in Passes, NEW B \in SUBSET Candidates, Starts(p, B)
  PROVE  PassesTyped'
<1>1. InHand(val'[p])
  BY IntakeAssumption DEF Starts, InHand
<1>2. ASSUME NEW q \in Passes \ {p} PROVE InHand(val'[q])
  BY <1>2, HandFacts DEF Starts, InHand
<1> QED BY <1>1, <1>2 DEF Starts, PassesTyped

LEMMA OvertakeTyped ==
  ASSUME TypeInv, NEW w, Overtakes(w)
  PROVE  PassesTyped'
<1>1. ASSUME NEW q \in Passes PROVE InHand(val'[q])
  BY <1>1, HandFacts DEF Overtakes, InHand
<1> QED BY <1>1 DEF Overtakes, PassesTyped

LEMMA PassesStayTyped ==
  ASSUME TypeInv, NEW p \in Passes,
         StartValidation(p) \/ ValidationStep(p) \/ ValidationFault(p) \/ Crash(p)
  PROVE  PassesTyped'
<1> USE HandFacts DEF InHand
<1>1. ASSUME StartValidation(p) PROVE PassesTyped'
  <2>1. PICK B \in Batches(p) : Starts(p, B)
    BY <1>1, StartsPass
  <2>2. B \in SUBSET Candidates
    BY DEF Batches, PendingNow
  <2> QED BY <2>1, <2>2, StartTyped
<1>2. ASSUME MarkBatch(p) PROVE PassesTyped'
  <2>1. MovesPc(p, "next") /\ val[p].pc = "mark"
    BY <1>2, MovesOfPass DEF MarkBatch
  <2> QED BY <2>1, MoveTyped DEF MovesPc
<1>3. ASSUME Watch(p) PROVE PassesTyped'
  <2>1. MovesPc(p, "lookup") /\ val[p].pc = "watch"
    BY <1>3, MovesOfPass DEF Watch
  <2> QED BY <2>1, MoveTyped DEF MovesPc
<1>4. ASSUME Lookup(p) PROVE PassesTyped'
  <2>1. /\ MovesPc(p, "verdict") \/ MovesPc(p, "stats")
        /\ val[p].pc = "lookup"
    BY <1>4, MovesOfPass DEF Lookup
  <2>2. CASE MovesPc(p, "verdict")
    BY <2>1, <2>2, MoveTyped DEF MovesPc
  <2>3. CASE MovesPc(p, "stats")
    BY <2>1, <2>3, MoveTyped DEF MovesPc
  <2> QED BY <2>1, <2>2, <2>3
<1>5. ASSUME InsertStats(p) PROVE PassesTyped'
  <2>1. /\ Moves(p, "verdict", val[p].todo, val[p].cur, val[p].verdict, FALSE, val[p].shared)
        /\ val[p].pc = "stats"
    BY <1>5, MovesOfPass DEF InsertStats
  <2> QED BY <2>1, MoveTyped
<1>6. ASSUME WriteVerdict(p) \/ ResetCandidate(p) \/ FailReset(p) PROVE PassesTyped'
  <2>1. MovesOn(p)
    BY <1>6, MovesOfPass
  <2> QED BY <2>1, MoveTyped, IntakeAssumption DEF MovesOn
<1>7. ASSUME FailMark(p) \/ EndValidation(p) \/ Crash(p) PROVE PassesTyped'
  <2>1. MovesOut(p)
    BY <1>7, MovesOfPass
  <2> QED BY <2>1, MoveTyped DEF MovesOut
<1>8. ASSUME FailCandidate(p) PROVE PassesTyped'
  <2>1. MovesPc(p, "reset") /\ val[p].pc \in InCandidate
    BY <1>8, MovesOfPass DEF FailCandidate
  <2> QED BY <2>1, MoveTyped DEF MovesPc, InCandidate
<1>9. ASSUME NEW c \in Candidates, Assess(p, c) PROVE PassesTyped'
  <2>1. PICK v \in {"reject", "promote", "insufficient"} :
          Moves(p, IF v = "promote" THEN "watch" ELSE "verdict", val[p].todo \ {c}, c, v,
                val[p].raced, val[p].shared)
    BY <1>9, MovesOfAssess
  <2> QED BY <2>1, MoveTyped, IntakeAssumption
<1>10. ASSUME NEW c \in Candidates, FailAssess(p, c) PROVE PassesTyped'
  <2>1. Moves(p, "reset", val[p].todo \ {c}, c, val[p].verdict, val[p].raced, val[p].shared)
    BY <1>10, MovesOfAssess
  <2> QED BY <2>1, MoveTyped, IntakeAssumption
<1> QED BY <1>1, <1>2, <1>3, <1>4, <1>5, <1>6, <1>7, <1>8, <1>9, <1>10, Zenon
        DEF ValidationStep, ValidationFault

\* What each step of a pass leaves alone, and what it makes of the rest.
LEMMA PassFrame ==
  ASSUME TypeInv, NEW p \in Passes,
         StartValidation(p) \/ ValidationStep(p) \/ ValidationFault(p) \/ Crash(p)
  PROVE  /\ UNCHANGED <<now, firstSeen, traded>>
         /\ faults' = faults \/ Fault
         /\ UNCHANGED <<ref, imp>> \/ (Crash(p) /\ ref' = RefIdle /\ imp' = ImpIdle)
         /\ UNCHANGED latest
              \/ (val[p].pc = "stats" /\ Insert(WalletOf[val[p].cur], "computed", val[p].at))
         /\ UNCHANGED <<known, watched>>
              \/ (val[p].pc = "watch" /\ WatchWallet(WalletOf[val[p].cur]))
         /\ \/ UNCHANGED status
            \/ val[p].pc = "mark" /\ status' = Marked(val[p].todo)
            \/ val[p].pc = "verdict" /\ SaveVerdict(p)
            \/ val[p].pc = "reset" /\ Reset(p)
<1> USE DEF clock, intake, wallets, Fault
<1>1. CASE StartValidation(p)
  BY <1>1, Zenon DEF StartValidation
<1>2. CASE MarkBatch(p)
  BY <1>2, Zenon DEF MarkBatch
<1>3. CASE Watch(p)
  BY <1>3, Zenon DEF Watch
<1>4. CASE Lookup(p)
  BY <1>4, Zenon DEF Lookup
<1>5. CASE InsertStats(p)
  BY <1>5, Zenon DEF InsertStats
<1>6. CASE WriteVerdict(p)
  BY <1>6, Zenon DEF WriteVerdict
<1>7. CASE ResetCandidate(p)
  BY <1>7, Zenon DEF ResetCandidate
<1>8. CASE EndValidation(p)
  BY <1>8, Zenon DEF EndValidation
<1>9. ASSUME NEW c \in Candidates, Assess(p, c) \/ FailAssess(p, c)
      PROVE  /\ UNCHANGED <<now, intake, wallets, latest, ref, imp>> /\ (faults' = faults \/ Fault)
  BY <1>9, Zenon DEF Assess, FailAssess
<1>10. CASE FailMark(p)
  BY <1>10, Zenon DEF FailMark
<1>11. CASE FailCandidate(p)
  BY <1>11, Zenon DEF FailCandidate, PerhapsDone, WatchWallet
<1>12. CASE FailReset(p)
  BY <1>12, Zenon DEF FailReset
<1>13. CASE Crash(p)
  BY <1>13, Zenon DEF Crash
<1> QED BY <1>1, <1>2, <1>3, <1>4, <1>5, <1>6, <1>7, <1>8, <1>9, <1>10, <1>11, <1>12, <1>13, Zenon
        DEF ValidationStep, ValidationFault

LEMMA StatusTyped ==
  ASSUME TypeInv, NEW p \in Passes,
         \/ UNCHANGED status
         \/ val[p].pc = "mark" /\ status' = Marked(val[p].todo)
         \/ val[p].pc = "verdict" /\ SaveVerdict(p)
         \/ val[p].pc = "reset" /\ Reset(p)
  PROVE  status' \in [Candidates -> StatusType]
<1>1. status \in [Candidates -> StatusType]
  BY DEF TypeInv, TypeOK, StatusType
<1>2. CASE val[p].pc = "mark" /\ status' = Marked(val[p].todo)
  BY <1>1, <1>2 DEF Marked, StatusType
<1>3. CASE val[p].pc = "verdict" /\ SaveVerdict(p)
  <2>1. val[p].verdict \in {"promote", "reject", "insufficient"}
    BY <1>3, HandFacts, PassesAreTyped DEF PassType, InHand
  <2>2. StatusOf(val[p].verdict) \in StatusType
    BY <2>1 DEF StatusOf, StatusType, Terminal
  <2> QED BY <1>1, <1>3, <2>2 DEF SaveVerdict
<1>4. CASE val[p].pc = "reset" /\ Reset(p)
  BY <1>1, <1>4 DEF Reset, StatusType
<1> QED BY <1>1, <1>2, <1>3, <1>4

\* Wallets and figures only become more.
Grows == /\ WalletsTyped' /\ known \subseteq known' /\ watched \subseteq watched'
         /\ \A w \in Wallets : latest[w].sources # {} => latest'[w].sources # {}

LEMMA InsertGrows ==
  ASSUME WalletsTyped, NEW w \in Wallets, NEW at \in Times, NEW source \in {"csv", "computed"},
         Insert(w, source, at), UNCHANGED <<known, watched, traded>>
  PROVE  Grows
<1>1. Adds(w)
  BY InsertAdds DEF WalletsTyped
<1> QED BY <1>1 DEF Adds, Grows, WalletsTyped

LEMMA PassGrows ==
  ASSUME TypeInv, NEW p \in Passes,
         StartValidation(p) \/ ValidationStep(p) \/ ValidationFault(p) \/ Crash(p)
  PROVE  Grows
<1>1. WalletsTyped
  BY TypeParts
<1>2. val[p].pc \in {"watch", "stats"} => WalletOf[val[p].cur] \in Wallets /\ val[p].at \in Times
  BY HandFacts DEF InCandidate
<1>3. CASE UNCHANGED <<known, watched, latest>>
  BY <1>1, <1>3, PassFrame DEF Grows, WalletsTyped
<1>4. CASE val[p].pc = "watch" /\ WatchWallet(WalletOf[val[p].cur])
  <2>1. UNCHANGED latest
    BY <1>4, PassFrame
  <2> QED BY <1>1, <1>2, <1>4, <2>1, PassFrame DEF Grows, WalletsTyped, WatchWallet
<1>5. CASE val[p].pc = "stats" /\ Insert(WalletOf[val[p].cur], "computed", val[p].at)
  <2>1. UNCHANGED <<known, watched, traded>>
    BY <1>5, PassFrame
  <2> QED BY <1>1, <1>2, <1>5, <2>1, InsertGrows
<1> QED BY <1>3, <1>4, <1>5, PassFrame

LEMMA PassTyped ==
  ASSUME TypeInv, NEW p \in Passes,
         StartValidation(p) \/ ValidationStep(p) \/ ValidationFault(p) \/ Crash(p)
  PROVE  TypeInv'
<1>1. ClocksTyped'
  <2>1. ClocksTyped
    BY TypeParts
  <2>2. now' = now /\ (faults' = faults \/ (faults < MaxFaults /\ faults' = faults + 1))
    BY PassFrame DEF Fault
  <2> QED BY <2>1, <2>2, IntakeAssumption DEF ClocksTyped
<1>2. dropped' \subseteq Candidates
  <2>1. dropped \subseteq Candidates
    BY TypeParts DEF IntakeTyped
  <2>2. val[p].todo \subseteq Candidates /\ Held(p) \subseteq Candidates
        /\ (val[p].pc = "reset" => val[p].cur \in Candidates)
    BY HandFacts, PassesAreTyped DEF Held, PassType
  <2>3. \/ dropped' \subseteq dropped
        \/ dropped' = dropped \union val[p].todo
        \/ dropped' = dropped \union Held(p)
        \/ val[p].pc = "reset" /\ dropped' = dropped \union {val[p].cur}
    BY DEF StartValidation, ValidationStep, ValidationFault, MarkBatch, Watch, Lookup, InsertStats,
           WriteVerdict, ResetCandidate, EndValidation, Assess, FailMark, FailCandidate, FailReset,
           FailAssess, Crash
  <2> QED BY <2>1, <2>2, <2>3
<1>3. IntakeTyped'
  BY <1>2, PassFrame, StatusTyped, TypeParts DEF IntakeTyped
<1>4. WalletsTyped'
  BY PassGrows DEF Grows
<1>5. JobsTyped'
  <2>1. RefIdle \in RefType /\ ImpIdle \in ImpType /\ ImpIdle.pc # "stats"
    BY IntakeAssumption DEF RefIdle, ImpIdle, RefType, ImpType, Times
  <2>2. JobsTyped
    BY TypeParts
  <2>3. UNCHANGED <<ref, imp>> \/ (ref' = RefIdle /\ imp' = ImpIdle)
    BY PassFrame
  <2> QED BY <2>1, <2>2, <2>3 DEF JobsTyped
<1>6. PassesTyped'
  BY PassesStayTyped
<1>7. (ClocksTyped /\ IntakeTyped /\ WalletsTyped /\ JobsTyped /\ PassesTyped)' => TypeInv'
  BY TypeParts, PTL
<1> QED BY <1>1, <1>3, <1>4, <1>5, <1>6, <1>7

\* What the two ways an import row ends have in common, and those a refreshed wallet ends.
LEMMA ImportFrame ==
  ASSUME ImportStats \/ FailImport
  PROVE  /\ UNCHANGED <<now, intake, wallets, dropped>> /\ (faults' = faults \/ Fault)
         /\ imp.pc = "stats" /\ imp' = ImpIdle
         /\ \/ UNCHANGED <<latest, val, ref>>
            \/ Insert(imp.wallet, "csv", imp.at) /\ Overtaken(imp.wallet)
  BY Zenon DEF ImportStats, FailImport, Fault, clock

LEMMA RefreshFrame ==
  ASSUME NEW w \in Wallets, RefreshWallet(w) \/ FailRefresh(w)
  PROVE  /\ UNCHANGED <<now, intake, wallets, val, imp, dropped>> /\ (faults' = faults \/ Fault)
         /\ w \in ref.todo /\ ref' = RefreshDone(w)
         /\ UNCHANGED latest \/ Insert(w, "computed", now)
  BY Zenon DEF RefreshWallet, FailRefresh, Fault, clock

LEMMA RefEdits ==
  ASSUME ref \in RefType, NEW w
  PROVE  /\ RefreshDone(w) \in RefType
         /\ RefreshDone(w).todo = ref.todo \ {w} /\ RefreshDone(w).raced = ref.raced \ {w}
  BY DEF RefType, RefreshDone

LEMMA ClocksStayTyped ==
  ASSUME ClocksTyped, UNCHANGED now, faults' = faults \/ Fault
  PROVE  ClocksTyped'
  BY IntakeAssumption DEF ClocksTyped, Fault

LEMMA OvertakenRef ==
  ASSUME ref \in RefType, NEW w, Overtaken(w)
  PROVE  /\ ref' \in RefType /\ ref'.todo = ref.todo
         /\ ref'.raced = IF w \in ref.todo THEN ref.raced \union {w} ELSE ref.raced
  BY DEF RefType, Overtaken

LEMMA TypeNext == TypeInv /\ [Next]_vars => TypeInv'
<1> DEFINE All == ClocksTyped /\ IntakeTyped /\ WalletsTyped /\ JobsTyped /\ PassesTyped
<1> SUFFICES ASSUME TypeInv, [Next]_vars PROVE TypeInv'
  OBVIOUS
<1>1. All
  BY TypeParts
<1>2. All' => TypeInv'
  BY TypeParts, PTL
<1> USE DEF clock, intake, wallets, ClocksTyped, IntakeTyped, WalletsTyped, JobsTyped, PassesTyped
<1>3. ASSUME NEW c \in Candidates, Sync(c) PROVE All'
  BY <1>1, <1>3 DEF Sync, StatusType
<1>4. ASSUME NEW w \in Wallets, Ingest(w) PROVE All'
  BY <1>1, <1>4 DEF Ingest
<1>5. ASSUME StartRefresh PROVE All'
  <2>1. ref' \in RefType
    BY <1>1, <1>5 DEF StartRefresh, RefType
  <2> QED BY <1>1, <1>5, <2>1 DEF StartRefresh
<1>6. ASSUME EndRefresh PROVE All'
  <2>1. RefIdle \in RefType
    BY DEF RefIdle, RefType
  <2> QED BY <1>1, <1>6, <2>1 DEF EndRefresh
<1>7. ASSUME NEW w \in Wallets, RefreshWallet(w) \/ FailRefresh(w) PROVE All'
  <2>1. ref' \in RefType
    BY <1>1, <1>7, RefreshFrame, RefEdits
  <2>2. WalletsTyped'
    <3>1. CASE UNCHANGED latest
      BY <1>1, <1>7, <3>1, RefreshFrame
    <3>2. CASE Insert(w, "computed", now)
      BY <1>1, <1>7, <3>2, RefreshFrame, InsertGrows DEF Grows
    <3> QED BY <1>7, <3>1, <3>2, RefreshFrame
  <2>3. ClocksTyped'
    BY <1>1, <1>7, RefreshFrame, ClocksStayTyped
  <2> QED BY <1>1, <1>7, <2>1, <2>2, <2>3, RefreshFrame
<1>8. ASSUME NEW w \in Wallets, ImportRow(w) PROVE All'
  <2>1. imp' \in ImpType /\ imp'.wallet \in Wallets
    BY <1>1, <1>8 DEF ImportRow, ImpType
  <2>2. known' \subseteq Wallets /\ watched' \subseteq known' /\ traded' \subseteq known'
    BY <1>1, <1>8 DEF ImportRow
  <2> QED BY <1>1, <1>8, <2>1, <2>2 DEF ImportRow
<1>9. ASSUME ImportStats \/ FailImport PROVE All'
  <2>1. imp' \in ImpType /\ imp'.pc # "stats"
    BY <1>9, ImportFrame, IntakeAssumption DEF ImpIdle, ImpType, Times
  <2>2. ClocksTyped' /\ IntakeTyped'
    BY <1>1, <1>9, ImportFrame, ClocksStayTyped
  <2>3. CASE UNCHANGED <<latest, val, ref>>
    BY <1>1, <1>9, <2>1, <2>2, <2>3, ImportFrame
  <2>4. CASE Insert(imp.wallet, "csv", imp.at) /\ Overtaken(imp.wallet)
    <3>1. imp.wallet \in Wallets /\ imp.at \in Times
      BY <1>1, <1>9, ImportFrame DEF ImpType
    <3>2. WalletsTyped'
      BY <1>1, <1>9, <2>4, <3>1, ImportFrame, InsertGrows DEF Grows
    <3>3. PassesTyped'
      BY <2>4, OvertakesPasses, OvertakeTyped
    <3>4. ref' \in RefType
      BY <1>1, <2>4, <3>1, OvertakenRef
    <3> QED BY <2>1, <2>2, <3>2, <3>3, <3>4
  <2> QED BY <1>9, <2>3, <2>4, ImportFrame
<1>10. ASSUME Tick PROVE All'
  <2>1. now' \in Times
    BY <1>1, <1>10, IntakeAssumption DEF Tick, Times
  <2> QED BY <1>1, <1>10, <2>1 DEF Tick
<1>11. ASSUME UNCHANGED vars PROVE All'
  <2>1. /\ now' = now /\ faults' = faults /\ status' = status /\ firstSeen' = firstSeen
        /\ known' = known /\ watched' = watched /\ traded' = traded /\ latest' = latest
        /\ val' = val /\ ref' = ref /\ imp' = imp /\ dropped' = dropped
    BY <1>11, Zenon DEF vars
  <2> QED BY <1>1, <2>1
<1> HIDE DEF All
<1>12. CASE Next
  BY <1>2, <1>3, <1>4, <1>5, <1>6, <1>7, <1>8, <1>9, <1>10, <1>12, PassTyped
     DEF Next, RefreshStep, ImportStep
<1> QED BY <1>2, <1>11, <1>12

LEMMA InitTyped == Init => TypeInv
<1> SUFFICES ASSUME Init PROVE TypeInv
  OBVIOUS
<1>1. 0 \in Times
  BY IntakeAssumption DEF Times
<1>2. ClocksTyped /\ IntakeTyped
  BY <1>1, IntakeAssumption DEF Init, ClocksTyped, IntakeTyped, StatusType
<1>3. WalletsTyped
  BY <1>1 DEF Init, WalletsTyped, NoStats, StatsType
<1>4. JobsTyped
  BY <1>1 DEF Init, JobsTyped, RefIdle, ImpIdle, RefType, ImpType
<1>5. PassesTyped
  <2>1. ValIdle = Pass("idle", {}, "none", 0, "none", FALSE, {})
    BY Zenon DEF ValIdle, Pass
  <2>2. ValIdle \in PassType
    BY <1>1, <2>1, Zenon DEF PassType, Pass
  <2>3. InHand(ValIdle)
    BY IntakeAssumption DEF ValIdle, InHand
  <2> QED BY <2>2, <2>3 DEF Init, PassesTyped
<1> QED BY <1>2, <1>3, <1>4, <1>5, TypeParts

\* Every variable has its type, and a pass has in hand what the step it is at is about.
THEOREM TypeCorrect == Spec => []TypeInv
  BY InitTyped, TypeNext, PTL DEF Spec

-----------------------------------------------------------------------------
(* A promoted candidate is tracked.                                        *)

LEMMA AllGrow == TypeInv /\ [Next]_vars => Grows
<1> SUFFICES ASSUME TypeInv, [Next]_vars PROVE Grows
  OBVIOUS
<1>1. WalletsTyped /\ WalletsTyped'
  BY TypeNext, TypeParts, PTL
<1>2. ASSUME NEW w \in Wallets, NEW at \in Times, NEW source \in {"csv", "computed"},
             Insert(w, source, at), UNCHANGED <<known, watched, traded>>
      PROVE  Grows
  BY <1>1, <1>2, InsertGrows
<1>3. ASSUME known \subseteq known', watched \subseteq watched', UNCHANGED latest PROVE Grows
  BY <1>1, <1>3 DEF Grows
<1>4. ASSUME NEW w \in Wallets, RefreshWallet(w) \/ FailRefresh(w) PROVE Grows
  <2>1. now \in Times
    BY TypeParts DEF ClocksTyped
  <2> QED BY <1>2, <1>3, <1>4, <2>1, RefreshFrame DEF wallets
<1>5. ASSUME ImportStats \/ FailImport PROVE Grows
  <2>1. imp.pc = "stats" => imp.wallet \in Wallets /\ imp.at \in Times
    BY TypeParts DEF JobsTyped, ImpType
  <2> QED BY <1>2, <1>3, <1>5, <2>1, ImportFrame DEF wallets
<1>6. CASE UNCHANGED <<wallets, latest>>
  BY <1>3, <1>6 DEF wallets
<1>7. ASSUME NEW w \in Wallets, Ingest(w) \/ ImportRow(w) PROVE Grows
  BY <1>3, <1>7 DEF Ingest, ImportRow
<1>8. ASSUME NEW c \in Candidates, Sync(c) PROVE UNCHANGED <<wallets, latest>>
  BY <1>8 DEF Sync
<1>9. StartRefresh \/ EndRefresh \/ Tick \/ UNCHANGED vars => UNCHANGED <<wallets, latest>>
  BY DEF StartRefresh, EndRefresh, Tick, vars
<1> QED BY <1>4, <1>5, <1>6, <1>7, <1>8, <1>9, PassGrows DEF Next, RefreshStep, ImportStep

\* Every candidate keeps its status or gets the one its pass has for it.
LEMMA StatusMoves ==
  ASSUME TypeInv, NEW p \in Passes, NEW c \in Candidates,
         StartValidation(p) \/ ValidationStep(p) \/ ValidationFault(p) \/ Crash(p)
  PROVE  \/ status'[c] = status[c]
         \/ val[p].pc = "mark" /\ c \in val[p].todo /\ status'[c] = "validating"
         \/ val[p].pc = "verdict" /\ c = val[p].cur /\ status'[c] = StatusOf(val[p].verdict)
         \/ val[p].pc = "reset" /\ c = val[p].cur /\ status'[c] = "pending"
  BY PassFrame, TypeParts DEF IntakeTyped, Marked, SaveVerdict, Reset

PassStep(p) == StartValidation(p) \/ ValidationStep(p) \/ ValidationFault(p) \/ Crash(p)

\* The steps of the others give a status to new candidates only, and tell passes that a row of
\* the operator's has overtaken them.
LEMMA StepsOfOthers ==
  ASSUME TypeInv, [Next]_vars, ~\E p \in Passes : PassStep(p)
  PROVE  /\ \A c \in Candidates : status'[c] = status[c] \/ (status[c] = "none" /\ status'[c] = "pending")
         /\ UNCHANGED <<val, dropped>>
              \/ (imp.pc = "stats" /\ Overtaken(imp.wallet) /\ Insert(imp.wallet, "csv", imp.at)
                  /\ UNCHANGED dropped)
<1>1. status \in [Candidates -> StatusType]
  BY TypeParts DEF IntakeTyped
<1>2. ASSUME NEW c \in Candidates, Sync(c)
      PROVE  /\ \A d \in Candidates : status'[d] = status[d] \/ (status[d] = "none" /\ status'[d] = "pending")
             /\ UNCHANGED <<val, dropped>>
  BY <1>1, <1>2 DEF Sync
<1>3. ASSUME NEW w \in Wallets, Ingest(w) \/ RefreshWallet(w) \/ FailRefresh(w) \/ ImportRow(w)
      PROVE  UNCHANGED <<status, val, dropped>>
  BY <1>3 DEF Ingest, RefreshWallet, FailRefresh, ImportRow, intake
<1>4. StartRefresh \/ EndRefresh \/ Tick \/ UNCHANGED vars => UNCHANGED <<status, val, dropped>>
  BY DEF StartRefresh, EndRefresh, Tick, vars, intake
<1>5. ASSUME ImportStats \/ FailImport
      PROVE  /\ UNCHANGED <<status, dropped>> /\ imp.pc = "stats"
             /\ UNCHANGED val \/ (Overtaken(imp.wallet) /\ Insert(imp.wallet, "csv", imp.at))
  BY <1>5, ImportFrame DEF intake
<1> QED BY <1>2, <1>3, <1>4, <1>5 DEF Next, RefreshStep, ImportStep, PassStep

\* The hand of pass q is as it was, but for what it is told.
Keeps(q) ==
  /\ val'[q].pc = val[q].pc /\ val'[q].todo = val[q].todo /\ val'[q].cur = val[q].cur
  /\ val'[q].verdict = val[q].verdict /\ val[q].shared \subseteq val'[q].shared
  /\ val[q].raced => val'[q].raced

LEMMA PassLeavesOthers ==
  ASSUME TypeInv, NEW p \in Passes, PassStep(p), NEW q \in Passes \ {p}
  PROVE  Keeps(q)
<1>1. CASE StartValidation(p)
  <2>1. PICK B \in Batches(p) : Starts(p, B)
    BY <1>1, StartsPass
  <2> QED BY <2>1 DEF Starts, Keeps
<1>2. CASE ~StartValidation(p)
  <2>1. \E pc, todo, cur, verdict, raced, shared : Moves(p, pc, todo, cur, verdict, raced, shared)
    <3>1. ASSUME NEW c \in Candidates, Assess(p, c) \/ FailAssess(p, c)
          PROVE  \E pc, todo, cur, verdict, raced, shared :
                   Moves(p, pc, todo, cur, verdict, raced, shared)
      BY <3>1, MovesOfAssess, Zenon
    <3> QED BY <1>2, <3>1, MovesOfPass, Zenon
            DEF PassStep, ValidationStep, ValidationFault, MovesPc, MovesOn, MovesOut
  <2> QED BY <2>1, Zenon DEF Moves, Keeps
<1> QED BY <1>1, <1>2

\* Seen from a pass that does not move.
LEMMA OthersHands ==
  ASSUME TypeInv, [Next]_vars, NEW q \in Passes, ~PassStep(q)
  PROVE  Keeps(q)
<1>1. CASE ~\E p \in Passes : PassStep(p)
  <2>1. UNCHANGED val \/ Overtaken(imp.wallet)
    BY <1>1, StepsOfOthers
  <2>2. CASE UNCHANGED val
    BY <2>2 DEF Keeps
  <2>3. CASE Overtaken(imp.wallet)
    BY <2>3, OvertakesPasses DEF Overtakes, Keeps
  <2> QED BY <2>1, <2>2, <2>3
<1> QED BY <1>1, PassLeavesOthers

\* What a pass that moves has in hand for the promotion of its candidate.
LEMMA MoverTracks ==
  ASSUME TrackInv, NEW p \in Passes, PassStep(p), Grows
  PROVE  /\ val'[p].pc \in {"lookup", "stats"} => WalletOf[val'[p].cur] \in watched'
         /\ val'[p].pc = "verdict" /\ val'[p].verdict = "promote" =>
              WalletOf[val'[p].cur] \in watched' /\ latest'[WalletOf[val'[p].cur]].sources # {}
<1> DEFINE Goal == /\ val'[p].pc \in {"lookup", "stats"} => WalletOf[val'[p].cur] \in watched'
                   /\ val'[p].pc = "verdict" /\ val'[p].verdict = "promote" =>
                        WalletOf[val'[p].cur] \in watched' /\ latest'[WalletOf[val'[p].cur]].sources # {}
<1>1. TypeInv
  BY DEF TrackInv
<1>2. ASSUME val'[p].pc \in {"mark", "next", "idle", "reset"} PROVE Goal
  BY <1>2
<1>3. CASE StartValidation(p)
  <2>1. PICK B \in Batches(p) : Starts(p, B)
    BY <1>1, <1>3, StartsPass
  <2> QED BY <1>2, <2>1 DEF Starts
<1>4. CASE MarkBatch(p) \/ FailCandidate(p)
  <2>1. MovesPc(p, "next") \/ MovesPc(p, "reset")
    BY <1>1, <1>4, MovesOfPass
  <2> QED BY <1>2, <2>1 DEF MovesPc, Moves
<1>5. CASE WriteVerdict(p) \/ ResetCandidate(p) \/ FailReset(p) \/ FailMark(p) \/ EndValidation(p) \/ Crash(p)
  <2>1. MovesOn(p) \/ MovesOut(p)
    BY <1>1, <1>5, MovesOfPass
  <2> QED BY <1>2, <2>1 DEF MovesOn, MovesOut, Moves
<1>6. CASE Watch(p)
  <2>1. MovesPc(p, "lookup") /\ WalletOf[val[p].cur] \in watched'
    BY <1>1, <1>6, MovesOfPass DEF Watch, WatchWallet
  <2> QED BY <2>1 DEF MovesPc, Moves
<1>7. CASE Lookup(p)
  <2>1. PICK source \in Found(WalletOf[val[p].cur]) :
          MovesPc(p, IF source = "csv" THEN "verdict" ELSE "stats")
    BY <1>1, <1>7, MovesOfPass
  <2>2. WalletOf[val[p].cur] \in watched /\ WalletOf[val[p].cur] \in Wallets
    BY <1>1, <1>7, HandFacts DEF Lookup, TrackInv, PromotionIsTracked, InCandidate
  <2>3. source = "csv" => latest[WalletOf[val[p].cur]].sources # {}
    BY <2>1 DEF Found
  <2> QED BY <2>1, <2>2, <2>3 DEF MovesPc, Moves, Grows
<1>8. CASE InsertStats(p)
  <2>1. /\ Moves(p, "verdict", val[p].todo, val[p].cur, val[p].verdict, FALSE, val[p].shared)
        /\ val[p].pc = "stats"
    BY <1>1, <1>8, MovesOfPass DEF InsertStats
  <2>2. WalletOf[val[p].cur] \in watched /\ WalletOf[val[p].cur] \in Wallets /\ val[p].at \in Times
    BY <1>1, <2>1, HandFacts DEF TrackInv, PromotionIsTracked, InCandidate
  <2>3. latest'[WalletOf[val[p].cur]].sources # {}
    BY <1>1, <1>8, <2>2, InsertAdds, TypeParts DEF InsertStats, Adds, WalletsTyped
  <2> QED BY <2>1, <2>2, <2>3 DEF Moves, Grows
<1>9. ASSUME NEW c \in Candidates, Assess(p, c) PROVE Goal
  <2>1. PICK v \in {"reject", "promote", "insufficient"} :
          Moves(p, IF v = "promote" THEN "watch" ELSE "verdict", val[p].todo \ {c}, c, v,
                val[p].raced, val[p].shared)
    BY <1>1, <1>9, MovesOfAssess
  <2> QED BY <2>1 DEF Moves
<1>10. ASSUME NEW c \in Candidates, FailAssess(p, c) PROVE Goal
  <2>1. Moves(p, "reset", val[p].todo \ {c}, c, val[p].verdict, val[p].raced, val[p].shared)
    BY <1>1, <1>10, MovesOfAssess
  <2> QED BY <1>2, <2>1 DEF Moves
<1> QED BY <1>3, <1>4, <1>5, <1>6, <1>7, <1>8, <1>9, <1>10, Zenon
        DEF PassStep, ValidationStep, ValidationFault

LEMMA TrackNext == TrackInv /\ [Next]_vars => TrackInv'
<1> SUFFICES ASSUME TrackInv, [Next]_vars PROVE TrackInv'
  OBVIOUS
<1>1. TypeInv /\ TypeInv' /\ Grows
  BY TypeNext, AllGrow DEF TrackInv
<1>2. ASSUME NEW p \in Passes
      PROVE  /\ val'[p].pc \in {"lookup", "stats"} => WalletOf[val'[p].cur] \in watched'
             /\ val'[p].pc = "verdict" /\ val'[p].verdict = "promote" =>
                  WalletOf[val'[p].cur] \in watched' /\ latest'[WalletOf[val'[p].cur]].sources # {}
  <2>1. CASE PassStep(p)
    BY <1>1, <2>1, MoverTracks
  <2>2. CASE ~PassStep(p)
    BY <1>1, <2>2, OthersHands, HandFacts
       DEF Keeps, TrackInv, PromotionIsTracked, Tracked, Grows, InCandidate
  <2> QED BY <2>1, <2>2
<1>3. ASSUME NEW c \in Candidates, status'[c] = "promoted"
      PROVE  WalletOf[c] \in watched' /\ latest'[WalletOf[c]].sources # {}
  <2>1. WalletOf[c] \in Wallets
    BY IntakeAssumption
  <2>2. CASE status[c] = "promoted"
    BY <1>1, <2>1, <2>2 DEF TrackInv, PromotedIsTracked, Grows
  <2>3. ASSUME NEW p \in Passes, PassStep(p), status[c] # "promoted"
        PROVE  WalletOf[c] \in watched /\ latest[WalletOf[c]].sources # {}
    <3>1. val[p].pc = "verdict" /\ c = val[p].cur /\ StatusOf(val[p].verdict) = "promoted"
      BY <1>1, <1>3, <2>3, StatusMoves DEF PassStep
    <3>2. val[p].verdict = "promote"
      <4>1. val[p].verdict \in {"promote", "reject", "insufficient"}
        BY <1>1, <3>1, HandFacts, PassesAreTyped DEF PassType, InHand
      <4> QED BY <3>1, <4>1 DEF StatusOf
    <3> QED BY <3>1, <3>2 DEF TrackInv, PromotionIsTracked, Tracked
  <2> QED BY <1>1, <1>3, <2>1, <2>2, <2>3, StepsOfOthers DEF Grows
<1> QED BY <1>1, <1>2, <1>3 DEF TrackInv, PromotedIsTracked, PromotionIsTracked, Tracked

\* A candidate is called promoted only when its wallet is watched and has figures, wherever a
\* pass was interrupted and whoever else validated it (promoteCandidate before its verdict).
THEOREM PromotionsAreTracked == Spec => []PromotedIsTracked
<1>1. Init => TrackInv
  BY InitTyped DEF Init, TrackInv, PromotedIsTracked, PromotionIsTracked, ValIdle
<1>2. TrackInv => PromotedIsTracked
  BY DEF TrackInv
<1> QED BY <1>1, <1>2, TrackNext, PTL DEF Spec

-----------------------------------------------------------------------------
(* Verdicts, and candidates in nobody's hands.                             *)

\* What becomes of what a pass holds: it keeps it, is through with one, or lets go of all.
HoldsOn(p) == /\ Held(p)' = Held(p) /\ val'[p].shared = val[p].shared /\ val[p].pc # "reset"
              /\ val[p].pc = "verdict" => val'[p].pc = "reset" /\ val'[p].cur = val[p].cur
LetsOneGo(p) == /\ Held(p) = Held(p)' \union {val[p].cur} /\ val[p].cur \notin Held(p)'
                /\ val'[p].shared = val[p].shared \ {val[p].cur}
                /\ val[p].pc \in {"verdict", "reset"}
LetsAllGo(p) == Held(p)' = {}
TakesBatch(p) == \E B \in Batches(p) : /\ Held(p) = {} /\ Held(p)' = B /\ Starts(p, B)
                                       /\ dropped' = dropped \ B /\ UNCHANGED status

LEMMA HeldMoves ==
  ASSUME TypeInv, NEW p \in Passes, PassStep(p)
  PROVE  HoldsOn(p) \/ LetsOneGo(p) \/ LetsAllGo(p) \/ TakesBatch(p)
<1>1. CASE StartValidation(p)
  <2>1. PICK B \in Batches(p) : Starts(p, B) /\ dropped' = dropped \ B
    BY <1>1, StartsPass
  <2>2. Held(p) = {}
    BY <1>1, HandFacts DEF StartValidation, InHand, Held
  <2>3. Held(p)' = B
    BY <2>1 DEF Starts, Held
  <2>4. UNCHANGED status
    BY <1>1 DEF StartValidation, intake
  <2> QED BY <2>1, <2>2, <2>3, <2>4 DEF TakesBatch
<1>2. ASSUME NEW pc, MovesPc(p, pc), val[p].pc # "reset",
             val[p].pc = "verdict" => pc = "reset"
      PROVE  HoldsOn(p)
  BY <1>2 DEF MovesPc, Moves, HoldsOn, Held
<1>3. CASE MarkBatch(p)
  BY <1>2, <1>3, MovesOfPass DEF MarkBatch
<1>4. CASE Watch(p)
  BY <1>2, <1>4, MovesOfPass DEF Watch
<1>5. CASE Lookup(p)
  BY <1>2, <1>5, MovesOfPass DEF Lookup
<1>6. CASE FailCandidate(p)
  BY <1>2, <1>6, MovesOfPass DEF FailCandidate, InCandidate
<1>7. CASE InsertStats(p)
  BY <1>7, MovesOfPass DEF InsertStats, Moves, HoldsOn, Held
<1>8. CASE WriteVerdict(p) \/ ResetCandidate(p) \/ FailReset(p)
  <2>1. MovesOn(p) /\ val[p].pc \in {"verdict", "reset"}
    BY <1>8, MovesOfPass DEF WriteVerdict, ResetCandidate, FailReset
  <2>2. val[p].cur \in Candidates /\ val[p].cur \notin val[p].todo
    BY <2>1, HandFacts DEF InHand, InCandidate
  <2> QED BY <2>1, <2>2, IntakeAssumption DEF MovesOn, Moves, LetsOneGo, Held
<1>9. CASE FailMark(p) \/ EndValidation(p) \/ Crash(p)
  BY <1>9, MovesOfPass DEF MovesOut, Moves, LetsAllGo, Held
<1>10. ASSUME NEW c \in Candidates, Assess(p, c) \/ FailAssess(p, c) PROVE HoldsOn(p)
  <2>1. \E pc, v : Moves(p, pc, val[p].todo \ {c}, c, v, val[p].raced, val[p].shared)
    BY <1>10, MovesOfAssess, Zenon
  <2>2. c \in val[p].todo /\ val[p].pc = "next"
    BY <1>10 DEF Assess, FailAssess, IsNext
  <2>3. val[p].cur = "none"
    BY <2>2, HandFacts DEF InHand
  <2> QED BY <2>1, <2>2, <2>3, IntakeAssumption DEF Moves, HoldsOn, Held
<1> QED BY <1>1, <1>3, <1>4, <1>5, <1>6, <1>7, <1>8, <1>9, <1>10, Zenon
        DEF PassStep, ValidationStep, ValidationFault

LEMMA HeldTyped ==
  ASSUME TypeInv, NEW p \in Passes
  PROVE  Held(p) \subseteq Candidates /\ (val[p].cur \in Candidates => val[p].cur \in Held(p))
  BY HandFacts, PassesAreTyped, IntakeAssumption DEF Held, PassType

LEMMA SharedNext == VerdictInv /\ [Next]_vars => SharedIsKnown'
<1> SUFFICES ASSUME VerdictInv, [Next]_vars, NEW q \in Passes, NEW r \in Passes, q # r,
                    NEW c, c \in Held(q)', c \in Held(r)'
             PROVE  c \in val'[q].shared
  BY DEF SharedIsKnown
<1>1. TypeInv /\ (c \in Held(q) /\ c \in Held(r) => c \in val[q].shared)
  BY DEF VerdictInv, SharedIsKnown
<1>2. ASSUME NEW p \in Passes, Keeps(p) PROVE Held(p)' = Held(p)
  BY <1>2 DEF Keeps, Held
<1>3. CASE PassStep(q)
  <2>1. Keeps(r)
    BY <1>1, <1>3, PassLeavesOthers
  <2>2. c \in Held(r)
    BY <1>2, <2>1
  <2>3. CASE HoldsOn(q) \/ LetsOneGo(q) \/ LetsAllGo(q)
    BY <1>1, <2>2, <2>3 DEF HoldsOn, LetsOneGo, LetsAllGo
  <2>4. CASE TakesBatch(q)
    BY <2>2, <2>4 DEF TakesBatch, Starts
  <2> QED BY <1>1, <1>3, <2>3, <2>4, HeldMoves
<1>4. CASE PassStep(r)
  <2>1. Keeps(q)
    BY <1>1, <1>4, PassLeavesOthers
  <2>2. c \in Held(q)
    BY <1>2, <2>1
  <2>3. CASE HoldsOn(r) \/ LetsOneGo(r) \/ LetsAllGo(r)
    BY <1>1, <2>1, <2>2, <2>3 DEF HoldsOn, LetsOneGo, LetsAllGo, Keeps
  <2>4. CASE TakesBatch(r)
    BY <2>2, <2>4 DEF TakesBatch, Starts
  <2> QED BY <1>1, <1>4, <2>3, <2>4, HeldMoves
<1>5. CASE ~PassStep(q) /\ ~PassStep(r)
  <2>1. Keeps(q) /\ Keeps(r)
    BY <1>1, <1>5, OthersHands
  <2> QED BY <1>1, <1>2, <2>1 DEF Keeps
<1> QED BY <1>3, <1>4, <1>5

LEMMA JudgedNext == VerdictInv /\ [Next]_vars => JudgedIsShared'
<1> SUFFICES ASSUME VerdictInv, [Next]_vars, NEW q \in Passes, NEW c, c \in Held(q)',
                    status'[c] \in Terminal
             PROVE  c \in val'[q].shared \/ (val'[q].pc = "reset" /\ val'[q].cur = c)
  BY DEF JudgedIsShared
<1>1. /\ TypeInv /\ TypeInv'
      /\ c \in Held(q) /\ status[c] \in Terminal =>
           c \in val[q].shared \/ (val[q].pc = "reset" /\ val[q].cur = c)
  BY TypeNext DEF VerdictInv, JudgedIsShared
<1>2. c \in Candidates
  <2>1. (val \in [Passes -> PassType])'
    BY <1>1, PassesAreTyped, PTL
  <2> QED BY <2>1 DEF Held, PassType
<1>3. CASE PassStep(q)
  <2>1. CASE HoldsOn(q)
    BY <1>1, <1>2, <1>3, <2>1, StatusMoves DEF HoldsOn, PassStep, Terminal
  <2>2. CASE LetsOneGo(q)
    BY <1>1, <1>2, <1>3, <2>2, StatusMoves DEF LetsOneGo, PassStep, Terminal
  <2>3. CASE LetsAllGo(q)
    BY <2>3 DEF LetsAllGo
  <2>4. CASE TakesBatch(q)
    BY <2>4 DEF TakesBatch, Batches, PendingNow, Terminal
  <2> QED BY <1>1, <1>3, <2>1, <2>2, <2>3, <2>4, HeldMoves
<1>4. ASSUME NEW p \in Passes \ {q}, PassStep(p)
      PROVE  c \in val'[q].shared \/ (val'[q].pc = "reset" /\ val'[q].cur = c)
  <2>1. Keeps(q)
    BY <1>1, <1>4, PassLeavesOthers
  <2>2. c \in Held(q)
    BY <2>1 DEF Keeps, Held
  <2>3. CASE status[c] \in Terminal
    BY <1>1, <2>1, <2>2, <2>3 DEF Keeps
  <2>4. CASE status[c] \notin Terminal
    <3>1. val[p].cur = c
      BY <1>1, <1>2, <1>4, <2>4, StatusMoves DEF PassStep, Terminal
    <3>2. c \in Held(p)
      BY <1>1, <1>2, <3>1, HeldTyped
    <3> QED BY <2>1, <2>2, <3>2 DEF VerdictInv, SharedIsKnown, Keeps
  <2> QED BY <2>3, <2>4
<1>5. CASE ~\E p \in Passes : PassStep(p)
  <2>1. Keeps(q)
    BY <1>1, <1>5, OthersHands
  <2>2. c \in Held(q)
    BY <2>1 DEF Keeps, Held
  <2>3. status[c] \in Terminal
    BY <1>1, <1>2, <1>5, StepsOfOthers DEF Terminal
  <2> QED BY <1>1, <2>1, <2>2, <2>3 DEF Keeps
<1> QED BY <1>3, <1>4, <1>5

LEMMA VerdictNext == VerdictInv /\ [Next]_vars => VerdictInv'
  BY TypeNext, SharedNext, JudgedNext DEF VerdictInv

LEMMA InitVerdict == Init => VerdictInv
<1> SUFFICES ASSUME Init PROVE VerdictInv
  OBVIOUS
<1>1. \A p \in Passes : Held(p) = {}
  BY DEF Init, Held, ValIdle
<1> QED BY <1>1, InitTyped DEF VerdictInv, SharedIsKnown, JudgedIsShared

\* A verdict stands, whatever the sources offer again.  Only a pass that held the candidate
\* together with another one, or whose own write of the verdict reported an error, takes it
\* back (externalWalletSource.ts:175-180).
THEOREM VerdictsStand == Spec => VerdictIsFinal
<1> DEFINE Step == \A c \in Candidates : status[c] \in Terminal /\ status'[c] # status[c] =>
                     \E p \in Passes : c \in Held(p) /\ (c \in val[p].shared \/ val[p].pc = "reset")
<1>1. VerdictInv /\ [Next]_vars => Step
  <2> SUFFICES ASSUME VerdictInv, [Next]_vars, NEW c \in Candidates, status[c] \in Terminal,
                      status'[c] # status[c]
               PROVE  \E p \in Passes : c \in Held(p) /\ (c \in val[p].shared \/ val[p].pc = "reset")
    OBVIOUS
  <2>1. TypeInv
    BY DEF VerdictInv
  <2>2. PICK p \in Passes : PassStep(p)
    BY <2>1, StepsOfOthers DEF Terminal
  <2>3. c \in Held(p)
    BY <2>1, <2>2, StatusMoves, HeldTyped DEF PassStep, Held
  <2>4. c \in val[p].shared \/ val[p].pc = "reset"
    BY <2>3 DEF VerdictInv, JudgedIsShared
  <2> QED BY <2>3, <2>4
<1> QED BY <1>1, InitVerdict, VerdictNext, PTL DEF Spec, VerdictIsFinal

\* A pass notes as dropped whatever it lets go of that is validating, and takes back what it
\* finds dropped.
LEMMA PassLoses ==
  ASSUME TypeInv, NEW p \in Passes, PassStep(p), NEW c \in Candidates,
         status'[c] = "validating", c \notin dropped'
  PROVE  c \in Held(p)' \/ (status[c] = "validating" /\ c \notin dropped /\ c \notin Held(p))
<1>1. status[c] = "validating" \/ c \in Held(p)
  <2>1. val[p].pc = "verdict" => StatusOf(val[p].verdict) # "validating"
    <3>1. val[p].pc = "verdict" => val[p].verdict \in {"promote", "reject", "insufficient"}
      BY HandFacts, PassesAreTyped DEF PassType, InHand
    <3> QED BY <3>1 DEF StatusOf
  <2> QED BY <2>1, StatusMoves DEF PassStep, Held
<1>3. ASSUME dropped \subseteq dropped', c \in Held(p) => c \in Held(p)'
      PROVE  c \in Held(p)' \/ (status[c] = "validating" /\ c \notin dropped /\ c \notin Held(p))
  BY <1>1, <1>3
<1>4. CASE HoldsOn(p) /\ UNCHANGED dropped
  BY <1>3, <1>4 DEF HoldsOn
<1>5. CASE FailMark(p) \/ Crash(p) \/ EndValidation(p)
  <2>1. val[p].pc \in {"mark", "next"} => Held(p) = val[p].todo
    BY HandFacts DEF InHand, Held
  <2>2. dropped' = dropped \union Held(p) \/ (UNCHANGED dropped /\ Held(p) = {})
    BY <1>5, <2>1 DEF FailMark, Crash, EndValidation
  <2> QED BY <1>3, <2>2
<1>6. CASE WriteVerdict(p) \/ ResetCandidate(p) \/ FailReset(p)
  <2>1. MovesOn(p) /\ val[p].cur \in Candidates
    BY <1>6, MovesOfPass, HandFacts DEF WriteVerdict, ResetCandidate, FailReset, InCandidate
  <2>2. Held(p) = Held(p)' \union {val[p].cur}
    BY <2>1, IntakeAssumption DEF MovesOn, Moves, Held
  <2>3. dropped \subseteq dropped' /\ (FailReset(p) => val[p].cur \in dropped')
    BY <1>6 DEF WriteVerdict, ResetCandidate, FailReset
  <2>4. WriteVerdict(p) \/ ResetCandidate(p) => c # val[p].cur
    <3>1. status \in [Candidates -> StatusType]
      BY TypeParts DEF IntakeTyped
    <3>2. ASSUME WriteVerdict(p) PROVE c # val[p].cur
      <4>1. val[p].verdict \in {"promote", "reject", "insufficient"}
        BY <3>2, HandFacts, PassesAreTyped DEF WriteVerdict, PassType, InHand
      <4>2. status'[val[p].cur] = StatusOf(val[p].verdict)
        BY <2>1, <3>1, <3>2 DEF WriteVerdict, SaveVerdict
      <4> QED BY <4>1, <4>2 DEF StatusOf
    <3>3. ASSUME ResetCandidate(p) PROVE c # val[p].cur
      BY <2>1, <3>1, <3>3 DEF ResetCandidate, Reset
    <3> QED BY <3>2, <3>3
  <2> QED BY <1>3, <1>6, <2>2, <2>3, <2>4
<1>7. CASE MarkBatch(p) \/ Watch(p) \/ Lookup(p) \/ InsertStats(p) \/ FailCandidate(p)
  <2>1. UNCHANGED dropped /\ val[p].pc \notin {"reset", "idle"}
    BY <1>7 DEF MarkBatch, Watch, Lookup, InsertStats, FailCandidate, InCandidate
  <2>2. Held(p)' = Held(p)
    BY <1>7, MovesOfPass DEF MovesPc, Moves, Held
  <2> QED BY <1>3, <2>1, <2>2
<1>8. ASSUME NEW d \in Candidates, Assess(p, d) \/ FailAssess(p, d)
      PROVE  HoldsOn(p) /\ UNCHANGED dropped
  <2>1. UNCHANGED dropped /\ val[p].pc = "next"
    BY <1>8 DEF Assess, FailAssess
  <2>2. \E pc, v : Moves(p, pc, val[p].todo \ {d}, d, v, val[p].raced, val[p].shared)
    BY <1>8, MovesOfAssess, Zenon
  <2>3. d \in val[p].todo /\ val[p].cur = "none"
    BY <1>8, HandFacts DEF Assess, FailAssess, IsNext, InHand
  <2> QED BY <2>1, <2>2, <2>3, IntakeAssumption DEF Moves, HoldsOn, Held
<1>9. CASE StartValidation(p)
  <2>1. PICK B \in Batches(p) : Starts(p, B) /\ dropped' = dropped \ B
    BY <1>9, StartsPass
  <2>2. Held(p) = {} /\ Held(p)' = B
    BY <1>9, <2>1, HandFacts DEF StartValidation, InHand, Held, Starts
  <2> QED BY <1>1, <2>1, <2>2
<1> QED BY <1>4, <1>5, <1>6, <1>7, <1>8, <1>9, Zenon DEF PassStep, ValidationStep, ValidationFault

\* A candidate that is validating is in the hands of a pass, unless a crash or a failed write
\* has lost it: the error paths of a pass give back what they hold.
THEOREM StrandedAreLost == Spec => []StrandedOnlyByFault
<1> DEFINE SInv == TypeInv /\ StrandedOnlyByFault
<1>1. Init => SInv
  BY InitTyped DEF Init, StrandedOnlyByFault
<1>2. SInv /\ [Next]_vars => SInv'
  <2> SUFFICES ASSUME TypeInv, StrandedOnlyByFault, [Next]_vars, NEW c \in Candidates,
                      status'[c] = "validating", c \notin dropped'
               PROVE  \E p \in Passes : c \in Held(p)'
    BY TypeNext DEF StrandedOnlyByFault
  <2>1. ASSUME NEW p \in Passes, Keeps(p) PROVE Held(p)' = Held(p)
    BY <2>1 DEF Keeps, Held
  <2>2. ASSUME NEW p \in Passes, PassStep(p)
        PROVE  \E q \in Passes : c \in Held(q)'
    <3>1. ASSUME NEW q \in Passes \ {p}, c \in Held(q) PROVE c \in Held(q)'
      <4>1. Keeps(q)
        BY <2>2, <3>1, PassLeavesOthers
      <4> QED BY <2>1, <3>1, <4>1
    <3>2. c \in Held(p)' \/ (status[c] = "validating" /\ c \notin dropped /\ c \notin Held(p))
      BY <2>2, PassLoses
    <3> QED BY <2>2, <3>1, <3>2 DEF StrandedOnlyByFault
  <2>3. CASE ~\E p \in Passes : PassStep(p)
    <3>1. status[c] = "validating" /\ c \notin dropped
      BY <2>3, StepsOfOthers
    <3>2. PICK p \in Passes : c \in Held(p)
      BY <3>1 DEF StrandedOnlyByFault
    <3>3. Keeps(p)
      BY <2>3, OthersHands
    <3> QED BY <2>1, <3>2, <3>3
  <2> QED BY <2>2, <2>3
<1>3. SInv => StrandedOnlyByFault
  OBVIOUS
<1> QED BY <1>1, <1>2, <1>3, PTL DEF Spec

-----------------------------------------------------------------------------
(* The operator's figures.                                                 *)

\* A step makes the operator's figures the only ones of w only by importing them, and then the
\* passes and the refresh that have looked at w are told.
LEMMA OnlyCsvComes ==
  ASSUME TypeInv, [Next]_vars, NEW w \in Wallets, OnlyCsv(w)', ~OnlyCsv(w)
  PROVE  /\ ~\E p \in Passes : PassStep(p)
         /\ imp.wallet = w /\ Overtaken(w)
<1>1. WalletsTyped /\ JobsTyped /\ now \in Times
  BY TypeParts DEF ClocksTyped
<1>2. ~UNCHANGED latest
  BY DEF OnlyCsv
<1>3. ASSUME NEW u \in Wallets, NEW at \in Times PROVE ~Insert(u, "computed", at)
  <2> SUFFICES ASSUME Insert(u, "computed", at) PROVE FALSE
    OBVIOUS
  <2>1. Adds(u) /\ (OnlyCsv(u)' => OnlyCsv(u))
    BY <1>1, InsertAdds DEF WalletsTyped
  <2> QED BY <2>1 DEF Adds, OnlyCsv
<1>4. ~\E p \in Passes : PassStep(p)
  BY <1>2, <1>3, PassFrame, HandFacts DEF PassStep, InCandidate
<1>5. ASSUME NEW u \in Wallets, RefreshWallet(u) \/ FailRefresh(u) PROVE FALSE
  BY <1>1, <1>2, <1>3, <1>5, RefreshFrame
<1>6. ImportStats \/ FailImport
  <2>1. ASSUME NEW c \in Candidates, Sync(c) PROVE UNCHANGED latest
    BY <2>1 DEF Sync
  <2>2. ASSUME NEW u \in Wallets, Ingest(u) \/ ImportRow(u) PROVE UNCHANGED latest
    BY <2>2 DEF Ingest, ImportRow
  <2>3. StartRefresh \/ EndRefresh \/ Tick \/ UNCHANGED vars => UNCHANGED latest
    BY DEF StartRefresh, EndRefresh, Tick, vars
  <2> QED BY <1>2, <1>4, <1>5, <2>1, <2>2, <2>3 DEF Next, RefreshStep, ImportStep, PassStep
<1>7. imp.wallet \in Wallets /\ imp.at \in Times
  BY <1>1, <1>6, ImportFrame DEF JobsTyped, ImpType
<1>8. Insert(imp.wallet, "csv", imp.at) /\ Overtaken(imp.wallet)
  BY <1>2, <1>6, ImportFrame
<1>9. imp.wallet = w
  BY <1>1, <1>7, <1>8, InsertAdds DEF WalletsTyped, Adds, OnlyCsv
<1> QED BY <1>4, <1>8, <1>9

\* What is left to refresh, and which of it was overtaken.
LEMMA RefMoves ==
  ASSUME TypeInv, [Next]_vars, NEW w \in Wallets, w \in ref'.todo
  PROVE  \/ w \in ref.todo /\ (w \in ref.raced => w \in ref'.raced)
         \/ UNCHANGED latest /\ ~OnlyCsv(w)
<1>1. ref \in RefType
  BY TypeParts DEF JobsTyped
<1>2. ASSUME NEW p \in Passes, PassStep(p) PROVE UNCHANGED ref
  <2>1. ref' # RefIdle
    BY DEF RefIdle
  <2> QED BY <1>2, <2>1, PassFrame DEF PassStep
<1>3. CASE StartRefresh
  <2>1. PICK source \in [traded -> {"none", "csv", "computed"}] :
          /\ \A u \in traded : source[u] \in Found(u)
          /\ ref' = [pc |-> "next", todo |-> {u \in traded : source[u] # "csv"}, raced |-> {}]
    BY <1>3 DEF StartRefresh
  <2>2. w \in traded /\ source[w] # "csv" /\ source[w] \in Found(w)
    BY <2>1
  <2> QED BY <1>3, <2>2 DEF StartRefresh, Found, OnlyCsv
<1>4. CASE EndRefresh
  BY <1>4 DEF EndRefresh, RefIdle
<1>5. ASSUME NEW u \in Wallets, RefreshWallet(u) \/ FailRefresh(u)
      PROVE  w \in ref.todo /\ (w \in ref.raced => w \in ref'.raced)
  BY <1>1, <1>5, RefreshFrame, RefEdits
<1>6. CASE ImportStats \/ FailImport
  BY <1>1, <1>6, ImportFrame, OvertakenRef
<1>7. ASSUME NEW c \in Candidates, Sync(c) PROVE UNCHANGED ref
  BY <1>7 DEF Sync
<1>8. ASSUME NEW u \in Wallets, Ingest(u) \/ ImportRow(u) PROVE UNCHANGED ref
  BY <1>8 DEF Ingest, ImportRow
<1>9. Tick \/ UNCHANGED vars => UNCHANGED ref
  BY DEF Tick, vars
<1> QED BY <1>2, <1>3, <1>4, <1>5, <1>6, <1>7, <1>8, <1>9 DEF Next, RefreshStep, ImportStep, PassStep

\* A pass comes to its write of figures only when it found others than the operator's.
LEMMA StatsMoves ==
  ASSUME TypeInv, [Next]_vars, NEW p \in Passes, PassStep(p), val'[p].pc = "stats"
  PROVE  val'[p].cur = val[p].cur /\ val[p].pc = "lookup" /\ UNCHANGED latest
         /\ ~OnlyCsv(WalletOf[val[p].cur])
<1>1. CASE Lookup(p)
  <2>1. PICK source \in Found(WalletOf[val[p].cur]) :
          MovesPc(p, IF source = "csv" THEN "verdict" ELSE "stats")
    BY <1>1, MovesOfPass
  <2>2. source # "csv"
    BY <2>1 DEF MovesPc, Moves
  <2> QED BY <1>1, <2>1, <2>2 DEF Lookup, MovesPc, Moves, Found, OnlyCsv
<1>2. CASE StartValidation(p)
  BY <1>2, StartsPass DEF Starts
<1>3. CASE MarkBatch(p) \/ FailCandidate(p) \/ Watch(p)
  BY <1>3, MovesOfPass DEF MovesPc, Moves
<1>4. CASE WriteVerdict(p) \/ ResetCandidate(p) \/ FailReset(p) \/ FailMark(p) \/ EndValidation(p) \/ Crash(p)
  BY <1>4, MovesOfPass DEF MovesOn, MovesOut, Moves
<1>5. CASE InsertStats(p)
  BY <1>5, MovesOfPass DEF Moves
<1>6. ASSUME NEW c \in Candidates, Assess(p, c) \/ FailAssess(p, c) PROVE FALSE
  <2>1. \E v : \/ Moves(p, IF v = "promote" THEN "watch" ELSE "verdict", val[p].todo \ {c}, c, v,
                         val[p].raced, val[p].shared)
               \/ Moves(p, "reset", val[p].todo \ {c}, c, v, val[p].raced, val[p].shared)
    BY <1>6, MovesOfAssess, Zenon
  <2> QED BY <2>1 DEF Moves
<1> QED BY <1>1, <1>2, <1>3, <1>4, <1>5, <1>6, Zenon DEF PassStep, ValidationStep, ValidationFault

LEMMA RaceNext == RaceInv /\ [Next]_vars => RaceInv'
<1> SUFFICES ASSUME RaceInv, [Next]_vars PROVE RaceInv'
  OBVIOUS
<1>1. TypeInv /\ TypeInv' /\ RacedIsKnown
  BY TypeNext DEF RaceInv
<1>2. ASSUME NEW w \in ref'.todo, OnlyCsv(w)' PROVE w \in ref'.raced
  <2>1. w \in Wallets /\ ref \in RefType
    <3>1. JobsTyped /\ JobsTyped'
      BY <1>1, TypeParts, PTL
    <3> QED BY <1>2, <3>1 DEF JobsTyped, RefType
  <2>2. CASE OnlyCsv(w)
    BY <1>1, <1>2, <2>1, <2>2, RefMoves DEF RacedIsKnown
  <2>3. CASE ~OnlyCsv(w)
    <3>1. Overtaken(w) /\ ~UNCHANGED latest
      BY <1>1, <1>2, <2>1, <2>3, OnlyCsvComes DEF OnlyCsv
    <3>2. w \in ref.todo
      BY <1>1, <1>2, <2>1, <3>1, RefMoves
    <3> QED BY <2>1, <3>1, <3>2, OvertakenRef
  <2> QED BY <2>2, <2>3
<1>3. ASSUME NEW p \in Passes, val'[p].pc = "stats", latest'[WalletOf[val'[p].cur]].sources = {"csv"}
      PROVE  val'[p].raced
  <2>1. CASE PassStep(p)
    BY <1>1, <1>3, <2>1, StatsMoves DEF OnlyCsv
  <2>2. CASE ~PassStep(p)
    <3>1. Keeps(p)
      BY <1>1, <2>2, OthersHands
    <3>2. WalletOf[val[p].cur] \in Wallets
      BY <1>1, <1>3, <3>1, HandFacts DEF Keeps, InCandidate
    <3>3. CASE OnlyCsv(WalletOf[val[p].cur])
      BY <1>1, <1>3, <3>1, <3>3 DEF Keeps, RacedIsKnown
    <3>4. CASE ~OnlyCsv(WalletOf[val[p].cur])
      <4>1. PICK w \in Wallets : w = WalletOf[val[p].cur]
        BY <3>2
      <4>2. OnlyCsv(w)' /\ ~OnlyCsv(w)
        BY <1>3, <3>1, <3>4, <4>1 DEF Keeps, OnlyCsv
      <4>3. Overtaken(w)
        BY <1>1, <4>2, OnlyCsvComes
      <4> QED BY <1>1, <1>3, <3>1, <4>1, <4>3, OvertakesPasses DEF Overtakes, Keeps
    <3> QED BY <3>3, <3>4
  <2> QED BY <2>1, <2>2
<1> QED BY <1>1, <1>2, <1>3 DEF RaceInv, RacedIsKnown, OnlyCsv

\* A recomputed or promoted figure takes the place of the operator's only when the pass that
\* writes it had looked before the operator's row was there (walletStatsRefresh.ts:6-12).
THEOREM CsvIsOverruledOnlyByRace == Spec => CsvOverruledOnlyByRace
<1> DEFINE Step == \A w \in Wallets : latest[w].sources = {"csv"} /\ "csv" \notin latest'[w].sources =>
                     w \in ref.raced \/ \E p \in Passes : val[p].raced /\ WalletOf[val[p].cur] = w
<1>1. RaceInv /\ [Next]_vars => Step
  <2> SUFFICES ASSUME RaceInv, [Next]_vars, NEW w \in Wallets, latest[w].sources = {"csv"},
                      "csv" \notin latest'[w].sources
               PROVE  w \in ref.raced \/ \E p \in Passes : val[p].raced /\ WalletOf[val[p].cur] = w
    OBVIOUS
  <2>1. TypeInv /\ RacedIsKnown /\ OnlyCsv(w) /\ ~UNCHANGED latest
    BY DEF RaceInv, OnlyCsv
  <2>2. WalletsTyped /\ JobsTyped /\ now \in Times
    BY <2>1, TypeParts DEF ClocksTyped
  <2>3. ASSUME NEW u \in Wallets, NEW at \in Times, Insert(u, "computed", at) PROVE u = w
    BY <2>2, <2>3, InsertAdds DEF WalletsTyped, Adds
  <2>4. ASSUME NEW p \in Passes, PassStep(p) PROVE val[p].raced /\ WalletOf[val[p].cur] = w
    <3>1. val[p].pc = "stats" /\ Insert(WalletOf[val[p].cur], "computed", val[p].at)
      BY <2>1, <2>4, PassFrame DEF PassStep
    <3>2. WalletOf[val[p].cur] = w
      BY <2>1, <2>3, <3>1, HandFacts DEF InCandidate
    <3> QED BY <2>1, <3>1, <3>2 DEF RacedIsKnown
  <2>5. ASSUME NEW u \in Wallets, RefreshWallet(u) \/ FailRefresh(u) PROVE w \in ref.raced
    BY <2>1, <2>2, <2>3, <2>5, RefreshFrame DEF RacedIsKnown
  <2>6. ASSUME ImportStats \/ FailImport PROVE FALSE
    <3>1. imp.wallet \in Wallets /\ imp.at \in Times
      BY <2>2, <2>6, ImportFrame DEF JobsTyped, ImpType
    <3> QED BY <2>1, <2>2, <2>6, <3>1, ImportFrame, InsertAdds DEF WalletsTyped, Adds
  <2>7. ASSUME NEW c \in Candidates, Sync(c) PROVE FALSE
    BY <2>1, <2>7 DEF Sync
  <2>8. ASSUME NEW u \in Wallets, Ingest(u) \/ ImportRow(u) PROVE FALSE
    BY <2>1, <2>8 DEF Ingest, ImportRow
  <2>9. StartRefresh \/ EndRefresh \/ Tick \/ UNCHANGED vars => FALSE
    BY <2>1 DEF StartRefresh, EndRefresh, Tick, vars
  <2> QED BY <2>4, <2>5, <2>6, <2>7, <2>8, <2>9, Zenon DEF Next, RefreshStep, ImportStep, PassStep
<1>2. Init => RaceInv
  BY InitTyped DEF Init, RaceInv, RacedIsKnown, RefIdle, ValIdle
<1> QED BY <1>1, <1>2, RaceNext, PTL DEF Spec, CsvOverruledOnlyByRace
=============================================================================
