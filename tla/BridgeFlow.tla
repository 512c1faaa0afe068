------------------------------ MODULE BridgeFlow ------------------------------
(***************************************************************************)
(* The bridge-flow pass: runBridgeFlow of packages/db/src/bridgeFlow.ts,   *)
(* run by the bridgeFlow job over the trailing 24 hours.                   *)
(*                                                                         *)
(* A bridge hop is two money-flow rows, a deposit on one chain and a       *)
(* withdrawal on the other.  The pass pairs them, the closest amounts      *)
(* first, and writes its verdict on both rows, one update each: legs may   *)
(* be ingested while it runs, and a pass may fail between the two halves   *)
(* of a pair.  Time moves on between passes, and the window with it.       *)
(*                                                                         *)
(* A leg is [id, kind, address, counterparty, asset, protocol, usd, ts].   *)
(***************************************************************************)
EXTENDS Integers, FiniteSets, Sequences, FiniteSetsExt, TLC

CONSTANTS
    LegWorlds,      \* [legs, interrupters] a behaviour may be about: the legs that
                    \* are ever ingested, and the registered CEX and MIXER addresses
    PassTimes,      \* times a pass may run at
    Lookback,       \* the window a pass reads: 24 hours
    BridgeWindow,   \* the gap a hop may take: 60 minutes
    MaxBridgeFaults \* passes that may fail

ASSUME BridgeAssumption == Lookback \in Nat /\ BridgeWindow \in Nat /\ BridgeWindow <= Lookback

VARIABLES
    legWorld,
    ingestedLegs,   \* ids of the legs that are in the database
    verdict,        \* leg -> what its row says of the hop
    bridgePass,     \* the pass under way: [at, legs, todo]
    bridgeTime,     \* time of the last pass
    bridgeOutcome,  \* how it ended
    bridgeFaults

bridgeVars == <<legWorld, ingestedLegs, verdict, bridgePass, bridgeTime, bridgeOutcome, bridgeFaults>>

CONFIRMED_CONFIDENCE == 95
LOW_CONFIDENCE == 35
RAW_CONFIDENCE == 100

NoVerdict == [confidence |-> RAW_CONFIDENCE, confirmed |-> FALSE, match |-> 0, reason |-> ""]
NoPass == [at |-> "idle", legs |-> {}, todo |-> <<>>]

-----------------------------------------------------------------------------
(***************************************************************************)
(* pairBridgeLegRows, over a set of legs read in the order of (ts, id).    *)
(***************************************************************************)
Deposits(legs) == {l \in legs : l.kind = "bridge_deposit"}
Withdrawals(legs) == {l \in legs : l.kind = "bridge_withdrawal"}

EarlierLeg(l, m) == l.ts < m.ts \/ (l.ts = m.ts /\ l.id < m.id)

Lower(pair) == Min({pair[1].usd, pair[2].usd})
Upper(pair) == Max({pair[1].usd, pair[2].usd})

\* The two may be one hop: amounts within 5% and times within the hour.
MayPair(d, w) ==
    /\ d.usd > 0 /\ w.usd > 0
    /\ d.asset = w.asset /\ d.protocol = w.protocol
    /\ w.ts - d.ts \in -BridgeWindow..BridgeWindow
    /\ 100 * Lower(<<d, w>>) >= 95 * Upper(<<d, w>>)

\* The amounts of the pair p are closer than those of q.
Closer(p, q) == Lower(p) * Upper(q) > Lower(q) * Upper(p)

\* The order the candidates are taken in: closest first, then as read.
TakenBefore(p, q) ==
    \/ Closer(p, q)
    \/ ~Closer(q, p) /\ (EarlierLeg(p[1], q[1]) \/ (p[1] = q[1] /\ EarlierLeg(p[2], q[2])))

\* Faulty variant: a withdrawal may be taken twice.
OtherDeposit(p, q) == p[1] # q[1]

Disjoint(p, q) == p[1] # q[1] /\ p[2] # q[2]

PairBridgeLegRows(legs) ==
    LET candidates == {p \in Deposits(legs) \X Withdrawals(legs) : MayPair(p[1], p[2])}
        taken[C \in SUBSET candidates] ==
            IF C = {} THEN {}
            ELSE LET p == CHOOSE p \in C : \A q \in C \ {p} : TakenBefore(p, q)
                 IN  {p} \cup taken[{q \in C : Disjoint(p, q)}]
    IN  taken[candidates]

-----------------------------------------------------------------------------
\* The updates of a pass, in order: the two of each pair, then the unmatched.
Confirmed(leg, other) ==
    [leg |-> leg.id, verdict |-> [confidence |-> CONFIRMED_CONFIDENCE, confirmed |-> TRUE,
                                  match |-> other.id, reason |-> ""]]

Reason(leg) ==
    IF {leg.address, leg.counterparty} \cap legWorld.interrupters # {}
    THEN "cex_or_mixer_interruption"
    ELSE IF leg.kind = "bridge_deposit" THEN "no_matching_withdrawal_in_window"
    ELSE "no_matching_deposit_in_window"

Unmatched(leg) ==
    [leg |-> leg.id, verdict |-> [confidence |-> LOW_CONFIDENCE, confirmed |-> FALSE,
                                  match |-> 0, reason |-> Reason(leg)]]

Updates(legs) ==
    LET pairs  == PairBridgeLegRows(legs)
        inPair == UNION {{p[1], p[2]} : p \in pairs}
        ofPairs[P \in SUBSET pairs] ==
            IF P = {} THEN <<>>
            ELSE LET p == CHOOSE p \in P : \A q \in P \ {p} : TakenBefore(p, q)
                 IN  <<Confirmed(p[1], p[2]), Confirmed(p[2], p[1])>> \o ofPairs[P \ {p}]
        ofRest[L \in SUBSET (legs \ inPair)] ==
            IF L = {} THEN <<>>
            ELSE LET l == CHOOSE l \in L : \A m \in L \ {l} : EarlierLeg(l, m)
                 IN  <<Unmatched(l)>> \o ofRest[L \ {l}]
    IN  ofPairs[pairs] \o ofRest[Deposits(legs) \ inPair] \o ofRest[Withdrawals(legs) \ inPair]

-----------------------------------------------------------------------------
BridgeInit ==
    /\ legWorld \in LegWorlds
    /\ ingestedLegs = {}
    /\ verdict = <<>>
    /\ bridgePass = NoPass
    /\ bridgeTime = 0
    /\ bridgeOutcome = "none"
    /\ bridgeFaults = 0

\* Ingest writes the row of a leg that happened; it says nothing of the hop.
LegIngested ==
    /\ \E l \in legWorld.legs :
        /\ l.id \notin ingestedLegs
        /\ ingestedLegs' = ingestedLegs \cup {l.id}
        /\ verdict' = (l.id :> NoVerdict) @@ verdict
    /\ UNCHANGED <<legWorld, bridgePass, bridgeTime, bridgeOutcome, bridgeFaults>>

\* A pass reads the legs of its window.
InWindow(now) ==
    {l \in legWorld.legs : l.id \in ingestedLegs /\ now - Lookback <= l.ts /\ l.ts <= now}

StartBridgePass ==
    /\ bridgePass.at = "idle"
    /\ \E now \in {t \in PassTimes : t > bridgeTime} :
        /\ bridgeTime' = now
        /\ bridgePass' = [at |-> "update", legs |-> InWindow(now), todo |-> Updates(InWindow(now))]
    /\ bridgeOutcome' = "running"
    /\ UNCHANGED <<legWorld, ingestedLegs, verdict, bridgeFaults>>

UpdateLeg ==
    /\ bridgePass.at = "update" /\ bridgePass.todo # <<>>
    /\ LET u == Head(bridgePass.todo) IN verdict' = [verdict EXCEPT ![u.leg] = u.verdict]
    /\ bridgePass' = [bridgePass EXCEPT !.todo = Tail(@)]
    /\ UNCHANGED <<legWorld, ingestedLegs, bridgeTime, bridgeOutcome, bridgeFaults>>

EndBridgePass ==
    /\ bridgePass.at = "update" /\ bridgePass.todo = <<>>
    /\ bridgePass' = [bridgePass EXCEPT !.at = "idle"]
    /\ bridgeOutcome' = "ok"
    /\ UNCHANGED <<legWorld, ingestedLegs, verdict, bridgeTime, bridgeFaults>>

\* An update throws, or the process dies: what is written stays.
BridgePassFails ==
    /\ bridgePass.at = "update" /\ bridgeFaults < MaxBridgeFaults
    /\ bridgePass' = NoPass
    /\ bridgeOutcome' = "failed"
    /\ bridgeFaults' = bridgeFaults + 1
    /\ UNCHANGED <<legWorld, ingestedLegs, verdict, bridgeTime>>

BridgeNext == LegIngested \/ StartBridgePass \/ UpdateLeg \/ EndBridgePass \/ BridgePassFails

-----------------------------------------------------------------------------
Settled(l) == verdict[l.id].confirmed

\* After a pass that ended well every leg it read has its verdict, whatever a
\* pass that failed half-way left: a confirmed leg names a leg that confirms
\* it, no two legs name one, and the pairing is stable: no deposit and
\* withdrawal that could be one hop are closer in amount to each other than
\* each is to what it was given.
PassSettlesWindow ==
    bridgeOutcome = "ok" =>
        \A l \in bridgePass.legs :
            /\ verdict[l.id].confidence \in {CONFIRMED_CONFIDENCE, LOW_CONFIDENCE}
            /\ Settled(l) => \E m \in bridgePass.legs :
                   /\ verdict[l.id].match = m.id /\ verdict[m.id].match = l.id
                   /\ l.kind # m.kind /\ Settled(m)
            /\ l.kind = "bridge_deposit" =>
                   \A w \in Withdrawals(bridgePass.legs) : MayPair(l, w) =>
                       \/ Settled(l) /\ \E m \in bridgePass.legs :
                              m.id = verdict[l.id].match /\ ~Closer(<<l, w>>, <<l, m>>)
                       \/ Settled(w) /\ \E m \in bridgePass.legs :
                              m.id = verdict[w.id].match /\ ~Closer(<<l, w>>, <<m, w>>)
=============================================================================
