--------------------------- MODULE MCAlertDispatch ---------------------------
(* One token, a rule that is never CRITICAL and one that always is, as the   *)
(* rules of packages/core have it.  Time passes tick by tick, and a row is   *)
(* created in the tick it is dated.                                          *)
EXTENDS AlertDispatch

CONSTANTS t1, MaxSignals, MaxRotations

MCSignalRows == [token : {t1}, rule : {"D"}, severity : {"HIGH"}, at : 0..MaxTime]
                \union [token : {t1}, rule : {"G"}, severity : {"CRITICAL"}, at : 0..MaxTime]

MCRotationRows == [at : 0..MaxTime]

Dated(rows, max) == rows # <<>> /\ rows[Len(rows)].at = now /\ Len(rows) <= max

Meanwhile ==
  /\ Outside
  /\ UNCHANGED faults
  /\ \/ now' = now + 1 /\ UNCHANGED <<signals, rotations>>
     \/ UNCHANGED <<now, rotations>> /\ signals' # signals /\ Dated(signals', MaxSignals)
     \/ UNCHANGED <<now, signals>> /\ rotations' # rotations /\ Dated(rotations', MaxRotations)

MCSpec == Init /\ [][DispatchStep \/ Crash \/ Meanwhile]_vars /\ WF_vars(Progress)
=============================================================================
