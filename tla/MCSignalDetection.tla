-------------------------- MODULE MCSignalDetection --------------------------
(* One token, one wallet pair that rotates into it, a rule that needs the     *)
(* rotation and one that does not.  Two ticks are one more than the window:   *)
(* a row at its boundary still suppresses, a row beyond it does not.          *)
EXTENDS SignalDetection

CONSTANT t1

MCDestOf == [k \in Keys |-> t1]
=============================================================================
