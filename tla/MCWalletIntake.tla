--------------------------- MODULE MCWalletIntake ---------------------------
(* Two sources offer the same address, which has or gets trades and CSV rows; *)
(* or, for the order of validation, each candidate has an address of its own. *)
EXTENDS WalletIntake

CONSTANTS c1, c2, w1, w2

SameAddress == [c \in Candidates |-> w1]

OwnAddress == [c \in Candidates |-> IF c = c1 THEN w1 ELSE w2]

\* To keep the instance small, the seed validates before anything is imported, and no
\* refresh runs meanwhile: only the worker's pass races with those two.
SeedFirst == "seed" \in Passes /\ val["seed"].pc # "idle" =>
               /\ ref.pc = "idle" /\ imp.pc = "idle"
               /\ \A w \in Wallets : "csv" \notin latest[w].sources

MCSpec == Init /\ [][Next /\ SeedFirst']_vars /\ Fairness
=============================================================================
