SPECIFICATION FairSpec
CONSTANTS
  w1 = w1
  w2 = w2
  Wallets = {w1}
  Providers = {"mock", "helius"}
  PageSize = 1
  MaxPages = 2
  MaxTxs = 3
  MaxTime = 2
  MaxFaults = 1
INVARIANTS CursorCovers OneEdgePerLeg
PROPERTIES EveryTxIsReached
