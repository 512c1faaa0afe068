SPECIFICATION FairSpec
CONSTANTS
  c1 = c1
  c2 = c2
  w1 = w1
  w2 = w2
  Candidates = {c1, c2}
  Wallets = {w1, w2}
  WalletOf <- OwnAddress
  Passes = {"worker"}
  BatchSize = 1
  MaxTime = 1
  MaxFaults = 0
PROPERTIES PendingIsExamined
