SPECIFICATION FairSpec
CONSTANTS
  w1 = w1
  w2 = w2
  Wallets = {w1}
  Providers = {"bscscan"}
  PageSize = 1
  MaxPages = 2
  MaxTxs = 2
  MaxTime = 2
  MaxFaults = 0

PROPERTIES EmptyPageMeansDone
