SPECIFICATION MCSpec
CONSTANTS
  c1 = c1
  c2 = c2
  w1 = w1
  w2 = w2
  Candidates = {c1, c2}
  Wallets = {w1}
  WalletOf <- SameAddress
  Passes = {"worker", "seed"}
  BatchSize = 1
  MaxTime = 1
  MaxFaults = 1
INVARIANTS PromotedIsTracked StrandedOnlyByFault
PROPERTIES VerdictIsFinal CsvOverruledOnlyByRace HeadIsExamined
