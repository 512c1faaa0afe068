SPECIFICATION Spec
CONSTANTS
  t1 = t1
  Tokens = {t1}
  Keys = {k1}
  DestOf <- MCDestOf
  Rules = {"F", "G"}
  DedupeWindow = 1
  MaxCandidates = 2
  MaxTime = 2
  MaxFaults = 1
INVARIANTS NoDuplicateSignal OneRotationPerJob RuleFBackedByRotation
  StatusBackedBySignal
