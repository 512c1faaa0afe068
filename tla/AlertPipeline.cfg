SPECIFICATION MCSpec
CONSTANTS
  t1 = t1
  Tokens = {t1}
  Keys = {k1}
  DestOf <- MCDestOf
  Rules = {"F"}
  DedupeWindow = 0
  Cooldown = 1
  MaxCandidates = 1
  MaxTime = 1
  MaxFaults = 1
INVARIANTS CooldownSpacing
PROPERTIES RefinesDispatch
