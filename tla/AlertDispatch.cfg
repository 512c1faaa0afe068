SPECIFICATION MCSpec
CONSTANTS
  t1 = t1
  SignalRows <- MCSignalRows
  RotationRows <- MCRotationRows
  Cooldown = 2
  MaxTime = 2
  MaxFaults = 1
  MaxSignals = 2
  MaxRotations = 1
INVARIANTS OneAlertPerRow RedeliveredOnlyUnrecorded
PROPERTIES EveryRowIsAlerted
