SPECIFICATION FairSpec
CONSTANTS
  Names = {alertDispatch}
  QueueNames = {walletImport}
  MaxJobs = 1
  NoItem = NoItem
PROPERTIES NoJobIsStranded
