\* Two scheduled names, two queue names and three enqueues: enough for a job stuck behind
\* another name, a job that arrives while another is handled, and a kick in each state of
\* the drain loop.
SPECIFICATION FairSpec
CONSTANTS
  Names = {walletActivity, alertDispatch}
  QueueNames = {walletImport, walletGraph}
  MaxJobs = 3
  NoItem = NoItem
INVARIANTS OneInvocationPerName StopQuiesces SleepsOnlyOnMissedKick
PROPERTIES ImplementsJobQueue ServedUnlessKickMissed StopReturns
