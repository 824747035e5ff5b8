SPECIFICATION FairSpec
CONSTANTS
  Desktop = TRUE
  Worker = {w1, w2}
  MaxWinebootAttempts = 2
  MaxExplorerAttempts = 3
INVARIANTS ReadyHasPrefix InterruptedIsRepeated ExplorerFollowsWineboot
PROPERTIES ImplementsContract
