SPECIFICATION FairSpec
CONSTANTS
  Connection = {c1, c2}
  MaxStream = 2
  None = none
  MayStop = TRUE
INVARIANTS StreamsAreSound DevicesFollowStreams SnapshotsAreCurrent
PROPERTIES OnlyOwnerChangesStream DisconnectClosesStreams
