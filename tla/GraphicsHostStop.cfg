SPECIFICATION FairSpec
CONSTANTS
  Host = {h1, h2}
  Launcher = {l1, l2}
  None = none
PROPERTIES LaunchSeesTruthAfterStop
