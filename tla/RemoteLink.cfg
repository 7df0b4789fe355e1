SPECIFICATION FairSpec
CONSTANTS
  Total = 1
  StartTypes = {"Card", "Remote"}
  LoginLost = 2
  StopLost = 3
INVARIANT TypeOK
INVARIANT OnlineIsTcp
PROPERTY Reconnects
PROPERTY GhostLoginEnds
PROPERTY LoginedEnds
