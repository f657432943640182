SPECIFICATION FairSpec
CONSTANTS
  Items = {i1, i2, i3, i4}
  WithUrl = {i1, i2, i3}
  NoItem = NoItem
  MaxRecoveryAttempts = 3
  ResetInterval = 1
  StallThreshold = 1
INVARIANTS
  TypeOK
  DeathReportedOnce
  RecoveryIsLive
  SoughtIsRecovering
PROPERTIES
  RecoveryEnds
  StallIsHandled
