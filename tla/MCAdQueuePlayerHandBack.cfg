SPECIFICATION Spec
CONSTANTS
  Ads = {a1, a2, a3}
  c1 = c1
  c2 = c2
  Playlist <- OneContent
  None = None
  External = TRUE
  Cases = {"swap", "unplayed", "again", "late"}
  Rewind = 1
  StartPos = 1
  FastRate = 2
  MaxAds = 3
  MaxList = 4
  MaxBlocks = 2
SYMMETRY AdSymmetry
INVARIANTS
  FailureReportedInTurn
  StopIsFinal
  AdsAtNormalSpeed
