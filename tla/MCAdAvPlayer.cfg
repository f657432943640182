SPECIFICATION FairSpec
CONSTANTS
  Ads = {a1, a2}
  Content = content
  None = None
  External = TRUE
  Edits = FALSE
  Cases = {}
  Rewind = 1
  StartPos = 3
  FastRate = 2
  MaxAds = 2
  MaxList = 3
  MaxBlocks = 2
INVARIANTS
  AdsAtNormalSpeed
  LaterFailureReported
PROPERTIES
  ImplementsAdBreak
  BreakPlaysOut
