SPECIFICATION Spec
CONSTANTS
  Ads = {a1, a2, a3}
  c1 = c1
  c2 = c2
  Playlist <- OneContent
  None = None
  External = FALSE
  Cases = {"edit", "pause"}
  Rewind = 1
  StartPos = 3
  FastRate = 2
  MaxAds = 3
  MaxList = 2
  MaxBlocks = 2
SYMMETRY AdSymmetry
INVARIANTS
  ProgressInRange
  ReportedInTurn
