SPECIFICATION Spec
CONSTANTS
  Ads = {a1, a2}
  Content = content
  None = None
  External = TRUE
  Edits = TRUE
  Cases = {"again", "unplayed"}
  Rewind = 1
  StartPos = 3
  FastRate = 2
  MaxAds = 2
  MaxList = 3
  MaxBlocks = 2
SYMMETRY AdSymmetry
INVARIANTS
  TypeOK
  TablesMatch
  StopIsFinal
