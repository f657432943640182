SPECIFICATION Spec
CONSTANTS
  Ads = {a1, a2}
  c1 = c1
  c2 = c2
  Playlist <- TwoContents
  None = None
  External = TRUE
  Cases = {"swap"}
  Rewind = 1
  StartPos = 2
  FastRate = 2
  MaxAds = 2
  MaxList = 4
  MaxBlocks = 2
SYMMETRY AdSymmetry
INVARIANTS
  TypeOK
  ContentBehindAds
PROPERTY
  ImplementsAdBreak
