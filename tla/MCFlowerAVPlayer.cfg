SPECIFICATION FairSpec
CONSTANTS
  MaxRequests = 3
  MaxBreaks = 1
  Kinds = {"preroll", "linear", "fallback", "vod", "plain"}
  Cases = {"clear", "recovery", "unset"}
INVARIANTS
  TypeOK
  LastRequestWins
  PrerollOnItsWay
PROPERTIES
  HandedOverInOrder
  EarlyPlayIsAnswered
