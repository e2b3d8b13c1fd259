SPECIFICATION FairSpec
CONSTANTS
  Jobs = {j1}
  Writers = {w1}
  Handlers = {h1}
  NoOne = NoOne
  Nobody = Nobody
  ChanCap = 20
  MaxChanges = 22
  MayFail = FALSE
PROPERTIES
  FlushCompletes
