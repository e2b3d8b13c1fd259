SPECIFICATION Spec
CONSTANTS
  Jobs = {j1, j2}
  Writers = {w1, w2}
  Handlers = {h1}
  NoOne = NoOne
  Nobody = Nobody
  ChanCap = 1
  MaxChanges = 2
  MayFail = TRUE
SYMMETRY Symmetry
INVARIANTS
  TypeOK
  SubscriptionsMatchHandlers
  SendsOnlyToRegistered
PROPERTIES
  FeedSpec
