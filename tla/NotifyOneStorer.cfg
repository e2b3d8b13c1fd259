SPECIFICATION FairSpec
CONSTANTS
  Jobs = {j1}
  Writers = {w1}
  Handlers = {h1, h2}
  NoOne = NoOne
  Nobody = Nobody
  ChanCap = 20
  MaxChanges = 2
  MayFail = FALSE
INVARIANTS
  EveryChangeAccountedFor
  ChannelInOrder
PROPERTIES
  SubscriberCatchesUp
  ClosedIsReaped
  FlushCompletes
