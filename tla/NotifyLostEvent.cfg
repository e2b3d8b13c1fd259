SPECIFICATION Spec
CONSTANTS
  Jobs = {j1}
  Writers = {w1, w2}
  Handlers = {h1}
  NoOne = NoOne
  Nobody = Nobody
  ChanCap = 2
  MaxChanges = 2
  MayFail = FALSE
SYMMETRY Symmetry
INVARIANTS
  EveryChangeAccountedFor
