SPECIFICATION FairSpec
CONSTANTS
  Jobs = {j1}
  Instances = {i1, i2}
  Addressed = {i1}
  Nowhere = Nowhere
  MaxAttempts = 1
  MayFail = TRUE
INVARIANTS
  TypeOK
PROPERTIES
  TerminatedWasStuck
  StuckIsTerminated
