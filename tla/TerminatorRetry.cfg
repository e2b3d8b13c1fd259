SPECIFICATION Spec
CONSTANTS
  Jobs = {j1}
  Instances = {i1, i2}
  Addressed = {i1, i2}
  Nowhere = Nowhere
  MaxAttempts = 2
  MayFail = FALSE
PROPERTIES
  TerminatedWasStuck
