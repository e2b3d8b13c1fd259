SPECIFICATION Spec
CONSTANTS
  NULL = NULL
  NoRow = NoRow
  Sizes = {2}
  MaxAttempts = 1
  WebhookOn = TRUE
  MayFail = TRUE
INVARIANTS
  CountsMirrored
