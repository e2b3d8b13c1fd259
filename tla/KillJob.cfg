SPECIFICATION FairSystem
CONSTANTS
  NULL = NULL
  NoRow = NoRow
  Sizes = {0, 4}
  MaxAttempts = 2
  WebhookOn = TRUE
  MayFail = TRUE
  MaxFaults = 2
INVARIANTS
  SystemTypeOK
  PollMirrors
  EndIsMirrored
  RepeatedPollIsIdle
  RequestedWasTold
  ToldAgainOnlyAfterLoss
PROPERTIES
  TimedOutIsTold
