SPECIFICATION Spec
CONSTANTS
  q1 = q1
  q2 = q2
  NoQueue = NoQueue
  Jobs = {j1, j2}
  Queues = {q1, q2}
  QueueOf <- TwoQueues
  PageSize = 2
  MaxMoves = 2
  Observed = {"RUNNING", "FAILED"}
  WebhookOn = TRUE
  MayFail = TRUE
SYMMETRY Symmetry
INVARIANTS
  TypeOK
  QuietRoundMirrors
PROPERTIES
  PresentIsNotGone
  FinishedStays
