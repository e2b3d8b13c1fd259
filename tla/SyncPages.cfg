SPECIFICATION Spec
CONSTANTS
  q1 = q1
  q2 = q2
  NoQueue = NoQueue
  Jobs = {j1, j2}
  Queues = {q1}
  QueueOf <- OneQueue
  PageSize = 1
  MaxMoves = 1
  Observed = {"RUNNING"}
  WebhookOn = FALSE
  MayFail = FALSE
SYMMETRY Symmetry
PROPERTIES
  PresentIsNotGone
