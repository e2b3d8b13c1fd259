SPECIFICATION FairSpec
CONSTANTS
  q1 = q1
  q2 = q2
  NoQueue = NoQueue
  Jobs = {j1}
  Queues = {q1}
  QueueOf <- OneQueue
  PageSize = 2
  MaxMoves = 3
  Observed = {"SUBMITTED", "PENDING", "RUNNABLE", "STARTING", "RUNNING", "SUCCEEDED", "FAILED"}
  WebhookOn = FALSE
  MayFail = FALSE
PROPERTIES
  MirrorCatchesUp
  ForgottenIsMarked
