SPECIFICATION FairSpec
CONSTANTS
  q1 = q1
  q2 = q2
  q3 = q3
  q4 = q4
  q5 = q5
  c1 = c1
  c2 = c2
  c3 = c3
  i1 = i1
  i2 = i2
  NoEntry = NoEntry
  Managed = {c1, c2}
  WithRole = {c1}
  Queues = {q1, q2, q3, q4, q5}
  Environments = {c1, c2, c3}
  Instances = {i1, i2}
  Order <- TwoShareOne
  Home <- Homes
  MaxvCpus <- Maxima
  Loads = {0, 2}
  MaxChanges = 3
INVARIANTS
  TypeOK
  QuietRoundSettles
PROPERTIES
  DisappearedHasGone
  MinimumFollowsLoad
  LogCatchesUp
