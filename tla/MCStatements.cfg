SPECIFICATION FairStmtSpec
CONSTANTS
  ann = ann
  bob = bob
  w1 = w1
  w2 = w2
  w3 = w3
  t1 = t1
  t2 = t2
  open = open
  review = review
  None = None
  Tasks = {t1, t2}
  Agents = {ann, bob}
  Workers = {w1, w2}
  AgentOf <- TwoAgents
  Signatures = {open, review}
  Open = open
  TaskTypes = {review}
  Priorities = {0}
  AttemptLimits = {1}
  StaleOpen = 0
  MaxTime = 1
  MaxEvents = 3
PROPERTIES
  AtomicQueue
  LockReleased
  CallsReturn
  ForemostIsClaimed
