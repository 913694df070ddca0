SPECIFICATION CliSpec
CONSTANTS
  ann = ann
  bob = bob
  w1 = w1
  w2 = w2
  w3 = w3
  t1 = t1
  t2 = t2
  open = open
  review = review
  None = None
  op1 = op1
  Tasks = {t1}
  Agents = {ann, bob}
  Workers = {w1, w2}
  AgentOf <- TwoAgents
  Signatures = {open}
  Open = open
  TaskTypes = {open}
  Priorities = {0}
  AttemptLimits = {2}
  StaleOpen = 0
  MaxTime = 0
  MaxEvents = 4
  Operators = {op1}
SYMMETRY Symmetry
PROPERTIES
  FailFollowsAttempts
