SPECIFICATION AsyncSpec
CONSTANTS
  ann = ann
  bob = bob
  c1 = c1
  c2 = c2
  t1 = t1
  t2 = t2
  open = open
  review = review
  op1 = op1
  None = None
  Tasks = {t1}
  Agents = {ann, bob}
  Workers = {c1, c2}
  AgentOf <- TwoAgents
  Signatures = {open}
  Open = open
  TaskTypes = {open}
  Priorities = {0}
  AttemptLimits = {2}
  StaleOpen = 0
  MaxTime = 0
  MaxEvents = 2
  Operators = {}
PROPERTIES
  TerminalIsFinal
