SPECIFICATION BoardSpec
CONSTANTS
  ann = ann
  bob = bob
  w1 = w1
  op1 = op1
  c1 = c1
  c2 = c2
  open = open
  t1 = t1
  t2 = t2
  t3 = t3
  None = None
  Tasks = {t1}
  Agents = {ann}
  Workers = {w1}
  AgentOf <- OneWorker
  Signatures = {open}
  Open = open
  TaskTypes = {open}
  Priorities = {0}
  AttemptLimits = {1}
  StaleOpen = 0
  MaxTime = 1
  MaxEvents = 4
  Operators = {}
  Clerks = {c1, c2}
  MaxNotes = 1
SYMMETRY Symmetry
INVARIANTS
  HonoredOnce
