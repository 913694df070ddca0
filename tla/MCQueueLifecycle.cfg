SPECIFICATION Spec
CONSTANTS
  ann = ann
  bob = bob
  w1 = w1
  w2 = w2
  w3 = w3
  t1 = t1
  t2 = t2
  open = open
  review = review
  None = None
  Tasks = {t1, t2}
  Agents = {ann, bob}
  Workers = {w1, w2, w3}
  AgentOf <- ThreeWorkers
  Signatures = {open}
  Open = open
  TaskTypes = {open}
  Priorities = {0}
  AttemptLimits = {0, 1, 2}
  StaleOpen = 1
  MaxTime = 1
  MaxEvents = 3
SYMMETRY Symmetry
INVARIANTS
  TypeOK
  ExclusiveClaims
  FailDecisionFresh
  LedgerAlternates
  RetriesWithinLimit
PROPERTIES
  TerminalIsFinal
  OwnershipKept
