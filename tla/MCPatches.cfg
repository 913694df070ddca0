SPECIFICATION Spec
CONSTANTS
  ann = ann
  bob = bob
  review = review
  deploy = deploy
  None = None
  Agents = {ann, bob}
  Signatures = {review, deploy}
  Thresholds = {2, 3}
  Transformers <- Proposed
  Inputs <- Payloads2
  MaxPatches = 2
  MaxOutcomes = 3
SYMMETRY Symmetry
INVARIANTS
  ExperimentBoundary
  PromotedOnOwnSuccesses
  NoPoisonedRow
  ExperimentInEffect
PROPERTIES
  RetiredIsFinal
