SPECIFICATION FairSpec
CONSTANTS
  p1 = p1
  p2 = p2
  p3 = p3
  Openers = {p1, p2, p3}
  Script <- Tables
  Expected = 1
  Newer = 2
INVARIANTS
  OpenSeesWholeSchema
  OneMigrator
PROPERTIES
  AllOpenInTheEnd
