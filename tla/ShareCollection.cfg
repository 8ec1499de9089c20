SPECIFICATION Spec
CONSTANTS
  ParticipantCount = 3
  Threshold = 2
  MaxCorrupt = 1
  Items = {i1, i2}
  None = None
  Coordinators = {c1, c2}
  MaxCrashes = 1
CHECK_DEADLOCK FALSE
INVARIANTS
  OneExecutionPerSlot
  ResultsFollowHonest
  OneCapsulePerAlternative
PROPERTIES
  ProvenIsPublished
