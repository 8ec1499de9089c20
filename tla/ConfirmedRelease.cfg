SPECIFICATION Spec
CONSTANTS
  SlotCount = 1
  Bindings = {b1, b2}
  NoBinding = NoBinding
  MaxEvents = 5
  Witnesses = {w1}
  Restorable = {}
  NoRecord = NoRecord
  Workers = {p1, p2}
  MaxRestores = 0
  Paths = {f1}
  Foreign = Foreign
  Absent = Absent
  Blocks = {k1}
  NoTx = NoTx
  NoBlock = NoBlock
  MinDepth = 1
  MaxDepth = 2
SYMMETRY Symmetry
INVARIANTS
  TypeOK
  AnswersArePublished
PROPERTIES
  PublishedNeverReplaced
  EndsOnlyWitnessedBurns
  ImplementsOneShotRelease
