SPECIFICATION UndisturbedSpec
CONSTANTS
  SlotCount = 1
  Bindings = {b1, b2}
  NoBinding = NoBinding
  MaxEvents = 6
  Witnesses = {w1}
  Restorable = {}
  NoRecord = NoRecord
  Workers = {p1, p2}
  MaxRestores = 0
  Blocks = {k1}
  NoTx = NoTx
  NoBlock = NoBlock
SYMMETRY Symmetry
INVARIANTS
  OneBindingReleased
  ReleasedIsWitnessed
  OnlySkippedBurnsAreRefused
PROPERTIES
  SeedOnlyAfterSuccess
