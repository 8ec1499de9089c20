SPECIFICATION LineageSpec
CONSTANTS
  SlotCount = 1
  Bindings = {b1, b2}
  NoBinding = NoBinding
  MaxEvents = 5
  Witnesses = {w1, w2}
  Restorable = {w2}
  NoRecord = NoRecord
  Workers = {p1}
  MaxRestores = 2
  Blocks = {k1}
  NoTx = NoTx
  NoBlock = NoBlock
SYMMETRY Symmetry
INVARIANTS
  TypeOK
  OneBindingReleased
  ReleasedIsWitnessed
PROPERTIES
  ImplementsOneShotRelease
  AcceptsOnlyExtensions
