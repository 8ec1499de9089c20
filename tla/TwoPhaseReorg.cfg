SPECIFICATION Spec
CONSTANTS
  SlotCount = 1
  Bindings = {b1}
  NoBinding = NoBinding
  MaxEvents = 6
  Witnesses = {w1}
  Restorable = {}
  NoRecord = NoRecord
  Workers = {p1}
  MaxRestores = 0
  Blocks = {k1}
  NoTx = NoTx
  NoBlock = NoBlock
PROPERTIES
  SeedNeedsConfirmation
