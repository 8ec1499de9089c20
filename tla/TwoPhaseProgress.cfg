SPECIFICATION ProgressSpec
CONSTANTS
  SlotCount = 2
  Bindings = {b1}
  NoBinding = NoBinding
  MaxEvents = 14
  Witnesses = {w1}
  Restorable = {}
  NoRecord = NoRecord
  Workers = {p1}
  MaxRestores = 0
  Blocks = {k1}
  NoTx = NoTx
  NoBlock = NoBlock
  MaxFaults = 2
CHECK_DEADLOCK FALSE
PROPERTIES
  LabelsServed
  SeedServedOrAborted
