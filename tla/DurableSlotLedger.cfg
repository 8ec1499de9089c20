SPECIFICATION Spec
CONSTANTS
  SlotCount = 2
  Bindings = {b1, b2}
  NoBinding = NoBinding
  MaxEvents = 5
  MaxNow = 1
CONSTRAINT ClockBound
INVARIANTS
  TypeOK
  ChainIntact
  OneBurnPerSlot
  LastEventTellsRow
  ConflictPoisons
PROPERTIES
  ConsumedForGood
  ImplementsSlotLedger
