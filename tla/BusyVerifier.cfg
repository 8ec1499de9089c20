SPECIFICATION VerifierSpec
CONSTANTS
  SlotCount = 2
  Bindings = {b1, b2}
  NoBinding = NoBinding
  Nothing = Nothing
  MaxEvents = 4
  MaxNow = 0
CONSTRAINT ClockBound
INVARIANTS
  UntouchedLedgerNeverRejected
