SPECIFICATION Spec
CONSTANTS
  p1 = p1
  p2 = p2
  v1 = v1
  v2 = v2
  Participants = {p1, p2}
  CommitmentSets <- Sets
  NoRow = NoRow
  NoSet = NoSet
  Nonces = {n1, n2}
  Approved = {k1, p1}
  ApprovedMpc = {s1, p2}
  Signers = {s1}
  Cutoff = 1
  MinDepth = 1
  Ttl = 1
  QualifiedUntil = 2
  MinSignatures = 1
  MaxHeight = 3
  MaxBlocks = 6
  MaxTime = 1
  MaxAttestations = 2
SYMMETRY Symmetry
CHECK_DEADLOCK FALSE
INVARIANTS
  BoundBeforeBeacon
  AcceptedIsFresh
PROPERTIES
  ImplementsAtomicObservation
