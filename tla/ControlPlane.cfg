SPECIFICATION Spec
CONSTANTS
  Requests = {r1, r2, r3}
  Updates <- MCUpdates
  StartParams <- MCStartParams
INVARIANTS
  TypeOK
  AuditBalance
  LiveNeedsMarker
PROPERTIES
  BandClosedByEntryOnly
SYMMETRY Symmetry
