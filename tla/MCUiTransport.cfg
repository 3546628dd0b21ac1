CONSTANTS
  MaxSent = 4
  MaxRing = 2
  Hasty = TRUE
SPECIFICATION UiSpec
INVARIANT TransportAgrees
