CONSTANTS
  Byte = {a, b}
  Zero = a
  RING = 4
  MaxRead = 2
  MaxChunk = 3
  CountMod = 3
  MaxSent = 4
  MaxRing = 2
  Hasty = FALSE
SPECIFICATION WebSpec
INVARIANTS RingSound UiSound
PROPERTIES  FullDrains Settles
