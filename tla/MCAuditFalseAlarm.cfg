CONSTANTS
  LastUser = 2
  Stranger = Stranger
  MaxAmount = 1
  HashZero = HashZero
  Junk = Junk
  MaxEvents = 3
SPECIFICATION AuditSpec
INVARIANT OnlyIrregularReported
