CONSTANTS
  Camp = 3
  Grains = 2
  Seuil = 7
SPECIFICATION Spec
INVARIANTS
  TypeInvariant
  Conservation
  FinJuste
PROPERTIES
  PrisesAdverses
CHECK_DEADLOCK FALSE
