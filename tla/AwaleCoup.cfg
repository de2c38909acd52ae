CONSTANTS
  Camp = 2
  Grains = 4
  Seuil = 9
SPECIFICATION Spec
INVARIANTS
  TypeInvariant
  Conservation
  BornePrises
  CampIntact
PROPERTIES
  Raffinement
  CoupTermine
CHECK_DEADLOCK FALSE
