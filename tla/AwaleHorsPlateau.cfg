CONSTANTS
  Camp = 3
  Grains = 2
  Seuil = 7
SPECIFICATION Spec
INVARIANT PrisesSurLePlateau
CHECK_DEADLOCK FALSE
