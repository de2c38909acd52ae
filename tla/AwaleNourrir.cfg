CONSTANTS
  Camp = 3
  Grains = 2
  Seuil = 7
SPECIFICATION Spec
PROPERTY NourrirObligatoire
CHECK_DEADLOCK FALSE
