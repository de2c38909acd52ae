CONSTANTS
  MaxEpisodes = 2
  MaxMessages = 2
SPECIFICATION Spec
INVARIANTS
  TypeInvariant
  JetonPartie
  UnSeulMaitre
  UnDefi
  DepotAttendu
PROPERTIES
  CanalRespecte
  EcouteAvance
  QuitterTermine
  ObservationTermine
CHECK_DEADLOCK FALSE
