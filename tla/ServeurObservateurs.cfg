CONSTANTS
  c1 = c1
  c2 = c2
  c3 = c3
  Clients = {c1, c2, c3}
  NbParties = 2
  NbThreads = 2
  MaxCoups = 3
  MaxDefis = 1
  MaxListes = 1
  MaxDeparts = 1
SPECIFICATION Spec
CONSTRAINT ArriveesOrdonnees
INVARIANTS
  PlacesLibresVierges
  DialogueIntact
PROPERTIES
  JoinTermine
CHECK_DEADLOCK FALSE
