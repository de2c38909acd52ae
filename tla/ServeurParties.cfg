CONSTANTS
  c1 = c1
  c2 = c2
  c3 = c3
  Clients = {c1, c2, c3}
  NbParties = 2
  NbThreads = 2
  MaxCoups = 1
  MaxDefis = 2
  MaxListes = 0
  MaxDeparts = 2
SPECIFICATION Spec
SYMMETRY Symetrie
CONSTRAINTS
  SansRetour
  DefisOuDeparts
INVARIANTS
  TypeInvariant
  UnePartieParSlot
  PlacesLibresVierges
  JoinReveille
CHECK_DEADLOCK FALSE
