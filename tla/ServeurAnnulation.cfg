CONSTANTS
  c1 = c1
  c2 = c2
  c3 = c3
  Clients = {c1, c2, c3}
  NbParties = 2
  NbThreads = 2
  MaxCoups = 1
  MaxDefis = 2
  MaxListes = 0
  MaxDeparts = 2
SPECIFICATION Spec
SYMMETRY Symetrie
PROPERTY AnnulationJuste
CHECK_DEADLOCK FALSE
