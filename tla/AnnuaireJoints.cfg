CONSTANTS
  alice = alice
  bob = bob
  carole = carole
  NbProgrammes = 3
  Choix <- TroisProgrammes
  NbThreads = 1
  Demandeurs = {2}
  Partants = {1}
  MaxJoints = 2
  MaxJonctions = 1
  MaxDemandes = 1
  MaxDeparts = 0
SPECIFICATION Spec
INVARIANT RattrapeSonRetard
CHECK_DEADLOCK FALSE
