CONSTANTS
  alice = alice
  bob = bob
  carole = carole
  NbProgrammes = 3
  Choix <- TroisProgrammes
  NbThreads = 2
  Demandeurs = {2}
  Partants = {1}
  MaxJoints = 2
  MaxJonctions = 0
  MaxDemandes = 2
  MaxDeparts = 1
SPECIFICATION Spec
INVARIANTS
  TypeInvariant
  VueMembres
  VueEtats
  MortApresDepart
PROPERTY ConnexionAboutit
CONSTRAINT Charge
CHECK_DEADLOCK FALSE
